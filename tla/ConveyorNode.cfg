SPECIFICATION FairSpec
CONSTANTS
    ConfirmCount <- Two
    ClearCount   <- One
    StreakMod    <- Three
INVARIANT TypeOK
INVARIANT SettledStateIsFused
INVARIANT SettledTiltIsPin
PROPERTY StateRepaired
PROPERTY TiltFollowsPin
