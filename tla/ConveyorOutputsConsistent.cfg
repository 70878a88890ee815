SPECIFICATION OutSpec
CONSTANTS
    ConfirmCount <- One
    ClearCount   <- One
    StreakMod    <- Two
INVARIANT EventConsistent
