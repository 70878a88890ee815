SPECIFICATION SenseFairSpec
CONSTANTS
    MaxDist    = 5
    Tolerance  = 1
    Measurable <- FewDistances
    Levels     <- FewLevels
    Scale        = 2
    Threshold    = 2
    BlockedBelow = TRUE
    ConfirmCount = 2
    ClearCount   = 1
    StreakMod    = 3
INVARIANT SenseTypeOK
INVARIANT NoPingDuringEcho
INVARIANT StuckOnlyByLostEcho
INVARIANT AverageWithinLevels
PROPERTY StuckStopsBeingStable
PROPERTY BlockageFollows
