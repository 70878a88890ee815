SPECIFICATION FairSpec
CONSTANTS
    Base = 2
    MaxSent = 3
    MaxFaults = 2
    MaxJunk = 4
    BodyLength <- Lengths
INVARIANT TypeOK
INVARIANT InStep
INVARIANT OnlyNewer
INVARIANT LeavesOnlyBroken
PROPERTY Resubscribes
