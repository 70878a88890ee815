SPECIFICATION FairSpec
CONSTANTS
    Package <- MCPackage
    BasePkgs <- MCBase
    Roots <- MCRoots
    Indexes <- MCIndexes
    MaxRuns = 3
INVARIANT TypeOK
INVARIANT ResolvesNeeded
INVARIANT DamageOnlyByFailedRuns
PROPERTY ResolveEnds
CHECK_DEADLOCK FALSE
