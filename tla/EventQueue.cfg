SPECIFICATION FairSpec
CONSTANTS
    w1 = w1
    w2 = w2
    r1 = r1
    r2 = r2
    Size      = 3
    Writers   <- TwoWriters
    Readers   <- TwoReaders
    Modes     <- AllModes
    MaxPushed = 5
INVARIANT TypeOK
INVARIANT NoLostWakeup
INVARIANT KeepsNewest
PROPERTY FifoSpec
PROPERTY EveryEventLeaves
