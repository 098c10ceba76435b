SPECIFICATION FairSpec
CONSTANTS
    N = 2
    TxEnable = 1
    Retention = 1
    NsPerUs = 2
    Poses = {p}
    PeerRobots = {1, 2, 3}
    MaxTime = 4
INVARIANTS
    TypeOK
    ExactlyOnce
    Accurate
    RememberedForASecond
    NothingLingers
PROPERTY Answered
