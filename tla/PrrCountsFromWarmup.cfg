SPECIFICATION FairSpec
CONSTANTS
    N = 2
    TxEnable = 2
    Retention = 1
    NsPerUs = 1
    PeerRobots = {1, 2}
    MaxTime = 8
    Step = 2
    Duration = 8
    Warmup = 3
    MaxPose = 3
INVARIANT PrrCountsFromWarmup
