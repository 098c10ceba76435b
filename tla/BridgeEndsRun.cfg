SPECIFICATION FairSpec
CONSTANTS
    Duration = 3
    Faults = {"setup"}
PROPERTY BridgeEndsRun
