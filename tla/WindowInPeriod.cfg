SPECIFICATION Spec
CONSTANTS
    NumRobots = 2
    MsgPeriods = {2, 20}
    ReservationPeriods = {0, 20}
    Numerologies = {0, 1}
    T1s = {2, 19}
    T2s = {2, 33}
    Pdbs = {0}
    SelectionWindow = 5
    Activations = {100, 2000}
    SimTimes = {5000}
    Jitters = {0, 100}
    PktRows = 1
    CacheSize = 1
    SensingRows = 1
INVARIANT WindowInPeriod
