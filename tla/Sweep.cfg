SPECIFICATION SweepSpec
CONSTANTS
    NumRobots = 3
    MsgPeriods = {20, 100}
    ReservationPeriods = {0, 20}
    Numerologies = {0, 1}
    T1s = {2, 19}
    T2s = {12, 33}
    Pdbs = {0, 3, 10}
    SelectionWindow = 5
    Activations = {100, 2000}
    SimTimes = {5000}
    Jitters = {0, 100}
    PktRows = 3
    CacheSize = 1
    SensingRows = 2
    MaxSweeps = 3
    MaxKills = 2
INVARIANTS
    WindowInPeriod
    EveryClientFinishes
    DoneIsComplete
    AggregatedIsComplete
    SkippedIsComplete
PROPERTIES
    CompleteIsFinal
    StartedGetsDone
