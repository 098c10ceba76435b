SPECIFICATION FairSpec
CONSTANTS
    Duration = 3
    Faults = {"bind", "slow", "setup", "turn", "idle"}
INVARIANTS
    TypeOK
    CsvSurvives
    NothingLeftBehind
    SomeoneMoves
PROPERTIES
    InterruptEnds
    ConnectedRunEnds
