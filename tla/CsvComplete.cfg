SPECIFICATION FairSpec
CONSTANTS
    Duration = 3
    Faults = {"idle"}
INVARIANT CsvComplete
