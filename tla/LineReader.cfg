SPECIFICATION FairSpec
CONSTANTS
    NumFields = 2
    MaxField = 1
    MaxLines = 3
    Ahead = 2
    MaxChunk = 4
INVARIANTS
    BytesConserved
    FieldsAgree
PROPERTIES
    QueueOfLines
    EverythingReadThenLost
