SPECIFICATION SelectionSpec
CONSTANTS
    Window = 4
    Subchannels = {a, b}
    Den = 5
    MaxTxs = {0, 1, 3}
    Percent = 20
    Initial = 7
    MaxRaises = 2
    Garbage = {0, 40}
INVARIANTS
    KeepsPrefix
    NoLaterThanAsked
    RowsAreTrue
PROPERTY StockSpec
