SPECIFICATION ReadDownSpec
CONSTANTS
    Null = Null
    Shelf = {1, 2, 3}
    BaseRows <- Rows
    OverrideRows <- Overrides
    Representable = {1, 2}
    Writers = {w1, w2}
    Limit = 1
    MaxEdits = 3
INVARIANTS
    NothingMissed
