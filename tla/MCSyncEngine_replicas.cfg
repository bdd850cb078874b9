CONSTANTS
    e1 = e1
    e2 = e2
    d1 = d1
    d2 = d2
    NoRecord = NoRecord
    Engine = {e1, e2}
    Database = {d1, d2}
    DatabaseOf <- OwnDatabase
    Author = {e1, e2}
    Update = {u1, u2}
    Call = {c1}
    MaxWrites = 1
    MaxFaults = 1
    MaxRestores = 1
SPECIFICATION SyncSpec
SYMMETRY BlobSymmetry
INVARIANTS CursorNeverSkips
CHECK_DEADLOCK FALSE
