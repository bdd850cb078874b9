CONSTANTS
    e1 = e1
    e2 = e2
    d1 = d1
    d2 = d2
    NoRecord = NoRecord
    Engine = {e1, e2}
    Database = {d1, d2}
    DatabaseOf <- OwnDatabase
    Author = {e1}
    Update = {u1, u2}
    Call = {c1}
    MaxWrites = 1
    MaxFaults = 1
    MaxRestores = 0
SPECIFICATION FairSyncSpec
INVARIANTS BacklogIsVisible
PROPERTIES EventuallyConverged ImplementsOutbox
CHECK_DEADLOCK FALSE
