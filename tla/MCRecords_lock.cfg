SPECIFICATION RecordsSpec
CONSTANTS
    Device = {1, 2}
    Goal = {1}
    Baseline = {1, 2}
    Score <- MCScore
    ProbeTotal = 5
    MinPoints = 1
    None = None
    Form <- MCForm
    Misspelt = {"#1"}
    Percent = {"20"}
    Bound <- LockBound
PROPERTY LockedOnce
CHECK_DEADLOCK FALSE
