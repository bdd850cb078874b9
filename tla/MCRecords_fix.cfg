SPECIFICATION RecordsSpec
CONSTANTS
    Device = {1}
    Goal = {1, 2}
    Baseline = {1, 2}
    Score <- MCScore
    ProbeTotal = 5
    MinPoints = 1
    None = None
    Form <- MCForm
    Misspelt = {"#1"}
    Percent = {"20"}
    Bound <- FixBound
PROPERTY ScoreGoesToItsSheet
CHECK_DEADLOCK FALSE
