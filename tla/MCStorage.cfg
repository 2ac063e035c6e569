SPECIFICATION Spec
CONSTANTS
    Pids = {1, 2}
    Inputs <- MCInputs
    Values = {"x", "y"}
    MaxRows = 4
    NoTable = NoTable
    MaxStarts = 2
    MaxCases = 2
INVARIANTS
    NoFalseAlarm
    DamageIsFound
CHECK_DEADLOCK FALSE
