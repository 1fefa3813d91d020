SPECIFICATION SeriesSpec
CONSTANTS
    slo = slo
    Rows <- MCRows
    NULL = NULL
    Outcomes = {"pass", "fail"}
    Txns = {1, 2}
    Ops = {"pin"}
    MaxCommands = 3
INVARIANT OneActivePin
CHECK_DEADLOCK FALSE
