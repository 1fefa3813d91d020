SPECIFICATION Spec
CONSTANTS
    NULL = NULL
    pass = pass
    fail = fail
    mine = mine
    theirs = theirs
    Rows <- MCRows
    Windows <- MCWindows
    Sessions <- MCSessions
    Outcomes = {pass, fail}
    Txns = {mine, theirs}
    Ops = {"invalidate", "overrideOne", "pinOne"}
    MaxCommands = 2
INVARIANT EngineResultKept
INVARIANT FormKeepsItsColumn
INVARIANT SuccessMeansCommitted
INVARIANT SelectionFitsColumn
SYMMETRY Symmetry
CHECK_DEADLOCK FALSE
