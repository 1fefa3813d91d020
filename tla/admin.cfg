SPECIFICATION Spec
CONSTANTS
    NULL = NULL
    Types = {"vm", "db", "os"}
    Assets = {"x1", "x2"}
    Evaluated = {"x1"}
    Groups = {"a", "b", "c"}
    Rank <- MCRank
    MaxRequests = 2
    Scenes <- MCScenes
INVARIANT DefaultExplained
INVARIANT CyclesExplained
INVARIANT LoadedFieldsOwn
CHECK_DEADLOCK FALSE
