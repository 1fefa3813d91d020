SPECIFICATION Spec
CONSTANTS
    NULL = NULL
    INFO = "info"
    REEVAL = "re-evaluation"
    Names = {"info", "deploy", "re-evaluation"}
    CatIds = {1, 2, 3, 4}
    PowersOfTen = {10, 100, 1000, 10000, 100000, 1000000, 10000000, 100000000}
    Kept = 1000
    Maps = {"m1", "m2", "m3"}
    Scenes <- MCScenes
INVARIANT ChartShowsLastChoice
INVARIANT AxisFramesData
INVARIANT LabelsLegible
INVARIANT CellsWorst
INVARIANT HoverFollowsPointer
INVARIANT NotesCategorised
INVARIANT NotesListedOnce
CHECK_DEADLOCK FALSE
