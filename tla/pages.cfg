SPECIFICATION Spec
CONSTANTS
    NULL = NULL
    tab1 = tab1
    tab2 = tab2
    Tabs = {tab1, tab2}
    PresetDays = {1, 2}
    DefaultDays = 1
    Dates = {1, 3}
    Zone = 1
    MaxToday = 4
    Evals <- MCEvals
    Members <- MCMembers
    Label <- MCLabel
    RequiredCols = {"asset"}
    Metrics <- MCMetrics
    Points = {1, 2, 3}
    PageSize = 2
    Scenes <- MCScenes
INVARIANT RangeIsChosen
INVARIANT AskedOfAsset
INVARIANT OnlyTickedTriaged
CHECK_DEADLOCK FALSE
