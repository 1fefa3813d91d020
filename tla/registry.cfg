SPECIFICATION Spec
CONSTANTS
    NULL = NULL
    Slis = {"host", "jvm"}
    Slos = {"slo", "tmpl", "gen1", "gen2"}
    Indicators = {"cpu", "mem"}
    Queries = {1}
    Methods = {"mean"}
    Rows = {1, 2}
    GenName <- MCGenName
    Assets = {"a1", "a2"}
    Member <- MCMember
    GroupNames = {"g", "h"}
    Sources = {"d1", "d2"}
    Roots = {"all"}
    Subgroups <- MCSubgroups
    Scenes <- MCScenes
INVARIANT VersionsUnbroken
INVARIANT ObjectivesProducible
INVARIANT GeneratedBelong
INVARIANT WizardSubmitsSound
INVARIANT BindingsShown
CHECK_DEADLOCK FALSE
