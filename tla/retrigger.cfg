SPECIFICATION LiveSpec
CONSTANTS
    r1 = r1
    r2 = r2
    s1 = s1
    s2 = s2
    j1 = j1
    j2 = j2
    t1 = t1
    t2 = t2
    Runs = {r1, r2}
    Slos = {s1}
    Jobs = {j1, j2}
    Ticks = {t1}
    AssetOf <- MCAssetOf
    NameOf <- MCNameOf
    PeriodOf <- SamePeriod
    Outcomes = {"pass"}
    MaxDefers = 0
    MaxRetries = 1
    MaxTries = 2
    BatchLimit = 2
    ThresholdExceedsTimeout = TRUE
    MaxCrashes = 1
    MaxLost = 0
    MaxAborts = 0
PROPERTY RunCompletes
CHECK_DEADLOCK FALSE
