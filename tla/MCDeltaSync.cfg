CONSTANTS
    r1 = r1
    r2 = r2
    t1 = t1
    t2 = t2
    Row = {r1, r2}
    Tabs = {t1, t2}
    MaxTime = 2
    MaxRestarts = 1
    MaxFailures = 1
SPECIFICATION FairSpec
INVARIANT CacheIsCurrent
PROPERTY CacheCatchesUp
CHECK_DEADLOCK FALSE
