CONSTANTS
    s1 = s1
    s2 = s2
    SeedUnits <- MCForest
    MaxUnits = 4
    MaxExtraUsers = 0
    Tiers = {}
    Slots = {s1, s2}
    MaxRequests = 2
    MaxFailures = 0
    MaxRestarts = 0
SPECIFICATION Spec
INVARIANT DeletedStaysGone
CHECK_DEADLOCK FALSE
