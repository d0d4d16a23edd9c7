CONSTANTS
    t1 = t1
    t2 = t2
    Tabs = {t1}
    Requests <- MCLive
    MaxActions = 2
    MaxTroubles = 2
    MaxReloads = 1
    MaxPasswords = 2
    MaxLogins = 2
SPECIFICATION FairSpec
PROPERTY QueuedIsFlushed
CHECK_DEADLOCK FALSE
