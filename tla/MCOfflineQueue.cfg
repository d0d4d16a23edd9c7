CONSTANTS
    t1 = t1
    t2 = t2
    Tabs = {t1, t2}
    Requests <- MCSafe
    MaxActions = 2
    MaxTroubles = 1
    MaxReloads = 1
    MaxPasswords = 1
    MaxLogins = 2
SPECIFICATION Spec
INVARIANTS QueuedIsKept AppliedOnce QueueInOrder
SYMMETRY MCTabs
CHECK_DEADLOCK FALSE
