SPECIFICATION Spec
CONSTANTS
    Parent <- MCParent
    Later = {4}
    Samples = {3}
    Users = {2}
    Slots = {1, 2}
    MaxSlot = 1
    MaxDocs = 4
    MaxRequests = 4
    MaxFailures = 1
    MaxRestarts = 1
INVARIANTS
    RowsOpen
    SyncedIsCurrent
    ListsReachUp
    StoredStays
PROPERTY EveryChangeIsStamped
CHECK_DEADLOCK FALSE
