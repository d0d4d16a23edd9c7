CONSTANTS
    u1 = u1
    u2 = u2
    None = None
    NumTables = 2
    Updates = {u1, u2}
    Touches <- MCTouchesNarrow
    MaxCrashes = 0
    MaxIoFailures = 0
SPECIFICATION Spec
INVARIANT AnsweredIsSaved
CHECK_DEADLOCK FALSE
