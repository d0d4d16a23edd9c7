CONSTANTS
    u1 = u1
    u2 = u2
    None = None
    NumTables = 2
    Updates = {u1, u2}
    Touches <- MCTouchesNarrow
    MaxCrashes = 1
    MaxIoFailures = 1
SPECIFICATION FairSpec
INVARIANT IInv
PROPERTIES AckMeansStored ImplementsAtomicStore DueWindowIsFlushed SaveIsAnswered
CHECK_DEADLOCK FALSE
