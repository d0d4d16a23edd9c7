CONSTANTS
    d1 = d1
    d2 = d2
    Docs = {d1, d2}
    NoDoc = NoDoc
    Default = NoDoc
    MaxEdits = 2
SPECIFICATION FairSpec
CHECK_DEADLOCK FALSE
INVARIANTS
    TextsStayApart
    TypedIsKept
PROPERTIES
    ChangesAreSent
