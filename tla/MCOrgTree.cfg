CONSTANTS
    s1 = s1
    s2 = s2
    SeedUnits <- MCForest
    MaxUnits = 4
    MaxExtraUsers = 1
    Tiers = {0}
    Slots = {s1, s2}
    MaxRequests = 3
    MaxFailures = 1
    MaxRestarts = 1
SPECIFICATION Spec
INVARIANTS TypeOK TreeInv AnsweredUnitsStay NothingUnsaved UnitsHaveAccounts
PROPERTIES ChangesStayInBranch DeletionIsWhole
SYMMETRY MCSlots
CHECK_DEADLOCK FALSE
