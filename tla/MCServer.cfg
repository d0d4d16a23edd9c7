CONSTANTS
    MaxStarts = 2
    MaxKills = 1
    MaxFaults = 1
    s1 = s1
    s2 = s2
    Slots = {s1, s2}
    Names <- MCNames
    KeyOf <- MCKeyOf
    Admin = "Admin"
    EnvMode = "lan-only"
    Outside = {"away"}
    MaxFailures = 6
    MaxSessions = 2
    MaxSettings = 1
    Owners = {"root", "org"}
    MaxLayouts = 2
    MaxLayoutFaults = 1
    MaxRows = 2
SPECIFICATION Spec
SYMMETRY MCSlots
CONSTRAINT OnePartAtATime
CHECK_DEADLOCK FALSE
INVARIANTS
    KeysOpenData
    StartsRepair
    GuessesBounded
    AccessIsCurrent
    LayoutsKept
    RowsSurvive
PROPERTIES
    WaitGrows
