CONSTANTS
    s1 = s1
    s2 = s2
    Unit <- MCUnits
    Above <- MCAbove
    Code <- MCCode
    Label <- MCLabel
    Labels = {"x", "e1"}
    Blank = ""
    Zero = "0"
    Legacy = "admin"
    Bootstrap = "Admin@1999"
    OtherNames = {"x"}
    BootstrapPassword = "Admin@1999"
    OtherPasswords = {"p", " p"}
    Trim <- MCTrim
    SeedUnits = {"f", "e1"}
    Slots = {s1, s2}
    MaxAccounts = 4
    MaxRequests = 3
    MaxFailures = 1
    MaxRestarts = 1
SPECIFICATION Spec
INVARIANTS ToldLoginWorks NamesDistinct
SYMMETRY MCSlots
CHECK_DEADLOCK FALSE
