CONSTANTS
    c1 = c1
    c2 = c2
    c3 = c3
    STT = STT
    HoTen = HoTen
    Ten = Ten
    HoatDong = HoatDong
    DanhSach = DanhSach
    an = an
    x = x
    y = y
    Leaves <- MCLeaves
    Layouts <- MCLayouts
    Keywords <- MCKeywords
    Stt = STT
    Activity = HoatDong
    TitleText = DanhSach
    Records <- MCRecords
    Rank <- MCRank
    Methods = {"unit", "name", "age"}
    MaxEntries = 2
    MaxChars = 3
    MaxSheetRows = 2
    MaxColumns = 2
    MaxTreeUnits = 6
    Keys = {1, 2}
    ChildLimit = 2
SPECIFICATION Spec
CHECK_DEADLOCK FALSE
INVARIANTS
    TextSurvives
    MergeKeepsEntries
    ActivitiesGoUp
    DrawingIsClear
    AccessAgrees
