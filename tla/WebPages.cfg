SPECIFICATION Spec
CONSTANTS
    Login = {q1, q2}
    Account = {a1}
    Slot = {1, 2}
    Row = {1, 2}
    Size = {1, 2}
    Channel = {c1, c2}
    RuleId = {r1, r2, r3}
    MaxPresses = 1
    Item = {i1, i2, i3}
    Vendor = {v1, v2}
    Keyless = {v2}
    RowId = {n1, n2}
    Mega = 2
    Giga = 6
    MinLimit = 4
    Limits = {4, 5, 7, 12}
    MaxRows = 2
    MaxKey = 2
    MaxEdits = 3
    MaxJobs = 2
    MaxFaults = 1
    MaxClicks = 2
INVARIANTS
    TypeOK
    CodeIsPolled
    PageInRange
    PageShown
    QuietPageIsTrue
    OwnText
    KeysGoHome
    KeyShownIsLive
PROPERTIES
    ScanEnds
    RemovedIsDeleted
    RulesStayHome
    SecretKept
    KeysKept
    SizesRoundUp
CHECK_DEADLOCK FALSE
