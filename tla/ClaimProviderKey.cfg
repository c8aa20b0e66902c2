SPECIFICATION Spec
CONSTANTS
    Vendor = {v1, v2}
    Keyless = {v2}
    RowId = {n1}
    Mega = 2
    Giga = 6
    MinLimit = 4
    Limits = {4}
    MaxRows = 2
    MaxKey = 2
    MaxEdits = 1
    MaxJobs = 2
    MaxFaults = 0
    MaxClicks = 2
PROPERTY
    KeylessStaysKeyless
CHECK_DEADLOCK FALSE
