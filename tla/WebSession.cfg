SPECIFICATION FairSpec
CONSTANTS
    Channel = {c1}
    Slot = {1, 2}
    MaxRefresh = 2
    MaxFaults = 1
    MaxVisits = 1
INVARIANTS
    TypeOK
    StatusNotAhead
PROPERTIES
    ImplementsWizard
    FinishIsWhole
    SetupEnds
CHECK_DEADLOCK FALSE
