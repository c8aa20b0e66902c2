SPECIFICATION Spec
CONSTANTS
    MaxMsg = 4
    Service = {3}
    GapId = {1, 2}
    BatchSize = 1
    Profiles = {0, 2}
    MaxTries = 2
    QueueSize = 1
    Changing = {2}
    MaxFaults = 1
INVARIANTS
    TypeOK
    NoOtherHole
CHECK_DEADLOCK FALSE
