SPECIFICATION Spec
CONSTANTS
    MaxMsg = 4
    Service = {}
    GapId = {1}
    BatchSize = 1
    Profiles = {2}
    MaxTries = 2
    QueueSize = 1
    Changing = {1}
    MaxFaults = 0
PROPERTY
    DeletedStaysDeleted
CHECK_DEADLOCK FALSE
