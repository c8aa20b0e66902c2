SPECIFICATION Spec
CONSTANTS
    MaxMsg = 4
    Service = {2}
    GapId = {1}
    BatchSize = 1
    Profiles = {0}
    MaxTries = 2
    QueueSize = 1
    Changing = {3}
    MaxFaults = 1
INVARIANT
    NoOtherHole
PROPERTIES
    PagesDescend
    GivenUpForCause
CHECK_DEADLOCK FALSE
