SPECIFICATION FairSpec
CONSTANTS
    t1 = t1
    t2 = t2
    TaskId <- Mixed
    KindOf <- MixedKind
    Client = {c1}
    NoTask = NoTask
    Batches = 1
    BatchSize = 2
    MaxTries = 3
    MaxRetries = 0
    MaxCrashes = 0
PROPERTY
    ResumedTaskGoesOn
CHECK_DEADLOCK FALSE
