SPECIFICATION FairSpec
CONSTANTS
    t1 = t1
    t2 = t2
    TaskId <- Gaps
    KindOf <- GapsKind
    Client = {c1}
    NoTask = NoTask
    Batches = 1
    BatchSize = 1
    MaxTries = 1
    MaxRetries = 1
    MaxCrashes = 1
PROPERTIES
    OneRunPerQueueing
    QueuedIsTaken
CHECK_DEADLOCK FALSE
