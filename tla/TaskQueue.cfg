SPECIFICATION Spec
CONSTANTS
    t1 = t1
    t2 = t2
    TaskId <- Mixed
    KindOf <- MixedKind
    Client = {c1, c2}
    NoTask = NoTask
    Batches = 2
    BatchSize = 2
    MaxTries = 2
    MaxRetries = 0
    MaxCrashes = 1
INVARIANTS
    TypeOK
    DeadlineIffFloodWait
    SucceededMeansRan
    CancelStopsBatches
PROPERTIES
    RestartLeavesNoOrphan
    RestartKeepsOutcomes
CHECK_DEADLOCK FALSE
SYMMETRY ClientSymmetry
