SPECIFICATION Spec
CONSTANTS
    j1 = j1
    j2 = j2
    u1 = u1
    sync = sync
    Job <- TwoJobs
    User = {u1}
    Queue = {sync}
    Owner <- SameOwner
    QueueOf <- SameQueue
    MaxConcurrent = 2
    Cancellable <- OneJob
    Slow = {}
    Fragile = {}
    MaxCrashes = 0
INVARIANT ShownWasRecorded
CHECK_DEADLOCK FALSE
