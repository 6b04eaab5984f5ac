SPECIFICATION Spec
CONSTANTS
    j1 = j1
    j2 = j2
    u1 = u1
    sync = sync
    Job <- OneJob
    User = {u1}
    Queue = {sync}
    Owner <- SameOwner
    QueueOf <- SameQueue
    MaxConcurrent = 1
    Cancellable <- OneJob
    Slow = {}
    Fragile = {}
    MaxCrashes = 0
INVARIANT CancelledDoesNotComplete
CHECK_DEADLOCK FALSE
