SPECIFICATION FairClientsSpec
CONSTANTS
    j1 = j1
    u1 = u1
    sync = sync
    Job <- OneJob
    User = {u1}
    Queue = {sync}
    Owner <- SameOwner
    QueueOf <- SameQueue
    MaxConcurrent = 1
    Cancellable = {}
    Slow = {}
    Fragile = {}
    MaxCrashes = 0
    Streamed <- OneJob
    Awaited <- OneJob
PROPERTY StreamEnds
CHECK_DEADLOCK FALSE
