SPECIFICATION FairSpec
CONSTANTS
    j1 = j1
    j2 = j2
    u1 = u1
    sync = sync
    Job <- OneJob
    User = {u1}
    Queue = {sync}
    Owner <- SameOwner
    QueueOf <- SameQueue
    MaxConcurrent = 1
    Cancellable <- OneJob
    Slow <- OneJob
    Fragile <- OneJob
    MaxCrashes = 1
INVARIANT CompletedIsReadable
INVARIANT IndInv
PROPERTY LedgerIsKept
PROPERTY CompletedResultFrozen
PROPERTY TerminalRowIsGuarded
PROPERTY JobsSettle
PROPERTY StatusSettles
CHECK_DEADLOCK FALSE
