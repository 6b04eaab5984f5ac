SPECIFICATION FairClientsSpec
CONSTANTS
    j1 = j1
    u1 = u1
    sync = sync
    Job <- OneJob
    User = {u1}
    Queue = {sync}
    Owner <- SameOwner
    QueueOf <- SameQueue
    MaxConcurrent = 1
    Cancellable <- OneJob
    Slow <- OneJob
    Fragile = {}
    MaxCrashes = 0
    Streamed <- OneJob
    Awaited <- OneJob
INVARIANT AnswersAreBacked
PROPERTY WaitIsAnswered
PROPERTY SubscribedStreamEnds
CHECK_DEADLOCK FALSE
