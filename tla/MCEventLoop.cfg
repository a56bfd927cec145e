\* The inbox and the timer table: two posting threads, two user tasks each
\* (so per-thread order can be observed), one timer id that a thread
\* schedules and cancels off the loop, and a repeating timer firing twice.
\* Only the thread that scheduled a timer cancels it.
CONSTANTS
    t1 = t1
    t2 = t2
    NoHolder = NoHolder
    Threads <- MCThreads
    MaxTasks = 2
    MaxTimers = 1
    MaxFires = 2
    PipeCap = 1
    LoopCancels = FALSE
    Waiters <- MCWaiters
SPECIFICATION Spec
INVARIANT TypeOK
INVARIANT CancelIsFinal
INVARIANT TaskOrderPerThread
PROPERTY PostedTaskRuns
PROPERTY SyncCloseReturns
PROPERTY MailboxRefined
CHECK_DEADLOCK FALSE
