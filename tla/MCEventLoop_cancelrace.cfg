\* Loop-thread code may cancel any allocated timer id in-loop, as the
\* TcpObject destructor does with an idle_timer_ set from another thread.
CONSTANTS
    t1 = t1
    t2 = t2
    NoHolder = NoHolder
    Threads <- MCThreads
    MaxTasks = 0
    MaxTimers = 2
    MaxFires = 2
    PipeCap = 1
    LoopCancels = TRUE
    Waiters = {}
SPECIFICATION Spec
INVARIANT CancelIsFinal
CHECK_DEADLOCK FALSE
