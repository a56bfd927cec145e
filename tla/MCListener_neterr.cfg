\* A debug build: a client whose connection carries a pending ENETUNREACH
\* when the listener accepts it reaches OnError's assert(false).
CONSTANTS
    m = m
    w = w
    f1 = f1
    f2 = f2
    f3 = f3
    Loops <- MCLoops
    Main = m
    Fds <- MCFds
    Selector = TRUE
    CallbackCloses = FALSE
    FdLimit = 2
    NetErrors <- MCNetErrors
    Asserts = TRUE
SPECIFICATION Spec
CHECK_DEADLOCK FALSE
INVARIANT AcceptErrorsSurvived
