\* A loop_selector_ spreads three connections over two loops with room for
\* two open client sockets; on_new_conn_ keeps them.  A release build: an
\* unlisted accept errno falls through the assert.
CONSTANTS
    m = m
    w = w
    f1 = f1
    f2 = f2
    f3 = f3
    Loops <- MCLoops
    Main = m
    Fds <- MCFds
    Selector = TRUE
    CallbackCloses = FALSE
    FdLimit = 2
    NetErrors <- MCNetErrors
    Asserts = FALSE
SPECIFICATION Spec
CHECK_DEADLOCK FALSE
PROPERTY AcceptedSocketOwned
