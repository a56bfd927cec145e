\* daemonize on: CheckChild's assert that it only reaps the saver.
CONSTANTS
    p1 = p1
    p2 = p2
    p3 = p3
    p4 = p4
    NoPid = NoPid
    Procs <- MCProcs
    First = p1
    Daemonize = TRUE
    Args <- MCArgs
    ArgsBound = 4
SPECIFICATION Spec
CHECK_DEADLOCK FALSE
INVARIANT NoStrayChild
