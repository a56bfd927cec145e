\* daemonize on, release build: the shell-started process and up to three
\* more processes, spawned copies or saver children.
CONSTANTS
    p1 = p1
    p2 = p2
    p3 = p3
    p4 = p4
    NoPid = NoPid
    Procs <- MCProcs
    First = p1
    Daemonize = TRUE
    Args <- MCArgs
    ArgsBound = 4
SPECIFICATION Spec
CHECK_DEADLOCK FALSE
INVARIANT AtMostOneSaver
INVARIANT ArgsParsedAsDocumented
PROPERTY SaveFinishes
