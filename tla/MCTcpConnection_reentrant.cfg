\* Accepted connection whose on_message closes it (ActiveClose in-loop) while
\* bytes of the same batch remain.
CONSTANTS
    Paths = {"accept"}
    Held = {FALSE}
    MaxBytes = 3
    MaxTime = 3
    IdleTimeout = 1
    MaxCloses = 1
    Reentrant = TRUE
    PeerResets = FALSE
    IdleAnyTime = FALSE
SPECIFICATION Spec
INVARIANT NoMessageAfterClose
CHECK_DEADLOCK FALSE
