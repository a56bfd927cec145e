\* Outgoing connection whose handle the caller keeps: after a fatal framing
\* error the bufferevent stays enabled and more bytes reach OnRecvData.
CONSTANTS
    Paths = {"connect"}
    Held = {TRUE}
    MaxBytes = 3
    MaxTime = 3
    IdleTimeout = 1
    MaxCloses = 1
    Reentrant = FALSE
    PeerResets = FALSE
    IdleAnyTime = FALSE
SPECIFICATION Spec
INVARIANT DisconnectOnce
CHECK_DEADLOCK FALSE
