\* Accepted connection as PikiwiDB::OnNewConnection sets it up: no caller
\* holds a shared_ptr, the idle timeout is set (or not) in on_new_conn_,
\* on_message does not close the connection itself, the peer closes with FIN.
CONSTANTS
    Paths = {"accept"}
    Held = {FALSE}
    MaxBytes = 3
    MaxTime = 3
    IdleTimeout = 1
    MaxCloses = 1
    Reentrant = FALSE
    PeerResets = FALSE
    IdleAnyTime = FALSE
SPECIFICATION Spec
INVARIANT TypeOK
INVARIANT DisconnectOnce
INVARIANT NoMessageAfterClose
PROPERTY PeerCloseDetected
CHECK_DEADLOCK FALSE
