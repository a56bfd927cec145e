\* Outgoing connection from EventLoop::Connect: the caller holds the handle
\* and may drop it; the connect may succeed or fail; everything else is
\* allowed too: on_message may close, the peer may reset, the idle timeout
\* may be set at any time.
CONSTANTS
    Paths = {"connect"}
    Held = {TRUE}
    MaxBytes = 3
    MaxTime = 3
    IdleTimeout = 1
    MaxCloses = 1
    Reentrant = TRUE
    PeerResets = TRUE
    IdleAnyTime = TRUE
SPECIFICATION Spec
INVARIANT ExclusiveOutcome
PROPERTY ConnectAnswered
PROPERTY StateMachineRefined
CHECK_DEADLOCK FALSE
