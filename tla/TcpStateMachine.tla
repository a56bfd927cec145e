--------------------------- MODULE TcpStateMachine ---------------------------
(***************************************************************************)
(* What a TCP connection promises (spec.md 4.E, state machine summary):   *)
(* the accept path goes None -> Connected, the connect path None ->       *)
(* Connecting -> Connected or Failed, and a Connected connection goes to   *)
(* Disconnected on peer EOF, active close or a fatal message.  The        *)
(* connection is registered with its loop from the connect (or the       *)
(* accept) on, and leaves the registry on entering a terminal state, which *)
(* it never leaves.  Nothing else changes either variable.                 *)
(***************************************************************************)
VARIABLES state, registered

svars == <<state, registered>>

Init == state = "none" /\ ~registered

(* connect(): the OS-level connect is under way and the object registered. *)
StartConnect ==
    /\ state = "none"
    /\ state' = "connecting" /\ registered' = TRUE

(* connect-ok, or the accept path: Connected and registered.               *)
Establish ==
    /\ state \in {"none", "connecting"}
    /\ state' = "connected" /\ registered' = TRUE

(* connect-fail: Failed, unregistered.                                     *)
Fail ==
    /\ state = "connecting"
    /\ state' = "failed" /\ registered' = FALSE

(* peer-eof, active-close or fatal-message: Disconnected, unregistered.    *)
Close ==
    /\ state = "connected"
    /\ state' = "disconnected" /\ registered' = FALSE

Next == StartConnect \/ Establish \/ Fail \/ Close

Spec == Init /\ [][Next]_svars
=============================================================================
