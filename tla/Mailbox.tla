------------------------------ MODULE Mailbox ------------------------------
(***************************************************************************)
(* What an event loop promises its callers about Execute (spec 4.D and 5): *)
(* a closure handed to the loop joins one FIFO queue at once; the loop     *)
(* takes closures from the head while it has not exited, so each          *)
(* submitter's closures run in submission order; a stopped loop may still  *)
(* take some, then exits and discards the rest.  Until it is stopped, a    *)
(* queued closure is eventually taken.                                     *)
(***************************************************************************)
EXTENDS Sequences

CONSTANT Items      \* the closures callers can submit

VARIABLES
    queue,          \* submitted closures not yet run, oldest first
    lstate          \* "running", "stopping" (Stop called) or "exited"

mvars == <<queue, lstate>>

Init == queue = <<>> /\ lstate = "running"

(* A caller submits a closure; it may do so at any time, also after exit.  *)
Put(x) ==
    /\ queue' = Append(queue, x)
    /\ UNCHANGED lstate

(* The loop runs the oldest closure.                                       *)
Take ==
    /\ lstate # "exited" /\ queue # <<>>
    /\ queue' = Tail(queue)
    /\ UNCHANGED lstate

Stop ==
    /\ lstate = "running"
    /\ lstate' = "stopping"
    /\ UNCHANGED queue

(* The loop leaves Run; what is still queued is never run.                 *)
Exit ==
    /\ lstate = "stopping"
    /\ lstate' = "exited"
    /\ UNCHANGED queue

Next == (\E x \in Items : Put(x)) \/ Take \/ Stop \/ Exit

Spec == Init /\ [][Next]_mvars /\ WF_mvars(Take \/ Exit)
=============================================================================
