---------------------------- MODULE MCEventLoop ----------------------------
(* Instantiates EventLoop for TLC: two posting threads.                    *)
EXTENDS EventLoop

CONSTANTS t1, t2

MCThreads == {t1, t2}

(* t1 closes connections with ActiveClose(sync=true); t2 posts and goes on. *)
MCWaiters == {t1}
=============================================================================
