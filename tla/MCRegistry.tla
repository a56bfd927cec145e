---------------------------- MODULE MCRegistry ----------------------------
(* Instantiates Registry for TLC: two loops, three objects of which one is  *)
(* registered for reading like a loop's notifier.                          *)
EXTENDS Registry

CONSTANTS l1, l2, o1, o2, o3

MCLoops == {l1, l2}
MCObjs == {o1, o2, o3}
MCWatched == {o1}
=============================================================================
