------------------------------ MODULE MCServer ------------------------------
EXTENDS Server, TLC

CONSTANTS p1, p2, p3, p4

MCProcs == {p1, p2, p3, p4}

(* pikiwidb-server /etc/pikiwidb.conf --port 7777                          *)
MCArgs == <<"file", "--port", "val">>

(* The slots other than the process started from the shell are            *)
(* interchangeable.                                                        *)
MCSymmetry == Permutations({p2, p3, p4})
=============================================================================
