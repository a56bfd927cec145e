-------------------------- MODULE MCTcpConnection --------------------------
(* Instantiates TcpConnection for TLC; all constants are set in the .cfg    *)
(* files, one per question.                                                *)
EXTENDS TcpConnection
=============================================================================
