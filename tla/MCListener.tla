----------------------------- MODULE MCListener -----------------------------
EXTENDS Listener

CONSTANTS m, w, f1, f2, f3

MCLoops == {m, w}
MCFds == {f1, f2, f3}
MCNetErrors == {"EPROTO", "ENETUNREACH"}
=============================================================================
