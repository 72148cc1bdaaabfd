---------------------------- MODULE MCTcpRequest ----------------------------
(* Small instances of the TCP request for TLC.                                *)
EXTENDS TcpRequest

CONSTANTS r1, r2
=============================================================================
