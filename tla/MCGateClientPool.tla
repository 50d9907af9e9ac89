-------------------------- MODULE MCGateClientPool --------------------------
(* Small instances of GateClientPool for TLC. *)
EXTENDS GateClientPool, TLC

CONSTANTS c1, c2, c3

ThreeConnections == {c1, c2, c3}
AnyToken == BOOLEAN
=============================================================================
