----------------------------- MODULE MCGatePool -----------------------------
(* Small instances of GatePool for TLC. *)
EXTENDS GatePool, TLC

CONSTANTS c1, c2, c3, q1, q2, s1

OneConnection == {c1}
ThreeConnections == {c1, c2, c3}
OneRequest == {q1}
TwoRequests == {q1, q2}
OneSession == {s1}
NoSession == {}
Symmetry == Permutations(Connections) \cup Permutations(Http)
=============================================================================
