--------------------------- MODULE MCTimeTrigger ---------------------------
(* Small instances of TimeTrigger for TLC. *)
EXTENDS TimeTrigger, TLC

CONSTANTS h1, h2, h3, s1, s2

ThreeHandlers == {h1, h2, h3}
TwoSchedules == {s1, s2}
Symmetry == Permutations(ThreeHandlers) \cup Permutations(TwoSchedules)
=============================================================================
