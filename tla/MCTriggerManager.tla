-------------------------- MODULE MCTriggerManager --------------------------
(* Small instances of TriggerManager for TLC. *)
EXTENDS TriggerManager, TLC

CONSTANTS t1, o1, o2, j1, j2

OneId == {t1}
TwoObjects == {o1, o2}
TwoJobs == {j1, j2}
JobSymmetry == Permutations(TwoJobs) \cup Permutations(TwoObjects)
=============================================================================
