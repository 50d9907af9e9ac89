------------------------------ MODULE MCBackup ------------------------------
(***************************************************************************)
(* Small instances of Backup for TLC.  Bounded says how large the instance *)
(* may grow: one New at a time and two snapshots, of which one is more     *)
(* than begun (what a restore and a backup do to each other), or two New   *)
(* and one snapshot at a time (what two backups do to each other).         *)
(***************************************************************************)
EXTENDS Backup, TLC

CONSTANTS b1, b2, n1, n2

TwoBackups == {b1, b2}
TwoNames == {n1, n2}
Symmetry == Permutations(TwoBackups) \cup Permutations(TwoNames)

OneNew == \E b \in Backups : \A c \in Backups \ {b} : ~Running(c)
OneSnapshot(begun) == \E n \in Names : \A m \in Names \ {n} : snapshot[m] \in begun

Bounded == (OneNew /\ OneSnapshot({Absent, Torn})) \/ OneSnapshot({Absent})
=============================================================================
