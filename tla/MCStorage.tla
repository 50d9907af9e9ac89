----------------------------- MODULE MCStorage -----------------------------
(* Small instances of Storage for TLC: one name (no step relates two       *)
(* names except a pass that walks them and a search that stores them, one  *)
(* at a time), two values, and the ticker and Shutdown as serializers.     *)
EXTENDS Storage, TLC

CONSTANTS k1, v1, v2, a, serializeCall

MCKeys == {k1}
MCValues == {v1, v2}
OneClient == {a}
OneCaller == {serializeCall}
=============================================================================
