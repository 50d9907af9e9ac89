----------------------------- MODULE MCEntities -----------------------------
(***************************************************************************)
(* Small instances of the entities of the server, and of the dashboard     *)
(* editor of its web client.  The two share no state here: a behaviour is  *)
(* one of the server or one of the page, and part tells which.  The page   *)
(* has three operations, or two and any number of loads: none of these     *)
(* imports a card, and only the first to begin adds a tab.                 *)
(*                                                                         *)
(* The dashboard has two tabs, and a card with an item in the first; the   *)
(* server can give out one id more of each kind.                           *)
(***************************************************************************)
EXTENDS Entities, Dashboard, TLC

CONSTANTS a1, a2, a3, j1, j2, t1, t2, t3, c1, c2, i1, i2

ThreeActors == {a1, a2, a3}
TwoJobs == {j1, j2}

ThreeTabs == {t1, t2, t3}
TwoCards == {c1, c2}
TwoItems == {i1, i2}
TwoTabs == <<t1, t2>>
OneCard == [t \in ThreeTabs |-> IF t = t1 THEN <<c1>> ELSE <<>>]
OneItem == [c \in TwoCards |-> IF c = c1 THEN <<i1>> ELSE <<>>]

\* The actors of the server stand for the operations of the page, too: fewer
\* permutations for TLC to try.
Symmetry == Permutations(ThreeActors) \cup Permutations(TwoJobs)

VARIABLE part

MCInit ==
    /\ part \in {"server", "page", "loads"}
    /\ Init /\ (part # "server" => row = NoRow)
    /\ BoardInit

Begun == Cardinality({k \in Calls : call[k].at # "idle"})
MaxBegun == 2

\* The bounds of a behaviour with loads.
LoadBound ==
    /\ Begun' <= MaxBegun
    /\ \A k \in Calls : call'[k].op # "importCard"
    /\ (\E k \in Calls : call'[k].op = "addTab") => Begun' = 1

MCNext ==
    \/ part = "server" /\ Next /\ UNCHANGED <<part, boardVars>>
    \/ part = "page" /\ BoardNext /\ reload'.at = "idle" /\ UNCHANGED <<part, vars>>
    \/ part = "loads" /\ BoardNext /\ LoadBound /\ UNCHANGED <<part, vars>>

MCSpec == MCInit /\ [][MCNext]_<<part, vars, boardVars>>
=============================================================================
