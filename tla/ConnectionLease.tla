--------------------------- MODULE ConnectionLease ---------------------------
(***************************************************************************)
(* What the gate server's pool promises its handlers, without the status   *)
(* of a connection, its channels and goroutines: a connection is lent to   *)
(* one request at a time.  It is lent only when it is free, a request has  *)
(* at most one and gives back what it borrowed or spoils it, a spoiled     *)
(* connection is never lent again, and a request is answered once at most  *)
(* and only while it borrows.                                              *)
(***************************************************************************)
CONSTANTS
    Connections,
    Requests,
    None        \* nobody: not a request

VARIABLES
    standing,   \* connection -> "unknown", "free", "lent" or "spoiled"
    borrower,   \* connection -> the request it is lent to, or None
    answered    \* requests that were answered

leaseVars == <<standing, borrower, answered>>

LeaseInit ==
    /\ standing = [c \in Connections |-> "unknown"]
    /\ borrower = [c \in Connections |-> None]
    /\ answered = {}

Enlist(c) ==
    /\ standing[c] = "unknown"
    /\ standing' = [standing EXCEPT ![c] = "free"]
    /\ UNCHANGED <<borrower, answered>>

Borrow(r, c) ==
    /\ standing[c] = "free"
    /\ \A d \in Connections : borrower[d] # r
    /\ standing' = [standing EXCEPT ![c] = "lent"]
    /\ borrower' = [borrower EXCEPT ![c] = r]
    /\ UNCHANGED answered

\* The request gives it back, or it turns out to be of no more use.
Return(r, c) ==
    /\ borrower[c] = r
    /\ \E to \in {"free", "spoiled"} : standing' = [standing EXCEPT ![c] = to]
    /\ borrower' = [borrower EXCEPT ![c] = None]
    /\ UNCHANGED answered

Satisfy(r, c) ==
    /\ borrower[c] = r
    /\ r \notin answered
    /\ answered' = answered \cup {r}
    /\ UNCHANGED <<standing, borrower>>

LeaseNext ==
    \E c \in Connections :
        \/ Enlist(c)
        \/ \E r \in Requests : Borrow(r, c) \/ Return(r, c) \/ Satisfy(r, c)

LeaseSpec == LeaseInit /\ [][LeaseNext]_leaseVars
=============================================================================
