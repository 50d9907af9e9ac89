--------------------------- MODULE GatePoolProofs ---------------------------
(***************************************************************************)
(* Type correctness of GatePool, and that a connection has one user at a   *)
(* time.  The token argument: a connection in use or on offer is there     *)
(* once, so the unlocked check in Take never decides between two requests. *)
(* From it the pool implements ConnectionLease, and an answered request    *)
(* has its own answer: before a session used a connection, what is under   *)
(* way on it is one request, and its user waits for it, until the peer     *)
(* refuses one and leaves an error text that answers nobody.               *)
(***************************************************************************)
EXTENDS GatePool, TLAPS

\* Whoever works on a connection has one that was registered, and only
\* registered connections are offered.
Known ==
    /\ \A r \in Requests :
         Using(r) \/ rstate[r] = "closing" \/ outcome[r] = "ended"
           => conn[r] \in Connections /\ status[conn[r]] # "new"
    /\ \A c \in Connections : offers[c] > 0 => status[c] # "new"
    /\ \A r \in Requests : rstate[r] \in {"upgrading", "session"} => r \in Sessions
    /\ \A r \in Requests : outcome[r] = "ended" => rstate[r] \in {"leaving", "releasing", "done"}
    /\ \A r \in Requests : sweep.by = r => rstate[r] = "cleaning"

IInv == TypeOK /\ OneUser /\ Known

\* Init establishes the invariant.
LEMMA Initial == Init => IInv
  <1> SUFFICES ASSUME Init PROVE IInv
    OBVIOUS
  <1>1. TypeOK
    BY NamesAssumption DEF Init, TypeOK, NoSweep, Requests, Messages
  <1>2. OneUser
    BY DEF Init, OneUser, Using
  <1>3. Known
    BY NamesAssumption DEF Init, Known, Using, NoSweep, Requests
  <1> QED
    BY <1>1, <1>2, <1>3 DEF IInv

\* Register keeps the invariant.
LEMMA RegisterStep ==
    ASSUME IInv, NEW c \in Connections, Register(c)
    PROVE  IInv'
  <1> USE DEF Register, poolVars, connVars, reqVars, wireVars
  <1>1. TypeOK'
    BY NamesAssumption DEF IInv, TypeOK, Requests, Messages, Known, Using
  <1>2. OneUser'
    BY DEF IInv, TypeOK, OneUser, Known, Using, Requests
  <1>3. Known'
    BY NamesAssumption DEF IInv, TypeOK, OneUser, Known, Using, Requests, NoSweep
  <1> QED
    BY <1>1, <1>2, <1>3 DEF IInv

\* Enter keeps the invariant.
LEMMA EnterStep ==
    ASSUME IInv, NEW c \in Connections, Enter(c)
    PROVE  IInv'
  <1> USE DEF Enter, poolVars, connVars, reqVars, wireVars
  <1>1. TypeOK'
    BY NamesAssumption DEF IInv, TypeOK, Requests, Messages, Known, Using
  <1>2. OneUser'
    BY DEF IInv, TypeOK, OneUser, Known, Using, Requests
  <1>3. Known'
    BY NamesAssumption DEF IInv, TypeOK, OneUser, Known, Using, Requests, NoSweep
  <1> QED
    BY <1>1, <1>2, <1>3 DEF IInv

\* PumpHead keeps the invariant.
LEMMA PumpHeadStep ==
    ASSUME IInv, NEW c \in Connections, PumpHead(c)
    PROVE  IInv'
  <1> USE DEF PumpHead, poolVars, connVars, reqVars, wireVars
  <1>1. TypeOK'
    BY NamesAssumption DEF IInv, TypeOK, Requests, Messages, Known, Using
  <1>2. OneUser'
    BY DEF IInv, TypeOK, OneUser, Known, Using, Requests
  <1>3. Known'
    BY NamesAssumption DEF IInv, TypeOK, OneUser, Known, Using, Requests, NoSweep
  <1> QED
    BY <1>1, <1>2, <1>3 DEF IInv

\* PumpRead keeps the invariant.
LEMMA PumpReadStep ==
    ASSUME IInv, NEW c \in Connections, PumpRead(c)
    PROVE  IInv'
  <1> USE DEF PumpRead, poolVars, connVars, reqVars, wireVars
  <1>0. toPool' \in [Connections -> Seq(Messages)] /\ held' \in [Connections -> Messages \cup {None}]
    <2>1. Head(toPool[c]) \in Messages /\ Tail(toPool[c]) \in Seq(Messages)
      BY DEF IInv, TypeOK
    <2> QED
      BY <2>1 DEF IInv, TypeOK
  <1>1. TypeOK'
    BY <1>0, NamesAssumption DEF IInv, TypeOK, Requests, Messages, Known, Using
  <1>2. OneUser'
    BY DEF IInv, TypeOK, OneUser, Known, Using, Requests
  <1>3. Known'
    BY NamesAssumption DEF IInv, TypeOK, OneUser, Known, Using, Requests, NoSweep
  <1> QED
    BY <1>1, <1>2, <1>3 DEF IInv

\* PumpError keeps the invariant.
LEMMA PumpErrorStep ==
    ASSUME IInv, NEW c \in Connections, PumpError(c)
    PROVE  IInv'
  <1> USE DEF PumpError, poolVars, connVars, reqVars, wireVars
  <1>1. TypeOK'
    BY NamesAssumption DEF IInv, TypeOK, Requests, Messages, Known, Using
  <1>2. OneUser'
    BY DEF IInv, TypeOK, OneUser, Known, Using, Requests
  <1>3. Known'
    BY NamesAssumption DEF IInv, TypeOK, OneUser, Known, Using, Requests, NoSweep
  <1> QED
    BY <1>1, <1>2, <1>3 DEF IInv

\* PumpExit keeps the invariant.
LEMMA PumpExitStep ==
    ASSUME IInv, NEW c \in Connections, PumpExit(c)
    PROVE  IInv'
  <1> USE DEF PumpExit, poolVars, connVars, reqVars, wireVars
  <1>1. TypeOK'
    BY NamesAssumption DEF IInv, TypeOK, Requests, Messages, Known, Using
  <1>2. OneUser'
    BY DEF IInv, TypeOK, OneUser, Known, Using, Requests
  <1>3. Known'
    BY NamesAssumption DEF IInv, TypeOK, OneUser, Known, Using, Requests, NoSweep
  <1> QED
    BY <1>1, <1>2, <1>3 DEF IInv

\* Relay keeps the invariant.
LEMMA RelayStep ==
    ASSUME IInv, NEW r \in Sessions, NEW c \in Connections, Relay(r, c)
    PROVE  IInv'
  <1> USE DEF Relay, Sent, poolVars, connVars, reqVars, wireVars
  <1>1. TypeOK'
    BY NamesAssumption DEF IInv, TypeOK, Requests, Messages, Known, Using
  <1>2. OneUser'
    BY DEF IInv, TypeOK, OneUser, Known, Using, Requests
  <1>3. Known'
    BY NamesAssumption DEF IInv, TypeOK, OneUser, Known, Using, Requests, NoSweep
  <1> QED
    BY <1>1, <1>2, <1>3 DEF IInv

\* RelayEnd keeps the invariant.
LEMMA RelayEndStep ==
    ASSUME IInv, NEW r \in Sessions, NEW c \in Connections, RelayEnd(r, c)
    PROVE  IInv'
  <1> USE DEF RelayEnd, poolVars, connVars, reqVars, wireVars
  <1>1. TypeOK'
    BY NamesAssumption DEF IInv, TypeOK, Requests, Messages, Known, Using
  <1>2. OneUser'
    BY DEF IInv, TypeOK, OneUser, Known, Using, Requests
  <1>3. Known'
    BY NamesAssumption DEF IInv, TypeOK, OneUser, Known, Using, Requests, NoSweep
  <1> QED
    BY <1>1, <1>2, <1>3 DEF IInv

\* PeerAnswer keeps the invariant.
LEMMA PeerAnswerStep ==
    ASSUME IInv, NEW c \in Connections, PeerAnswer(c)
    PROVE  IInv'
  <1> USE DEF PeerAnswer, poolVars, connVars, reqVars, wireVars
  <1>1. TypeOK'
    BY NamesAssumption DEF IInv, TypeOK, Requests, Messages, Known, Using
  <1>2. OneUser'
    BY DEF IInv, TypeOK, OneUser, Known, Using, Requests
  <1>3. Known'
    BY NamesAssumption DEF IInv, TypeOK, OneUser, Known, Using, Requests, NoSweep
  <1> QED
    BY <1>1, <1>2, <1>3 DEF IInv

\* PeerRefuse keeps the invariant.
LEMMA PeerRefuseStep ==
    ASSUME IInv, NEW c \in Connections, PeerRefuse(c)
    PROVE  IInv'
  <1> USE DEF PeerRefuse, poolVars, connVars, reqVars, wireVars
  <1>0. toPool' \in [Connections -> Seq(Messages)]
    <2>1. <<Head(toPeer[c]), ErrorBody>> \in Seq(Messages)
      BY DEF Messages
    <2>2. toPool[c] \o <<Head(toPeer[c]), ErrorBody>> \in Seq(Messages)
      BY <2>1 DEF IInv, TypeOK
    <2> QED
      BY <2>2 DEF IInv, TypeOK
  <1>1. TypeOK'
    BY <1>0, NamesAssumption DEF IInv, TypeOK, Requests, Known, Using
  <1>2. OneUser'
    BY DEF IInv, TypeOK, OneUser, Known, Using, Requests
  <1>3. Known'
    BY NamesAssumption DEF IInv, TypeOK, OneUser, Known, Using, Requests, NoSweep
  <1> QED
    BY <1>1, <1>2, <1>3 DEF IInv

\* PeerSession keeps the invariant.
LEMMA PeerSessionStep ==
    ASSUME IInv, NEW c \in Connections, NEW b \in BOOLEAN, PeerSession(c, b)
    PROVE  IInv'
  <1> USE DEF PeerSession, poolVars, connVars, reqVars, wireVars
  <1>1. TypeOK'
    BY NamesAssumption DEF IInv, TypeOK, Requests, Messages, Known, Using
  <1>2. OneUser'
    BY DEF IInv, TypeOK, OneUser, Known, Using, Requests
  <1>3. Known'
    BY NamesAssumption DEF IInv, TypeOK, OneUser, Known, Using, Requests, NoSweep
  <1> QED
    BY <1>1, <1>2, <1>3 DEF IInv

\* PeerEvent keeps the invariant.
LEMMA PeerEventStep ==
    ASSUME IInv, NEW c \in Connections, PeerEvent(c)
    PROVE  IInv'
  <1> USE DEF PeerEvent, poolVars, connVars, reqVars, wireVars
  <1>0. toPool' \in [Connections -> Seq(Messages)]
    <2>1. <<Event>> \in Seq(Messages)
      BY DEF Messages
    <2> QED
      BY <2>1 DEF IInv, TypeOK
  <1>1. TypeOK'
    BY <1>0, NamesAssumption DEF IInv, TypeOK, Requests, Messages, Known, Using
  <1>2. OneUser'
    BY DEF IInv, TypeOK, OneUser, Known, Using, Requests
  <1>3. Known'
    BY NamesAssumption DEF IInv, TypeOK, OneUser, Known, Using, Requests, NoSweep
  <1> QED
    BY <1>1, <1>2, <1>3 DEF IInv

\* PeerIgnore keeps the invariant.
LEMMA PeerIgnoreStep ==
    ASSUME IInv, NEW c \in Connections, PeerIgnore(c)
    PROVE  IInv'
  <1> USE DEF PeerIgnore, poolVars, connVars, reqVars, wireVars
  <1>1. TypeOK'
    BY NamesAssumption DEF IInv, TypeOK, Requests, Messages, Known, Using
  <1>2. OneUser'
    BY DEF IInv, TypeOK, OneUser, Known, Using, Requests
  <1>3. Known'
    BY NamesAssumption DEF IInv, TypeOK, OneUser, Known, Using, Requests, NoSweep
  <1> QED
    BY <1>1, <1>2, <1>3 DEF IInv

\* PeerGone keeps the invariant.
LEMMA PeerGoneStep ==
    ASSUME IInv, NEW c \in Connections, PeerGone(c)
    PROVE  IInv'
  <1> USE DEF PeerGone, poolVars, connVars, reqVars, wireVars
  <1>1. TypeOK'
    BY NamesAssumption DEF IInv, TypeOK, Requests, Messages, Known, Using
  <1>2. OneUser'
    BY DEF IInv, TypeOK, OneUser, Known, Using, Requests
  <1>3. Known'
    BY NamesAssumption DEF IInv, TypeOK, OneUser, Known, Using, Requests, NoSweep
  <1> QED
    BY <1>1, <1>2, <1>3 DEF IInv

\* CleanLook keeps the invariant.
LEMMA CleanLookStep ==
    ASSUME IInv, NEW c \in Connections, NEW b \in BOOLEAN, CleanLook(c, b)
    PROVE  IInv'
  <1> USE DEF CleanLook, poolVars, connVars, reqVars, wireVars
  <1>0. sweep' \in [by : Requests \cup {Janitor, None}, todo : SUBSET Connections,
                    idle : Nat, victim : Connections \cup {None}]
    <2> DEFINE idle == IF status[c] = "Idle" THEN sweep.idle + 1 ELSE sweep.idle
               victim == IF status[c] = "Idle" /\ idle > Size + 1 /\ b THEN c ELSE None
    <2>1. idle \in Nat /\ victim \in Connections \cup {None} /\ sweep.todo \ {c} \in SUBSET Connections
      BY DEF IInv, TypeOK
    <2>2. sweep' = [sweep EXCEPT !.todo = sweep.todo \ {c}, !.idle = idle, !.victim = victim]
      OBVIOUS
    <2> HIDE DEF idle, victim
    <2> QED
      BY <2>1, <2>2 DEF IInv, TypeOK
  <1>1. TypeOK'
    BY <1>0, NamesAssumption DEF IInv, TypeOK, Requests, Messages, Known, Using
  <1>2. OneUser'
    BY DEF IInv, TypeOK, OneUser, Known, Using, Requests
  <1>3. Known'
    BY NamesAssumption DEF IInv, TypeOK, OneUser, Known, Using, Requests, NoSweep
  <1> QED
    BY <1>1, <1>2, <1>3 DEF IInv

\* CleanClose keeps the invariant.
LEMMA CleanCloseStep ==
    ASSUME IInv, NEW c \in Connections, CleanClose(c)
    PROVE  IInv'
  <1> USE DEF CleanClose, Closed, CutUnlessClosed, poolVars, connVars, reqVars, wireVars
  <1>1. TypeOK'
    BY NamesAssumption DEF IInv, TypeOK, Requests, Messages, Known, Using
  <1>2. OneUser'
    BY DEF IInv, TypeOK, OneUser, Known, Using, Requests
  <1>3. Known'
    BY NamesAssumption DEF IInv, TypeOK, OneUser, Known, Using, Requests, NoSweep
  <1> QED
    BY <1>1, <1>2, <1>3 DEF IInv

\* JanitorStart keeps the invariant.
LEMMA JanitorStartStep ==
    ASSUME IInv, JanitorStart
    PROVE  IInv'
  <1> USE DEF JanitorStart, CleanStart, poolVars, connVars, reqVars, wireVars
  <1>1. TypeOK'
    BY NamesAssumption DEF IInv, TypeOK, Requests, Messages, Known, Using
  <1>2. OneUser'
    BY DEF IInv, TypeOK, OneUser, Known, Using, Requests
  <1>3. Known'
    BY NamesAssumption DEF IInv, TypeOK, OneUser, Known, Using, Requests, NoSweep
  <1> QED
    BY <1>1, <1>2, <1>3 DEF IInv

\* JanitorEnd keeps the invariant.
LEMMA JanitorEndStep ==
    ASSUME IInv, JanitorEnd
    PROVE  IInv'
  <1> USE DEF JanitorEnd, CleanEnd, NoSweep, poolVars, connVars, reqVars, wireVars
  <1>1. TypeOK'
    BY NamesAssumption DEF IInv, TypeOK, Requests, Messages, Known, Using
  <1>2. OneUser'
    BY DEF IInv, TypeOK, OneUser, Known, Using, Requests
  <1>3. Known'
    BY NamesAssumption DEF IInv, TypeOK, OneUser, Known, Using, Requests, NoSweep
  <1> QED
    BY <1>1, <1>2, <1>3 DEF IInv

\* Shutdown keeps the invariant.
LEMMA ShutdownStep ==
    ASSUME IInv, Shutdown
    PROVE  IInv'
  <1> USE DEF Shutdown, poolVars, connVars, reqVars, wireVars
  <1>1. TypeOK'
    BY NamesAssumption DEF IInv, TypeOK, Requests, Messages, Known, Using
  <1>2. OneUser'
    BY DEF IInv, TypeOK, OneUser, Known, Using, Requests
  <1>3. Known'
    BY NamesAssumption DEF IInv, TypeOK, OneUser, Known, Using, Requests, NoSweep
  <1> QED
    BY <1>1, <1>2, <1>3 DEF IInv

\* GetPool keeps the invariant.
LEMMA GetPoolStep ==
    ASSUME IInv, NEW r \in Requests, GetPool(r)
    PROVE  IInv'
  <1>1. CASE pool = "removed"
    <2>1. rstate[r] = "new" /\ rstate' = [rstate EXCEPT ![r] = "done"] /\ outcome' = [outcome EXCEPT ![r] = "unavailable"]
      BY <1>1 DEF GetPool, Go
    <2>2. UNCHANGED <<pool, registering, members, sweep, status, offers, pump, held, queueClosed, readers, conn, got, wireVars>>
      BY DEF GetPool, Go, poolVars, connVars, wireVars
    <2>3. TypeOK'
      BY <2>1, <2>2, NamesAssumption DEF wireVars, IInv, TypeOK, Requests, Messages, Known, Using
    <2>4. OneUser'
      BY <2>1, <2>2 DEF IInv, TypeOK, OneUser, Known, Using, Requests
    <2>5. Known'
      BY <2>1, <2>2, NamesAssumption DEF IInv, TypeOK, OneUser, Known, Using, Requests, NoSweep
    <2> QED
      BY <2>3, <2>4, <2>5 DEF IInv
  <1>2. CASE ~(pool = "removed")
    <2>1. rstate[r] = "new" /\ rstate' = [rstate EXCEPT ![r] = "got"] /\ UNCHANGED outcome
      BY <1>2 DEF GetPool, Go
    <2>2. UNCHANGED <<pool, registering, members, sweep, status, offers, pump, held, queueClosed, readers, conn, got, wireVars>>
      BY DEF GetPool, Go, poolVars, connVars, wireVars
    <2>3. TypeOK'
      BY <2>1, <2>2, NamesAssumption DEF wireVars, IInv, TypeOK, Requests, Messages, Known, Using
    <2>4. OneUser'
      BY <2>1, <2>2 DEF IInv, TypeOK, OneUser, Known, Using, Requests
    <2>5. Known'
      BY <2>1, <2>2, NamesAssumption DEF IInv, TypeOK, OneUser, Known, Using, Requests, NoSweep
    <2> QED
      BY <2>3, <2>4, <2>5 DEF IInv
  <1> QED
    BY <1>1, <1>2

\* IsEmptyStart keeps the invariant.
LEMMA IsEmptyStartStep ==
    ASSUME IInv, NEW r \in Requests, IsEmptyStart(r)
    PROVE  IInv'
  <1> USE DEF IsEmptyStart, CleanStart, Go, poolVars, connVars, reqVars, wireVars
  <1>1. TypeOK'
    BY NamesAssumption DEF IInv, TypeOK, Requests, Messages, Known, Using
  <1>2. OneUser'
    BY DEF IInv, TypeOK, OneUser, Known, Using, Requests
  <1>3. Known'
    BY NamesAssumption DEF IInv, TypeOK, OneUser, Known, Using, Requests, NoSweep
  <1> QED
    BY <1>1, <1>2, <1>3 DEF IInv

\* IsEmptyEnd keeps the invariant.
LEMMA IsEmptyEndStep ==
    ASSUME IInv, NEW r \in Requests, IsEmptyEnd(r)
    PROVE  IInv'
  <1>1. CASE members = {}
    <2>1. sweep' = NoSweep /\ rstate' = [rstate EXCEPT ![r] = "done"] /\ outcome' = [outcome EXCEPT ![r] = "unavailable"]
      BY <1>1 DEF IsEmptyEnd, CleanEnd, Go
    <2>2. UNCHANGED <<pool, registering, members, status, offers, pump, held, queueClosed, readers, conn, got, wireVars>>
      BY DEF IsEmptyEnd, CleanEnd, Go, poolVars, connVars, wireVars
    <2>3. TypeOK'
      BY <2>1, <2>2, NamesAssumption DEF wireVars, IInv, TypeOK, NoSweep, Requests, Messages, Known, Using
    <2>4. OneUser'
      BY <2>1, <2>2 DEF IInv, TypeOK, OneUser, Known, Using, Requests
    <2>5. Known'
      BY <2>1, <2>2, NamesAssumption DEF IInv, TypeOK, OneUser, Known, Using, Requests, NoSweep
    <2> QED
      BY <2>3, <2>4, <2>5 DEF IInv
  <1>2. CASE ~(members = {})
    <2>1. rstate[r] = "cleaning" /\ sweep' = NoSweep /\ rstate' = [rstate EXCEPT ![r] = "waiting"] /\ UNCHANGED outcome
      BY <1>2 DEF IsEmptyEnd, CleanEnd, Go, IInv, Known
    <2>2. UNCHANGED <<pool, registering, members, status, offers, pump, held, queueClosed, readers, conn, got, wireVars>>
      BY DEF IsEmptyEnd, CleanEnd, Go, poolVars, connVars, wireVars
    <2>3. TypeOK'
      BY <2>1, <2>2, NamesAssumption DEF wireVars, IInv, TypeOK, NoSweep, Requests, Messages, Known, Using
    <2>4. OneUser'
      BY <2>1, <2>2 DEF IInv, TypeOK, OneUser, Known, Using, Requests
    <2>5. Known'
      BY <2>1, <2>2, NamesAssumption DEF IInv, TypeOK, OneUser, Known, Using, Requests, NoSweep
    <2> QED
      BY <2>3, <2>4, <2>5 DEF IInv
  <1> QED
    BY <1>1, <1>2

\* GetTimeout keeps the invariant.
LEMMA GetTimeoutStep ==
    ASSUME IInv, NEW r \in Requests, GetTimeout(r)
    PROVE  IInv'
  <1> USE DEF GetTimeout, Go, poolVars, connVars, reqVars, wireVars
  <1>1. TypeOK'
    BY NamesAssumption DEF IInv, TypeOK, Requests, Messages, Known, Using
  <1>2. OneUser'
    BY DEF IInv, TypeOK, OneUser, Known, Using, Requests
  <1>3. Known'
    BY NamesAssumption DEF IInv, TypeOK, OneUser, Known, Using, Requests, NoSweep
  <1> QED
    BY <1>1, <1>2, <1>3 DEF IInv

\* Receive keeps the invariant.
LEMMA ReceiveStep ==
    ASSUME IInv, NEW r \in Requests, NEW c \in Connections, Receive(r, c)
    PROVE  IInv'
  <1> USE DEF Receive, Go, poolVars, connVars, reqVars, wireVars
  <1>0. offers' \in [Connections -> Nat] /\ conn' \in [Requests -> Connections \cup {None}]
    BY DEF IInv, TypeOK
  <1>1. TypeOK'
    BY <1>0, NamesAssumption DEF IInv, TypeOK, Requests, Messages, Known, Using
  <1>2. OneUser'
    BY DEF IInv, TypeOK, OneUser, Known, Using, Requests
  <1>3. Known'
    BY NamesAssumption DEF IInv, TypeOK, OneUser, Known, Using, Requests, NoSweep
  <1> QED
    BY <1>1, <1>2, <1>3 DEF IInv

\* TakeCheck keeps the invariant.
LEMMA TakeCheckStep ==
    ASSUME IInv, NEW r \in Requests, TakeCheck(r)
    PROVE  IInv'
  <1>1. CASE status[conn[r]] = "Idle"
    <2>1. rstate[r] = "received" /\ rstate' = [rstate EXCEPT ![r] = "taking"] /\ UNCHANGED conn
      BY <1>1 DEF TakeCheck, Go
    <2>2. UNCHANGED <<pool, registering, members, sweep, status, offers, pump, held, queueClosed, readers, outcome, got, wireVars>>
      BY DEF TakeCheck, Go, poolVars, connVars, wireVars
    <2>3. TypeOK'
      BY <2>1, <2>2, NamesAssumption DEF wireVars, IInv, TypeOK, Requests, Messages, Known, Using
    <2>4. OneUser'
      <3>1. \A q \in Requests : (Using(q))' => Using(q)
        BY <2>1 DEF Using, IInv, TypeOK
      <3> QED
        BY <2>1, <2>2, <3>1 DEF IInv, OneUser
    <2>5. Known'
      BY <2>1, <2>2, NamesAssumption DEF IInv, TypeOK, OneUser, Known, Using, Requests, NoSweep
    <2> QED
      BY <2>3, <2>4, <2>5 DEF IInv
  <1>2. CASE ~(status[conn[r]] = "Idle")
    <2>1. rstate[r] = "received" /\ rstate' = [rstate EXCEPT ![r] = "waiting"] /\ conn' = [conn EXCEPT ![r] = None]
      BY <1>2 DEF TakeCheck, Go
    <2>2. UNCHANGED <<pool, registering, members, sweep, status, offers, pump, held, queueClosed, readers, outcome, got, wireVars>>
      BY DEF TakeCheck, Go, poolVars, connVars, wireVars
    <2>3. TypeOK'
      BY <2>1, <2>2, NamesAssumption DEF wireVars, IInv, TypeOK, Requests, Messages, Known, Using
    <2>4. OneUser'
      BY <2>1, <2>2 DEF IInv, TypeOK, OneUser, Known, Using, Requests
    <2>5. Known'
      BY <2>1, <2>2, NamesAssumption DEF IInv, TypeOK, OneUser, Known, Using, Requests, NoSweep
    <2> QED
      BY <2>3, <2>4, <2>5 DEF IInv
  <1> QED
    BY <1>1, <1>2

\* Take keeps the invariant.
LEMMA TakeStep ==
    ASSUME IInv, NEW r \in Requests, Take(r)
    PROVE  IInv'
  <1> USE DEF Take, Go, poolVars, connVars, reqVars, wireVars
  <1>1. TypeOK'
    BY NamesAssumption DEF IInv, TypeOK, Requests, Messages, Known, Using
  <1>2. OneUser'
    BY DEF IInv, TypeOK, OneUser, Known, Using, Requests
  <1>3. Known'
    BY NamesAssumption DEF IInv, TypeOK, OneUser, Known, Using, Requests, NoSweep
  <1> QED
    BY <1>1, <1>2, <1>3 DEF IInv

\* Write keeps the invariant.
LEMMA WriteStep ==
    ASSUME IInv, NEW r \in Requests, Write(r)
    PROVE  IInv'
  <1> USE DEF Write, Go, poolVars, connVars, reqVars, wireVars
  <1>1. TypeOK'
    BY NamesAssumption DEF IInv, TypeOK, Requests, Messages, Known, Using
  <1>2. OneUser'
    BY DEF IInv, TypeOK, OneUser, Known, Using, Requests
  <1>3. Known'
    BY NamesAssumption DEF IInv, TypeOK, OneUser, Known, Using, Requests, NoSweep
  <1> QED
    BY <1>1, <1>2, <1>3 DEF IInv

\* WriteError keeps the invariant.
LEMMA WriteErrorStep ==
    ASSUME IInv, NEW r \in Requests, WriteError(r)
    PROVE  IInv'
  <1> USE DEF WriteError, Leave, Go, poolVars, connVars, reqVars, wireVars
  <1>1. TypeOK'
    BY NamesAssumption DEF IInv, TypeOK, Requests, Messages, Known, Using
  <1>2. OneUser'
    BY DEF IInv, TypeOK, OneUser, Known, Using, Requests
  <1>3. Known'
    BY NamesAssumption DEF IInv, TypeOK, OneUser, Known, Using, Requests, NoSweep
  <1> QED
    BY <1>1, <1>2, <1>3 DEF IInv

\* Answer keeps the invariant.
LEMMA AnswerStep ==
    ASSUME IInv, NEW r \in Requests, NEW b \in BOOLEAN, Answer(r, b)
    PROVE  IInv'
  <1> USE DEF Answer, Sent, Leave, Go, poolVars, connVars, reqVars, wireVars
  <1>1. TypeOK'
    BY NamesAssumption DEF IInv, TypeOK, Requests, Messages, Known, Using
  <1>2. OneUser'
    BY DEF IInv, TypeOK, OneUser, Known, Using, Requests
  <1>3. Known'
    BY NamesAssumption DEF IInv, TypeOK, OneUser, Known, Using, Requests, NoSweep
  <1> QED
    BY <1>1, <1>2, <1>3 DEF IInv

\* NoAnswer keeps the invariant.
LEMMA NoAnswerStep ==
    ASSUME IInv, NEW r \in Requests, NoAnswer(r)
    PROVE  IInv'
  <1> USE DEF NoAnswer, Leave, Go, poolVars, connVars, reqVars, wireVars
  <1>1. TypeOK'
    BY NamesAssumption DEF IInv, TypeOK, Requests, Messages, Known, Using
  <1>2. OneUser'
    BY DEF IInv, TypeOK, OneUser, Known, Using, Requests
  <1>3. Known'
    BY NamesAssumption DEF IInv, TypeOK, OneUser, Known, Using, Requests, NoSweep
  <1> QED
    BY <1>1, <1>2, <1>3 DEF IInv

\* Upgrade keeps the invariant.
LEMMA UpgradeStep ==
    ASSUME IInv, NEW r \in Requests, Upgrade(r)
    PROVE  IInv'
  <1> USE DEF Upgrade, Go, poolVars, connVars, reqVars, wireVars
  <1>0. readers' \in [Connections -> SUBSET Sessions]
    <2>1. r \in Sessions
      BY DEF IInv, Known
    <2> QED
      BY <2>1 DEF IInv, TypeOK, Known, Using
  <1>1. TypeOK'
    BY <1>0, NamesAssumption DEF IInv, TypeOK, Requests, Messages, Known, Using
  <1>2. OneUser'
    BY DEF IInv, TypeOK, OneUser, Known, Using, Requests
  <1>3. Known'
    BY NamesAssumption DEF IInv, TypeOK, OneUser, Known, Using, Requests, NoSweep
  <1> QED
    BY <1>1, <1>2, <1>3 DEF IInv

\* UpgradeError keeps the invariant.
LEMMA UpgradeErrorStep ==
    ASSUME IInv, NEW r \in Requests, UpgradeError(r)
    PROVE  IInv'
  <1> USE DEF UpgradeError, Leave, Go, poolVars, connVars, reqVars, wireVars
  <1>1. TypeOK'
    BY NamesAssumption DEF IInv, TypeOK, Requests, Messages, Known, Using
  <1>2. OneUser'
    BY DEF IInv, TypeOK, OneUser, Known, Using, Requests
  <1>3. Known'
    BY NamesAssumption DEF IInv, TypeOK, OneUser, Known, Using, Requests, NoSweep
  <1> QED
    BY <1>1, <1>2, <1>3 DEF IInv

\* ReleaseClosed keeps the invariant.
LEMMA ReleaseClosedStep ==
    ASSUME IInv, NEW r \in Requests, ReleaseClosed(r)
    PROVE  IInv'
  <1> USE DEF ReleaseClosed, Released, Go, poolVars, connVars, reqVars, wireVars
  <1>1. TypeOK'
    BY NamesAssumption DEF IInv, TypeOK, Requests, Messages, Known, Using
  <1>2. OneUser'
    BY DEF IInv, TypeOK, OneUser, Known, Using, Requests
  <1>3. Known'
    BY NamesAssumption DEF IInv, TypeOK, OneUser, Known, Using, Requests, NoSweep
  <1> QED
    BY <1>1, <1>2, <1>3 DEF IInv

\* ReleaseCheck keeps the invariant.
LEMMA ReleaseCheckStep ==
    ASSUME IInv, NEW r \in Requests, ReleaseCheck(r)
    PROVE  IInv'
  <1> USE DEF ReleaseCheck, Go, poolVars, connVars, reqVars, wireVars
  <1>1. TypeOK'
    BY NamesAssumption DEF IInv, TypeOK, Requests, Messages, Known, Using
  <1>2. OneUser'
    BY DEF IInv, TypeOK, OneUser, Known, Using, Requests
  <1>3. Known'
    BY NamesAssumption DEF IInv, TypeOK, OneUser, Known, Using, Requests, NoSweep
  <1> QED
    BY <1>1, <1>2, <1>3 DEF IInv

\* Release keeps the invariant.
LEMMA ReleaseStep ==
    ASSUME IInv, NEW r \in Requests, Release(r)
    PROVE  IInv'
  <1>a. status' = [status EXCEPT ![conn[r]] = "Idle"] /\ offers' = [offers EXCEPT ![conn[r]] = @ + 1]
    BY DEF Release
  <1>0. conn[r] \in Connections /\ offers[conn[r]] \in Nat
    BY DEF Release, IInv, TypeOK, Known, Using
  <1>b. status' \in [Connections -> {"new", "Idle", "Busy", "Closed"}]
    BY <1>a DEF IInv, TypeOK
  <1>c. offers' \in [Connections -> Nat]
    BY <1>0, <1>a DEF IInv, TypeOK
  <1>d. PICK x \in {"closing", "done"} : rstate' = [rstate EXCEPT ![r] = x]
    BY DEF Release, Released, Go
  <1>e. UNCHANGED <<pool, registering, members, sweep, pump, held, queueClosed, readers, conn,
                    outcome, got, cut, byes, toPeer, toPool, peer>>
    BY DEF Release, poolVars, wireVars
  <1>1. TypeOK'
    BY <1>b, <1>c, <1>d, <1>e DEF IInv, TypeOK
  <1> USE DEF Release, Released, Go, poolVars, connVars, reqVars, wireVars
  <1>2. OneUser'
    BY DEF IInv, TypeOK, OneUser, Known, Using, Requests
  <1>3. Known'
    BY <1>b, <1>c, NamesAssumption DEF IInv, TypeOK, OneUser, Known, Using, Requests, NoSweep
  <1> QED
    BY <1>1, <1>2, <1>3 DEF IInv

\* CloseFailed keeps the invariant.
LEMMA CloseFailedStep ==
    ASSUME IInv, NEW r \in Requests, CloseFailed(r)
    PROVE  IInv'
  <1> USE DEF CloseFailed, Closed, CutUnlessClosed, Go, poolVars, connVars, reqVars, wireVars
  <1>1. TypeOK'
    BY NamesAssumption DEF IInv, TypeOK, Requests, Messages, Known, Using
  <1>2. OneUser'
    BY DEF IInv, TypeOK, OneUser, Known, Using, Requests
  <1>3. Known'
    BY NamesAssumption DEF IInv, TypeOK, OneUser, Known, Using, Requests, NoSweep
  <1> QED
    BY <1>1, <1>2, <1>3 DEF IInv

\* SessionEnd keeps the invariant.
LEMMA SessionEndStep ==
    ASSUME IInv, NEW r \in Sessions, SessionEnd(r)
    PROVE  IInv'
  <1> USE DEF SessionEnd, Leave, Go, poolVars, connVars, reqVars, wireVars
  <1>1. TypeOK'
    BY NamesAssumption DEF IInv, TypeOK, Requests, Messages, Known, Using
  <1>2. OneUser'
    BY DEF IInv, TypeOK, OneUser, Known, Using, Requests
  <1>3. Known'
    BY NamesAssumption DEF IInv, TypeOK, OneUser, Known, Using, Requests, NoSweep
  <1> QED
    BY <1>1, <1>2, <1>3 DEF IInv

\* Bye keeps the invariant.
LEMMA ByeStep ==
    ASSUME IInv, NEW r \in Sessions, Bye(r)
    PROVE  IInv'
  <1> USE DEF Bye, poolVars, connVars, reqVars, wireVars
  <1>1. TypeOK'
    BY NamesAssumption DEF IInv, TypeOK, Requests, Messages, Known, Using
  <1>2. OneUser'
    BY DEF IInv, TypeOK, OneUser, Known, Using, Requests
  <1>3. Known'
    BY NamesAssumption DEF IInv, TypeOK, OneUser, Known, Using, Requests, NoSweep
  <1> QED
    BY <1>1, <1>2, <1>3 DEF IInv

\* A step of the specification that changes nothing keeps the invariant.
LEMMA Stutter == IInv /\ UNCHANGED vars => IInv'
  BY DEF vars, poolVars, connVars, reqVars, wireVars, IInv, TypeOK, OneUser, Known, Using

\* Every step keeps the invariant.
LEMMA Inductive == IInv /\ [Next]_vars => IInv'
  <1> SUFFICES ASSUME IInv, [Next]_vars PROVE IInv'
    OBVIOUS
  <1>1. ASSUME NEW c \in Connections, Registration(c) \/ WritePump(c) PROVE IInv'
    BY <1>1, RegisterStep, EnterStep, PumpHeadStep, PumpReadStep, PumpErrorStep, PumpExitStep
       DEF Registration, WritePump
  <1>2. ASSUME NEW c \in Connections, Relays(c) PROVE IInv'
    BY <1>2, RelayStep, RelayEndStep DEF Relays
  <1>3. ASSUME NEW c \in Connections, Peer(c) \/ PeerGone(c) PROVE IInv'
    BY <1>3, PeerAnswerStep, PeerRefuseStep, PeerSessionStep, PeerEventStep, PeerIgnoreStep, PeerGoneStep DEF Peer
  <1>4. ASSUME Clean \/ JanitorStart \/ JanitorEnd \/ Shutdown PROVE IInv'
    BY <1>4, CleanLookStep, CleanCloseStep, JanitorStartStep, JanitorEndStep, ShutdownStep DEF Clean
  <1>5. ASSUME NEW r \in Requests, Handler(r) PROVE IInv'
    BY <1>5, GetPoolStep, IsEmptyStartStep, IsEmptyEndStep, GetTimeoutStep, ReceiveStep,
       TakeCheckStep, TakeStep, WriteStep, WriteErrorStep, AnswerStep, NoAnswerStep,
       UpgradeStep, UpgradeErrorStep, ReleaseClosedStep, ReleaseCheckStep, ReleaseStep,
       CloseFailedStep
       DEF Handler
  <1>6. ASSUME NEW r \in Sessions, SessionEnd(r) \/ Bye(r) PROVE IInv'
    BY <1>6, SessionEndStep, ByeStep
  <1> QED
    BY <1>1, <1>2, <1>3, <1>4, <1>5, <1>6, Stutter DEF Next

\* The invariant holds in every reachable state.
THEOREM Invariant == Spec => []IInv
  BY Initial, Inductive, PTL DEF Spec

\* The state has its type (GatePool).
THEOREM TypeCorrect == Spec => []TypeOK
  <1>1. IInv => TypeOK
    BY DEF IInv
  <1> QED
    BY Invariant, <1>1, PTL

\* However the requests, the cleaning and the peers interleave, a connection
\* is offered at most once and used by one request at a time: the unlocked
\* Take is safe (Connection.Take, Connection.Release, Pool.Offer).
THEOREM Exclusive == Spec => []OneUser
  <1>1. IInv => OneUser
    BY DEF IInv
  <1> QED
    BY Invariant, <1>1, PTL

-----------------------------------------------------------------------------
\* Registration and the janitor's Clean exclude each other.
Collected ==
    /\ pool = "removed" => members = {} /\ registering = None
    /\ sweep.by = Janitor => registering = None

\* What most steps do to the pool: nothing, or the map shrinks.
Quiet ==
    /\ UNCHANGED <<pool, registering, sweep>>
    /\ members' \subseteq members

\* A step that only shrinks the map keeps the pool collected.
LEMMA QuietStep == Collected /\ Quiet => Collected'
  BY DEF Collected, Quiet

\* The steps of the pumps, the peers and the relays, and those of a handler
\* outside IsEmpty, do not touch the pool but for the map.
LEMMA QuietActions ==
    ASSUME Next, ~Clean, ~JanitorStart, ~JanitorEnd, ~Shutdown,
           ~\E c \in Connections : Registration(c),
           ~\E r \in Requests : IsEmptyStart(r) \/ IsEmptyEnd(r)
    PROVE  Quiet
  <1>1. ASSUME NEW c \in Connections, WritePump(c) PROVE Quiet
    BY <1>1 DEF WritePump, PumpHead, PumpRead, PumpError, PumpExit, poolVars, Quiet
  <1>2. ASSUME NEW c \in Connections, Relays(c) PROVE Quiet
    BY <1>2 DEF Relays, Relay, RelayEnd, poolVars, Quiet
  <1>3. ASSUME NEW c \in Connections, Peer(c) \/ PeerGone(c) PROVE Quiet
    BY <1>3 DEF Peer, PeerAnswer, PeerRefuse, PeerSession, PeerEvent, PeerIgnore, PeerGone, poolVars, Quiet
  <1>4. ASSUME NEW r \in Sessions, SessionEnd(r) \/ Bye(r) PROVE Quiet
    BY <1>4 DEF SessionEnd, Bye, poolVars, Quiet
  <1>5. ASSUME NEW r \in Requests, Handler(r) PROVE Quiet
    <2>1. ASSUME NEW c \in Connections, Receive(r, c) PROVE Quiet
      BY <2>1 DEF Receive, poolVars, Quiet
    <2>2. ASSUME NEW ok \in BOOLEAN, Answer(r, ok) PROVE Quiet
      BY <2>2 DEF Answer, poolVars, Quiet
    <2>3. CASE GetPool(r) \/ GetTimeout(r) \/ TakeCheck(r) \/ Take(r) \/ Write(r) \/ WriteError(r)
      BY <2>3 DEF GetPool, GetTimeout, TakeCheck, Take, Write, WriteError, poolVars, Quiet
    <2>4. CASE NoAnswer(r) \/ Upgrade(r) \/ UpgradeError(r) \/ ReleaseClosed(r) \/ ReleaseCheck(r)
               \/ Release(r) \/ CloseFailed(r)
      BY <2>4 DEF NoAnswer, Upgrade, UpgradeError, ReleaseClosed, ReleaseCheck, Release,
                  CloseFailed, poolVars, Quiet
    <2> QED
      BY <1>5, <2>1, <2>2, <2>3, <2>4 DEF Handler
  <1> QED
    BY <1>1, <1>2, <1>3, <1>4, <1>5 DEF Next

\* The other steps keep the pool collected too.
LEMMA CollectedInductive == IInv /\ Collected /\ [Next]_vars => Collected'
  <1> SUFFICES ASSUME IInv, Collected, [Next]_vars PROVE Collected'
    OBVIOUS
  <1>1. CASE Clean
    <2>1. ASSUME NEW c \in Connections, NEW b \in BOOLEAN, CleanLook(c, b) PROVE Collected'
      <3>1. sweep'.by = sweep.by
        BY <2>1 DEF CleanLook, IInv, TypeOK
      <3> QED
        BY <2>1, <3>1 DEF CleanLook, Collected
    <2>2. ASSUME NEW c \in Connections, CleanClose(c) PROVE Collected'
      <3>1. sweep'.by = sweep.by
        BY <2>2 DEF CleanClose, IInv, TypeOK
      <3> QED
        BY <2>2, <3>1 DEF CleanClose, Collected
    <2> QED
      BY <1>1, <2>1, <2>2 DEF Clean
  <1>2. CASE JanitorStart
    BY <1>2 DEF JanitorStart, PoolsUnlocked, CleanStart, Collected
  <1>3. CASE JanitorEnd
    BY <1>3, NamesAssumption DEF JanitorEnd, CleanEnd, NoSweep, Collected
  <1>4. CASE Shutdown
    BY <1>4 DEF Shutdown, Collected
  <1>5. ASSUME NEW c \in Connections, Registration(c) PROVE Collected'
    BY <1>5, NamesAssumption DEF Registration, Register, Enter, PoolsUnlocked, Collected
  <1>6. ASSUME NEW r \in Requests, IsEmptyStart(r) \/ IsEmptyEnd(r) PROVE Collected'
    BY <1>6, NamesAssumption
       DEF IsEmptyStart, IsEmptyEnd, CleanStart, CleanEnd, NoSweep, Requests, Collected
  <1>7. CASE UNCHANGED vars
    BY <1>7 DEF vars, poolVars, Collected
  <1> QED
    BY <1>1, <1>2, <1>3, <1>4, <1>5, <1>6, <1>7, QuietActions, QuietStep

\* A pool the janitor collected never holds a connection again, although
\* the requests that found it before go on with it (Pools.Clean,
\* Pools.RegisterConnection, Pool.RegisterConnection).
THEOREM StaysEmpty == Spec => []CollectedStaysEmpty
  <1>1. Init => Collected
    BY NamesAssumption DEF Init, NoSweep, Collected
  <1>2. Collected => CollectedStaysEmpty
    BY DEF Collected, CollectedStaysEmpty
  <1> QED
    BY <1>1, <1>2, Invariant, CollectedInductive, PTL DEF Spec

-----------------------------------------------------------------------------
\* Until a request leaves, its outcome is open.
Undecided ==
    \A r \in Requests :
        rstate[r] \notin {"leaving", "releasing", "closing", "done"} => outcome[r] = "none"

LEMMA UndecidedInit == Init => Undecided
  BY DEF Init, Undecided

Decided == {"leaving", "releasing", "closing", "done"}

\* A request that goes on, undecided or decided as it is, keeps it,
LEMMA GoesOn ==
    ASSUME Undecided, DOMAIN rstate = Requests, NEW r \in Requests, NEW to, Go(r, to),
           outcome' = outcome, to \in Decided \/ rstate[r] \notin Decided
    PROVE  Undecided'
  <1>1. \A q \in Requests : rstate'[q] = IF q = r THEN to ELSE rstate[q]
    BY DEF Go
  <1> QED
    BY <1>1 DEF Undecided, Decided

\* and so does one that is decided now.
LEMMA GetsDecided ==
    ASSUME Undecided, DOMAIN rstate = Requests, NEW r \in Requests, NEW to \in Decided,
           NEW how, Go(r, to), outcome' = [outcome EXCEPT ![r] = how]
    PROVE  Undecided'
  <1>1. \A q \in Requests : rstate'[q] = IF q = r THEN to ELSE rstate[q]
    BY DEF Go
  <1>2. \A q \in Requests \ {r} : outcome'[q] = outcome[q]
    BY DEF Undecided
  <1> QED
    BY <1>1, <1>2 DEF Undecided, Decided

LEMMA LeavesDecided ==
    ASSUME Undecided, DOMAIN rstate = Requests, NEW r \in Requests, NEW how, Leave(r, how)
    PROVE  Undecided'
  BY GetsDecided DEF Leave, Decided

LEMMA Typed == IInv => DOMAIN rstate = Requests
  <1>1. IInv => TypeOK
    BY DEF IInv
  <1> QED
    BY <1>1 DEF TypeOK

LEMMA UndecidedStep == IInv /\ Undecided /\ [Next]_vars => Undecided'
  <1> SUFFICES ASSUME IInv, Undecided, [Next]_vars PROVE Undecided'
    OBVIOUS
  <1>1. ASSUME UNCHANGED <<rstate, outcome>> PROVE Undecided'
    BY <1>1 DEF Undecided
  <1>2. ASSUME NEW c \in Connections,
               Registration(c) \/ WritePump(c) \/ Relays(c) \/ Peer(c) \/ PeerGone(c)
        PROVE  Undecided'
    <2>1. CASE Registration(c)
      BY <2>1, <1>1 DEF Registration, Register, Enter, reqVars
    <2>2. CASE WritePump(c)
      BY <2>2, <1>1 DEF WritePump, PumpHead, PumpRead, PumpError, PumpExit, reqVars
    <2>3. CASE Relays(c)
      BY <2>3, <1>1 DEF Relays, Relay, RelayEnd, reqVars
    <2>4. CASE Peer(c) \/ PeerGone(c)
      BY <2>4, <1>1 DEF Peer, PeerAnswer, PeerRefuse, PeerSession, PeerEvent, PeerIgnore, PeerGone, reqVars
    <2> QED
      BY <1>2, <2>1, <2>2, <2>3, <2>4
  <1>3. CASE Clean \/ JanitorStart \/ JanitorEnd \/ Shutdown
    BY <1>3, <1>1 DEF Clean, CleanLook, CleanClose, JanitorStart, JanitorEnd, Shutdown, reqVars
  <1>4. ASSUME NEW r \in Requests, Handler(r) PROVE Undecided'
    <2>1. DOMAIN rstate = Requests
      BY Typed
    <2>2. ASSUME \/ \E c \in Connections : Receive(r, c)
                 \/ IsEmptyStart(r) \/ TakeCheck(r) \/ Take(r) \/ Write(r) \/ Upgrade(r)
          PROVE  Undecided'
      <3>1. outcome' = outcome /\ rstate[r] \notin Decided
        BY <2>2 DEF Receive, IsEmptyStart, TakeCheck, Take, Write, Upgrade, Decided
      <3>2. \E to : Go(r, to)
        BY <2>2 DEF Receive, IsEmptyStart, TakeCheck, Take, Write, Upgrade
      <3> QED
        BY <2>1, <3>1, <3>2, GoesOn
    <2>3. ASSUME ReleaseClosed(r) \/ ReleaseCheck(r) \/ Release(r) \/ CloseFailed(r)
          PROVE  Undecided'
      <3>1. outcome' = outcome
        BY <2>3 DEF ReleaseClosed, ReleaseCheck, Release, CloseFailed
      <3>2. \E to \in Decided : Go(r, to)
        BY <2>3 DEF ReleaseClosed, ReleaseCheck, Release, Released, CloseFailed, Decided
      <3> QED
        BY <2>1, <3>1, <3>2, GoesOn
    <2>4. ASSUME \/ \E ok \in BOOLEAN : Answer(r, ok)
                 \/ WriteError(r) \/ NoAnswer(r) \/ UpgradeError(r)
          PROVE  Undecided'
      <3>1. \E how : Leave(r, how)
        BY <2>4 DEF Answer, WriteError, NoAnswer, UpgradeError
      <3> QED
        BY <2>1, <3>1, LeavesDecided
    <2>7. CASE GetTimeout(r)
      BY <2>1, <2>7, GetsDecided DEF GetTimeout, Decided
    <2>5. CASE GetPool(r)
      <3>1. CASE pool = "removed"
        BY <2>1, <2>5, <3>1, GetsDecided DEF GetPool, Decided
      <3>2. CASE pool # "removed"
        BY <2>1, <2>5, <3>2, GoesOn DEF GetPool, Decided
      <3> QED
        BY <3>1, <3>2, Zenon
    <2>6. CASE IsEmptyEnd(r)
      <3>1. rstate[r] = "cleaning"
        BY <2>6 DEF IsEmptyEnd, CleanEnd, IInv, Known
      <3>2. CASE members = {}
        BY <2>1, <2>6, <3>2, GetsDecided DEF IsEmptyEnd, Decided
      <3>3. CASE members # {}
        BY <2>1, <2>6, <3>1, <3>3, GoesOn DEF IsEmptyEnd, Decided
      <3> QED
        BY <3>2, <3>3, Zenon
    <2> QED
      BY <1>4, <2>2, <2>3, <2>4, <2>5, <2>6, <2>7 DEF Handler
  <1>5. ASSUME NEW r \in Sessions, SessionEnd(r) \/ Bye(r) PROVE Undecided'
    <2>1. r \in Requests /\ DOMAIN rstate = Requests
      BY Typed DEF Requests
    <2>2. CASE SessionEnd(r)
      BY <2>1, <2>2, LeavesDecided DEF SessionEnd
    <2>3. CASE Bye(r)
      BY <1>1, <2>3 DEF Bye, reqVars
    <2> QED
      BY <1>5, <2>2, <2>3
  <1>6. CASE UNCHANGED vars
    BY <1>6, <1>1 DEF vars, reqVars
  <1> QED
    BY <1>2, <1>3, <1>4, <1>5, <1>6 DEF Next

\* What is in the map, pumped, swept or entering was registered.
Registered ==
    \A c \in Connections :
        c \in members \/ pump[c] # "off" \/ registering = c \/ sweep.victim = c => status[c] # "new"

LEMMA RegisteredInit == Init => Registered
  BY NamesAssumption DEF Init, Registered, NoSweep

LEMMA RegisteredStep == IInv /\ Registered /\ [Next]_vars => Registered'
  <1> SUFFICES ASSUME IInv, Registered, [Next]_vars PROVE Registered'
    OBVIOUS
  <1> USE DEF IInv, Registered, TypeOK
  <1>1. ASSUME members' \subseteq members, UNCHANGED <<pump, registering, sweep>>,
               \A c \in Connections : status[c] # "new" => status'[c] # "new"
        PROVE  Registered'
    BY <1>1
  <1>2. ASSUME NEW c \in Connections,
               Registration(c) \/ WritePump(c) \/ Relays(c) \/ Peer(c) \/ PeerGone(c)
        PROVE  Registered'
    <2>1. CASE Register(c)
      BY <2>1 DEF Register
    <2>2. CASE Enter(c)
      BY <2>2, NamesAssumption DEF Enter
    <2>3. CASE PumpHead(c) \/ PumpRead(c)
      BY <2>3 DEF PumpHead, PumpRead, poolVars
    <2>4. CASE PumpError(c) \/ PumpExit(c)
      BY <2>4 DEF PumpError, PumpExit, poolVars
    <2>5. CASE Relays(c)
      BY <2>5 DEF Relays, Relay, RelayEnd, Sent, poolVars
    <2>6. CASE Peer(c) \/ PeerGone(c)
      BY <2>6, <1>1 DEF Peer, PeerAnswer, PeerRefuse, PeerSession, PeerEvent, PeerIgnore, PeerGone, poolVars,
                        connVars
    <2> QED
      BY <1>2, <2>1, <2>2, <2>3, <2>4, <2>5, <2>6 DEF Registration, WritePump
  <1>3. ASSUME NEW c \in Connections, NEW timeout \in BOOLEAN, CleanLook(c, timeout) PROVE Registered'
    <2>1. sweep'.victim \in {c, None} /\ (sweep'.victim = c => status[c] = "Idle")
      BY <1>3, NamesAssumption DEF CleanLook
    <2> QED
      BY <1>3, <2>1, NamesAssumption DEF CleanLook, connVars
  <1>4. ASSUME NEW c \in Connections, CleanClose(c) PROVE Registered'
    <2>1. sweep'.victim = None
      BY <1>4 DEF CleanClose
    <2> QED
      BY <1>4, <2>1, NamesAssumption DEF CleanClose, Closed
  <1>5. CASE JanitorStart \/ JanitorEnd
    BY <1>5, NamesAssumption DEF JanitorStart, JanitorEnd, CleanStart, CleanEnd, NoSweep, connVars
  <1>6. CASE Shutdown
    BY <1>6, <1>1 DEF Shutdown
  <1>7. ASSUME NEW r \in Requests, Handler(r) PROVE Registered'
    <2>1. ASSUME NEW c \in Connections, Receive(r, c) PROVE Registered'
      BY <2>1, <1>1 DEF Receive, poolVars
    <2>2. ASSUME NEW ok \in BOOLEAN, Answer(r, ok) PROVE Registered'
      BY <2>2 DEF Answer, Sent, poolVars
    <2>3. CASE GetPool(r) \/ GetTimeout(r) \/ TakeCheck(r) \/ Write(r) \/ WriteError(r) \/ NoAnswer(r)
      BY <2>3, <1>1 DEF GetPool, GetTimeout, TakeCheck, Write, WriteError, NoAnswer, poolVars, connVars
    <2>4. CASE Take(r) \/ Upgrade(r) \/ Release(r) \/ CloseFailed(r)
      BY <2>4, <1>1 DEF Take, Upgrade, Release, CloseFailed, Closed, poolVars
    <2>5. CASE UpgradeError(r) \/ ReleaseClosed(r) \/ ReleaseCheck(r)
      BY <2>5, <1>1 DEF UpgradeError, ReleaseClosed, ReleaseCheck, poolVars, connVars
    <2>6. CASE IsEmptyStart(r) \/ IsEmptyEnd(r)
      BY <2>6, NamesAssumption DEF IsEmptyStart, IsEmptyEnd, CleanStart, CleanEnd, NoSweep, connVars
    <2> QED
      BY <1>7, <2>1, <2>2, <2>3, <2>4, <2>5, <2>6 DEF Handler
  <1>8. ASSUME NEW r \in Sessions, SessionEnd(r) \/ Bye(r) PROVE Registered'
    BY <1>8, <1>1 DEF SessionEnd, Bye, poolVars, connVars
  <1>9. CASE UNCHANGED vars
    BY <1>9, <1>1 DEF vars, poolVars, connVars
  <1> QED
    BY <1>2, <1>3, <1>4, <1>5, <1>6, <1>7, <1>8, <1>9 DEF Next, Clean

-----------------------------------------------------------------------------
(* GatePool implements ConnectionLease. *)

\* Who uses a connection is its borrower, and it is lent.
LEMMA UserBorrows ==
    ASSUME IInv, NEW r \in Requests, Using(r)
    PROVE  /\ conn[r] \in Connections
           /\ Users(conn[r]) = {r}
           /\ Standing[conn[r]] = "lent"
           /\ Borrower[conn[r]] = r
  <1>1. conn[r] \in Connections /\ status[conn[r]] # "new"
    BY DEF IInv, Known
  <1>2. Users(conn[r]) = {r}
    BY DEF IInv, OneUser, Users
  <1>3. (CHOOSE q \in {r} : TRUE) = r
    OBVIOUS
  <1> QED
    BY <1>1, <1>2, <1>3 DEF Standing, Borrower

\* A request that uses nothing borrows nothing.
LEMMA IdleBorrowsNothing ==
    ASSUME IInv, NEW r \in Requests, ~Using(r), NEW c \in Connections
    PROVE  Borrower[c] # r
  <1>1. CASE Users(c) = {}
    <2>1. None \notin Requests
      BY NamesAssumption DEF Requests
    <2> QED
      BY <1>1, <2>1 DEF Borrower
  <1>2. CASE Users(c) # {}
    <2>1. Borrower[c] \in Users(c)
      BY <1>2 DEF Borrower
    <2> QED
      BY <2>1 DEF Users
  <1> QED
    BY <1>1, <1>2

\* The abstract state of a connection depends on its users, its offers and
\* whether it is new.
LEMMA Frame ==
    ASSUME NEW c \in Connections,
           Users(c)' = Users(c),
           (offers[c] > 0)' = (offers[c] > 0),
           (status[c] = "new")' = (status[c] = "new")
    PROVE  Standing'[c] = Standing[c] /\ Borrower'[c] = Borrower[c]
  BY DEF Standing, Borrower

\* A step that leaves all these is a stutter of the lease.
LEMMA QuietLease ==
    ASSUME \A c \in Connections :
               /\ Users(c)' = Users(c)
               /\ (offers[c] > 0)' = (offers[c] > 0)
               /\ (status[c] = "new")' = (status[c] = "new"),
           Answered' = Answered
    PROVE  UNCHANGED Lease!leaseVars
  <1>1. \A c \in Connections : Standing'[c] = Standing[c] /\ Borrower'[c] = Borrower[c]
    BY Frame
  <1>2. Standing' = Standing
    BY <1>1 DEF Standing
  <1>3. Borrower' = Borrower
    BY <1>1 DEF Borrower
  <1> QED
    BY <1>2, <1>3 DEF Lease!leaseVars

\* A step at one connection.
LEMMA TurnLease ==
    ASSUME NEW d \in Connections, NEW s, NEW b,
           \A c \in Connections \ {d} :
               /\ Users(c)' = Users(c)
               /\ (offers[c] > 0)' = (offers[c] > 0)
               /\ (status[c] = "new")' = (status[c] = "new"),
           Standing'[d] = s, Borrower'[d] = b
    PROVE  /\ Standing' = [Standing EXCEPT ![d] = s]
           /\ Borrower' = [Borrower EXCEPT ![d] = b]
  <1>1. \A c \in Connections \ {d} : Standing'[c] = Standing[c] /\ Borrower'[c] = Borrower[c]
    BY Frame
  <1>2. Standing' = [Standing EXCEPT ![d] = s]
    <2>1. Standing = [c \in Connections |-> Standing[c]] /\ Standing' = [c \in Connections |-> Standing'[c]]
      BY DEF Standing
    <2> QED
      BY <1>1, <2>1
  <1>3. Borrower' = [Borrower EXCEPT ![d] = b]
    <2>1. Borrower = [c \in Connections |-> Borrower[c]] /\ Borrower' = [c \in Connections |-> Borrower'[c]]
      BY DEF Borrower
    <2> QED
      BY <1>1, <2>1
  <1> QED
    BY <1>2, <1>3

-----------------------------------------------------------------------------
\* Steps that leave the requests, the offers and who was registered alone.
Unseen ==
    /\ \A r \in Requests : (Using(r))' = Using(r) /\ (Using(r) => conn'[r] = conn[r])
    /\ \A c \in Connections : (offers[c] > 0)' = (offers[c] > 0)
    /\ \A c \in Connections : (status[c] = "new")' = (status[c] = "new")
    /\ \A r \in Requests : (outcome[r] = "answered")' = (outcome[r] = "answered")

LEMMA UnseenStutters == Unseen => UNCHANGED Lease!leaseVars
  <1> SUFFICES ASSUME Unseen PROVE UNCHANGED Lease!leaseVars
    OBVIOUS
  <1>1. \A c \in Connections : Users(c)' = Users(c)
    BY DEF Unseen, Users
  <1>2. Answered' = Answered
    BY DEF Unseen, Answered
  <1> QED
    BY <1>1, <1>2, QuietLease DEF Unseen

\* The steps of the pumps, the relays, the peers and the cleaning, and the
\* registration's second half.
LEMMA ServerUnseen ==
    ASSUME IInv, Registered, NEW c \in Connections,
           Enter(c) \/ WritePump(c) \/ Relays(c) \/ Peer(c) \/ PeerGone(c) \/ Clean
             \/ JanitorStart \/ JanitorEnd \/ Shutdown
    PROVE  Unseen
  <1> USE DEF Unseen, Using
  <1>1. CASE Enter(c)
    BY <1>1 DEF Enter, reqVars
  <1>2. CASE WritePump(c)
    <2>1. CASE PumpHead(c) \/ PumpRead(c) \/ PumpExit(c)
      BY <2>1 DEF PumpHead, PumpRead, PumpExit, reqVars
    <2>2. CASE PumpError(c)
      <3>1. status[c] # "new"
        BY <2>2 DEF PumpError, Registered
      <3> QED
        BY <2>2, <3>1 DEF PumpError, reqVars, IInv, TypeOK
    <2> QED
      BY <1>2, <2>1, <2>2 DEF WritePump
  <1>3. CASE Relays(c)
    BY <1>3 DEF Relays, Relay, RelayEnd, reqVars
  <1>4. CASE Peer(c) \/ PeerGone(c)
    BY <1>4 DEF Peer, PeerAnswer, PeerRefuse, PeerSession, PeerEvent, PeerIgnore, PeerGone, reqVars, connVars
  <1>5. CASE Clean
    <2>1. ASSUME NEW d \in Connections, NEW timeout \in BOOLEAN, CleanLook(d, timeout) PROVE Unseen
      BY <2>1 DEF CleanLook, reqVars, connVars
    <2>2. ASSUME NEW d \in Connections, CleanClose(d) PROVE Unseen
      BY <2>2 DEF CleanClose, Closed, reqVars, IInv, TypeOK, Registered
    <2> QED
      BY <1>5, <2>1, <2>2 DEF Clean
  <1>6. CASE JanitorStart \/ JanitorEnd
    BY <1>6 DEF JanitorStart, JanitorEnd, reqVars, connVars
  <1>7. CASE Shutdown
    BY <1>7 DEF Shutdown, reqVars, IInv, TypeOK, Registered
  <1> QED
    BY <1>1, <1>2, <1>3, <1>4, <1>5, <1>6, <1>7

\* A step of a request that begins or ends no use.
LEMMA OwnMove ==
    ASSUME NEW r \in Requests,
           \A q \in Requests \ {r} :
               rstate'[q] = rstate[q] /\ conn'[q] = conn[q] /\ outcome'[q] = outcome[q],
           (Using(r))' = Using(r), Using(r) => conn'[r] = conn[r],
           (outcome[r] = "answered")' = (outcome[r] = "answered"),
           UNCHANGED offers,
           \A c \in Connections : (status[c] = "new")' = (status[c] = "new")
    PROVE  Unseen
  <1>1. \A q \in Requests \ {r} : (Using(q))' = Using(q)
    BY DEF Using
  <1> QED
    BY <1>1 DEF Unseen

\* The same for a step that only moves the request on.
LEMMA JustGoes ==
    ASSUME IInv, NEW r \in Requests, NEW to, Go(r, to),
           Using(r) <=> to \in {"received", "taking", "taken", "awaiting", "upgrading", "session",
                                "leaving", "releasing"},
           Using(r) => conn'[r] = conn[r],
           \A q \in Requests \ {r} : conn'[q] = conn[q],
           (outcome[r] = "answered")' = (outcome[r] = "answered"),
           \A q \in Requests \ {r} : outcome'[q] = outcome[q],
           UNCHANGED offers,
           \A c \in Connections : (status[c] = "new")' = (status[c] = "new")
    PROVE  Unseen
  <1>1. rstate'[r] = to /\ \A q \in Requests \ {r} : rstate'[q] = rstate[q]
    BY DEF Go, IInv, TypeOK
  <1>2. (Using(r))' = Using(r)
    BY <1>1 DEF Using
  <1> QED
    BY <1>1, <1>2, OwnMove

\* The steps of a handler that neither begin nor end a use nor answer.
KeepsUse(r) ==
    \/ GetPool(r) \/ IsEmptyStart(r) \/ IsEmptyEnd(r) \/ GetTimeout(r)
    \/ TakeCheck(r) /\ status[conn[r]] = "Idle"
    \/ Take(r) \/ Write(r) \/ WriteError(r) \/ NoAnswer(r)
    \/ Upgrade(r) \/ UpgradeError(r) \/ ReleaseCheck(r) \/ CloseFailed(r)

\* Those that end one.
EndsUse(r) ==
    \/ TakeCheck(r) /\ status[conn[r]] # "Idle"
    \/ ReleaseClosed(r)
    \/ Release(r)

\* The former, and the goroutines of a session, stutter.
LEMMA RequestUnseen ==
    ASSUME IInv, Undecided, NEW r \in Requests,
           KeepsUse(r) \/ Answer(r, FALSE) \/ SessionEnd(r) \/ Bye(r)
    PROVE  Unseen
  <1>a. ASSUME NEW to, NEW how, Go(r, to), how # "answered", outcome[r] # "answered",
               Using(r) <=> to \in {"received", "taking", "taken", "awaiting", "upgrading",
                                    "session", "leaving", "releasing"},
               outcome' = [outcome EXCEPT ![r] = how] \/ UNCHANGED outcome,
               UNCHANGED <<conn, offers>>,
               \A c \in Connections : (status[c] = "new")' = (status[c] = "new")
        PROVE  Unseen
    <2>1. outcome'[r] # "answered" /\ \A q \in Requests \ {r} : outcome'[q] = outcome[q]
      BY <1>a DEF IInv, TypeOK
    <2>2. (outcome[r] = "answered")' = (outcome[r] = "answered")
      BY <1>a, <2>1
    <2> QED
      BY <1>a, <2>1, <2>2, JustGoes
  <1>b. rstate[r] \notin {"leaving", "releasing", "closing", "done"} => outcome[r] # "answered"
    BY DEF Undecided
  <1>1. CASE GetPool(r)
    <2>1. rstate[r] = "new" /\ UNCHANGED <<conn, offers, status>>
      BY <1>1 DEF GetPool, connVars
    <2>2. CASE pool = "removed"
      BY <1>1, <1>a, <1>b, <2>1, <2>2 DEF GetPool, Using
    <2>3. CASE pool # "removed"
      BY <1>1, <1>a, <1>b, <2>1, <2>3 DEF GetPool, Using
    <2> QED
      BY <2>2, <2>3
  <1>2. CASE IsEmptyStart(r)
    BY <1>2, <1>a, <1>b DEF IsEmptyStart, connVars, Using
  <1>3. CASE IsEmptyEnd(r)
    <2>1. rstate[r] = "cleaning" /\ UNCHANGED <<conn, offers, status>>
      BY <1>3 DEF IsEmptyEnd, CleanEnd, IInv, Known, connVars
    <2>2. CASE members = {}
      BY <1>3, <1>a, <1>b, <2>1, <2>2 DEF IsEmptyEnd, Using
    <2>3. CASE members # {}
      BY <1>3, <1>a, <1>b, <2>1, <2>3 DEF IsEmptyEnd, Using
    <2> QED
      BY <2>2, <2>3
  <1>4. CASE GetTimeout(r)
    BY <1>4, <1>a, <1>b DEF GetTimeout, connVars, Using
  <1>5. CASE TakeCheck(r) /\ status[conn[r]] = "Idle"
    BY <1>5, <1>a, <1>b DEF TakeCheck, connVars, Using
  <1>6. CASE Take(r)
    <2>1. status[conn[r]] # "new" /\ Using(r)
      BY <1>6 DEF Take, IInv, Known, Using
    <2>2. \A c \in Connections : (status[c] = "new")' = (status[c] = "new")
      BY <1>6, <2>1 DEF Take, IInv, TypeOK
    <2> QED
      BY <1>6, <1>a, <1>b, <2>2 DEF Take, Using
  <1>7. CASE Write(r)
    <2>1. rstate[r] = "taken" /\ UNCHANGED <<conn, offers, status, outcome>>
      BY <1>7 DEF Write, connVars
    <2>2. CASE r \in Http
      BY <1>7, <1>a, <1>b, <2>1, <2>2 DEF Write, Using
    <2>3. CASE r \notin Http
      BY <1>7, <1>a, <1>b, <2>1, <2>3 DEF Write, Using
    <2> QED
      BY <2>2, <2>3
  <1>8. CASE WriteError(r)
    BY <1>8, <1>a, <1>b DEF WriteError, Leave, connVars, Using
  <1>9. CASE Answer(r, FALSE)
    BY <1>9, <1>a, <1>b DEF Answer, Leave, Using
  <1>10. CASE NoAnswer(r)
    BY <1>10, <1>a, <1>b DEF NoAnswer, Leave, connVars, Using
  <1>11. CASE Upgrade(r)
    BY <1>11, <1>a, <1>b DEF Upgrade, Using
  <1>12. CASE UpgradeError(r)
    BY <1>12, <1>a, <1>b DEF UpgradeError, Leave, connVars, Using
  <1>13. CASE ReleaseCheck(r)
    <2>1. /\ Go(r, "releasing") /\ Using(r)
          /\ UNCHANGED <<conn, outcome, offers, status>>
      BY <1>13 DEF ReleaseCheck, connVars, Using
    <2> QED
      BY <2>1, JustGoes
  <1>14. CASE CloseFailed(r)
    <2>1. status[conn[r]] # "new"
      BY <1>14 DEF CloseFailed, IInv, Known
    <2>2. \A c \in Connections : (status[c] = "new")' = (status[c] = "new")
      BY <1>14, <2>1 DEF CloseFailed, Closed, IInv, TypeOK
    <2>3. /\ Go(r, "done") /\ ~Using(r)
          /\ UNCHANGED <<conn, outcome, offers>>
      BY <1>14 DEF CloseFailed, Using
    <2> QED
      BY <2>2, <2>3, JustGoes
  <1>15. CASE SessionEnd(r)
    BY <1>15, <1>a, <1>b DEF SessionEnd, Leave, connVars, Using
  <1>16. CASE Bye(r)
    <2>1. UNCHANGED <<rstate, conn, outcome, offers, status>>
      BY <1>16 DEF Bye, connVars, reqVars
    <2> QED
      BY <2>1 DEF Unseen, Using
  <1> QED
    BY <1>1, <1>2, <1>3, <1>4, <1>5, <1>6, <1>7, <1>8, <1>9, <1>10, <1>11, <1>12, <1>13,
       <1>14, <1>15, <1>16 DEF KeepsUse

\* Registration enlists the connection.
LEMMA RegisterEnlists ==
    ASSUME IInv, NEW c \in Connections, Register(c)
    PROVE  Lease!Enlist(c)
  <1> USE DEF Register, poolVars, connVars, reqVars, wireVars
  <1>1. \A d \in Connections : Users(d)' = Users(d)
    BY DEF Users, Using
  <1>2. Users(c) = {}
    BY DEF IInv, Known, Users
  <1>3. Standing[c] = "unknown" /\ Borrower[c] = None
    BY <1>2 DEF Standing, Borrower
  <1>4. Standing'[c] = "free" /\ Borrower'[c] = None
    <2>1. status'[c] = "Idle" /\ offers'[c] = 1
      BY DEF IInv, TypeOK
    <2> QED
      BY <1>1, <1>2, <2>1 DEF Standing, Borrower
  <1>5. \A d \in Connections \ {c} : status'[d] = status[d] /\ offers'[d] = offers[d]
    BY DEF IInv, TypeOK
  <1>6. /\ Standing' = [Standing EXCEPT ![c] = "free"]
        /\ Borrower' = [Borrower EXCEPT ![c] = None]
    BY <1>1, <1>4, <1>5, TurnLease
  <1>7. Borrower' = Borrower
    BY <1>3, <1>6 DEF Borrower
  <1>8. Answered' = Answered
    BY DEF Answered
  <1> QED
    BY <1>3, <1>6, <1>7, <1>8 DEF Lease!Enlist

\* To receive a connection from idle is to borrow it.
LEMMA ReceiveBorrows ==
    ASSUME IInv, IInv', NEW r \in Requests, NEW c \in Connections, Receive(r, c)
    PROVE  Lease!Borrow(r, c)
  <1> USE DEF Receive, Go, poolVars, wireVars
  <1>1. ~Using(r) /\ (Using(r))' /\ conn'[r] = c
    BY DEF Using, IInv, TypeOK
  <1>2. \A q \in Requests \ {r} : (Using(q))' = Using(q) /\ conn'[q] = conn[q]
    BY DEF Using, IInv, TypeOK
  <1>3. Users(c) = {} /\ status[c] # "new"
    BY DEF Users, IInv, OneUser, Known
  <1>4. Standing[c] = "free"
    BY <1>3 DEF Standing
  <1>5. \A d \in Connections \ {c} : Users(d)' = Users(d)
    BY <1>1, <1>2 DEF Users
  <1>6. Standing'[c] = "lent" /\ Borrower'[c] = r
    <2>1. Users(c)' = {r}
      BY <1>1, <1>2, <1>3 DEF Users
    <2>2. (CHOOSE q \in {r} : TRUE) = r
      OBVIOUS
    <2> QED
      BY <1>3, <2>1, <2>2 DEF Standing, Borrower
  <1>7. \A d \in Connections \ {c} : status'[d] = status[d] /\ offers'[d] = offers[d]
    BY DEF IInv, TypeOK
  <1>8. /\ Standing' = [Standing EXCEPT ![c] = "lent"]
        /\ Borrower' = [Borrower EXCEPT ![c] = r]
    BY <1>5, <1>6, <1>7, TurnLease
  <1>9. \A d \in Connections : Borrower[d] # r
    BY <1>1, IdleBorrowsNothing
  <1>10. Answered' = Answered
    BY DEF Answered
  <1> QED
    BY <1>4, <1>8, <1>9, <1>10 DEF Lease!Borrow

\* A request that stops using its connection returns it: free if it offered
\* it, spoiled if not.
LEMMA StopReturns ==
    ASSUME IInv, NEW r \in Requests, Using(r), (~Using(r))',
           \A q \in Requests \ {r} : (Using(q))' = Using(q) /\ conn'[q] = conn[q],
           \A d \in Connections : (status[d] = "new")' = (status[d] = "new"),
           \A d \in Connections \ {conn[r]} : offers'[d] = offers[d],
           UNCHANGED outcome
    PROVE  Lease!Return(r, conn[r])
  <1>1. conn[r] \in Connections /\ Users(conn[r]) = {r} /\ Borrower[conn[r]] = r
    BY UserBorrows
  <1>2. \A d \in Connections \ {conn[r]} : Users(d)' = Users(d)
    BY <1>1 DEF Users
  <1>3. Users(conn[r])' \subseteq Requests
    BY DEF Users
  <1>4. {q \in Requests : (Using(q))' /\ conn'[q] = conn[r]} = {}
    BY <1>1 DEF Users
  <1>5. status[conn[r]] # "new"
    BY DEF IInv, Known
  <1>6. Standing'[conn[r]] \in {"free", "spoiled"} /\ Borrower'[conn[r]] = None
    BY <1>1, <1>4, <1>5 DEF Standing, Borrower, Users
  <1>7. /\ Standing' = [Standing EXCEPT ![conn[r]] = Standing'[conn[r]]]
        /\ Borrower' = [Borrower EXCEPT ![conn[r]] = None]
    BY <1>1, <1>2, <1>6, TurnLease
  <1>8. Answered' = Answered
    BY DEF Answered
  <1> QED
    BY <1>1, <1>6, <1>7, <1>8 DEF Lease!Return

\* The end of a use: Take finds the connection not Idle, Release finds it
\* Closed, or offers it again.
LEMMA EndReturns ==
    ASSUME IInv, NEW r \in Requests,
           EndsUse(r)
    PROVE  Lease!Return(r, conn[r])
  <1>1. ASSUME NEW to, Go(r, to), to \in {"waiting", "closing", "done"}
        PROVE  (~Using(r))' /\ \A q \in Requests \ {r} : (Using(q))' = Using(q)
    BY <1>1 DEF Go, Using, IInv, TypeOK
  <1>2. CASE TakeCheck(r) /\ status[conn[r]] # "Idle"
    <2>1. Using(r) /\ Go(r, "waiting") /\ UNCHANGED <<status, offers, outcome>>
      BY <1>2 DEF TakeCheck, Using, connVars
    <2>2. \A q \in Requests \ {r} : conn'[q] = conn[q]
      BY <1>2 DEF TakeCheck, IInv, TypeOK
    <2> QED
      BY <1>1, <2>1, <2>2, StopReturns
  <1>3. CASE ReleaseClosed(r)
    <2>1. Using(r) /\ UNCHANGED <<status, offers, outcome, conn>>
      BY <1>3 DEF ReleaseClosed, Using, connVars
    <2>2. Go(r, "closing") \/ Go(r, "done")
      BY <1>3 DEF ReleaseClosed, Released
    <2>3. (~Using(r))' /\ \A q \in Requests \ {r} : (Using(q))' = Using(q)
      BY <1>1, <2>2
    <2> QED
      BY <2>1, <2>3, StopReturns
  <1>4. CASE Release(r)
    <2>1. Using(r) /\ UNCHANGED <<outcome, conn>>
      BY <1>4 DEF Release, Using
    <2>2. Go(r, "closing") \/ Go(r, "done")
      BY <1>4 DEF Release, Released
    <2>3. (~Using(r))' /\ \A q \in Requests \ {r} : (Using(q))' = Using(q)
      BY <1>1, <2>2
    <2>4. status[conn[r]] # "new"
      BY <2>1 DEF IInv, Known
    <2>5. \A d \in Connections : (status[d] = "new")' = (status[d] = "new")
      BY <1>4, <2>4 DEF Release, IInv, TypeOK
    <2>6. \A d \in Connections \ {conn[r]} : offers'[d] = offers[d]
      BY <1>4 DEF Release, IInv, TypeOK
    <2> QED
      BY <2>1, <2>3, <2>5, <2>6, StopReturns
  <1> QED
    BY <1>2, <1>3, <1>4 DEF EndsUse

\* The answer satisfies the request that borrows the connection.
LEMMA AnswerSatisfies ==
    ASSUME IInv, Undecided, NEW r \in Requests, Answer(r, TRUE)
    PROVE  Lease!Satisfy(r, conn[r])
  <1>1. Using(r) /\ outcome[r] # "answered"
    BY DEF Answer, Using, Undecided
  <1>2. Borrower[conn[r]] = r
    BY <1>1, UserBorrows
  <1>3. rstate' = [rstate EXCEPT ![r] = "leaving"] /\ outcome' = [outcome EXCEPT ![r] = "answered"]
        /\ UNCHANGED <<conn, offers, status>>
    BY DEF Answer, Leave, Go
  <1>4. \A q \in Requests : (Using(q))' = Using(q)
    BY <1>1, <1>3 DEF Using, IInv, TypeOK
  <1>5. \A c \in Connections : Users(c)' = Users(c)
    BY <1>3, <1>4 DEF Users
  <1>6. Standing' = Standing /\ Borrower' = Borrower
    <2>1. \A c \in Connections : Standing'[c] = Standing[c] /\ Borrower'[c] = Borrower[c]
      BY <1>3, <1>5, Frame
    <2>2. Standing' = Standing
      BY <2>1 DEF Standing
    <2>3. Borrower' = Borrower
      BY <2>1 DEF Borrower
    <2> QED
      BY <2>2, <2>3
  <1>7. Answered' = Answered \cup {r} /\ r \notin Answered
    <2>1. \A q \in Requests : outcome'[q] = (IF q = r THEN "answered" ELSE outcome[q])
      BY <1>3 DEF IInv, TypeOK
    <2> QED
      BY <1>1, <2>1 DEF Answered
  <1> QED
    BY <1>2, <1>6, <1>7 DEF Lease!Satisfy

LEMMA LeaseStep ==
    IInv /\ IInv' /\ Undecided /\ Registered /\ [Next]_vars => [Lease!LeaseNext]_(Lease!leaseVars)
  <1> SUFFICES ASSUME IInv, IInv', Undecided, Registered, [Next]_vars
               PROVE  Lease!LeaseNext \/ UNCHANGED Lease!leaseVars
    OBVIOUS
  <1>1. ASSUME NEW c \in Connections, Register(c) PROVE Lease!LeaseNext
    BY <1>1, RegisterEnlists DEF Lease!LeaseNext
  <1>2. ASSUME NEW c \in Connections,
               Enter(c) \/ WritePump(c) \/ Relays(c) \/ Peer(c) \/ PeerGone(c) \/ Clean
                 \/ JanitorStart \/ JanitorEnd \/ Shutdown
        PROVE  UNCHANGED Lease!leaseVars
    BY <1>2, ServerUnseen, UnseenStutters
  <1>3. ASSUME NEW r \in Requests, NEW c \in Connections, Receive(r, c) PROVE Lease!LeaseNext
    BY <1>3, ReceiveBorrows DEF Lease!LeaseNext
  <1>4. ASSUME NEW r \in Requests, Answer(r, TRUE) PROVE Lease!LeaseNext
    <2>1. conn[r] \in Connections
      BY <1>4, UserBorrows DEF Answer, Using
    <2> QED
      BY <1>4, <2>1, AnswerSatisfies DEF Lease!LeaseNext
  <1>5. ASSUME NEW r \in Requests, EndsUse(r) PROVE Lease!LeaseNext
    <2>1. Using(r)
      BY <1>5 DEF EndsUse, TakeCheck, ReleaseClosed, Release, Using
    <2>2. conn[r] \in Connections
      BY <2>1, UserBorrows
    <2> QED
      BY <1>5, <2>2, EndReturns DEF Lease!LeaseNext
  <1>6. ASSUME NEW r \in Requests, Handler(r)
        PROVE  Lease!LeaseNext \/ UNCHANGED Lease!leaseVars
    <2>1. ASSUME NEW ok \in BOOLEAN, Answer(r, ok) PROVE Lease!LeaseNext \/ UNCHANGED Lease!leaseVars
      <3>1. CASE ok = TRUE
        BY <1>4, <2>1, <3>1
      <3>2. CASE ok = FALSE
        BY <2>1, <3>2, RequestUnseen, UnseenStutters
      <3> QED
        BY <3>1, <3>2
    <2>2. CASE KeepsUse(r)
      BY <2>2, RequestUnseen, UnseenStutters
    <2>3. \/ KeepsUse(r) \/ EndsUse(r)
          \/ \E c \in Connections : Receive(r, c)
          \/ \E ok \in BOOLEAN : Answer(r, ok)
      BY <1>6, Zenon DEF Handler, KeepsUse, EndsUse
    <2> QED
      BY <1>3, <1>5, <2>1, <2>2, <2>3
  <1>7. ASSUME NEW r \in Sessions, SessionEnd(r) \/ Bye(r) PROVE UNCHANGED Lease!leaseVars
    <2>1. r \in Requests
      BY DEF Requests
    <2> QED
      BY <1>7, <2>1, RequestUnseen, UnseenStutters
  <1>8. CASE UNCHANGED vars
    <2>1. Unseen
      BY <1>8 DEF vars, connVars, reqVars, Unseen, Using
    <2> QED
      BY <2>1, UnseenStutters
  <1>9. ASSUME NEW c \in Connections, Registration(c)
        PROVE  Lease!LeaseNext \/ UNCHANGED Lease!leaseVars
    BY <1>1, <1>2, <1>9 DEF Registration
  <1>10. CASE Clean \/ JanitorStart \/ JanitorEnd \/ Shutdown
    <2>1. CASE Connections = {}
      BY <1>10, <2>1, QuietLease DEF Clean, JanitorStart, JanitorEnd, Shutdown, Answered, reqVars
    <2>2. CASE Connections # {}
      BY <1>2, <1>10, <2>2
    <2> QED
      BY <2>1, <2>2
  <1> QED
    BY <1>2, <1>6, <1>7, <1>8, <1>9, <1>10 DEF Next

LEMMA LeaseStart == Init => Lease!LeaseInit
  <1> SUFFICES ASSUME Init PROVE Lease!LeaseInit
    OBVIOUS
  <1>1. \A c \in Connections : Users(c) = {}
    BY DEF Init, Users, Using
  <1> QED
    BY <1>1 DEF Init, Standing, Borrower, Answered, Lease!LeaseInit

\* The pool implements the exclusive lease, for any number of connections,
\* HTTP requests and sessions: ImplementsLease.
THEOREM Refinement == Spec => ImplementsLease
  <1>1. IInv /\ IInv' /\ Undecided /\ Registered /\ [Next]_vars => [Lease!LeaseNext]_(Lease!leaseVars)
    BY LeaseStep
  <1>2. Spec => []IInv
    BY Invariant
  <1> QED
    BY <1>1, <1>2, LeaseStart, UndecidedInit, UndecidedStep, RegisteredInit, RegisteredStep, PTL
       DEF Spec, ImplementsLease, Lease!LeaseSpec

-----------------------------------------------------------------------------
(* The answer a request takes is its own. *)

\* A session that wrote to the peer, and what it does from then on.
Later == {"upgrading", "session", "leaving", "releasing", "closing", "done"}
Spoke(c) == \E s \in Sessions : conn[s] = c /\ rstate[s] \in Later

\* The WritePump of the connection reads, or will.
Alive(c) == pump[c] \notin {"exit", "end"}

Awaits(m, c) == m \in Http /\ rstate[m] = "awaiting" /\ conn[m] = c

\* A request and its answer are in one place of the connection at a time.
Empty(c) == toPeer[c] = <<>> /\ toPool[c] = <<>> /\ pump[c] # "send"
Carries(c, m) ==
    \/ toPeer[c] = <<m>> /\ toPool[c] = <<>> /\ pump[c] # "send"
    \/ toPeer[c] = <<>> /\ toPool[c] = <<m>> /\ pump[c] # "send"
    \/ toPeer[c] = <<>> /\ toPool[c] = <<>> /\ pump[c] = "send" /\ held[c] = m

\* Before the first session: nothing is under way, or one request whose
\* handler waits for it.
Calm(c) ==
    /\ peer[c] \in {"serving", "gone"}
    /\ Empty(c) \/ \E m \in Http : Awaits(m, c) /\ Carries(c, m)

\* From then on: the peer answers no request, and only events come back.
Spoken(c) ==
    /\ Spoke(c)
    /\ peer[c] \in {"session", "mute", "gone"} \/ (toPeer[c] # <<>> /\ Head(toPeer[c]) \in Sessions)
    /\ toPool[c] \in Seq({Event})
    /\ pump[c] = "send" => held[c] = Event

\* After a refusal, or an HTTP request that was taken for a session: what
\* is left to read is the answer of the refused request, whose handler
\* waits for it, and the text that follows.
Refused(c) ==
    /\ peer[c] \in {"mute", "gone"}
    /\ \/ \E m \in Http :
            /\ Awaits(m, c)
            /\ \/ toPool[c] = <<m, ErrorBody>> /\ pump[c] # "send"
               \/ toPool[c] = <<ErrorBody>> /\ pump[c] = "send" /\ held[c] = m
       \/ toPool[c] \in {<<>>, <<ErrorBody>>} /\ pump[c] # "send"
       \/ toPool[c] = <<>> /\ pump[c] = "send" /\ held[c] = ErrorBody

Settled(c) == Calm(c) \/ Refused(c) \/ Spoken(c)

Wires == \A c \in Connections : Alive(c) => Settled(c)

\* A closed queue has no WritePump, the one of a connection starts once, and
\* only HTTP requests wait for an answer.
Pumps ==
    /\ \A c \in queueClosed : ~Alive(c)
    /\ \A c \in Connections : registering = c => pump[c] = "off"
    /\ \A r \in Requests : rstate[r] = "awaiting" => r \in Http

Heard ==
    \A r \in Http : outcome[r] = "answered" => got[r] = r \/ (got[r] = Event /\ Spoke(conn[r]))

LEMMA AnswersInit == Init => Wires /\ Pumps /\ Heard
  BY NamesAssumption DEF Init, Wires, Pumps, Heard, Alive, Settled, Calm, Empty, Requests

\* What a step leaves to the requests that wait, to the sessions that spoke
\* and to the requests that were answered.
Keeping ==
    /\ \A m \in Http : rstate[m] = "awaiting" => rstate'[m] = "awaiting" /\ conn'[m] = conn[m]
    /\ \A s \in Sessions : rstate[s] \in Later => rstate'[s] \in Later /\ conn'[s] = conn[s]
    /\ \A r \in Http : outcome'[r] = "answered" =>
         outcome[r] = "answered" /\ got'[r] = got[r] /\ conn'[r] = conn[r]

LEMMA SpokeOn ==
    ASSUME Keeping, NEW c, Spoke(c)
    PROVE  Spoke(c)'
  BY DEF Keeping, Spoke

LEMMA HeardOn ==
    ASSUME Keeping, Heard
    PROVE  Heard'
  BY SpokeOn DEF Keeping, Heard

\* A connection whose messages stay where they are.
LEMMA Still ==
    ASSUME Keeping, NEW c, Settled(c),
           toPeer'[c] = toPeer[c], toPool'[c] = toPool[c], peer'[c] = peer[c], held'[c] = held[c],
           (pump[c] = "send")' = (pump[c] = "send")
    PROVE  Settled(c)'
  <1>1. CASE Calm(c)
    <2>1. \A m : Awaits(m, c) => Awaits(m, c)'
      BY DEF Keeping, Awaits
    <2> QED
      BY <1>1, <2>1 DEF Settled, Calm, Empty, Carries
  <1>2. CASE Spoken(c)
    BY <1>2, SpokeOn DEF Settled, Spoken
  <1>3. CASE Refused(c)
    <2>1. \A m : Awaits(m, c) => Awaits(m, c)'
      BY DEF Keeping, Awaits
    <2> QED
      BY <1>3, <2>1 DEF Settled, Refused
  <1> QED
    BY <1>1, <1>2, <1>3 DEF Settled

\* A step that moves no message.
LEMMA Unmoved ==
    ASSUME Keeping, Wires, Heard, UNCHANGED <<toPeer, toPool, peer, held>>,
           \A c \in Connections : Alive(c)' => Alive(c) /\ (pump[c] = "send")' = (pump[c] = "send")
    PROVE  Wires' /\ Heard'
  BY Still, HeardOn DEF Wires

\* A step that moves the messages of one connection.
LEMMA MovedAt ==
    ASSUME Keeping, Wires, NEW d \in Connections,
           \A c \in Connections \ {d} :
               /\ toPeer'[c] = toPeer[c] /\ toPool'[c] = toPool[c] /\ peer'[c] = peer[c]
               /\ held'[c] = held[c] /\ pump'[c] = pump[c],
           Alive(d)' => Settled(d)'
    PROVE  Wires'
  <1>1. ASSUME NEW c \in Connections \ {d}, Alive(c)' PROVE Settled(c)'
    <2>1. Alive(c) /\ (pump[c] = "send")' = (pump[c] = "send")
      BY <1>1 DEF Alive
    <2>2. Settled(c)
      BY <2>1 DEF Wires
    <2> QED
      BY <2>1, <2>2, Still
  <1> QED
    BY <1>1 DEF Wires

\* The requests are left alone.
LEMMA NoRequest == UNCHANGED reqVars => Keeping
  BY DEF reqVars, Keeping

\* The WritePump reads the next message.
LEMMA PumpReadMoves ==
    ASSUME IInv, Wires, NEW c \in Connections, PumpRead(c)
    PROVE  Wires'
  <1>1. Keeping
    BY NoRequest DEF PumpRead
  <1>2. /\ toPool[c] # <<>> /\ pump[c] = "read" /\ pump'[c] = "send"
        /\ toPool'[c] = Tail(toPool[c]) /\ held'[c] = Head(toPool[c])
        /\ toPeer' = toPeer /\ peer' = peer
        /\ \A d \in Connections \ {c} : toPool'[d] = toPool[d] /\ held'[d] = held[d] /\ pump'[d] = pump[d]
    BY DEF PumpRead, IInv, TypeOK
  <1>3. Settled(c)
    BY <1>2 DEF Wires, Alive
  <1>4. CASE Calm(c)
    <2>1. PICK m \in Http : Awaits(m, c) /\ toPeer[c] = <<>> /\ toPool[c] = <<m>>
      BY <1>2, <1>4 DEF Calm, Empty, Carries
    <2>2. Awaits(m, c)'
      BY <1>1, <2>1 DEF Awaits, Keeping
    <2>3. Head(<<m>>) = m /\ Tail(<<m>>) = <<>>
      OBVIOUS
    <2> QED
      BY <1>1, <1>2, <1>4, <2>1, <2>2, <2>3, MovedAt DEF Settled, Calm, Carries
  <1>6. CASE Refused(c)
    <2>1. \A m : Awaits(m, c) => Awaits(m, c)'
      BY <1>1 DEF Awaits, Keeping
    <2>2. \A m : /\ Head(<<m, ErrorBody>>) = m /\ Tail(<<m, ErrorBody>>) = <<ErrorBody>>
                /\ Head(<<ErrorBody>>) = ErrorBody /\ Tail(<<ErrorBody>>) = <<>>
      OBVIOUS
    <2>3. \/ \E m \in Http : Awaits(m, c) /\ toPool[c] = <<m, ErrorBody>>
          \/ toPool[c] = <<ErrorBody>>
      BY <1>2, <1>6 DEF Refused
    <2>4. Refused(c)'
      BY <1>2, <1>6, <2>1, <2>2, <2>3 DEF Refused
    <2> QED
      BY <1>1, <1>2, <2>4, MovedAt DEF Settled
  <1>5. CASE Spoken(c)
    <2>1. Head(toPool[c]) = Event /\ Tail(toPool[c]) \in Seq({Event})
      BY <1>2, <1>5 DEF Spoken
    <2>2. Spoke(c)'
      BY <1>1, <1>5, SpokeOn DEF Spoken
    <2> QED
      BY <1>1, <1>2, <1>5, <2>1, <2>2, MovedAt DEF Settled, Spoken
  <1> QED
    BY <1>3, <1>4, <1>5, <1>6 DEF Settled

\* A request the peer is about to serve is all that is under way.
LEMMA ServingCarries ==
    ASSUME Wires, NEW c \in Connections, Alive(c), peer[c] = "serving",
           toPeer[c] # <<>>, Head(toPeer[c]) \in Http
    PROVE  \E m \in Http : /\ Awaits(m, c) /\ toPeer[c] = <<m>> /\ toPool[c] = <<>>
                           /\ pump[c] # "send"
  <1>1. ~Spoken(c) /\ ~Refused(c)
    BY NamesAssumption DEF Spoken, Refused
  <1> QED
    BY <1>1 DEF Wires, Settled, Calm, Empty, Carries

\* The peer answers a request.
LEMMA PeerAnswerMoves ==
    ASSUME IInv, Wires, NEW c \in Connections, PeerAnswer(c)
    PROVE  Wires'
  <1>1. Keeping
    BY NoRequest DEF PeerAnswer
  <1>2. /\ peer[c] = "serving" /\ toPeer[c] # <<>> /\ Head(toPeer[c]) \in Http
        /\ toPool'[c] = Append(toPool[c], Head(toPeer[c])) /\ toPeer'[c] = Tail(toPeer[c])
        /\ pump' = pump /\ held' = held /\ peer' = peer
        /\ \A d \in Connections \ {c} : toPool'[d] = toPool[d] /\ toPeer'[d] = toPeer[d]
    BY DEF PeerAnswer, connVars, IInv, TypeOK
  <1>3. ASSUME Alive(c) PROVE Calm(c)'
    <2>2. PICK m \in Http : /\ Awaits(m, c) /\ toPeer[c] = <<m>> /\ toPool[c] = <<>>
                            /\ pump[c] # "send" /\ peer[c] = "serving"
      BY <1>2, <1>3, ServingCarries
    <2>3. Awaits(m, c)'
      BY <1>1, <2>2 DEF Awaits, Keeping
    <2>4. Append(<<>>, m) = <<m>> /\ Head(<<m>>) = m /\ Tail(<<m>>) = <<>>
      OBVIOUS
    <2> QED
      BY <1>2, <2>2, <2>3, <2>4 DEF Calm, Carries
  <1> QED
    BY <1>1, <1>2, <1>3, MovedAt DEF Alive, Settled

\* The peer refuses a request.
LEMMA PeerRefuseMoves ==
    ASSUME IInv, Wires, NEW c \in Connections, PeerRefuse(c)
    PROVE  Wires'
  <1>1. Keeping
    BY NoRequest DEF PeerRefuse
  <1>2. /\ peer[c] = "serving" /\ toPeer[c] # <<>> /\ Head(toPeer[c]) \in Http
        /\ toPool'[c] = toPool[c] \o <<Head(toPeer[c]), ErrorBody>> /\ peer'[c] = "mute"
        /\ pump' = pump /\ held' = held
        /\ \A d \in Connections \ {c} : toPool'[d] = toPool[d] /\ toPeer'[d] = toPeer[d] /\ peer'[d] = peer[d]
    BY DEF PeerRefuse, connVars, IInv, TypeOK
  <1>3. ASSUME Alive(c) PROVE Refused(c)'
    <2>2. PICK m \in Http : /\ Awaits(m, c) /\ toPeer[c] = <<m>> /\ toPool[c] = <<>>
                            /\ pump[c] # "send" /\ peer[c] = "serving"
      BY <1>2, <1>3, ServingCarries
    <2>3. Awaits(m, c)'
      BY <1>1, <2>2 DEF Awaits, Keeping
    <2>4. <<>> \o <<m, ErrorBody>> = <<m, ErrorBody>> /\ Head(<<m>>) = m
      OBVIOUS
    <2>5. toPool'[c] = <<m, ErrorBody>>
      BY <1>2, <2>2, <2>4
    <2> QED
      BY <1>2, <2>2, <2>3, <2>5 DEF Refused
  <1> QED
    BY <1>1, <1>2, <1>3, MovedAt DEF Alive, Settled

\* A session begins at the peer, or a request is taken for one.
LEMMA PeerSessionMoves ==
    ASSUME IInv, Wires, NEW c \in Connections, NEW user \in BOOLEAN, PeerSession(c, user)
    PROVE  Wires'
  <1>1. Keeping
    BY NoRequest DEF PeerSession
  <1>2. /\ peer[c] = "serving" /\ toPeer[c] # <<>> /\ Head(toPeer[c]) \in Requests
        /\ Head(toPeer[c]) \in Http => peer'[c] = "mute"
        /\ peer'[c] \in {"session", "mute"} /\ toPeer'[c] = Tail(toPeer[c])
        /\ pump' = pump /\ held' = held /\ toPool' = toPool
        /\ \A d \in Connections \ {c} : peer'[d] = peer[d] /\ toPeer'[d] = toPeer[d]
    BY NamesAssumption DEF PeerSession, connVars, IInv, TypeOK
  <1>3. ASSUME Alive(c), Head(toPeer[c]) \in Sessions PROVE Spoken(c)'
    <2>1. ~Calm(c) /\ ~Refused(c)
      <3>1. \A m \in Http : toPeer[c] # <<m>>
        BY <1>3, NamesAssumption
      <3> QED
        BY <1>2, <3>1 DEF Calm, Empty, Carries, Refused
    <2>2. Spoken(c)
      BY <1>3, <2>1 DEF Wires, Settled
    <2>3. Spoke(c)'
      BY <1>1, <2>2, SpokeOn DEF Spoken
    <2> QED
      BY <1>2, <2>2, <2>3 DEF Spoken
  <1>4. ASSUME Alive(c), Head(toPeer[c]) \in Http PROVE Refused(c)'
    <2>1. toPool[c] = <<>> /\ pump[c] # "send"
      BY <1>2, <1>4, ServingCarries
    <2> QED
      BY <1>2, <1>4, <2>1 DEF Refused
  <1> QED
    BY <1>1, <1>2, <1>3, <1>4, MovedAt DEF Alive, Settled, Requests

\* The stream sends an event, or passes over a message.
LEMMA PeerStreamMoves ==
    ASSUME IInv, Wires, NEW c \in Connections, PeerEvent(c) \/ PeerIgnore(c)
    PROVE  Wires'
  <1>1. Keeping
    BY NoRequest DEF PeerEvent, PeerIgnore
  <1>2. /\ peer[c] = "session" /\ peer' = peer /\ pump' = pump /\ held' = held
        /\ toPool'[c] = toPool[c] \/ toPool'[c] = <<Event>>
        /\ \A d \in Connections \ {c} : toPool'[d] = toPool[d] /\ toPeer'[d] = toPeer[d]
    BY DEF PeerEvent, PeerIgnore, connVars, IInv, TypeOK
  <1>3. ASSUME Alive(c) PROVE Spoken(c)'
    <2>1. Spoken(c)
      BY <1>2, <1>3 DEF Wires, Settled, Calm, Refused
    <2>2. Spoke(c)'
      BY <1>1, <2>1, SpokeOn DEF Spoken
    <2>3. toPool'[c] \in Seq({Event})
      <3>1. <<Event>> \in Seq({Event})
        OBVIOUS
      <3> QED
        BY <1>2, <2>1, <3>1 DEF Spoken
    <2> QED
      BY <1>2, <2>1, <2>2, <2>3 DEF Spoken
  <1> QED
    BY <1>1, <1>2, <1>3, MovedAt DEF Alive, Settled

\* The peer is gone.
LEMMA PeerGoneMoves ==
    ASSUME IInv, Wires, NEW c \in Connections, PeerGone(c)
    PROVE  Wires'
  <1>1. Keeping
    BY NoRequest DEF PeerGone
  <1>2. /\ peer'[c] = "gone" /\ UNCHANGED <<pump, held, toPool, toPeer>>
        /\ \A d \in Connections \ {c} : peer'[d] = peer[d]
    BY DEF PeerGone, connVars, IInv, TypeOK
  <1>3. ASSUME Alive(c) PROVE Settled(c)'
    <2>1. CASE Calm(c)
      <3>1. \A m : Awaits(m, c) => Awaits(m, c)'
        BY <1>1 DEF Awaits, Keeping
      <3> QED
        BY <1>2, <2>1, <3>1 DEF Settled, Calm, Empty, Carries
    <2>2. CASE Spoken(c)
      BY <1>1, <1>2, <2>2, SpokeOn DEF Settled, Spoken
    <2>3. CASE Refused(c)
      <3>1. \A m : Awaits(m, c) => Awaits(m, c)'
        BY <1>1 DEF Awaits, Keeping
      <3> QED
        BY <1>2, <2>3, <3>1 DEF Settled, Refused
    <2> QED
      BY <1>3, <2>1, <2>2, <2>3 DEF Wires, Settled
  <1> QED
    BY <1>1, <1>2, <1>3, MovedAt DEF Alive

\* A goroutine of a session takes a message, and perhaps not its own.
LEMMA RelayMoves ==
    ASSUME IInv, Wires, NEW c \in Connections, NEW r \in Sessions, Relay(r, c)
    PROVE  Wires'
  <1>1. Keeping
    BY NoRequest DEF Relay
  <1>2. /\ pump[c] = "send" /\ pump'[c] = "head" /\ UNCHANGED <<toPool, toPeer, peer>>
        /\ \A d \in Connections \ {c} : pump'[d] = pump[d] /\ held'[d] = held[d]
    BY DEF Relay, Sent, wireVars, IInv, TypeOK
  <1>3. Settled(c)
    BY <1>2 DEF Wires, Alive
  <1>4. CASE Calm(c)
    BY <1>1, <1>2, <1>4, MovedAt DEF Settled, Calm, Empty, Carries
  <1>5. CASE Spoken(c)
    <2>1. Spoke(c)'
      BY <1>1, <1>5, SpokeOn DEF Spoken
    <2> QED
      BY <1>1, <1>2, <1>5, <2>1, MovedAt DEF Settled, Spoken
  <1>6. CASE Refused(c)
    <2>1. Refused(c)'
      BY <1>2, <1>6 DEF Refused
    <2> QED
      BY <1>1, <1>2, <2>1, MovedAt DEF Settled
  <1> QED
    BY <1>3, <1>4, <1>5, <1>6 DEF Settled

\* The steps that are not a handler's.
LEMMA ServerAnswers ==
    ASSUME IInv, Wires, Heard, Pumps, NEW c \in Connections,
           Registration(c) \/ WritePump(c) \/ Relays(c) \/ Peer(c) \/ PeerGone(c)
    PROVE  Wires' /\ Heard'
  <1>1. Keeping
    BY NoRequest DEF Registration, Register, Enter, WritePump, PumpHead, PumpRead, PumpError,
       PumpExit, Relays, Relay, RelayEnd, Peer, PeerAnswer, PeerRefuse, PeerSession, PeerEvent, PeerIgnore, PeerGone
  <1>2. Heard'
    BY <1>1, HeardOn
  <1>3. CASE Register(c)
    BY <1>1, <1>3, Unmoved DEF Register, wireVars, Alive
  <1>4. CASE Enter(c)
    <2>1. pump[c] = "off" /\ pump' = [pump EXCEPT ![c] = "head"]
      BY <1>4 DEF Enter, Pumps
    <2>2. \A d \in Connections : Alive(d)' => Alive(d) /\ (pump[d] = "send")' = (pump[d] = "send")
      BY <2>1 DEF Alive, IInv, TypeOK
    <2> QED
      BY <1>1, <1>4, <2>2, Unmoved DEF Enter, wireVars
  <1>5. CASE PumpHead(c) \/ PumpError(c) \/ PumpExit(c)
    <2>1. \A d \in Connections : Alive(d)' => Alive(d) /\ (pump[d] = "send")' = (pump[d] = "send")
      BY <1>5 DEF PumpHead, PumpError, PumpExit, Alive, IInv, TypeOK
    <2> QED
      BY <1>1, <1>5, <2>1, Unmoved DEF PumpHead, PumpError, PumpExit, wireVars
  <1>6. ASSUME NEW r \in Sessions, RelayEnd(r, c) PROVE Wires'
    BY <1>1, <1>6, Unmoved DEF RelayEnd, wireVars, Alive
  <1>7. CASE PumpRead(c) \/ Peer(c) \/ PeerGone(c)
    <2>1. ASSUME NEW user \in BOOLEAN, PeerSession(c, user) PROVE Wires'
      BY <2>1, PeerSessionMoves
    <2> QED
      BY <1>2, <1>7, <2>1, PumpReadMoves, PeerAnswerMoves, PeerRefuseMoves, PeerStreamMoves, PeerGoneMoves DEF Peer
  <1> QED
    BY <1>2, <1>3, <1>4, <1>5, <1>6, <1>7, RelayMoves DEF Registration, WritePump, Relays

\* The cleaning and the shutdown.
LEMMA CleaningAnswers ==
    ASSUME Wires, Heard, Clean \/ JanitorStart \/ JanitorEnd \/ Shutdown
    PROVE  Wires' /\ Heard'
  <1>1. UNCHANGED <<reqVars, pump, held, toPeer, toPool, peer>>
    <2>1. ASSUME Clean PROVE UNCHANGED <<reqVars, pump, held, toPeer, toPool, peer>>
      BY <2>1 DEF Clean, CleanLook, CleanClose, connVars, wireVars
    <2> QED
      BY <2>1 DEF JanitorStart, JanitorEnd, Shutdown, connVars, wireVars
  <1> QED
    BY <1>1, NoRequest, Unmoved DEF Alive

\* A request that is not waiting for its answer goes on, undecided or to an
\* end that is no answer.
LEMMA KeepingMove ==
    ASSUME IInv, Undecided, NEW r \in Requests, NEW to, Go(r, to), rstate[r] # "awaiting",
           rstate[r] \in Later => to \in Later,
           conn' = conn \/ (rstate[r] \in {"waiting", "received"} /\ \E c : conn' = [conn EXCEPT ![r] = c]),
           outcome' = outcome \/ \E how : how # "answered" /\ outcome' = [outcome EXCEPT ![r] = how],
           UNCHANGED got
    PROVE  Keeping
  <1>1. rstate'[r] = to /\ \A q \in Requests \ {r} : rstate'[q] = rstate[q] /\ conn'[q] = conn[q]
    BY DEF Go, IInv, TypeOK
  <1>2. rstate[r] \in {"waiting", "received"} => rstate[r] \notin Later /\ outcome[r] # "answered"
    BY DEF Later, Undecided
  <1>3. \A q \in Requests : outcome'[q] = "answered" => outcome[q] = "answered"
    BY DEF IInv, TypeOK
  <1>4. outcome'[r] = "answered" => conn'[r] = conn[r]
    BY <1>2, <1>3
  <1>5. rstate[r] \in Later => conn'[r] = conn[r]
    BY <1>2
  <1> QED
    BY <1>1, <1>3, <1>4, <1>5 DEF Keeping, Requests

\* The steps of a handler that send and take no message.
Aside(r) ==
    \/ GetPool(r) \/ IsEmptyStart(r) \/ IsEmptyEnd(r) \/ GetTimeout(r)
    \/ \E c \in Connections : Receive(r, c)
    \/ TakeCheck(r) \/ Take(r) \/ WriteError(r)
    \/ Upgrade(r) \/ UpgradeError(r)
    \/ ReleaseClosed(r) \/ ReleaseCheck(r) \/ Release(r) \/ CloseFailed(r)

LEMMA AsideKeeps ==
    ASSUME IInv, Undecided, NEW r \in Requests, Aside(r)
    PROVE  Keeping
  <1> USE KeepingMove DEF Later
  <1>1. CASE GetPool(r)
    <2>1. CASE pool = "removed"
      BY <1>1, <2>1 DEF GetPool
    <2>2. CASE pool # "removed"
      BY <1>1, <2>2 DEF GetPool
    <2> QED
      BY <2>1, <2>2
  <1>2. CASE IsEmptyStart(r)
    BY <1>2 DEF IsEmptyStart
  <1>3. CASE IsEmptyEnd(r)
    <2>1. rstate[r] = "cleaning"
      BY <1>3 DEF IsEmptyEnd, CleanEnd, IInv, Known
    <2>2. CASE members = {}
      BY <1>3, <2>1, <2>2 DEF IsEmptyEnd
    <2>3. CASE members # {}
      BY <1>3, <2>1, <2>3 DEF IsEmptyEnd
    <2> QED
      BY <2>2, <2>3
  <1>4. CASE GetTimeout(r)
    BY <1>4 DEF GetTimeout
  <1>5. ASSUME NEW c \in Connections, Receive(r, c) PROVE Keeping
    BY <1>5 DEF Receive
  <1>6. CASE TakeCheck(r)
    <2>1. CASE status[conn[r]] = "Idle"
      BY <1>6, <2>1 DEF TakeCheck
    <2>2. CASE status[conn[r]] # "Idle"
      BY <1>6, <2>2 DEF TakeCheck
    <2> QED
      BY <2>1, <2>2
  <1>7. CASE Take(r)
    BY <1>7 DEF Take
  <1>8. CASE WriteError(r)
    BY <1>8 DEF WriteError, Leave
  <1>9. CASE Upgrade(r)
    BY <1>9 DEF Upgrade
  <1>10. CASE UpgradeError(r)
    BY <1>10 DEF UpgradeError, Leave
  <1>11. CASE ReleaseCheck(r)
    BY <1>11 DEF ReleaseCheck
  <1>12. CASE CloseFailed(r)
    BY <1>12 DEF CloseFailed
  <1>13. ASSUME rstate[r] = "leaving" \/ rstate[r] = "releasing", Released(r),
                UNCHANGED <<conn, outcome, got>>
         PROVE  Keeping
    BY <1>13 DEF Released
  <1>14. CASE ReleaseClosed(r)
    BY <1>13, <1>14 DEF ReleaseClosed
  <1>15. CASE Release(r)
    BY <1>13, <1>15 DEF Release
  <1> QED
    BY <1>1, <1>2, <1>3, <1>4, <1>5, <1>6, <1>7, <1>8, <1>9, <1>10, <1>11, <1>12, <1>14, <1>15
       DEF Aside

LEMMA AsideAnswers ==
    ASSUME IInv, Undecided, Wires, Heard, NEW r \in Requests, Aside(r)
    PROVE  Wires' /\ Heard'
  <1>1. UNCHANGED <<pump, held, toPeer, toPool, peer>>
    BY DEF Aside, GetPool, IsEmptyStart, IsEmptyEnd, GetTimeout, Receive, TakeCheck, Take,
           WriteError, Upgrade, UpgradeError, ReleaseClosed, ReleaseCheck, Release, CloseFailed,
           connVars, wireVars
  <1> QED
    BY <1>1, AsideKeeps, Unmoved DEF Alive

\* A request or a session goes to the peer: nothing else is under way on a
\* connection no session used.
LEMMA WriteAnswers ==
    ASSUME IInv, Undecided, Wires, Heard, NEW r \in Requests, Write(r)
    PROVE  Wires' /\ Heard'
  <1>1. PICK c \in Connections : conn[r] = c
    BY DEF Write, Using, IInv, Known
  <1>2. /\ conn[r] = c /\ rstate[r] = "taken" /\ toPeer'[c] = Append(toPeer[c], r)
        /\ UNCHANGED <<conn, outcome, got, pump, held, toPool, peer>>
        /\ \A d \in Connections \ {c} : toPeer'[d] = toPeer[d]
    BY <1>1 DEF Write, connVars, IInv, TypeOK
  <1>3. rstate'[r] = IF r \in Http THEN "awaiting" ELSE "upgrading"
    BY DEF Write, Go, IInv, TypeOK
  <1>4. Keeping
    <2>1. CASE r \in Http
      BY <1>2, <2>1, KeepingMove DEF Write, Later
    <2>2. CASE r \notin Http
      BY <1>2, <2>2, KeepingMove DEF Write, Later
    <2> QED
      BY <2>1, <2>2
  <1>5. ASSUME Calm(c) PROVE Empty(c)
    <2>1. ASSUME NEW m \in Http, Awaits(m, c) PROVE FALSE
      <3>1. Using(m) /\ Using(r) /\ m \in Requests
        BY <1>2, <2>1 DEF Using, Awaits, Requests
      <3>2. m = r
        BY <1>2, <2>1, <3>1 DEF IInv, OneUser, Awaits
      <3> QED
        BY <1>2, <2>1, <3>2 DEF Awaits
    <2> QED
      BY <1>5, <2>1 DEF Calm
  <1>6. CASE Calm(c)
    <2>1. toPeer'[c] = <<r>>
      <3>1. Append(<<>>, r) = <<r>>
        OBVIOUS
      <3> QED
        BY <1>2, <1>5, <1>6, <3>1 DEF Empty
    <2>2. CASE r \in Http
      <3>1. Awaits(r, c)'
        BY <1>2, <1>3, <2>2 DEF Awaits
      <3>2. Calm(c)'
        BY <1>2, <1>5, <1>6, <2>1, <2>2, <3>1 DEF Calm, Carries, Empty
      <3> QED
        BY <1>1, <1>2, <1>4, <3>2, MovedAt, HeardOn DEF Settled
    <2>3. CASE r \in Sessions
      <3>1. r \notin Http
        BY <2>3, NamesAssumption
      <3>2. Spoke(c)'
        BY <1>2, <1>3, <2>3, <3>1 DEF Spoke, Later
      <3>3. Head(<<r>>) = r /\ <<r>> # <<>> /\ <<>> \in Seq({Event})
        OBVIOUS
      <3>4. toPool'[c] = <<>> /\ pump'[c] # "send"
        BY <1>2, <1>5, <1>6 DEF Empty
      <3>5. Spoken(c)'
        BY <1>2, <2>1, <2>3, <3>2, <3>3, <3>4 DEF Spoken
      <3> QED
        BY <1>1, <1>2, <1>4, <3>5, MovedAt, HeardOn DEF Settled
    <2> QED
      BY <2>2, <2>3 DEF Requests
  <1>7. CASE Spoken(c)
    <2>1. toPeer[c] \in Seq(Requests)
      BY <1>1 DEF IInv, TypeOK
    <2>2. toPeer[c] # <<>> => toPeer'[c] # <<>> /\ Head(toPeer'[c]) = Head(toPeer[c])
      <3>1. \A q \in Seq(Requests) :
              q # <<>> => Append(q, r) # <<>> /\ Head(Append(q, r)) = Head(q)
        OBVIOUS
      <3> QED
        BY <1>2, <2>1, <3>1
    <2>3. Spoke(c)'
      BY <1>4, <1>7, SpokeOn DEF Spoken
    <2>4. Spoken(c)'
      BY <1>2, <1>7, <2>2, <2>3 DEF Spoken
    <2> QED
      BY <1>1, <1>2, <1>4, <2>4, MovedAt, HeardOn DEF Settled
  <1>9. CASE Refused(c)
    <2>1. \A m : Awaits(m, c) => Awaits(m, c)'
      BY <1>4 DEF Awaits, Keeping
    <2>2. Refused(c)'
      BY <1>2, <1>9, <2>1 DEF Refused
    <2> QED
      BY <1>1, <1>2, <1>4, <2>2, MovedAt, HeardOn DEF Settled
  <1>8. CASE ~Alive(c)
    BY <1>1, <1>2, <1>4, <1>8, MovedAt, HeardOn DEF Alive
  <1> QED
    BY <1>1, <1>6, <1>7, <1>8, <1>9 DEF Wires, Settled

\* A request takes the message from queue: before the first session it is
\* the answer to the one request under way, which is this one.
LEMMA AnswerAnswers ==
    ASSUME IInv, Undecided, Wires, Heard, Pumps, NEW r \in Requests, NEW ok \in BOOLEAN, Answer(r, ok)
    PROVE  Wires' /\ Heard'
  <1>1. PICK c \in Connections : conn[r] = c
    BY DEF Answer, Using, IInv, Known
  <1>2. /\ conn[r] = c /\ rstate[r] = "awaiting" /\ r \in Http /\ Using(r)
        /\ pump[c] = "send" /\ pump'[c] = "head" /\ got'[r] = held[c]
        /\ held[c] = ErrorBody => outcome'[r] # "answered"
        /\ UNCHANGED <<conn, toPool, toPeer, peer>>
        /\ \A d \in Connections \ {c} : pump'[d] = pump[d] /\ held'[d] = held[d]
    BY <1>1 DEF Answer, Sent, Leave, wireVars, Using, Pumps, IInv, TypeOK
  <1>3. \A q \in Requests \ {r} : rstate'[q] = rstate[q] /\ outcome'[q] = outcome[q] /\ got'[q] = got[q]
    BY DEF Answer, Leave, Go, IInv, TypeOK
  <1>4. ASSUME NEW d, Spoke(d) PROVE Spoke(d)'
    BY <1>2, <1>3, <1>4, NamesAssumption DEF Spoke, Requests
  <1>5. Settled(c)
    BY <1>1, <1>2 DEF Wires, Alive
  <1>6. /\ Settled(c)'
        /\ outcome'[r] = "answered" => got'[r] = r \/ (got'[r] = Event /\ Spoke(c)')
    <2>1. CASE Calm(c)
      <3>1. Calm(c)' /\ got'[r] = r
        <4>1. PICK m \in Http : Awaits(m, c) /\ toPeer[c] = <<>> /\ toPool[c] = <<>> /\ held[c] = m
          BY <1>2, <2>1 DEF Calm, Empty, Carries
        <4>2. m = r
          BY <1>2, <4>1 DEF Awaits, Using, Requests, IInv, OneUser
        <4> QED
          BY <1>2, <2>1, <4>1, <4>2 DEF Calm, Empty
      <3> QED
        BY <3>1 DEF Settled
    <2>2. CASE Spoken(c)
      BY <1>2, <1>4, <2>2 DEF Settled, Spoken
    <2>3. CASE Refused(c)
      <3>1. Refused(c)'
        BY <1>2, <2>3 DEF Refused
      <3>2. CASE held[c] = ErrorBody
        BY <1>2, <3>1, <3>2 DEF Settled
      <3>3. CASE held[c] # ErrorBody
        <4>1. PICK m \in Http : Awaits(m, c) /\ held[c] = m
          BY <1>2, <2>3, <3>3 DEF Refused
        <4>2. m = r
          BY <1>2, <4>1 DEF Awaits, Using, Requests, IInv, OneUser
        <4> QED
          BY <1>2, <3>1, <4>1, <4>2 DEF Settled
      <3> QED
        BY <3>2, <3>3
    <2> QED
      BY <1>5, <2>1, <2>2, <2>3 DEF Settled
  <1>7. ASSUME NEW d \in Connections \ {c}, Alive(d)' PROVE Settled(d)'
    <2>1. Settled(d)
      BY <1>2, <1>7 DEF Wires, Alive
    <2>2. CASE Calm(d)
      <3>1. ASSUME NEW m, Awaits(m, d) PROVE Awaits(m, d)'
        BY <1>2, <1>3, <3>1 DEF Awaits, Requests
      <3> QED
        BY <1>2, <2>2, <3>1 DEF Settled, Calm, Empty, Carries
    <2>3. CASE Spoken(d)
      BY <1>2, <1>4, <2>3 DEF Settled, Spoken
    <2>4. CASE Refused(d)
      <3>1. ASSUME NEW m, Awaits(m, d) PROVE Awaits(m, d)'
        BY <1>2, <1>3, <3>1 DEF Awaits, Requests
      <3> QED
        BY <1>2, <2>4, <3>1 DEF Settled, Refused
    <2> QED
      BY <2>1, <2>2, <2>3, <2>4 DEF Settled
  <1>8. Wires'
    BY <1>2, <1>6, <1>7 DEF Wires
  <1>9. Heard'
    <2>1. ASSUME NEW q \in Http \ {r}, outcome'[q] = "answered"
          PROVE  got'[q] = q \/ (got'[q] = Event /\ Spoke(conn[q])')
      BY <1>2, <1>3, <1>4, <2>1 DEF Heard, Requests
    <2> QED
      BY <1>2, <1>6, <2>1 DEF Heard
  <1> QED
    BY <1>8, <1>9

\* The queue was closed: there is no WritePump any more.
LEMMA NoAnswerAnswers ==
    ASSUME IInv, Wires, Heard, Pumps, NEW r \in Requests, NoAnswer(r)
    PROVE  Wires' /\ Heard'
  <1>1. conn[r] \in Connections /\ ~Alive(conn[r])
    BY DEF NoAnswer, Pumps, Using, IInv, Known
  <1>2. r \in Http /\ UNCHANGED <<conn, got, pump, held, toPool, toPeer, peer>>
    BY DEF NoAnswer, Pumps, connVars, wireVars
  <1>3. /\ \A q \in Requests \ {r} : rstate'[q] = rstate[q] /\ outcome'[q] = outcome[q]
        /\ outcome'[r] # "answered"
    BY DEF NoAnswer, Leave, Go, IInv, TypeOK
  <1>4. ASSUME NEW d, Spoke(d) PROVE Spoke(d)'
    BY <1>2, <1>3, <1>4, NamesAssumption DEF Spoke, Requests
  <1>5. ASSUME NEW d \in Connections, Alive(d)' PROVE Settled(d)'
    <2>1. Alive(d) /\ d # conn[r]
      BY <1>1, <1>2, <1>5 DEF Alive
    <2>2. CASE Calm(d)
      <3>1. ASSUME NEW m, Awaits(m, d) PROVE Awaits(m, d)'
        BY <1>2, <1>3, <2>1, <3>1 DEF Awaits, Requests
      <3> QED
        BY <1>2, <2>2, <3>1 DEF Settled, Calm, Empty, Carries
    <2>3. CASE Spoken(d)
      BY <1>2, <1>4, <2>3 DEF Settled, Spoken
    <2>4. CASE Refused(d)
      <3>1. ASSUME NEW m, Awaits(m, d) PROVE Awaits(m, d)'
        BY <1>2, <1>3, <2>1, <3>1 DEF Awaits, Requests
      <3> QED
        BY <1>2, <2>4, <3>1 DEF Settled, Refused
    <2> QED
      BY <2>1, <2>2, <2>3, <2>4 DEF Settled, Wires
  <1>6. Heard'
    <2>1. ASSUME NEW q \in Http, outcome'[q] = "answered"
          PROVE  got'[q] = q \/ (got'[q] = Event /\ Spoke(conn[q])')
      BY <1>2, <1>3, <1>4, <2>1 DEF Heard, Requests
    <2> QED
      BY <2>1 DEF Heard
  <1> QED
    BY <1>5, <1>6 DEF Wires

\* A session ends.
LEMMA SessionAnswers ==
    ASSUME IInv, Undecided, Wires, Heard, NEW r \in Sessions, SessionEnd(r) \/ Bye(r)
    PROVE  Wires' /\ Heard'
  <1>1. UNCHANGED <<pump, held, toPeer, toPool, peer>>
    BY DEF SessionEnd, Bye, connVars, wireVars
  <1>2. Keeping
    <2>1. CASE SessionEnd(r)
      BY <2>1, KeepingMove DEF SessionEnd, Leave, Later, Requests
    <2>2. CASE Bye(r)
      BY <2>2, NoRequest DEF Bye
    <2> QED
      BY <2>1, <2>2
  <1> QED
    BY <1>1, <1>2, Unmoved DEF Alive

\* Pumps is kept: Register finds a connection that has no WritePump,
LEMMA PumpsServer ==
    ASSUME IInv, Registered, Pumps, NEW c \in Connections,
           Registration(c) \/ WritePump(c) \/ Relays(c) \/ Peer(c) \/ PeerGone(c)
    PROVE  Pumps'
  <1> USE DEF Pumps, Alive
  <1>1. CASE Register(c)
    BY <1>1 DEF Register, Registered, reqVars
  <1>2. CASE Enter(c)
    BY <1>2, NamesAssumption DEF Enter, reqVars, IInv, TypeOK
  <1>3. CASE WritePump(c)
    <2>1. UNCHANGED <<registering, rstate>>
      BY <1>3 DEF WritePump, PumpHead, PumpRead, PumpError, PumpExit, reqVars, poolVars
    <2>2. CASE PumpHead(c) \/ PumpRead(c)
      <3>1. queueClosed' = queueClosed /\ pump[c] \in {"head", "read"}
        BY <2>2 DEF PumpHead, PumpRead
      <3>2. \A d \in Connections \ {c} : pump'[d] = pump[d]
        BY <2>2 DEF PumpHead, PumpRead, IInv, TypeOK
      <3>3. queueClosed \subseteq Connections
        BY DEF IInv, TypeOK
      <3> QED
        BY <2>1, <3>1, <3>2, <3>3
    <2>3. CASE PumpError(c)
      BY <2>1, <2>3 DEF PumpError, IInv, TypeOK
    <2>4. CASE PumpExit(c)
      BY <2>1, <2>4 DEF PumpExit, IInv, TypeOK
    <2> QED
      BY <1>3, <2>2, <2>3, <2>4 DEF WritePump
  <1>4. ASSUME NEW r \in Sessions, Relay(r, c) PROVE Pumps'
    BY <1>4 DEF Relay, Sent, reqVars, poolVars, IInv, TypeOK
  <1>5. ASSUME NEW r \in Sessions, RelayEnd(r, c) PROVE Pumps'
    BY <1>5 DEF RelayEnd, reqVars, poolVars
  <1>6. CASE Peer(c) \/ PeerGone(c)
    BY <1>6 DEF Peer, PeerAnswer, PeerRefuse, PeerSession, PeerEvent, PeerIgnore, PeerGone, reqVars, poolVars, connVars
  <1> QED
    BY <1>1, <1>2, <1>3, <1>4, <1>5, <1>6 DEF Registration, Relays

\* and only Write makes a request wait for its answer.
LEMMA PumpsHandler ==
    ASSUME IInv, Pumps, NEW r \in Requests, Handler(r)
    PROVE  Pumps'
  <1> USE DEF Pumps, Alive
  <1>1. ASSUME NEW ok \in BOOLEAN, Answer(r, ok) PROVE Pumps'
    BY <1>1 DEF Answer, Sent, Leave, Go, poolVars, IInv, TypeOK
  <1>2. ASSUME UNCHANGED <<queueClosed, pump, registering>>,
               \A q \in Requests : rstate'[q] = "awaiting" => rstate[q] = "awaiting" \/ q \in Http
        PROVE  Pumps'
    BY <1>2
  <1>3. ASSUME NEW to, Go(r, to), to = "awaiting" => r \in Http
        PROVE  \A q \in Requests : rstate'[q] = "awaiting" => rstate[q] = "awaiting" \/ q \in Http
    BY <1>3 DEF Go, IInv, TypeOK
  <1>4. CASE Write(r)
    <2>1. CASE r \in Http
      BY <1>2, <1>3, <1>4, <2>1 DEF Write, poolVars, connVars
    <2>2. CASE r \notin Http
      BY <1>2, <1>3, <1>4, <2>2 DEF Write, poolVars, connVars
    <2> QED
      BY <2>1, <2>2
  <1>5. CASE NoAnswer(r)
    BY <1>2, <1>3, <1>5 DEF NoAnswer, Leave, poolVars, connVars
  <1>6. CASE Aside(r)
    <2>1. UNCHANGED <<queueClosed, pump, registering>>
      BY <1>6 DEF Aside, GetPool, IsEmptyStart, IsEmptyEnd, GetTimeout, Receive, TakeCheck, Take,
             WriteError, Upgrade, UpgradeError, ReleaseClosed, ReleaseCheck, Release, CloseFailed,
             connVars, poolVars
    <2>2. \E to : Go(r, to) /\ to # "awaiting"
      BY <1>6 DEF Aside, GetPool, IsEmptyStart, IsEmptyEnd, GetTimeout, Receive, TakeCheck, Take,
             WriteError, Upgrade, UpgradeError, ReleaseClosed, ReleaseCheck, Release, Released,
             CloseFailed, Leave
    <2> QED
      BY <1>2, <1>3, <2>1, <2>2
  <1> QED
    BY <1>1, <1>4, <1>5, <1>6 DEF Handler, Aside

LEMMA PumpsStep == IInv /\ Registered /\ Pumps /\ [Next]_vars => Pumps'
  <1> SUFFICES ASSUME IInv, Registered, Pumps, [Next]_vars PROVE Pumps'
    OBVIOUS
  <1> USE DEF Pumps, Alive
  <1>1. CASE Clean
    BY <1>1 DEF Clean, CleanLook, CleanClose, connVars, reqVars
  <1>2. CASE JanitorStart \/ JanitorEnd \/ Shutdown
    BY <1>2 DEF JanitorStart, JanitorEnd, Shutdown, connVars, reqVars
  <1>3. ASSUME NEW r \in Sessions, SessionEnd(r) \/ Bye(r) PROVE Pumps'
    <2>1. \A q \in Requests : rstate'[q] = "awaiting" => rstate[q] = "awaiting"
      BY <1>3 DEF SessionEnd, Bye, Leave, Go, reqVars, IInv, TypeOK
    <2> QED
      BY <1>3, <2>1 DEF SessionEnd, Bye, connVars, poolVars
  <1>4. CASE UNCHANGED vars
    BY <1>4 DEF vars, poolVars, connVars, reqVars
  <1> QED
    BY <1>1, <1>2, <1>3, <1>4, PumpsServer, PumpsHandler DEF Next

LEMMA AnswersStep ==
    IInv /\ Undecided /\ Pumps /\ Wires /\ Heard /\ [Next]_vars => Wires' /\ Heard'
  <1> SUFFICES ASSUME IInv, Undecided, Pumps, Wires, Heard, [Next]_vars PROVE Wires' /\ Heard'
    OBVIOUS
  <1>1. ASSUME NEW r \in Requests, Handler(r) PROVE Wires' /\ Heard'
    <2>1. \/ Aside(r) \/ Write(r) \/ NoAnswer(r)
          \/ \E ok \in BOOLEAN : Answer(r, ok)
      BY <1>1, Zenon DEF Handler, Aside
    <2> QED
      BY <2>1, AsideAnswers, WriteAnswers, NoAnswerAnswers, AnswerAnswers
  <1>2. CASE UNCHANGED vars
    BY <1>2, NoRequest, Unmoved DEF vars, connVars, wireVars, Alive
  <1> QED
    BY <1>1, <1>2, ServerAnswers, CleaningAnswers, SessionAnswers DEF Next

\* An HTTP request that is answered gets its own answer, or an event of a
\* session that used the connection: RightAnswer.
THEOREM OwnAnswer == Spec => []RightAnswer
  <1>1. Heard => RightAnswer
    BY DEF Heard, RightAnswer, Spoke, ServedSession
  <1> QED
    BY <1>1, Invariant, UndecidedInit, UndecidedStep, RegisteredInit, RegisteredStep, AnswersInit,
       PumpsStep, AnswersStep, PTL DEF Spec
=============================================================================
