------------------------ MODULE GateClientPoolProofs ------------------------
(***************************************************************************)
(* Proofs about GateClientPool: type correctness, and that connector keeps *)
(* the pool below PoolMaxSize for any number of connections and callers.   *)
(***************************************************************************)
EXTENDS GateClientPool, FiniteSetTheorems, TLAPS

\* TypeOK and BelowMax are inductive together: a connection enters the map
\* only on account of toCreate, which connector computes from the map while
\* nobody else can add to it.
Inv == TypeOK /\ BelowMax

LEMMA MembersFinite ==
    ASSUME TypeOK
    PROVE  /\ IsFiniteSet(members)
           /\ Cardinality(members) \in Nat
BY ConstantsAssumption, FS_Subset, FS_CardinalityType DEF TypeOK

\* What connector wants is a number and fits beside what the map holds.
LEMMA WantedFits ==
    ASSUME TypeOK
    PROVE  /\ Wanted \in Nat
           /\ Cardinality(members) <= PoolMaxSize => Cardinality(members) + Wanted <= PoolMaxSize
<1>1. Cardinality(members) \in Nat
  BY MembersFinite
<1>2. Idle \in Nat
  <2>1. IsFiniteSet({c \in members : status[c] = "IDLE"})
    BY MembersFinite, FS_Subset
  <2> QED
    BY <2>1, FS_CardinalityType DEF Idle
<1>3. Missing \in Nat
  BY <1>2, ConstantsAssumption DEF Missing
<1> QED
  BY <1>1, <1>3, ConstantsAssumption DEF Wanted, Total

LEMMA InitInv == Init => Inv
<1> SUFFICES ASSUME Init
             PROVE  Inv
  OBVIOUS
<1>1. Cardinality({}) = 0
  BY FS_EmptySet
<1>2. TypeOK
  BY ConstantsAssumption DEF Init, TypeOK
<1>3. BelowMax
  BY <1>1, ConstantsAssumption DEF Init, BelowMax
<1> QED
  BY <1>2, <1>3 DEF Inv

LEMMA TickInv ==
    ASSUME Inv, Tick
    PROVE  Inv'
BY ConstantsAssumption DEF Inv, TypeOK, BelowMax, Tick, connVars

LEMMA ConnectorInv ==
    ASSUME Inv, Connector
    PROVE  Inv'
<1>1. toCreate' \in Nat /\ Cardinality(members) + toCreate' <= PoolMaxSize
  BY WantedFits, MembersFinite DEF Inv, Connector, BelowMax, TypeOK
<1>2. TypeOK'
  BY <1>1, ConstantsAssumption DEF Inv, TypeOK, Connector, connVars
<1>3. BelowMax'
  BY <1>1 DEF Connector, BelowMax
<1> QED
  BY <1>2, <1>3 DEF Inv

LEMMA CreateInv ==
    ASSUME Inv, NEW c \in Connections, Create(c)
    PROVE  Inv'
<1>1. TypeOK'
  BY DEF Inv, TypeOK, Create
<1>2. Cardinality(members') = Cardinality(members) + 1
  BY MembersFinite, FS_AddElement DEF Inv, Create
<1>3. BelowMax'
  BY <1>2, MembersFinite DEF Inv, TypeOK, BelowMax, Create
<1> QED
  BY <1>1, <1>3 DEF Inv

\* A step of a goroutine leaves the map alone or takes its connection out.
LEMMA RemoveInv ==
    ASSUME Inv, NEW c \in Connections, TypeOK', toCreate' = toCreate,
           members' = members \/ members' = members \ {c}
    PROVE  Inv'
<1>1. Cardinality(members') <= Cardinality(members)
  BY MembersFinite, FS_Subset DEF Inv, TypeOK
<1>2. Cardinality(members') \in Nat /\ Cardinality(members) \in Nat
  BY MembersFinite, FS_Subset, FS_CardinalityType DEF Inv, TypeOK
<1>3. BelowMax'
  BY <1>1, <1>2, ConstantsAssumption DEF Inv, TypeOK, BelowMax
<1> QED
  BY <1>3 DEF Inv

LEMMA GoroutineInv ==
    ASSUME Inv, NEW c \in Connections, Goroutine(c)
    PROVE  Inv'
<1>1. toCreate' = toCreate /\ (members' = members \/ members' = members \ {c})
  BY DEF Goroutine, Dial, DialError, Greet, GreetError, Answer, ServeError, Session, SessionEnd, Delete, poolVars
<1>2. TypeOK'
  <2>1. CASE Dial(c) \/ DialError(c)
    BY <2>1 DEF Inv, TypeOK, Dial, DialError, poolVars
  <2>2. CASE Greet(c) \/ GreetError(c)
    BY <2>2 DEF Inv, TypeOK, Greet, GreetError, poolVars
  <2>3. CASE Answer(c) \/ ServeError(c) \/ SessionEnd(c)
    BY <2>3 DEF Inv, TypeOK, Answer, ServeError, SessionEnd, poolVars
  <2>4. CASE \E user \in Tokens : Session(c, user)
    BY <2>4 DEF Inv, TypeOK, Session, poolVars
  <2>5. CASE Delete(c)
    BY <2>5 DEF Inv, TypeOK, Delete
  <2> QED
    BY <2>1, <2>2, <2>3, <2>4, <2>5 DEF Goroutine
<1> QED
  BY <1>1, <1>2, RemoveInv

LEMMA PeerInv ==
    ASSUME Inv, NEW c \in Connections, Request(c) \/ PeerClose(c) \/ ShutdownOne(c)
    PROVE  Inv'
<1>1. toCreate' = toCreate /\ (members' = members \/ members' = members \ {c})
  BY DEF Request, PeerClose, ShutdownOne, poolVars
<1>2. TypeOK'
  <2>1. CASE Request(c)
    BY <2>1, ConstantsAssumption DEF Inv, TypeOK, Request
  <2>2. CASE PeerClose(c)
    BY <2>2 DEF Inv, TypeOK, PeerClose, poolVars
  <2>3. CASE ShutdownOne(c)
    BY <2>3 DEF Inv, TypeOK, ShutdownOne
  <2> QED
    BY <2>1, <2>2, <2>3
<1> QED
  BY <1>1, <1>2, RemoveInv

LEMMA ShutdownInv ==
    ASSUME Inv, ShutdownStart \/ ShutdownEnd
    PROVE  Inv'
BY DEF Inv, TypeOK, BelowMax, ShutdownStart, ShutdownEnd, connVars

LEMMA StepInv == Inv /\ [Next]_vars => Inv'
<1> SUFFICES ASSUME Inv, [Next]_vars
             PROVE  Inv'
  OBVIOUS
<1>1. CASE Tick
  BY <1>1, TickInv
<1>2. CASE Connector
  BY <1>2, ConnectorInv
<1>3. ASSUME NEW c \in Connections,
             Create(c) \/ Goroutine(c) \/ Request(c) \/ PeerClose(c) \/ ShutdownOne(c)
      PROVE  Inv'
  BY <1>3, CreateInv, GoroutineInv, PeerInv
<1>4. CASE ShutdownStart \/ ShutdownEnd
  BY <1>4, ShutdownInv
<1>5. CASE UNCHANGED vars
  BY <1>5 DEF Inv, TypeOK, BelowMax, vars, connVars, poolVars
<1> QED
  BY <1>1, <1>2, <1>3, <1>4, <1>5 DEF Next

LEMMA InvAlways == Spec => []Inv
BY InitInv, StepInv, PTL DEF Spec

\* Type correctness of the gate client's pool.
THEOREM TypeCorrect == Spec => []TypeOK
<1>1. Inv => TypeOK
  BY DEF Inv
<1> QED
  BY <1>1, InvAlways, PTL

\* However many goroutines call connector, and whichever connections end
\* meanwhile, what the map holds and what connector has still to create
\* never exceeds PoolMaxSize.
THEOREM NeverAboveMax == Spec => []BelowMax
<1>1. Inv => BelowMax
  BY DEF Inv
<1> QED
  BY <1>1, InvAlways, PTL
=============================================================================
