--------------------------- MODULE StorageProofs ---------------------------
(***************************************************************************)
(* Proofs about Storage, for every set of names, values and goroutines.    *)
(***************************************************************************)
EXTENDS Storage, TLAPS

Running(s) == spc[s] \in {"range", "clean", "write"}

\* inProcess is a lock: one pass runs at a time, and Shutdown's pass has not
\* been called while the storage is started.
SinglePass ==
    /\ \A s \in Serializers : Running(s) => inProcess
    /\ \A s, t \in Serializers : Running(s) /\ Running(t) => s = t
    /\ isStarted => spc[Closer] = "idle"

\* What a pass carries from Visit to WriteDb.  Between Visit and StoreClean
\* it is the promised value; after StoreClean it is, as long as the entry
\* has not been pushed again.
CarriedValue ==
    \A s \in Serializers :
        /\ spc[s] \in {"clean", "write"} => data[s] \in Keys \X Values
        /\ \A k \in Keys :
             /\ data[s][1] = k
             /\ Promised(k)
             /\ spc[s] = "clean" \/ (spc[s] = "write" /\ ~changed[k])
             => data[s][2] = last[k]

\* A search only has keys left to store whose entry nobody was promised.
SearchHarmless ==
    \A c \in Clients, k \in Keys :
        cpc[c] \in {"search_db", "search_store"} /\ k \in names[c] => ~Promised(k)

IInv ==
    /\ TypeOK
    /\ SinglePass
    /\ CarriedValue
    /\ SearchHarmless
    /\ UncontendedPushHeld
    /\ CleanMeansPersisted

LEMMA InitIInv == Init => IInv
<1> SUFFICES ASSUME Init PROVE IInv
  OBVIOUS
<1> USE NoneAssumption, SerializersAssumption DEF Init
<1>1. TypeOK
  BY DEF TypeOK, Row, Serializers
<1>2. SinglePass
  BY DEF SinglePass, Running, Serializers
<1>3. CarriedValue
  BY DEF CarriedValue, Promised
<1>4. SearchHarmless
  BY DEF SearchHarmless, Promised
<1>5. UncontendedPushHeld /\ CleanMeansPersisted
  BY DEF UncontendedPushHeld, CleanMeansPersisted, Promised
<1> QED
  BY <1>1, <1>2, <1>3, <1>4, <1>5 DEF IInv

\* Every action keeps the types.
LEMMA TypeStep == TypeOK /\ SinglePass /\ CarriedValue /\ [Next]_vars => TypeOK'
<1> SUFFICES ASSUME TypeOK, CarriedValue, [Next]_vars PROVE TypeOK'
  OBVIOUS
<1> USE NoneAssumption, SerializersAssumption
      DEF TypeOK, Row, storeVars, flagVars, passVars, callVars, historyVars
<1>1. CASE \E k \in Keys, v \in Values : Push(k, v)
  BY <1>1 DEF Push, WriteBackPending
<1>2. CASE \E k \in Keys, row \in Row : ExternalWrite(k, row)
  BY <1>2 DEF ExternalWrite
<1>3. ASSUME NEW c \in Clients, Call(c) PROVE TypeOK'
  <2>1. ASSUME NEW k \in Keys, PopStart(c, k) PROVE TypeOK'
    BY <2>1 DEF PopStart
  <2>2. ASSUME NEW matches \in SUBSET Keys, SearchStart(c, matches) PROVE TypeOK'
    BY <2>2 DEF SearchStart, Unresolved
  <2> QED
    BY <1>3, <2>1, <2>2 DEF Call
<1>4. ASSUME NEW c \in Clients, Continue(c) PROVE TypeOK'
  <2>1. CASE PopRead(c)
    BY <2>1 DEF PopRead, Return
  <2>2. CASE PopDelete(c)
    BY <2>2 DEF PopDelete, Return
  <2>3. CASE PopForget(c)
    BY <2>3 DEF PopForget, Return
  <2>4. CASE SearchDb(c)
    <3>1. names' \in [Clients -> SUBSET Keys]
      BY <2>4 DEF SearchDb, Return
    <3>2. rows' \in [Clients -> [Keys -> Row]]
      BY <2>4 DEF SearchDb, Return
    <3>3. cpc' \in [Clients -> {"idle", "pop_read", "pop_delete", "pop_forget",
                              "search_db", "search_store"}]
      BY <2>4 DEF SearchDb, Return
    <3> QED
      BY <2>4, <3>1, <3>2, <3>3 DEF SearchDb
  <2>5. CASE \E k \in Keys : SearchStore(c, k)
    BY <2>5 DEF SearchStore
  <2>6. CASE SearchReturn(c)
    BY <2>6 DEF SearchReturn, Return
  <2> QED
    BY <1>4, <2>1, <2>2, <2>3, <2>4, <2>5, <2>6 DEF Continue
<1>5. ASSUME NEW s \in Serializers, SerializeStart(s) \/ SerializeRefused(s)
      PROVE  TypeOK'
  <2>1. CASE SerializeStart(s)
    <3>1. PICK later \in SUBSET (Keys \ Present) :
              todo' = [todo EXCEPT ![s] = Present \cup later]
      BY <2>1 DEF SerializeStart
    <3>2. todo' \in [Serializers -> SUBSET Keys]
      BY <3>1 DEF Present
    <3> QED
      BY <2>1, <3>2 DEF SerializeStart
  <2>2. CASE SerializeRefused(s)
    BY <2>2 DEF SerializeRefused
  <2> QED
    BY <1>5, <2>1, <2>2
<1>6. ASSUME NEW s \in Serializers, Pass(s) PROVE TypeOK'
  <2>1. ASSUME NEW k \in Keys, Visit(s, k) PROVE TypeOK'
    <3>1. data' \in [Serializers -> (Keys \X Values) \cup {<<None, None>>}]
      <4>1. pool[k] # None => <<k, pool[k]>> \in Keys \X Values
        OBVIOUS
      <4> QED
        BY <2>1, <4>1 DEF Visit
    <3>2. /\ spc' \in [Serializers ->
                       {"idle", "called", "range", "clean", "write", "exited"}]
          /\ todo' \in [Serializers -> SUBSET Keys]
      BY <2>1 DEF Visit
    <3> QED
      BY <2>1, <3>1, <3>2 DEF Visit
  <2>2. CASE StoreClean(s)
    BY <2>2 DEF StoreClean, CarriedValue
  <2>3. CASE WriteDb(s)
    BY <2>3 DEF WriteDb, CarriedValue
  <2>4. CASE SerializeEnd(s)
    BY <2>4 DEF SerializeEnd
  <2> QED
    BY <1>6, <2>1, <2>2, <2>3, <2>4 DEF Pass
<1>7. CASE Shutdown \/ TickerExit
  BY <1>7 DEF Shutdown, TickerExit, Serializers
<1>8. CASE UNCHANGED vars
  BY <1>8 DEF vars
<1> QED
  BY <1>1, <1>2, <1>3, <1>4, <1>5, <1>6, <1>7, <1>8 DEF Next

LEMMA SinglePassStep == IInv /\ [Next]_vars => SinglePass'
<1> SUFFICES ASSUME TypeOK, SinglePass, [Next]_vars PROVE SinglePass'
  BY DEF IInv
<1> USE SerializersAssumption
    DEF SinglePass, Running, TypeOK, storeVars, flagVars, passVars, callVars,
        historyVars
<1>1. CASE \E k \in Keys, v \in Values : Push(k, v)
  BY <1>1 DEF Push
<1>2. CASE \E k \in Keys, row \in Row : ExternalWrite(k, row)
  BY <1>2 DEF ExternalWrite
<1>3. CASE \E c \in Clients : Call(c) \/ Continue(c)
  <2>1. UNCHANGED <<isStarted, inProcess, spc>>
    BY <1>3 DEF Call, PopStart, SearchStart, Continue, PopRead, PopDelete,
                PopForget, SearchDb, SearchStore, SearchReturn
  <2> QED
    BY <2>1
<1>4. ASSUME NEW s \in Serializers, SerializeStart(s) PROVE SinglePass'
  BY <1>4 DEF SerializeStart, Ready
<1>5. ASSUME NEW s \in Serializers, SerializeRefused(s) PROVE SinglePass'
  BY <1>5 DEF SerializeRefused, Ready
<1>6. ASSUME NEW s \in Serializers, Pass(s) PROVE SinglePass'
  <2>1. CASE (\E k \in Keys : Visit(s, k)) \/ StoreClean(s) \/ WriteDb(s)
    <3>1. /\ Running(s)
          /\ \/ spc' = spc
             \/ \E step \in {"range", "clean", "write"} :
                    spc' = [spc EXCEPT ![s] = step]
          /\ UNCHANGED <<isStarted, inProcess>>
      BY <2>1 DEF Visit, StoreClean, WriteDb
    <3>2. \A t \in Serializers \ {s} : spc'[t] = spc[t]
      BY <3>1
    <3>3. \A t \in Serializers : Running(t)' => Running(t)
      BY <3>1, <3>2
    <3>4. isStarted' => spc'[Closer] = "idle"
      BY <3>1, <3>2 DEF Serializers
    <3> QED
      BY <3>1, <3>3, <3>4
  <2>2. CASE SerializeEnd(s)
    BY <2>2 DEF SerializeEnd
  <2> QED
    BY <1>6, <2>1, <2>2 DEF Pass
<1>7. CASE Shutdown \/ TickerExit
  BY <1>7 DEF Shutdown, TickerExit, Serializers
<1>8. CASE UNCHANGED vars
  BY <1>8 DEF vars
<1> QED
  BY <1>1, <1>2, <1>3, <1>4, <1>5, <1>6, <1>7, <1>8 DEF Next

LEMMA CarriedValueStep == IInv /\ [Next]_vars => CarriedValue'
<1> SUFFICES ASSUME IInv, [Next]_vars PROVE CarriedValue'
  OBVIOUS
<1> USE NoneAssumption
    DEF IInv, CarriedValue, Promised, TypeOK, Row, storeVars, flagVars, passVars,
        callVars, historyVars
<1>1. ASSUME NEW k \in Keys, NEW v \in Values, Push(k, v) PROVE CarriedValue'
  BY <1>1 DEF Push, WriteBackPending
<1>2. CASE \E k \in Keys, row \in Row : ExternalWrite(k, row)
  BY <1>2 DEF ExternalWrite
<1>3. CASE \E c \in Clients : Call(c)
  <2>1. UNCHANGED <<storeVars, passVars, historyVars>>
    BY <1>3 DEF Call, PopStart, SearchStart
  <2> QED
    BY <2>1
<1>4. ASSUME NEW c \in Clients, Continue(c) PROVE CarriedValue'
  <2>1. CASE PopRead(c) \/ PopDelete(c) \/ SearchDb(c) \/ SearchReturn(c)
    BY <2>1 DEF PopRead, PopDelete, SearchDb, SearchReturn
  <2>2. CASE PopForget(c)
    BY <2>2 DEF PopForget
  <2>3. CASE \E k \in Keys : SearchStore(c, k)
    BY <2>3 DEF SearchStore, SearchHarmless
  <2> QED
    BY <1>4, <2>1, <2>2, <2>3 DEF Continue
<1>5. CASE \E s \in Serializers : SerializeStart(s) \/ SerializeRefused(s)
  BY <1>5 DEF SerializeStart, SerializeRefused, Ready
<1>6. ASSUME NEW s \in Serializers, Pass(s) PROVE CarriedValue'
  <2>1. ASSUME NEW k \in Keys, Visit(s, k) PROVE CarriedValue'
    <3>1. CASE pool[k] # None /\ changed[k]
      BY <2>1, <3>1 DEF Visit, UncontendedPushHeld
    <3>2. CASE ~(pool[k] # None /\ changed[k])
      BY <2>1, <3>2 DEF Visit
    <3> QED
      BY <3>1, <3>2
  <2>2. CASE StoreClean(s)
    BY <2>2 DEF StoreClean, SinglePass, Running
  <2>3. CASE WriteDb(s)
    BY <2>3 DEF WriteDb
  <2>4. CASE SerializeEnd(s)
    BY <2>4 DEF SerializeEnd
  <2> QED
    BY <1>6, <2>1, <2>2, <2>3, <2>4 DEF Pass
<1>7. CASE Shutdown \/ TickerExit
  BY <1>7 DEF Shutdown, TickerExit
<1>8. CASE UNCHANGED vars
  BY <1>8 DEF vars
<1> QED
  BY <1>1, <1>2, <1>3, <1>4, <1>5, <1>6, <1>7, <1>8 DEF Next

LEMMA SearchHarmlessStep == IInv /\ [Next]_vars => SearchHarmless'
<1> SUFFICES ASSUME IInv, [Next]_vars PROVE SearchHarmless'
  OBVIOUS
<1> USE NoneAssumption
    DEF IInv, SearchHarmless, Promised, TypeOK, Row, storeVars, flagVars, passVars,
        callVars, historyVars
<1>1. ASSUME NEW k \in Keys, NEW v \in Values, Push(k, v) PROVE SearchHarmless'
  BY <1>1 DEF Push, WriteBackPending
<1>2. CASE \E k \in Keys, row \in Row : ExternalWrite(k, row)
  BY <1>2 DEF ExternalWrite
<1>3. ASSUME NEW c \in Clients, Call(c) PROVE SearchHarmless'
  BY <1>3 DEF Call, PopStart, SearchStart, Unresolved, Present, UncontendedPushHeld
<1>4. ASSUME NEW c \in Clients, Continue(c) PROVE SearchHarmless'
  BY <1>4 DEF Continue, PopRead, PopDelete, PopForget, SearchDb, SearchStore,
              SearchReturn, Return
<1>5. CASE \E s \in Serializers : SerializeStart(s) \/ SerializeRefused(s)
  BY <1>5 DEF SerializeStart, SerializeRefused
<1>6. CASE \E s \in Serializers : Pass(s)
  BY <1>6 DEF Pass, Visit, StoreClean, WriteDb, SerializeEnd
<1>7. CASE Shutdown \/ TickerExit
  BY <1>7 DEF Shutdown, TickerExit
<1>8. CASE UNCHANGED vars
  BY <1>8 DEF vars
<1> QED
  BY <1>1, <1>2, <1>3, <1>4, <1>5, <1>6, <1>7, <1>8 DEF Next

LEMMA PushHeldStep == IInv /\ [Next]_vars => UncontendedPushHeld'
<1> SUFFICES ASSUME IInv, [Next]_vars PROVE UncontendedPushHeld'
  OBVIOUS
<1> USE NoneAssumption
    DEF IInv, UncontendedPushHeld, Promised, TypeOK, Row, storeVars, flagVars,
        passVars, callVars, historyVars
<1>1. ASSUME NEW k \in Keys, NEW v \in Values, Push(k, v)
      PROVE  UncontendedPushHeld'
  BY <1>1 DEF Push
<1>2. CASE \E k \in Keys, row \in Row : ExternalWrite(k, row)
  BY <1>2 DEF ExternalWrite
<1>3. CASE \E c \in Clients : Call(c)
  <2>1. UNCHANGED <<storeVars, passVars, historyVars>>
    BY <1>3 DEF Call, PopStart, SearchStart
  <2> QED
    BY <2>1
<1>4. ASSUME NEW c \in Clients, Continue(c) PROVE UncontendedPushHeld'
  <2>1. CASE PopRead(c) \/ PopDelete(c) \/ SearchDb(c) \/ SearchReturn(c)
    BY <2>1 DEF PopRead, PopDelete, SearchDb, SearchReturn
  <2>2. CASE PopForget(c)
    BY <2>2 DEF PopForget
  <2>3. CASE \E k \in Keys : SearchStore(c, k)
    BY <2>3 DEF SearchStore, SearchHarmless
  <2> QED
    BY <1>4, <2>1, <2>2, <2>3 DEF Continue
<1>5. CASE \E s \in Serializers : SerializeStart(s) \/ SerializeRefused(s)
  BY <1>5 DEF SerializeStart, SerializeRefused
<1>6. ASSUME NEW s \in Serializers, Pass(s) PROVE UncontendedPushHeld'
  <2>1. CASE (\E k \in Keys : Visit(s, k)) \/ WriteDb(s) \/ SerializeEnd(s)
    BY <2>1 DEF Visit, WriteDb, SerializeEnd
  <2>2. CASE StoreClean(s)
    BY <2>2 DEF StoreClean, CarriedValue
  <2> QED
    BY <1>6, <2>1, <2>2 DEF Pass
<1>7. CASE Shutdown \/ TickerExit
  BY <1>7 DEF Shutdown, TickerExit
<1>8. CASE UNCHANGED vars
  BY <1>8 DEF vars
<1> QED
  BY <1>1, <1>2, <1>3, <1>4, <1>5, <1>6, <1>7, <1>8 DEF Next

LEMMA PersistedStep == IInv /\ [Next]_vars => CleanMeansPersisted'
<1> SUFFICES ASSUME IInv, [Next]_vars PROVE CleanMeansPersisted'
  OBVIOUS
<1> USE NoneAssumption
    DEF IInv, CleanMeansPersisted, Promised, TypeOK, Row, storeVars, flagVars,
        passVars, callVars, historyVars
<1>1. ASSUME NEW k \in Keys, NEW v \in Values, Push(k, v)
      PROVE  CleanMeansPersisted'
  BY <1>1 DEF Push
<1>2. ASSUME NEW k \in Keys, NEW row \in Row, ExternalWrite(k, row)
      PROVE  CleanMeansPersisted'
  BY <1>2 DEF ExternalWrite
<1>3. ASSUME NEW c \in Clients, Call(c) PROVE CleanMeansPersisted'
  BY <1>3 DEF Call, PopStart, SearchStart
<1>4. ASSUME NEW c \in Clients, Continue(c) PROVE CleanMeansPersisted'
  <2>1. CASE PopRead(c) \/ SearchDb(c) \/ SearchReturn(c)
    BY <2>1 DEF PopRead, SearchDb, SearchReturn, Return
  <2>2. CASE PopDelete(c)
    BY <2>2 DEF PopDelete, Return
  <2>3. CASE PopForget(c)
    BY <2>3 DEF PopForget, Return
  <2>4. ASSUME NEW k \in Keys, SearchStore(c, k) PROVE CleanMeansPersisted'
    <3>1. ~Promised(k) /\ UNCHANGED <<last, contended, db, diverged, spc, data, cpc>>
      BY <2>4 DEF SearchStore, SearchHarmless
    <3>2. \A j \in Keys \ {k} : changed'[j] = changed[j]
      BY <2>4 DEF SearchStore
    <3>3. \A j \in Keys \ {k} : j \in names[c] => j \in names'[c]
      BY <2>4 DEF SearchStore
    <3>4. \A d \in Clients \ {c} : names'[d] = names[d]
      BY <2>4 DEF SearchStore
    <3> QED
      BY <3>1, <3>2, <3>3, <3>4
  <2> QED
    BY <1>4, <2>1, <2>2, <2>3, <2>4 DEF Continue
<1>5. ASSUME NEW s \in Serializers, SerializeStart(s) \/ SerializeRefused(s)
      PROVE  CleanMeansPersisted'
  BY <1>5 DEF SerializeStart, SerializeRefused, Ready
<1>6. ASSUME NEW s \in Serializers, Pass(s) PROVE CleanMeansPersisted'
  <2>1. CASE \E k \in Keys : Visit(s, k)
    BY <2>1 DEF Visit
  <2>2. CASE StoreClean(s)
    <3> DEFINE key == data[s][1]
    <3>1. /\ key \in Keys /\ data[s] = <<key, data[s][2]>>
          /\ Promised(key) => data[s][2] = last[key]
      BY <2>2 DEF StoreClean, CarriedValue
    <3>2. /\ spc[s] = "clean" /\ spc' = [spc EXCEPT ![s] = "write"]
          /\ \A j \in Keys \ {key} : changed'[j] = changed[j]
          /\ UNCHANGED <<db, data, cpc, names, last, contended, diverged>>
      BY <2>2, <3>1 DEF StoreClean
    <3> QED
      BY <3>1, <3>2
  <2>3. CASE WriteDb(s)
    BY <2>3 DEF WriteDb, CarriedValue, SinglePass, Running
  <2>4. CASE SerializeEnd(s)
    BY <2>4 DEF SerializeEnd
  <2> QED
    BY <1>6, <2>1, <2>2, <2>3, <2>4 DEF Pass
<1>7. CASE Shutdown \/ TickerExit
  BY <1>7, SerializersAssumption DEF Shutdown, TickerExit, SinglePass, Serializers
<1>8. CASE UNCHANGED vars
  BY <1>8 DEF vars
<1> QED
  BY <1>1, <1>2, <1>3, <1>4, <1>5, <1>6, <1>7, <1>8 DEF Next

\* IInv is inductive.
THEOREM Inductive == Spec => []IInv
<1>1. Init => IInv
  BY InitIInv
<1>2. IInv /\ [Next]_vars => IInv'
  BY TypeStep, SinglePassStep, CarriedValueStep, SearchHarmlessStep, PushHeldStep,
     PersistedStep DEF IInv
<1> QED
  BY <1>1, <1>2, PTL DEF Spec

\* Every variable of the store keeps its type.
THEOREM TypeCorrect == Spec => []TypeOK
<1>1. IInv => TypeOK
  BY DEF IInv
<1> QED
  BY <1>1, Inductive, PTL

\* serialize never runs twice at a time, however many goroutines call it.
THEOREM OnePass == Spec => []SinglePass
<1>1. IInv => SinglePass
  BY DEF IInv
<1> QED
  BY <1>1, Inductive, PTL

\* A push that met no call half way through its name is what reads return
\* until the next push or pop of the name.
THEOREM PushHeld == Spec => []UncontendedPushHeld
<1>1. IInv => UncontendedPushHeld
  BY DEF IInv
<1> QED
  BY <1>1, Inductive, PTL

\* An entry loses its Changed mark only when its value is, or is about to
\* be, in the table.
THEOREM Persisted == Spec => []CleanMeansPersisted
<1>1. IInv => CleanMeansPersisted
  BY DEF IInv
<1> QED
  BY <1>1, Inductive, PTL

=============================================================================
