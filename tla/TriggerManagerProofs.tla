------------------------ MODULE TriggerManagerProofs ------------------------
(***************************************************************************)
(* Proofs about TriggerManager, for any number of ids, objects and calls.  *)
(* WorkInv: what a call under way holds (its id, its object, the mutex     *)
(* while it stops), and that the map files every object under its own id.  *)
(* CountInv: triggerCounter lags behind the map by the triggers being      *)
(* started at most. LiveInv: as long as no two calls for an id overlapped, *)
(* whoever adds found the id free and its object stays there until it is   *)
(* done, and whoever removes deletes an object only after it took it off   *)
(* the bus and the plugin. SyncInv: as long as besides the last change of  *)
(* the row reached the manager, the list Main loads, each call, and the    *)
(* map between calls agree with the row.                                   *)
(***************************************************************************)
EXTENDS TriggerManager, FiniteSetTheorems, TLAPS

-----------------------------------------------------------------------------
(* The inductive invariants.                                                *)

StopSteps == {"stop_bus", "stop_plugin", "delete"}
StartSteps == {"start", "start_plugin", "start_bus", "count"}
Steps == {"idle", "remove", "fetch", "check", "store"} \cup StopSteps \cup StartSteps \cup MainSteps

CallState == [at : Steps, id : Ids \cup {None}, op : {"update", "remove", "add"},
              version : Nat, on : BOOLEAN, obj : Objects \cup {None}]

TypeOK ==
    /\ row \in [Ids -> Nat]
    /\ rowEnabled \in [Ids -> BOOLEAN]
    /\ triggers \in [Ids -> Objects \cup {None}]
    /\ triggerCounter \in Int
    /\ mu \in Procs \cup {None}
    /\ isStarted \in BOOLEAN /\ subscribed \in BOOLEAN /\ bound \in BOOLEAN
    /\ todo \subseteq [id : Ids, version : Nat]
    /\ proc \in [Procs -> CallState]
    /\ version \in [Objects -> [id : Ids \cup {None}, version : Nat]]
    /\ subs \in [Objects -> BOOLEAN]
    /\ plugged \in [Objects -> BOOLEAN]
    /\ onBus \in [Objects -> BOOLEAN]
    /\ overlapped \in [Ids -> BOOLEAN]
    /\ synced \in [Ids -> BOOLEAN]

\* A call is about an id; what it stops is in the map, and the mutex keeps
\* it there; an object is stored, started and stopped for its own id.
CallOK(p) ==
    /\ Calling(p) => proc[p].id \in Ids
    /\ proc[p].at \in StopSteps =>
           mu = p /\ proc[p].obj \in Objects /\ triggers[proc[p].id] = proc[p].obj
    /\ proc[p].at \in StartSteps \cup {"store"} => proc[p].obj \in Objects
    /\ proc[p].at \in StartSteps \cup StopSteps \cup {"store"} =>
           version[proc[p].obj].id = proc[p].id
    /\ proc[p].at \in StartSteps \ {"start"} => subs[proc[p].obj]
    /\ proc[p].at \in MainSteps => p = Main
    /\ proc[p].at \in {"idle", "fetch"} => p \in Jobs

CallsOK == \A p \in Procs : CallOK(p)
MapOK == \A id \in Ids : triggers[id] # None => version[triggers[id]].id = id
PluggedOK == \A o \in Objects :
    /\ plugged[o] \/ onBus[o] => version[o].id \in Ids
    /\ plugged[o] => subs[o]
WorkInv == TypeOK /\ CallsOK /\ MapOK /\ PluggedOK

CountInv == WorkInv /\ IsFiniteSet(Loaded) /\ IsFiniteSet(Starting) /\ CounterCoversMap

\* Two calls for an id that are under way together are an overlap.
Alone == \A p, q \in Procs :
    p # q /\ Calling(p) /\ Calling(q) /\ proc[p].id = proc[q].id => overlapped[proc[p].id]

\* What a call may count on as long as its id has no overlap.
Undisturbed(p) ==
    Calling(p) /\ ~overlapped[proc[p].id] =>
        /\ proc[p].at \in {"fetch", "check", "store"} => triggers[proc[p].id] = None
        /\ proc[p].at \in StartSteps => triggers[proc[p].id] = proc[p].obj
        /\ proc[p].at \in {"stop_plugin", "delete"} => ~onBus[proc[p].obj]
        /\ proc[p].at = "delete" => ~plugged[proc[p].obj]
        /\ proc[p].at = "count" => onBus[proc[p].obj]
AllUndisturbed == \A p \in Procs : Undisturbed(p)

Loading == proc[Main].at \in {"loading", "check", "store"} \cup StartSteps
Unloading == proc[Main].at \in {"unloading", "remove"} \cup StopSteps

\* What was never created is not loaded, nor about to be.
Rowless ==
    /\ \A id \in Ids : triggers[id] # None => row[id] # 0
    /\ \A p \in Procs : proc[p].at \in {"check", "store"} \cup StartSteps => row[proc[p].id] # 0
    /\ Loading => \A model \in todo : row[model.id] # 0

LiveInv == WorkInv /\ Alone /\ Rowless /\ AllUndisturbed /\ OneLiveTrigger

TodoOK == ~Loading /\ ~Unloading => todo = {}

Wanted(id) == Exists(id) /\ rowEnabled[id]

ListFresh == Loading => \A model \in todo :
    ~overlapped[model.id] /\ synced[model.id] => Wanted(model.id) /\ model.version = row[model.id]

CallFresh(p) ==
    Calling(p) /\ ~overlapped[proc[p].id] /\ synced[proc[p].id] =>
        /\ proc[p].at \in {"remove"} \cup StopSteps /\ (p = Main \/ proc[p].op # "update") =>
               ~Wanted(proc[p].id)
        /\ proc[p].at = "check" => /\ Exists(proc[p].id)
                                   /\ proc[p].version = row[proc[p].id]
                                   /\ proc[p].on = rowEnabled[proc[p].id]
        /\ proc[p].at \in {"store"} \cup StartSteps =>
               Wanted(proc[p].id) /\ version[proc[p].obj].version = row[proc[p].id]
CallsFresh == \A p \in Procs : CallFresh(p)

InPlace(id) ==
    IF Wanted(id)
      THEN /\ triggers[id] \in Objects
           /\ version[triggers[id]].version = row[id]
           /\ onBus[triggers[id]]
      ELSE triggers[id] = None
RestSynced == \A id \in Ids : Quiet(id) /\ ~overlapped[id] /\ synced[id] => InPlace(id)

SyncInv == LiveInv /\ TodoOK /\ ListFresh /\ CallsFresh /\ RestSynced

-----------------------------------------------------------------------------
(* What a step does to the processes.                                       *)

Others(p) == proc' \in [Procs -> CallState] /\ \A q \in Procs \ {p} : proc'[q] = proc[q]

\* Its call goes on,
Moves(p, step) ==
    /\ Others(p)
    /\ proc'[p].at = step
    /\ proc'[p].id = proc[p].id
    /\ proc'[p].op = proc[p].op
    /\ proc'[p].version = proc[p].version
    /\ proc'[p].on = proc[p].on
    /\ proc'[p].obj = proc[p].obj

\* addTrigger returns,
Added(p) ==
    /\ Others(p)
    /\ p = Main => proc'[p].at = "loading"
    /\ p # Main => proc'[p].at = "idle"

\* or removeTrigger does.
Removed(p) ==
    /\ Others(p)
    /\ p = Main => proc'[p].at = "unloading"
    /\ p # Main /\ proc[p].op # "update" => proc'[p].at = "idle"
    /\ p # Main /\ proc[p].op = "update" => proc'[p].at = "fetch" /\ proc'[p].id = proc[p].id

LEMMA RestFits ==
    /\ Rest \in CallState /\ Rest.at = "idle" /\ Rest.op = "remove" /\ Rest.id = None
    /\ Rest.obj = None /\ Rest.version = 0 /\ Rest.on = FALSE
BY DEF Rest, CallState, Steps

LEMMA GotoMoves ==
    ASSUME TypeOK, NEW p \in Procs, NEW step \in Steps, Goto(p, step)
    PROVE  Moves(p, step)
<1>1. proc[p] \in CallState /\ proc' = [proc EXCEPT ![p] = [proc[p] EXCEPT !.at = step]]
  BY DEF TypeOK, Goto
<1>2. [proc[p] EXCEPT !.at = step] \in CallState
  BY <1>1 DEF CallState
<1>3. Others(p) /\ proc'[p] = [proc[p] EXCEPT !.at = step]
  BY <1>1, <1>2 DEF TypeOK, Others
<1>4. QED BY <1>1, <1>3 DEF Moves, CallState

LEMMA AddReturns ==
    ASSUME TypeOK, NEW p \in Procs, ReturnFromAdd(p)
    PROVE  Added(p)
<1>1. [Rest EXCEPT !.at = "loading"] \in CallState /\ [Rest EXCEPT !.at = "loading"].at = "loading"
  BY RestFits DEF CallState, Steps, MainSteps
<1>2. CASE p = Main
  <2>1. proc' = [proc EXCEPT ![p] = [Rest EXCEPT !.at = "loading"]]
    BY <1>2 DEF ReturnFromAdd
  <2>2. QED BY <1>1, <1>2, <2>1 DEF TypeOK, Others, Added
<1>3. CASE p # Main
  <2>1. proc' = [proc EXCEPT ![p] = Rest]
    BY <1>3 DEF ReturnFromAdd
  <2>2. QED BY <1>3, <2>1, RestFits DEF TypeOK, Others, Added
<1>4. QED BY <1>2, <1>3

LEMMA RemoveReturns ==
    ASSUME TypeOK, NEW p \in Procs, ReturnFromRemove(p)
    PROVE  Removed(p)
<1>0. proc[p] \in CallState
  BY DEF TypeOK
<1>1. CASE p = Main
  <2>1. proc' = [proc EXCEPT ![p] = [Rest EXCEPT !.at = "unloading"]]
    BY <1>1 DEF ReturnFromRemove
  <2>2. [Rest EXCEPT !.at = "unloading"] \in CallState
        /\ [Rest EXCEPT !.at = "unloading"].at = "unloading"
    BY RestFits DEF CallState, Steps, MainSteps
  <2>3. QED BY <1>1, <2>1, <2>2 DEF TypeOK, Others, Removed
<1>2. CASE p # Main /\ proc[p].op = "update"
  <2>1. proc' = [proc EXCEPT ![p] = [proc[p] EXCEPT !.at = "fetch", !.obj = None]]
    BY <1>2 DEF ReturnFromRemove
  <2>2. /\ [proc[p] EXCEPT !.at = "fetch", !.obj = None] \in CallState
        /\ [proc[p] EXCEPT !.at = "fetch", !.obj = None].at = "fetch"
        /\ [proc[p] EXCEPT !.at = "fetch", !.obj = None].id = proc[p].id
    BY <1>0 DEF CallState, Steps
  <2>3. QED BY <1>2, <2>1, <2>2 DEF TypeOK, Others, Removed
<1>3. CASE p # Main /\ proc[p].op # "update"
  <2>1. proc' = [proc EXCEPT ![p] = Rest]
    BY <1>3 DEF ReturnFromRemove
  <2>2. QED BY <1>3, <2>1, RestFits DEF TypeOK, Others, Removed
<1>4. QED BY <1>1, <1>2, <1>3

LEMMA ProcOf ==
    ASSUME TypeOK, NEW p \in Procs
    PROVE  /\ proc[p] \in CallState /\ proc[p].at \in Steps /\ proc[p].id \in Ids \cup {None}
           /\ proc[p].obj \in Objects \cup {None} /\ proc[p].version \in Nat
           /\ proc[p].on \in BOOLEAN /\ proc[p].op \in {"update", "remove", "add"}
           /\ p # Main => p \in Jobs
BY DEF TypeOK, CallState, Procs

\* removeTrigger takes the mutex, or has nothing to remove.
Locks(p) ==
    /\ Others(p) /\ mu' = p
    /\ proc'[p].at = "stop_bus" /\ proc'[p].id = proc[p].id /\ proc'[p].op = proc[p].op
    /\ proc'[p].obj = triggers[proc[p].id]

LEMMA LockLocks ==
    ASSUME TypeOK, NEW p \in Procs, RemoveLock(p), proc[p].id \in Ids
    PROVE  \/ triggers[proc[p].id] = None /\ Removed(p) /\ mu' = mu
           \/ triggers[proc[p].id] # None /\ Locks(p)
<1>1. CASE triggers[proc[p].id] = None
  BY <1>1, RemoveReturns DEF RemoveLock
<1>2. CASE triggers[proc[p].id] # None
  <2>1. /\ mu' = p
        /\ proc' = [proc EXCEPT ![p] = [proc[p] EXCEPT !.at = "stop_bus",
                                                       !.obj = triggers[proc[p].id]]]
    BY <1>2 DEF RemoveLock
  <2>2. /\ [proc[p] EXCEPT !.at = "stop_bus", !.obj = triggers[proc[p].id]] \in CallState
        /\ [proc[p] EXCEPT !.at = "stop_bus", !.obj = triggers[proc[p].id]].id = proc[p].id
        /\ [proc[p] EXCEPT !.at = "stop_bus", !.obj = triggers[proc[p].id]].op = proc[p].op
        /\ [proc[p] EXCEPT !.at = "stop_bus", !.obj = triggers[proc[p].id]].at = "stop_bus"
        /\ [proc[p] EXCEPT !.at = "stop_bus", !.obj = triggers[proc[p].id]].obj
             = triggers[proc[p].id]
    BY <1>2, ProcOf DEF TypeOK, CallState, Steps, StopSteps
  <2>3. QED BY <1>2, <2>1, <2>2 DEF TypeOK, Others, Locks
<1>3. QED BY <1>1, <1>2

\* updateTrigger reads the row, or gives up.
ReadsRow(p) ==
    /\ Others(p) /\ Exists(proc[p].id) /\ synced' = synced
    /\ proc'[p].at = "check" /\ proc'[p].id = proc[p].id /\ proc'[p].obj = proc[p].obj
    /\ proc'[p].version = row[proc[p].id] /\ proc'[p].on = rowEnabled[proc[p].id]
GivesUp(p) ==
    /\ Others(p) /\ proc'[p] = Rest
    /\ synced' = [synced EXCEPT ![proc[p].id] = @ /\ ~Exists(proc[p].id)]

LEMMA FetchReads ==
    ASSUME TypeOK, NEW p \in Procs, Fetch(p), proc[p].id \in Ids
    PROVE  ReadsRow(p) \/ GivesUp(p)
<1>1. CASE /\ Exists(proc[p].id)
           /\ proc' = [proc EXCEPT ![p].at = "check", ![p].version = row[proc[p].id],
                                   ![p].on = rowEnabled[proc[p].id]]
           /\ UNCHANGED synced
  <2> DEFINE r == [proc[p] EXCEPT !.at = "check", !.version = row[proc[p].id],
                                  !.on = rowEnabled[proc[p].id]]
  <2>1. proc' = [proc EXCEPT ![p] = r]
    BY <1>1
  <2>2. row[proc[p].id] \in Nat /\ rowEnabled[proc[p].id] \in BOOLEAN
    BY DEF TypeOK
  <2>3. /\ r \in CallState /\ r.at = "check" /\ r.id = proc[p].id /\ r.obj = proc[p].obj
        /\ r.version = row[proc[p].id] /\ r.on = rowEnabled[proc[p].id]
    BY <2>2, ProcOf DEF CallState, Steps
  <2>4. Others(p) /\ proc'[p] = r
    BY <2>1, <2>3 DEF TypeOK, Others
  <2>5. QED BY <1>1, <2>3, <2>4 DEF ReadsRow
<1>2. CASE /\ proc' = [proc EXCEPT ![p] = Rest]
           /\ synced' = [synced EXCEPT ![proc[p].id] = @ /\ ~Exists(proc[p].id)]
  BY <1>2, RestFits DEF TypeOK, Others, GivesUp
<1>3. QED BY <1>1, <1>2 DEF Fetch

\* addTrigger has its object, or fails.
Makes(p, o) ==
    /\ Garbage(o)
    /\ version' = [version EXCEPT ![o] = [id |-> proc[p].id, version |-> proc[p].version]]
    /\ subs' = [subs EXCEPT ![o] = FALSE]
    /\ synced' = synced
    /\ Others(p) /\ proc'[p].at = "store" /\ proc'[p].id = proc[p].id /\ proc'[p].obj = o
Fails(p) ==
    /\ Added(p)
    /\ synced' = [synced EXCEPT ![proc[p].id] = FALSE]
    /\ UNCHANGED <<version, subs>>

LEMMA NewMakes ==
    ASSUME TypeOK, NEW p \in Procs, CheckNew(p)
    PROVE  (\E o \in Objects : Makes(p, o)) \/ Fails(p)
<1>1. ASSUME NEW o \in Objects, Garbage(o),
             version' = [version EXCEPT ![o] = [id |-> proc[p].id, version |-> proc[p].version]],
             subs' = [subs EXCEPT ![o] = FALSE],
             proc' = [proc EXCEPT ![p].at = "store", ![p].obj = o],
             UNCHANGED synced
      PROVE  Makes(p, o)
  <2> DEFINE r == [proc[p] EXCEPT !.at = "store", !.obj = o]
  <2>1. proc' = [proc EXCEPT ![p] = r]
    BY <1>1
  <2>2. r \in CallState /\ r.at = "store" /\ r.id = proc[p].id /\ r.obj = o
    BY ProcOf DEF CallState, Steps
  <2>3. Others(p) /\ proc'[p] = r
    BY <2>1, <2>2 DEF TypeOK, Others
  <2>4. QED BY <1>1, <2>2, <2>3 DEF Makes
<1>2. QED BY <1>1, AddReturns DEF CheckNew, Fails

-----------------------------------------------------------------------------
(* Calls and the map.                                                       *)

LEMMA WorkInit == Init => WorkInv
<1> SUFFICES ASSUME Init PROVE WorkInv
  OBVIOUS
<1>0. proc \in [Procs -> CallState] /\ \A p \in Procs :
          /\ p = Main => proc[p].at = "down"
          /\ p # Main => proc[p].at = "idle"
  <2>1. /\ [Rest EXCEPT !.at = "down"] \in CallState
        /\ [Rest EXCEPT !.at = "down"].at = "down"
    BY RestFits DEF CallState, Steps, MainSteps
  <2>2. QED BY <2>1, RestFits DEF Init
<1>1. TypeOK
  <2>1. row \in [Ids -> Nat] /\ rowEnabled \in [Ids -> BOOLEAN]
    BY DEF Init
  <2>2. version \in [Objects -> [id : Ids \cup {None}, version : Nat]]
    BY DEF Init
  <2>3. /\ triggers \in [Ids -> Objects \cup {None}] /\ triggerCounter \in Int
        /\ mu \in Procs \cup {None}
    BY DEF Init
  <2>4. isStarted \in BOOLEAN /\ subscribed \in BOOLEAN /\ bound \in BOOLEAN
    BY Zenon DEF Init
  <2>5. todo \subseteq [id : Ids, version : Nat]
    <3>1. todo = {}
      BY DEF Init
    <3>2. QED BY <3>1
  <2>6. /\ subs \in [Objects -> BOOLEAN] /\ plugged \in [Objects -> BOOLEAN]
        /\ onBus \in [Objects -> BOOLEAN]
    BY DEF Init
  <2>7. overlapped \in [Ids -> BOOLEAN] /\ synced \in [Ids -> BOOLEAN]
    BY DEF Init
  <2>8. QED BY <1>0, <2>1, <2>2, <2>3, <2>4, <2>5, <2>6, <2>7 DEF TypeOK
<1>2. CallsOK
  BY <1>0, NamesAssumption
  DEF CallsOK, CallOK, Calling, Procs, StartSteps, StopSteps, MainSteps
<1>3. MapOK /\ PluggedOK
  BY DEF Init, MapOK, PluggedOK
<1>4. QED BY <1>1, <1>2, <1>3 DEF WorkInv

LEMMA WorkRemoveLock == ASSUME WorkInv, NEW p \in Procs, RemoveLock(p) PROVE WorkInv'
<1>0. TypeOK /\ CallsOK /\ MapOK /\ PluggedOK /\ CallOK(p)
  BY DEF WorkInv, CallsOK
<1>1. /\ proc[p].at = "remove" /\ mu = None /\ proc[p].id \in Ids
      /\ UNCHANGED <<rowVars, managerVars, mainVars, objectVars, historyVars>>
  BY <1>0 DEF RemoveLock, CallOK, Calling, MainSteps
<1>2. \/ triggers[proc[p].id] = None /\ Removed(p) /\ mu' = mu
      \/ triggers[proc[p].id] # None /\ Locks(p)
  BY <1>0, <1>1, LockLocks
<1>3. TypeOK'
  BY <1>0, <1>1, <1>2
  DEF TypeOK, Removed, Locks, Others, rowVars, managerVars, mainVars, objectVars, historyVars
<1>4. CallsOK'
  <2> SUFFICES ASSUME NEW q \in Procs PROVE CallOK(q)'
    BY DEF CallsOK
  <2>1. CASE q = p
    <3>1. CASE Removed(p)
      BY <1>0, <1>1, <2>1, <3>1, ProcOf, NamesAssumption
      DEF Removed, CallOK, Calling, StopSteps, StartSteps, MainSteps
    <3>2. CASE triggers[proc[p].id] # None /\ Locks(p)
      BY <1>0, <1>1, <2>1, <3>2
      DEF Locks, CallOK, MapOK, TypeOK, Calling, StopSteps, StartSteps, MainSteps, managerVars,
          objectVars
    <3>3. QED BY <1>2, <3>1, <3>2
  <2>2. CASE q # p
    BY <1>0, <1>1, <1>2, <2>2, NamesAssumption
    DEF Removed, Locks, Others, CallsOK, CallOK, Calling, Procs, managerVars, objectVars
  <2>3. QED BY <2>1, <2>2
<1>5. MapOK' /\ PluggedOK'
  BY <1>0, <1>1 DEF MapOK, PluggedOK, managerVars, objectVars
<1>6. QED BY <1>3, <1>4, <1>5 DEF WorkInv

LEMMA WorkStopBus == ASSUME WorkInv, NEW p \in Procs, StopBus(p) PROVE WorkInv'
<1>0. TypeOK /\ CallsOK /\ MapOK /\ PluggedOK /\ CallOK(p)
  BY DEF WorkInv, CallsOK
<1>1. Moves(p, "stop_plugin")
  BY <1>0, GotoMoves DEF StopBus, Steps, StopSteps, StartSteps
<1>2. TypeOK'
  BY <1>0, <1>1
  DEF StopBus, rowVars, managerVars, mainVars, historyVars, Moves, Others, TypeOK, CallOK,
      Calling, StopSteps, StartSteps, MainSteps
<1>3. CallsOK'
  BY <1>0, <1>1, NamesAssumption, ProcOf
  DEF StopBus, rowVars, managerVars, mainVars, historyVars, Moves, Others, TypeOK, CallsOK,
      CallOK, Calling, StopSteps, StartSteps, MainSteps
<1>4. MapOK' /\ PluggedOK'
  BY <1>0, <1>1, NamesAssumption
  DEF StopBus, rowVars, managerVars, mainVars, historyVars, TypeOK, MapOK, PluggedOK,
      CallOK, Calling, StopSteps, StartSteps, MainSteps
<1>5. QED BY <1>2, <1>3, <1>4 DEF WorkInv

LEMMA WorkStopPlugin == ASSUME WorkInv, NEW p \in Procs, StopPlugin(p) PROVE WorkInv'
<1>0. TypeOK /\ CallsOK /\ MapOK /\ PluggedOK /\ CallOK(p)
  BY DEF WorkInv, CallsOK
<1>1. Moves(p, "delete")
  BY <1>0, GotoMoves DEF StopPlugin, Steps, StopSteps, StartSteps
<1>2. /\ plugged' \in [Objects -> BOOLEAN]
      /\ \A o \in Objects : plugged'[o] => plugged[o]
  BY <1>0 DEF StopPlugin, TypeOK
<1>3. TypeOK'
  BY <1>0, <1>1, <1>2
  DEF StopPlugin, rowVars, managerVars, mainVars, historyVars, Moves, Others, TypeOK,
      CallOK, Calling, StopSteps, StartSteps, MainSteps
<1>4. CallsOK'
  BY <1>0, <1>1, NamesAssumption, ProcOf
  DEF StopPlugin, rowVars, managerVars, mainVars, historyVars, Moves, Others, TypeOK,
      CallsOK, CallOK, Calling, StopSteps, StartSteps, MainSteps
<1>5. MapOK' /\ PluggedOK'
  BY <1>0, <1>1, <1>2, NamesAssumption
  DEF StopPlugin, rowVars, managerVars, mainVars, historyVars, TypeOK, MapOK, PluggedOK,
      CallOK, Calling, StopSteps, StartSteps, MainSteps
<1>6. QED BY <1>3, <1>4, <1>5 DEF WorkInv

LEMMA WorkDeleteUnlock == ASSUME WorkInv, NEW p \in Procs, DeleteUnlock(p) PROVE WorkInv'
<1>0. TypeOK /\ CallsOK /\ MapOK /\ PluggedOK /\ CallOK(p)
  BY DEF WorkInv, CallsOK
<1>1. Removed(p)
  BY <1>0, RemoveReturns DEF DeleteUnlock, Steps, StopSteps, StartSteps
<1>2. TypeOK'
  BY <1>0, <1>1
  DEF DeleteUnlock, rowVars, mainVars, objectVars, historyVars, Removed, Others, TypeOK,
      CallOK, Calling, StopSteps, StartSteps, MainSteps
<1>3. CallsOK'
  BY <1>0, <1>1, NamesAssumption, ProcOf
  DEF DeleteUnlock, rowVars, mainVars, objectVars, historyVars, Removed, Others, TypeOK,
      CallsOK, CallOK, Calling, StopSteps, StartSteps, MainSteps
<1>4. MapOK' /\ PluggedOK'
  BY <1>0, <1>1, NamesAssumption
  DEF DeleteUnlock, rowVars, mainVars, objectVars, historyVars, TypeOK, MapOK, PluggedOK,
      CallOK, Calling, StopSteps, StartSteps, MainSteps
<1>5. QED BY <1>2, <1>3, <1>4 DEF WorkInv

LEMMA WorkFetch == ASSUME WorkInv, NEW p \in Procs, Fetch(p) PROVE WorkInv'
<1>0. TypeOK /\ CallsOK /\ MapOK /\ PluggedOK /\ CallOK(p)
  BY DEF WorkInv, CallsOK
<1>1. /\ proc[p].at = "fetch" /\ proc[p].id \in Ids /\ p \in Jobs
      /\ UNCHANGED <<rowVars, managerVars, mu, mainVars, objectVars, overlapped>>
  BY <1>0 DEF Fetch, CallOK, Calling, MainSteps
<1>2. ReadsRow(p) \/ GivesUp(p)
  BY <1>0, <1>1, FetchReads
<1>3. TypeOK'
  <2>1. synced' \in [Ids -> BOOLEAN] /\ Others(p)
    BY <1>0, <1>2 DEF TypeOK, ReadsRow, GivesUp
  <2>2. QED BY <1>0, <1>1, <2>1 DEF TypeOK, Others, rowVars, managerVars, mainVars, objectVars
<1>4. CallsOK'
  <2>1. /\ Others(p) /\ proc'[p].at \in {"idle", "check"}
        /\ proc'[p].at = "check" => proc'[p].id = proc[p].id
    BY <1>2, RestFits DEF ReadsRow, GivesUp
  <2>2. QED
    BY <1>0, <1>1, <2>1
    DEF Others, CallsOK, CallOK, Calling, StopSteps, StartSteps, MainSteps, managerVars, objectVars
<1>5. MapOK' /\ PluggedOK'
  BY <1>0, <1>1 DEF MapOK, PluggedOK, managerVars, objectVars
<1>6. QED BY <1>3, <1>4, <1>5 DEF WorkInv

LEMMA WorkCheckExist == ASSUME WorkInv, NEW p \in Procs, CheckExist(p) PROVE WorkInv'
<1>0. TypeOK /\ CallsOK /\ MapOK /\ PluggedOK /\ CallOK(p)
  BY DEF WorkInv, CallsOK
<1>1. Added(p)
  BY <1>0, AddReturns DEF CheckExist, Steps, StopSteps, StartSteps
<1>2. TypeOK'
  BY <1>0, <1>1
  DEF CheckExist, rowVars, managerVars, mainVars, objectVars, historyVars, Added, Others,
      TypeOK, CallOK, Calling, StopSteps, StartSteps, MainSteps
<1>3. CallsOK'
  BY <1>0, <1>1, NamesAssumption, ProcOf
  DEF CheckExist, rowVars, managerVars, mainVars, objectVars, historyVars, Added, Others,
      TypeOK, CallsOK, CallOK, Calling, StopSteps, StartSteps, MainSteps
<1>4. MapOK' /\ PluggedOK'
  BY <1>0, <1>1, NamesAssumption
  DEF CheckExist, rowVars, managerVars, mainVars, objectVars, historyVars, TypeOK, MapOK,
      PluggedOK, CallOK, Calling, StopSteps, StartSteps, MainSteps
<1>5. QED BY <1>2, <1>3, <1>4 DEF WorkInv

LEMMA WorkCheckDisabled == ASSUME WorkInv, NEW p \in Procs, CheckDisabled(p) PROVE WorkInv'
<1>0. TypeOK /\ CallsOK /\ MapOK /\ PluggedOK /\ CallOK(p)
  BY DEF WorkInv, CallsOK
<1>1. Added(p)
  BY <1>0, AddReturns DEF CheckDisabled, Steps, StopSteps, StartSteps
<1>2. TypeOK'
  BY <1>0, <1>1
  DEF CheckDisabled, rowVars, mainVars, objectVars, historyVars, Added, Others, TypeOK,
      CallOK, Calling, StopSteps, StartSteps, MainSteps
<1>3. CallsOK'
  BY <1>0, <1>1, NamesAssumption, ProcOf
  DEF CheckDisabled, rowVars, mainVars, objectVars, historyVars, Added, Others, TypeOK,
      CallsOK, CallOK, Calling, StopSteps, StartSteps, MainSteps
<1>4. MapOK' /\ PluggedOK'
  BY <1>0, <1>1, NamesAssumption
  DEF CheckDisabled, rowVars, mainVars, objectVars, historyVars, TypeOK, MapOK, PluggedOK,
      CallOK, Calling, StopSteps, StartSteps, MainSteps
<1>5. QED BY <1>2, <1>3, <1>4 DEF WorkInv

LEMMA WorkCheckNew == ASSUME WorkInv, NEW p \in Procs, CheckNew(p) PROVE WorkInv'
<1>0. TypeOK /\ CallsOK /\ MapOK /\ PluggedOK /\ CallOK(p)
  BY DEF WorkInv, CallsOK
<1>1. /\ proc[p].at = "check" /\ proc[p].id \in Ids
      /\ UNCHANGED <<rowVars, managerVars, mu, mainVars, plugged, onBus, overlapped>>
  BY <1>0 DEF CheckNew, CallOK, Calling, MainSteps
<1>2. CASE Fails(p)
  <2>1. TypeOK'
    BY <1>0, <1>1, <1>2 DEF TypeOK, Fails, Added, Others, rowVars, managerVars, mainVars
  <2>2. CallsOK'
    BY <1>0, <1>1, <1>2, ProcOf
    DEF Fails, Added, Others, CallsOK, CallOK, Calling, StopSteps, StartSteps, MainSteps, managerVars
  <2>3. MapOK' /\ PluggedOK'
    BY <1>0, <1>1, <1>2 DEF Fails, MapOK, PluggedOK, managerVars
  <2>4. QED BY <2>1, <2>2, <2>3 DEF WorkInv
<1>3. ASSUME NEW o \in Objects, Makes(p, o) PROVE WorkInv'
  <2>1. TypeOK'
    <3>1. version' \in [Objects -> [id : Ids \cup {None}, version : Nat]]
      BY <1>0, <1>1, <1>3, ProcOf DEF Makes, TypeOK
    <3>2. subs' \in [Objects -> BOOLEAN] /\ proc' \in [Procs -> CallState] /\ synced' = synced
      BY <1>0, <1>3 DEF Makes, Others, TypeOK
    <3>3. QED BY <1>0, <1>1, <3>1, <3>2 DEF TypeOK, rowVars, managerVars, mainVars
  <2>2. /\ \A i \in Ids : triggers[i] # o
        /\ \A q \in Procs : proc[q].obj # o
        /\ ~plugged[o] /\ ~onBus[o]
    BY <1>3 DEF Makes, Garbage
  <2>3. /\ version'[o].id = proc[p].id
        /\ \A u \in Objects \ {o} : version'[u] = version[u] /\ subs'[u] = subs[u]
    BY <1>0, <1>3 DEF Makes, TypeOK
  <2>4. CallsOK'
    BY <1>0, <1>1, <1>3, <2>2, <2>3
    DEF Makes, Others, CallsOK, CallOK, Calling, StopSteps, StartSteps, MainSteps, managerVars
  <2>5. MapOK' /\ PluggedOK'
    BY <1>0, <1>1, <2>2, <2>3 DEF TypeOK, MapOK, PluggedOK, managerVars
  <2>6. QED BY <2>1, <2>4, <2>5 DEF WorkInv
<1>4. QED BY <1>0, <1>2, <1>3, NewMakes

LEMMA WorkStoreTrigger == ASSUME WorkInv, NEW p \in Procs, StoreTrigger(p) PROVE WorkInv'
<1>0. TypeOK /\ CallsOK /\ MapOK /\ PluggedOK /\ CallOK(p)
  BY DEF WorkInv, CallsOK
<1>1. Moves(p, "start")
  BY <1>0, GotoMoves DEF StoreTrigger, Steps, StopSteps, StartSteps
<1>2. TypeOK'
  BY <1>0, <1>1
  DEF StoreTrigger, rowVars, mainVars, objectVars, historyVars, Moves, Others, TypeOK,
      CallOK, Calling, StopSteps, StartSteps, MainSteps
<1>3. CallsOK'
  BY <1>0, <1>1, NamesAssumption, ProcOf
  DEF StoreTrigger, rowVars, mainVars, objectVars, historyVars, Moves, Others, TypeOK,
      CallsOK, CallOK, Calling, StopSteps, StartSteps, MainSteps
<1>4. MapOK' /\ PluggedOK'
  BY <1>0, <1>1, NamesAssumption
  DEF StoreTrigger, rowVars, mainVars, objectVars, historyVars, TypeOK, MapOK, PluggedOK,
      CallOK, Calling, StopSteps, StartSteps, MainSteps
<1>5. QED BY <1>2, <1>3, <1>4 DEF WorkInv

LEMMA WorkStartSubscribers == ASSUME WorkInv, NEW p \in Procs, StartSubscribers(p) PROVE WorkInv'
<1>0. TypeOK /\ CallsOK /\ MapOK /\ PluggedOK /\ CallOK(p)
  BY DEF WorkInv, CallsOK
<1>1. Moves(p, "start_plugin")
  BY <1>0, GotoMoves DEF StartSubscribers, Steps, StopSteps, StartSteps
<1>2. TypeOK'
  BY <1>0, <1>1
  DEF StartSubscribers, rowVars, managerVars, mainVars, historyVars, Moves, Others, TypeOK,
      CallOK, Calling, StopSteps, StartSteps, MainSteps
<1>3. CallsOK'
  BY <1>0, <1>1, NamesAssumption, ProcOf
  DEF StartSubscribers, rowVars, managerVars, mainVars, historyVars, Moves, Others, TypeOK,
      CallsOK, CallOK, Calling, StopSteps, StartSteps, MainSteps
<1>4. MapOK' /\ PluggedOK'
  BY <1>0, <1>1, NamesAssumption
  DEF StartSubscribers, rowVars, managerVars, mainVars, historyVars, TypeOK, MapOK,
      PluggedOK, CallOK, Calling, StopSteps, StartSteps, MainSteps
<1>5. QED BY <1>2, <1>3, <1>4 DEF WorkInv

LEMMA WorkStartPlugin == ASSUME WorkInv, NEW p \in Procs, StartPlugin(p) PROVE WorkInv'
<1>0. TypeOK /\ CallsOK /\ MapOK /\ PluggedOK /\ CallOK(p)
  BY DEF WorkInv, CallsOK
<1>1. Moves(p, "start_bus")
  BY <1>0, GotoMoves DEF StartPlugin, Steps, StopSteps, StartSteps
<1>2. TypeOK'
  BY <1>0, <1>1
  DEF StartPlugin, rowVars, managerVars, mainVars, historyVars, Moves, Others, TypeOK,
      CallOK, Calling, StopSteps, StartSteps, MainSteps
<1>3. CallsOK'
  BY <1>0, <1>1, NamesAssumption, ProcOf
  DEF StartPlugin, rowVars, managerVars, mainVars, historyVars, Moves, Others, TypeOK,
      CallsOK, CallOK, Calling, StopSteps, StartSteps, MainSteps
<1>4. MapOK' /\ PluggedOK'
  BY <1>0, <1>1, NamesAssumption
  DEF StartPlugin, rowVars, managerVars, mainVars, historyVars, TypeOK, MapOK, PluggedOK,
      CallOK, Calling, StopSteps, StartSteps, MainSteps
<1>5. QED BY <1>2, <1>3, <1>4 DEF WorkInv

LEMMA WorkStartBus == ASSUME WorkInv, NEW p \in Procs, StartBus(p) PROVE WorkInv'
<1>0. TypeOK /\ CallsOK /\ MapOK /\ PluggedOK /\ CallOK(p)
  BY DEF WorkInv, CallsOK
<1>1. Moves(p, "count")
  BY <1>0, GotoMoves DEF StartBus, Steps, StopSteps, StartSteps
<1>2. TypeOK'
  BY <1>0, <1>1
  DEF StartBus, rowVars, managerVars, mainVars, historyVars, Moves, Others, TypeOK, CallOK,
      Calling, StopSteps, StartSteps, MainSteps
<1>3. CallsOK'
  BY <1>0, <1>1, NamesAssumption, ProcOf
  DEF StartBus, rowVars, managerVars, mainVars, historyVars, Moves, Others, TypeOK, CallsOK,
      CallOK, Calling, StopSteps, StartSteps, MainSteps
<1>4. MapOK' /\ PluggedOK'
  BY <1>0, <1>1, NamesAssumption
  DEF StartBus, rowVars, managerVars, mainVars, historyVars, TypeOK, MapOK, PluggedOK,
      CallOK, Calling, StopSteps, StartSteps, MainSteps
<1>5. QED BY <1>2, <1>3, <1>4 DEF WorkInv

LEMMA WorkCount == ASSUME WorkInv, NEW p \in Procs, Count(p) PROVE WorkInv'
<1>0. TypeOK /\ CallsOK /\ MapOK /\ PluggedOK /\ CallOK(p)
  BY DEF WorkInv, CallsOK
<1>1. Added(p)
  BY <1>0, AddReturns DEF Count, Steps, StopSteps, StartSteps
<1>2. TypeOK'
  BY <1>0, <1>1
  DEF Count, rowVars, mainVars, objectVars, historyVars, Added, Others, TypeOK, CallOK,
      Calling, StopSteps, StartSteps, MainSteps
<1>3. CallsOK'
  BY <1>0, <1>1, NamesAssumption, ProcOf
  DEF Count, rowVars, mainVars, objectVars, historyVars, Added, Others, TypeOK, CallsOK,
      CallOK, Calling, StopSteps, StartSteps, MainSteps
<1>4. MapOK' /\ PluggedOK'
  BY <1>0, <1>1, NamesAssumption
  DEF Count, rowVars, mainVars, objectVars, historyVars, TypeOK, MapOK, PluggedOK, CallOK,
      Calling, StopSteps, StartSteps, MainSteps
<1>5. QED BY <1>2, <1>3, <1>4 DEF WorkInv

LEMMA WorkLoad == ASSUME WorkInv, Load PROVE WorkInv'
<1>0. TypeOK /\ CallsOK /\ MapOK /\ PluggedOK /\ Main \in Procs
  BY DEF WorkInv, Procs
<1>1. proc' \in [Procs -> CallState]
  BY <1>0, GotoMoves DEF Load, Steps, MainSteps, Moves, Others
<1>2. TypeOK'
  <2>1. todo' \subseteq [id : Ids, version : Nat] /\ synced' \in [Ids -> BOOLEAN]
    <3>1. CASE todo' = todo /\ synced' \in [Ids -> BOOLEAN]
      BY <1>0, <3>1 DEF TypeOK
    <3>2. CASE /\ todo' = {[id |-> id, version |-> row[id]] :
                             id \in {i \in Ids : Exists(i) /\ rowEnabled[i]}}
               /\ synced' \in [Ids -> BOOLEAN]
      BY <1>0, <3>2 DEF TypeOK
    <3>3. \/ todo' = todo /\ synced' \in [Ids -> BOOLEAN]
          \/ /\ todo' = {[id |-> id, version |-> row[id]] :
                           id \in {i \in Ids : Exists(i) /\ rowEnabled[i]}}
             /\ synced' \in [Ids -> BOOLEAN]
      <4>1. CASE isStarted
        BY <1>0, <4>1 DEF Load, TypeOK
      <4>2. CASE ~isStarted
        <5>1. \A f : f = [id \in Ids |-> FALSE] => f \in [Ids -> BOOLEAN]
          OBVIOUS
        <5>2. ASSUME NEW f, f = [id \in Ids |-> synced[id] \/ (triggers[id] = None /\ Quiet(id))]
              PROVE  f \in [Ids -> BOOLEAN]
          <6>1. \A id \in Ids : (synced[id] \/ (triggers[id] = None /\ Quiet(id))) \in BOOLEAN
            OBVIOUS
          <6>2. QED BY <5>2, <6>1
        <5>3. QED BY <4>2, <5>1, <5>2 DEF Load
      <4>3. QED BY <4>1, <4>2
    <3>4. QED BY <3>1, <3>2, <3>3
  <2>2. QED
    BY <1>0, <1>1, <2>1 DEF Load, TypeOK, rowVars, managerVars, objectVars
<1>3. CallsOK'
  <2>1. \E step \in MainSteps : Moves(Main, step)
    BY <1>0, GotoMoves DEF Load, Steps, MainSteps
  <2>2. QED
    BY <1>0, <2>1, ProcOf
    DEF Load, Moves, Others, CallsOK, CallOK, Calling, StopSteps, StartSteps, MainSteps,
        managerVars, objectVars
<1>4. MapOK' /\ PluggedOK'
  BY <1>0 DEF Load, managerVars, objectVars, MapOK, PluggedOK
<1>5. QED BY <1>2, <1>3, <1>4 DEF WorkInv

LEMMA LoadCalls ==
    ASSUME TypeOK, NEW model \in todo, LoadNext(model)
    PROVE  /\ Main \in Procs /\ model.id \in Ids /\ model.version \in Nat
           /\ Others(Main) /\ proc'[Main].at = "check" /\ proc'[Main].id = model.id
           /\ proc'[Main].op = "add" /\ proc'[Main].version = model.version
           /\ proc'[Main].on = TRUE
<1> DEFINE r == [at |-> "check", id |-> model.id, op |-> "add", version |-> model.version,
                 on |-> TRUE, obj |-> None]
<1>1. Main \in Procs /\ model.id \in Ids /\ model.version \in Nat
  BY DEF TypeOK, Procs
<1>2. r \in CallState
  BY <1>1 DEF CallState, Steps
<1>3. proc' = [proc EXCEPT ![Main] = r]
  BY DEF LoadNext
<1>4. Others(Main) /\ proc'[Main] = r
  BY <1>1, <1>2, <1>3 DEF TypeOK, Others
<1>5. QED BY <1>1, <1>4

LEMMA WorkLoadNext == ASSUME WorkInv, NEW model \in todo, LoadNext(model) PROVE WorkInv'
<1>0. TypeOK /\ CallsOK /\ MapOK /\ PluggedOK
  BY DEF WorkInv
<1>1. /\ Main \in Procs /\ model.id \in Ids
      /\ Others(Main) /\ proc'[Main].at = "check" /\ proc'[Main].id = model.id
  BY <1>0, LoadCalls
<1>2. /\ proc[Main].at = "loading" /\ todo' = todo \ {model}
      /\ overlapped' \in [Ids -> BOOLEAN]
      /\ UNCHANGED <<rowVars, managerVars, mu, isStarted, subscribed, bound, objectVars, synced>>
  BY <1>0 DEF LoadNext, TypeOK
<1>3. TypeOK'
  BY <1>0, <1>1, <1>2 DEF TypeOK, Others, rowVars, managerVars, objectVars
<1>4. CallsOK'
  BY <1>0, <1>1, <1>2
  DEF Others, CallsOK, CallOK, Calling, StopSteps, StartSteps, MainSteps, managerVars, objectVars
<1>5. MapOK' /\ PluggedOK'
  BY <1>0, <1>2 DEF MapOK, PluggedOK, managerVars, objectVars
<1>6. QED BY <1>3, <1>4, <1>5 DEF WorkInv

LEMMA WorkLoadEnd == ASSUME WorkInv, LoadEnd PROVE WorkInv'
<1>0. TypeOK /\ CallsOK /\ MapOK /\ PluggedOK /\ Main \in Procs
  BY DEF WorkInv, Procs
<1>1. \E step \in MainSteps : Moves(Main, step)
  BY <1>0, GotoMoves DEF LoadEnd, Steps, MainSteps
<1>2. TypeOK'
  BY <1>0, <1>1
  DEF LoadEnd, rowVars, managerVars, objectVars, historyVars, Moves, Others, TypeOK
<1>3. CallsOK'
  BY <1>0, <1>1, ProcOf
  DEF LoadEnd, rowVars, managerVars, objectVars, historyVars, Moves, Others, CallsOK,
      CallOK, Calling, StopSteps, StartSteps, MainSteps
<1>4. MapOK' /\ PluggedOK'
  BY <1>0 DEF LoadEnd, rowVars, managerVars, objectVars, historyVars, MapOK, PluggedOK
<1>5. QED BY <1>2, <1>3, <1>4 DEF WorkInv

LEMMA WorkSubscribe == ASSUME WorkInv, Subscribe PROVE WorkInv'
<1>0. TypeOK /\ CallsOK /\ MapOK /\ PluggedOK /\ Main \in Procs
  BY DEF WorkInv, Procs
<1>1. \E step \in MainSteps : Moves(Main, step)
  BY <1>0, GotoMoves DEF Subscribe, Steps, MainSteps
<1>2. TypeOK'
  BY <1>0, <1>1
  DEF Subscribe, rowVars, managerVars, objectVars, historyVars, Moves, Others, TypeOK
<1>3. CallsOK'
  BY <1>0, <1>1, ProcOf
  DEF Subscribe, rowVars, managerVars, objectVars, historyVars, Moves, Others, CallsOK,
      CallOK, Calling, StopSteps, StartSteps, MainSteps
<1>4. MapOK' /\ PluggedOK'
  BY <1>0 DEF Subscribe, rowVars, managerVars, objectVars, historyVars, MapOK, PluggedOK
<1>5. QED BY <1>2, <1>3, <1>4 DEF WorkInv

LEMMA WorkShutdown == ASSUME WorkInv, Shutdown PROVE WorkInv'
<1>0. TypeOK /\ CallsOK /\ MapOK /\ PluggedOK /\ Main \in Procs
  BY DEF WorkInv, Procs
<1>1. proc' \in [Procs -> CallState]
  BY <1>0, GotoMoves DEF Shutdown, Steps, MainSteps, Moves, Others
<1>2. TypeOK'
  <2>1. todo' \subseteq [id : Ids, version : Nat]
    <3>1. CASE todo' = todo
      BY <1>0, <3>1 DEF TypeOK
    <3>2. ASSUME NEW late \in SUBSET (Ids \ Loaded),
                 todo' = {[id |-> id, version |-> 0] : id \in Loaded \cup late}
          PROVE  todo' \subseteq [id : Ids, version : Nat]
      BY <3>2 DEF Loaded
    <3>3. QED BY <3>1, <3>2 DEF Shutdown
  <2>2. QED
    BY <1>0, <1>1, <2>1 DEF Shutdown, TypeOK, rowVars, managerVars, objectVars, historyVars
<1>3. CallsOK'
  <2>1. \E step \in MainSteps : Moves(Main, step)
    BY <1>0, GotoMoves DEF Shutdown, Steps, MainSteps
  <2>2. QED
    BY <1>0, <2>1, ProcOf
    DEF Shutdown, Moves, Others, CallsOK, CallOK, Calling, StopSteps, StartSteps, MainSteps,
        managerVars, objectVars
<1>4. MapOK' /\ PluggedOK'
  BY <1>0 DEF Shutdown, managerVars, objectVars, MapOK, PluggedOK
<1>5. QED BY <1>2, <1>3, <1>4 DEF WorkInv

LEMMA UnloadCalls ==
    ASSUME TypeOK, NEW model \in todo, UnloadNext(model)
    PROVE  /\ Main \in Procs /\ model.id \in Ids
           /\ Others(Main) /\ proc'[Main].at = "remove" /\ proc'[Main].id = model.id
<1> DEFINE r == [proc[Main] EXCEPT !.at = "remove", !.id = model.id]
<1>1. Main \in Procs /\ model.id \in Ids
  BY DEF TypeOK, Procs
<1>2. r \in CallState /\ r.at = "remove" /\ r.id = model.id
  BY <1>1, ProcOf DEF CallState, Steps
<1>3. proc' = [proc EXCEPT ![Main] = r]
  BY DEF UnloadNext
<1>4. Others(Main) /\ proc'[Main] = r
  BY <1>1, <1>2, <1>3 DEF TypeOK, Others
<1>5. QED BY <1>1, <1>2, <1>4

LEMMA WorkUnloadNext == ASSUME WorkInv, NEW model \in todo, UnloadNext(model) PROVE WorkInv'
<1>0. TypeOK /\ CallsOK /\ MapOK /\ PluggedOK
  BY DEF WorkInv
<1>1. /\ Main \in Procs /\ model.id \in Ids
      /\ Others(Main) /\ proc'[Main].at = "remove" /\ proc'[Main].id = model.id
  BY <1>0, UnloadCalls
<1>2. /\ proc[Main].at = "unloading" /\ todo' = todo \ {model}
      /\ overlapped' \in [Ids -> BOOLEAN] /\ synced' \in [Ids -> BOOLEAN]
      /\ UNCHANGED <<rowVars, managerVars, mu, isStarted, subscribed, bound, objectVars>>
  BY <1>0 DEF UnloadNext, TypeOK
<1>3. TypeOK'
  BY <1>0, <1>1, <1>2 DEF TypeOK, Others, rowVars, managerVars, objectVars
<1>4. CallsOK'
  BY <1>0, <1>1, <1>2
  DEF Others, CallsOK, CallOK, Calling, StopSteps, StartSteps, MainSteps, managerVars, objectVars
<1>5. MapOK' /\ PluggedOK'
  BY <1>0, <1>2 DEF MapOK, PluggedOK, managerVars, objectVars
<1>6. QED BY <1>3, <1>4, <1>5 DEF WorkInv

LEMMA WorkUnloadEnd == ASSUME WorkInv, UnloadEnd PROVE WorkInv'
<1>0. TypeOK /\ CallsOK /\ MapOK /\ PluggedOK /\ Main \in Procs
  BY DEF WorkInv, Procs
<1>1. \E step \in MainSteps : Moves(Main, step)
  BY <1>0, GotoMoves DEF UnloadEnd, Steps, MainSteps
<1>2. TypeOK'
  BY <1>0, <1>1
  DEF UnloadEnd, rowVars, managerVars, objectVars, historyVars, Moves, Others, TypeOK
<1>3. CallsOK'
  BY <1>0, <1>1, ProcOf
  DEF UnloadEnd, rowVars, managerVars, objectVars, historyVars, Moves, Others, CallsOK,
      CallOK, Calling, StopSteps, StartSteps, MainSteps
<1>4. MapOK' /\ PluggedOK'
  BY <1>0 DEF UnloadEnd, rowVars, managerVars, objectVars, historyVars, MapOK, PluggedOK
<1>5. QED BY <1>2, <1>3, <1>4 DEF WorkInv

LEMMA WorkUnsubscribe == ASSUME WorkInv, Unsubscribe PROVE WorkInv'
<1>0. TypeOK /\ CallsOK /\ MapOK /\ PluggedOK /\ Main \in Procs
  BY DEF WorkInv, Procs
<1>1. \E step \in MainSteps : Moves(Main, step)
  BY <1>0, GotoMoves DEF Unsubscribe, Steps, MainSteps
<1>2. TypeOK'
  BY <1>0, <1>1
  DEF Unsubscribe, rowVars, managerVars, objectVars, historyVars, Moves, Others, TypeOK
<1>3. CallsOK'
  BY <1>0, <1>1, ProcOf
  DEF Unsubscribe, rowVars, managerVars, objectVars, historyVars, Moves, Others, CallsOK,
      CallOK, Calling, StopSteps, StartSteps, MainSteps
<1>4. MapOK' /\ PluggedOK'
  BY <1>0 DEF Unsubscribe, rowVars, managerVars, objectVars, historyVars, MapOK, PluggedOK
<1>5. QED BY <1>2, <1>3, <1>4 DEF WorkInv

\* A new goroutine has the mutex and the map before it.
Starts(j, id, what, model) ==
    /\ j \in Jobs /\ proc[j] = Rest /\ Others(j)
    /\ proc'[j].at = (IF what = "add" THEN "check" ELSE "remove")
    /\ proc'[j].id = id /\ proc'[j].op = what /\ proc'[j].obj = None
    /\ proc'[j].version = model.version /\ proc'[j].on = model.on
    /\ overlapped' = [overlapped EXCEPT ![id] = @ \/ ~Quiet(id)]

LEMMA SpawnStarts ==
    ASSUME TypeOK, NEW id \in Ids, NEW what \in {"update", "remove", "add"},
           NEW model \in [version : Nat, on : BOOLEAN], Spawn(id, what, model)
    PROVE  \E j \in Jobs : Starts(j, id, what, model)
<1>1. PICK j \in Jobs :
        /\ proc[j] = Rest
        /\ proc' = [proc EXCEPT ![j] =
                      [at |-> IF what = "add" THEN "check" ELSE "remove", id |-> id,
                       op |-> what, version |-> model.version, on |-> model.on,
                       obj |-> None]]
        /\ overlapped' = [overlapped EXCEPT ![id] = @ \/ ~Quiet(id)]
  BY DEF Spawn
<1> DEFINE step == IF what = "add" THEN "check" ELSE "remove"
<1> DEFINE r == [at |-> step, id |-> id, op |-> what, version |-> model.version,
                 on |-> model.on, obj |-> None]
<1>2. step \in Steps
  BY DEF Steps
<1> HIDE DEF step
<1>3. r \in CallState
  BY <1>2 DEF CallState
<1>4. proc' = [proc EXCEPT ![j] = r]
  BY <1>1 DEF step
<1>5. /\ r.at = step /\ r.id = id /\ r.op = what /\ r.version = model.version
      /\ r.on = model.on /\ r.obj = None
  OBVIOUS
<1> HIDE DEF r
<1>6. j \in Procs
  BY DEF Procs
<1>7. proc'[j] = r /\ Others(j)
  BY <1>3, <1>4, <1>6 DEF TypeOK, Others
<1>8. QED BY <1>1, <1>5, <1>7 DEF Starts, step

\* What an event changes: a row, and the goroutine that is told about it,
\* unless nobody listens.
Told(id) ==
    \/ \E j \in Jobs, what \in {"update", "remove"} :
           /\ Starts(j, id, what, NoModel)
           /\ what = "remove" /\ synced'[id] => ~rowEnabled'[id]
    \/ proc' = proc /\ overlapped' = overlapped /\ ~synced'[id]
    \/ /\ row[id] = 0 /\ row'[id] = 1 /\ row'[id] <= MaxVersion
       /\ \E j \in Jobs : Starts(j, id, "add", [version |-> 1, on |-> rowEnabled'[id]])

Kept(id) ==
    /\ row' \in [Ids -> Nat] /\ rowEnabled' \in [Ids -> BOOLEAN] /\ synced' \in [Ids -> BOOLEAN]
    /\ \A i \in Ids \ {id} :
           row'[i] = row[i] /\ rowEnabled'[i] = rowEnabled[i] /\ synced'[i] = synced[i]
    /\ row[id] # 0 => row'[id] # 0
    /\ UNCHANGED <<managerVars, mu, mainVars, objectVars>>

LEMMA GoneNumber == Gone \in Nat /\ Gone # 0 /\ MaxVersion \in Nat
BY BoundsAssumption DEF Gone

LEMMA NoModelFits == NoModel \in [version : Nat, on : BOOLEAN]
BY DEF NoModel

LEMMA Saves ==
    ASSUME TypeOK, NEW id \in Ids, NEW on \in BOOLEAN, Save(id, on)
    PROVE  /\ row' = [row EXCEPT ![id] = row[id] + 1] /\ row'[id] # 0 /\ row'[id] = row[id] + 1
           /\ row[id] \in Nat /\ row' \in [Ids -> Nat] /\ rowEnabled' \in [Ids -> BOOLEAN]
           /\ rowEnabled'[id] = on
           /\ \A i \in Ids \ {id} : row'[i] = row[i] /\ rowEnabled'[i] = rowEnabled[i]
BY DEF Save, TypeOK

LEMMA Drops ==
    ASSUME TypeOK, NEW id \in Ids, Drop(id)
    PROVE  /\ row' \in [Ids -> Nat] /\ rowEnabled' \in [Ids -> BOOLEAN]
           /\ row'[id] # 0 /\ rowEnabled'[id] = FALSE
           /\ \A i \in Ids \ {id} : row'[i] = row[i] /\ rowEnabled'[i] = rowEnabled[i]
BY GoneNumber DEF Drop, TypeOK

LEMMA PublishTold ==
    ASSUME TypeOK, NEW id \in Ids, NEW what \in {"update", "remove"}, Publish(id, what),
           what = "remove" => ~rowEnabled'[id]
    PROVE  /\ Told(id)
           /\ synced' \in [Ids -> BOOLEAN] /\ \A i \in Ids \ {id} : synced'[i] = synced[i]
<1>1. CASE subscribed
  BY <1>1, SpawnStarts, NoModelFits DEF Publish, TypeOK, Told
<1>2. CASE ~subscribed
  BY <1>2 DEF Publish, TypeOK, Told
<1>3. QED BY <1>1, <1>2

LEMMA EventTells ==
    ASSUME TypeOK, Event
    PROVE  \E id \in Ids : Kept(id) /\ Told(id)
<1>0. UNCHANGED <<managerVars, mu, mainVars, objectVars>>
  BY DEF Event
<1>1. PICK id \in Ids :
        \/ \E on \in BOOLEAN : Write(id, on) \/ TriggerAdd(id, on) \/ TriggerUpdate(id, on)
        \/ Enable(id)
        \/ Disable(id)
        \/ Delete(id)
        \/ TriggerDelete(id)
        \/ \E what \in {"update", "remove"} : PushCommand(id, what)
  BY DEF Event
<1>2. ASSUME NEW on \in BOOLEAN, Write(id, on) PROVE Kept(id) /\ Told(id)
  BY <1>0, <1>2, Saves, PublishTold DEF Write, Kept
<1>3. ASSUME NEW on \in BOOLEAN, TriggerAdd(id, on) PROVE Kept(id) /\ Told(id)
  <2>1. /\ Save(id, on) /\ Spawn(id, "add", [version |-> 1, on |-> on])
        /\ synced' = [synced EXCEPT ![id] = TRUE] /\ row[id] = 0 /\ row[id] < MaxVersion
    BY <1>3 DEF TriggerAdd, Save
  <2>2. [version |-> 1, on |-> on] \in [version : Nat, on : BOOLEAN]
    OBVIOUS
  <2>3. \E j \in Jobs : Starts(j, id, "add", [version |-> 1, on |-> on])
    BY <2>1, <2>2, SpawnStarts
  <2>4. row'[id] = 1 /\ row'[id] <= MaxVersion /\ rowEnabled'[id] = on
    BY <2>1, Saves, GoneNumber
  <2>5. Told(id)
    BY <2>1, <2>3, <2>4 DEF Told
  <2>6. synced' \in [Ids -> BOOLEAN] /\ \A i \in Ids \ {id} : synced'[i] = synced[i]
    BY <2>1 DEF TypeOK
  <2>7. QED BY <1>0, <2>1, <2>5, <2>6, Saves DEF Kept
<1>4. ASSUME NEW on \in BOOLEAN, TriggerUpdate(id, on) PROVE Kept(id) /\ Told(id)
  <2>1. /\ Save(id, on) /\ Spawn(id, "update", NoModel)
        /\ synced' = [synced EXCEPT ![id] = TRUE]
    BY <1>4 DEF TriggerUpdate
  <2>2. Told(id)
    BY <2>1, SpawnStarts, NoModelFits DEF Told
  <2>3. synced' \in [Ids -> BOOLEAN] /\ \A i \in Ids \ {id} : synced'[i] = synced[i]
    BY <2>1 DEF TypeOK
  <2>4. QED BY <1>0, <2>1, <2>2, <2>3, Saves DEF Kept
<1>5. ASSUME Enable(id) PROVE Kept(id) /\ Told(id)
  <2>1. /\ row' = row /\ rowEnabled' \in [Ids -> BOOLEAN]
        /\ \A i \in Ids \ {id} : rowEnabled'[i] = rowEnabled[i]
    BY <1>5 DEF Enable, TypeOK
  <2>2. QED BY <1>0, <1>5, <2>1, PublishTold DEF Enable, Kept, TypeOK
<1>6. ASSUME Disable(id) PROVE Kept(id) /\ Told(id)
  <2>1. /\ row' = row /\ rowEnabled' \in [Ids -> BOOLEAN] /\ ~rowEnabled'[id]
        /\ \A i \in Ids \ {id} : rowEnabled'[i] = rowEnabled[i]
    BY <1>6 DEF Disable, TypeOK
  <2>2. QED BY <1>0, <1>6, <2>1, PublishTold DEF Disable, Kept, TypeOK
<1>7. ASSUME Delete(id) PROVE Kept(id) /\ Told(id)
  BY <1>0, <1>7, Drops, PublishTold DEF Delete, Kept
<1>8. ASSUME TriggerDelete(id) PROVE Kept(id) /\ Told(id)
  <2>1. Drop(id) /\ Spawn(id, "remove", NoModel) /\ synced' = [synced EXCEPT ![id] = TRUE]
    BY <1>8 DEF TriggerDelete
  <2>2. Told(id)
    BY <2>1, Drops, SpawnStarts, NoModelFits DEF Told
  <2>3. synced' \in [Ids -> BOOLEAN] /\ \A i \in Ids \ {id} : synced'[i] = synced[i]
    BY <2>1 DEF TypeOK
  <2>4. QED BY <1>0, <2>1, <2>2, <2>3, Drops DEF Kept
<1>9. ASSUME NEW what \in {"update", "remove"}, PushCommand(id, what) PROVE Kept(id) /\ Told(id)
  <2>1. /\ Spawn(id, what, NoModel) /\ UNCHANGED <<row, rowEnabled>>
        /\ synced' = [synced EXCEPT ![id] = @ /\ what = "update"]
    BY <1>9 DEF PushCommand, rowVars
  <2>2. /\ synced' \in [Ids -> BOOLEAN] /\ \A i \in Ids \ {id} : synced'[i] = synced[i]
        /\ what = "remove" => ~synced'[id]
    BY <2>1 DEF TypeOK
  <2>3. Told(id)
    BY <2>1, <2>2, SpawnStarts, NoModelFits DEF Told
  <2>4. QED BY <1>0, <2>1, <2>2, <2>3 DEF Kept, TypeOK
<1>10. QED BY <1>1, <1>2, <1>3, <1>4, <1>5, <1>6, <1>7, <1>8, <1>9

LEMMA WorkEvent == ASSUME WorkInv, Event PROVE WorkInv'
<1>0. TypeOK /\ CallsOK /\ MapOK /\ PluggedOK
  BY DEF WorkInv
<1>1. PICK id \in Ids : Kept(id) /\ Told(id)
  BY <1>0, EventTells
<1>2. \/ proc' = proc /\ overlapped' = overlapped
      \/ \E j \in Jobs :
             /\ Others(j) /\ proc'[j].at \in {"check", "remove"} /\ proc'[j].id = id
             /\ overlapped' = [overlapped EXCEPT ![id] = @ \/ ~Quiet(id)]
  BY <1>1 DEF Told, Starts
<1>3. TypeOK'
  <2>1. proc' \in [Procs -> CallState] /\ overlapped' \in [Ids -> BOOLEAN]
    BY <1>0, <1>2 DEF TypeOK, Others
  <2>2. QED BY <1>0, <1>1, <2>1 DEF Kept, TypeOK, managerVars, mainVars, objectVars
<1>4. CallsOK'
  <2>1. UNCHANGED <<mu, triggers, version, subs>>
    BY <1>1 DEF Kept, managerVars, objectVars
  <2>2. CASE proc' = proc
    BY <1>0, <2>1, <2>2 DEF CallsOK, CallOK, Calling
  <2>3. ASSUME NEW j \in Jobs, Others(j), proc'[j].at \in {"check", "remove"}, proc'[j].id = id
        PROVE  CallsOK'
    BY <1>0, <2>1, <2>3
    DEF Others, CallsOK, CallOK, Calling, StopSteps, StartSteps, MainSteps
  <2>4. QED BY <1>2, <2>2, <2>3
<1>5. MapOK' /\ PluggedOK'
  BY <1>0, <1>1 DEF Kept, MapOK, PluggedOK, managerVars, objectVars
<1>6. QED BY <1>3, <1>4, <1>5 DEF WorkInv

LEMMA WorkStep == ASSUME WorkInv, NEW p \in Procs, Step(p) PROVE WorkInv'
BY WorkRemoveLock, WorkStopBus, WorkStopPlugin, WorkDeleteUnlock, WorkFetch, WorkCheckExist,
   WorkCheckDisabled, WorkCheckNew, WorkStoreTrigger, WorkStartSubscribers, WorkStartPlugin,
   WorkStartBus, WorkCount DEF Step

LEMMA WorkMain == ASSUME WorkInv, MainStep PROVE WorkInv'
BY WorkLoad, WorkLoadNext, WorkLoadEnd, WorkSubscribe, WorkShutdown, WorkUnloadNext,
   WorkUnloadEnd, WorkUnsubscribe DEF MainStep

LEMMA WorkStutter == ASSUME WorkInv, UNCHANGED stateVars PROVE WorkInv'
<1>1. UNCHANGED <<rowVars, managerVars, mu, mainVars, proc, objectVars, historyVars>>
  BY DEF stateVars
<1>2. TypeOK'
  BY <1>1 DEF WorkInv, TypeOK, rowVars, managerVars, mainVars, objectVars, historyVars
<1>3. CallsOK' /\ MapOK' /\ PluggedOK'
  BY <1>1 DEF WorkInv, CallsOK, CallOK, MapOK, PluggedOK, Calling, managerVars, objectVars
<1>4. QED BY <1>2, <1>3 DEF WorkInv

\* A step is one of the manager's, or leaves all but the crash alone.
LEMMA WorksOrStays == [Next]_vars => Work \/ UNCHANGED stateVars
BY DEF Next, Fatal, Ended, vars

LEMMA WorkNext == WorkInv /\ [Next]_vars => WorkInv'
BY WorksOrStays, WorkEvent, WorkStep, WorkMain, WorkStutter DEF Work

\* The state is of its type, a process that holds the mutex works on the
\* object the map holds for its id (the steps of removeTrigger and
\* addTrigger), and what is subscribed at a plugin has its subscribers.
THEOREM CallsOwnTriggers == Spec => []WorkInv
<1>1. Init => WorkInv
  BY WorkInit
<1>2. WorkInv /\ [Next]_vars => WorkInv'
  BY WorkNext
<1>3. QED BY <1>1, <1>2, PTL DEF Spec

-----------------------------------------------------------------------------
(* The counter.                                                             *)

\* A step that starts, stores and deletes nothing.
LEMMA CountStill ==
    ASSUME CountInv, WorkInv', triggers' = triggers, Starting' = Starting,
           triggerCounter' \in {triggerCounter, triggerCounter + 1}
    PROVE  CountInv'
<1>1. Loaded' = Loaded
  BY DEF Loaded
<1>2. Cardinality(Loaded) \in Nat /\ Cardinality(Starting) \in Nat /\ triggerCounter \in Int
  BY FS_CardinalityType DEF CountInv, WorkInv, TypeOK
<1>3. Cardinality(Loaded) <= triggerCounter + Cardinality(Starting)
  BY DEF CountInv, CounterCoversMap
<1>4. Cardinality(Loaded) <= triggerCounter' + Cardinality(Starting)
  BY <1>2, <1>3
<1>5. QED BY <1>1, <1>4 DEF CountInv, CounterCoversMap

LEMMA CountStore ==
    ASSUME CountInv, WorkInv', NEW p \in Procs, StoreTrigger(p)
    PROVE  CountInv'
<1>0. /\ TypeOK /\ proc[p].at = "store" /\ Moves(p, "start") /\ triggerCounter' = triggerCounter
      /\ triggers' = [triggers EXCEPT ![proc[p].id] = proc[p].obj] /\ proc[p].id \in Ids
  BY GotoMoves
  DEF StoreTrigger, CountInv, WorkInv, CallsOK, CallOK, Calling, Steps, StartSteps, MainSteps
<1>1. Loaded' \subseteq Loaded \cup {proc[p].id}
  BY <1>0 DEF Loaded, TypeOK
<1>2. Starting' = Starting \cup {p} /\ p \notin Starting
  BY <1>0 DEF Starting, Moves, Others
<1>3. IsFiniteSet(Loaded) /\ IsFiniteSet(Starting)
  BY DEF CountInv
<1>4. Cardinality(Loaded) \in Nat /\ Cardinality(Starting) \in Nat
  BY <1>3, FS_CardinalityType
<1>5. IsFiniteSet(Starting') /\ Cardinality(Starting') = Cardinality(Starting) + 1
  BY <1>2, <1>3, FS_AddElement
<1>6. /\ IsFiniteSet(Loaded \cup {proc[p].id})
      /\ \/ Cardinality(Loaded \cup {proc[p].id}) = Cardinality(Loaded)
         \/ Cardinality(Loaded \cup {proc[p].id}) = Cardinality(Loaded) + 1
  BY <1>3, FS_AddElement, Zenon
<1>7. /\ IsFiniteSet(Loaded')
      /\ Cardinality(Loaded') <= Cardinality(Loaded \cup {proc[p].id})
      /\ Cardinality(Loaded') \in Nat
  BY <1>1, <1>6, FS_Subset, FS_CardinalityType
<1>8. Cardinality(Loaded) <= triggerCounter + Cardinality(Starting) /\ triggerCounter \in Int
  BY <1>0 DEF CountInv, CounterCoversMap, TypeOK
<1>9. Cardinality(Loaded') <= triggerCounter' + Cardinality(Starting')
  BY <1>0, <1>4, <1>5, <1>6, <1>7, <1>8
<1>10. QED BY <1>5, <1>7, <1>9 DEF CountInv, CounterCoversMap

LEMMA CountCount ==
    ASSUME CountInv, WorkInv', NEW p \in Procs, Count(p)
    PROVE  CountInv'
<1>0. /\ TypeOK /\ proc[p].at = "count" /\ Added(p) /\ triggerCounter' = triggerCounter + 1
      /\ triggers' = triggers
  BY AddReturns DEF Count, CountInv, WorkInv
<1>1. Loaded' = Loaded
  BY <1>0 DEF Loaded
<1>2. Starting' = Starting \ {p} /\ p \in Starting
  BY <1>0 DEF Starting, Added, Others
<1>3. IsFiniteSet(Starting') /\ Cardinality(Starting') = Cardinality(Starting) - 1
  BY <1>2, FS_RemoveElement DEF CountInv
<1>4. Cardinality(Loaded) \in Nat /\ Cardinality(Starting) \in Nat
  BY FS_CardinalityType DEF CountInv
<1>5. Cardinality(Loaded) <= triggerCounter + Cardinality(Starting) /\ triggerCounter \in Int
  BY <1>0 DEF CountInv, CounterCoversMap, TypeOK
<1>6. Cardinality(Loaded) <= triggerCounter' + Cardinality(Starting')
  BY <1>0, <1>3, <1>4, <1>5
<1>7. QED BY <1>1, <1>3, <1>6 DEF CountInv, CounterCoversMap

LEMMA CountDelete ==
    ASSUME CountInv, WorkInv', NEW p \in Procs, DeleteUnlock(p)
    PROVE  CountInv'
<1>0. /\ TypeOK /\ proc[p].at = "delete" /\ Removed(p) /\ triggerCounter' = triggerCounter - 1
      /\ triggers' = [triggers EXCEPT ![proc[p].id] = None] /\ proc[p].id \in Ids
      /\ triggers[proc[p].id] # None
  BY RemoveReturns, NamesAssumption
  DEF DeleteUnlock, CountInv, WorkInv, CallsOK, CallOK, Calling, StopSteps, MainSteps
<1>1. Loaded' = Loaded \ {proc[p].id} /\ proc[p].id \in Loaded
  BY <1>0 DEF Loaded, TypeOK
<1>2. Starting' = Starting
  BY <1>0, ProcOf DEF Starting, Removed, Others
<1>3. Cardinality(Loaded) \in Nat /\ Cardinality(Starting) \in Nat
  BY FS_CardinalityType DEF CountInv
<1>4. IsFiniteSet(Loaded') /\ Cardinality(Loaded') = Cardinality(Loaded) - 1
  BY <1>1, FS_RemoveElement DEF CountInv
<1>5. Cardinality(Loaded) <= triggerCounter + Cardinality(Starting) /\ triggerCounter \in Int
  BY <1>0 DEF CountInv, CounterCoversMap, TypeOK
<1>6. Cardinality(Loaded') <= triggerCounter' + Cardinality(Starting')
  BY <1>0, <1>2, <1>3, <1>4, <1>5
<1>7. QED BY <1>2, <1>4, <1>6 DEF CountInv, CounterCoversMap

\* Every other step leaves the map and who is starting.
StartsNothing ==
    /\ triggers' = triggers /\ Starting' = Starting
    /\ triggerCounter' \in {triggerCounter, triggerCounter + 1}

\* One process moves, within Start or outside it.
LEMMA StartingStays ==
    ASSUME NEW p, Others(p), p \in Starting <=> p \in Starting'
    PROVE  Starting' = Starting
BY DEF Others, Starting

LEMMA StillStep ==
    ASSUME WorkInv, NEW p \in Procs, Step(p), ~StoreTrigger(p), ~DeleteUnlock(p), ~Count(p)
    PROVE  StartsNothing
<1>0. TypeOK /\ CallOK(p)
  BY DEF WorkInv, CallsOK
<1>1. CASE RemoveLock(p)
  <2>1. /\ proc[p].at = "remove" /\ proc[p].id \in Ids
        /\ triggers' = triggers /\ triggerCounter' = triggerCounter
    BY <1>0, <1>1 DEF RemoveLock, CallOK, Calling, MainSteps, managerVars
  <2>2. Removed(p) \/ Locks(p)
    BY <1>0, <1>1, <2>1, LockLocks
  <2>3. Others(p) /\ p \notin Starting /\ p \notin Starting'
    BY <1>0, <2>1, <2>2 DEF Removed, Locks, Starting
  <2>4. QED BY <2>1, <2>3, StartingStays DEF StartsNothing
<1>2. CASE StopBus(p)
  <2>1. proc[p].at = "stop_bus" /\ Moves(p, "stop_plugin") /\ triggers' = triggers
        /\ triggerCounter' = triggerCounter
    BY <1>0, <1>2, GotoMoves DEF StopBus, managerVars, Steps, StopSteps
  <2>2. QED BY <2>1, StartingStays DEF StartsNothing, Moves, Starting
<1>3. CASE StopPlugin(p)
  <2>1. proc[p].at = "stop_plugin" /\ Moves(p, "delete") /\ triggers' = triggers
        /\ triggerCounter' = triggerCounter
    BY <1>0, <1>3, GotoMoves DEF StopPlugin, managerVars, Steps, StopSteps
  <2>2. QED BY <2>1, StartingStays DEF StartsNothing, Moves, Starting
<1>4. CASE Fetch(p)
  <2>1. /\ proc[p].at = "fetch" /\ proc[p].id \in Ids
        /\ triggers' = triggers /\ triggerCounter' = triggerCounter
    BY <1>0, <1>4 DEF Fetch, CallOK, Calling, MainSteps, managerVars
  <2>2. ReadsRow(p) \/ GivesUp(p)
    BY <1>0, <1>4, <2>1, FetchReads
  <2>3. Others(p) /\ p \notin Starting /\ p \notin Starting'
    BY <2>1, <2>2, RestFits DEF ReadsRow, GivesUp, Starting
  <2>4. QED BY <2>1, <2>3, StartingStays DEF StartsNothing
<1>5. CASE CheckExist(p) \/ CheckDisabled(p)
  <2>1. /\ proc[p].at = "check" /\ Added(p) /\ triggers' = triggers
        /\ triggerCounter' \in {triggerCounter, triggerCounter + 1}
    BY <1>0, <1>5, AddReturns DEF CheckExist, CheckDisabled, managerVars
  <2>2. Others(p) /\ p \notin Starting /\ p \notin Starting'
    BY <2>1 DEF Added, Starting
  <2>3. QED BY <2>1, <2>2, StartingStays DEF StartsNothing
<1>6. CASE CheckNew(p)
  <2>1. /\ proc[p].at = "check" /\ triggers' = triggers /\ triggerCounter' = triggerCounter
        /\ (\E o \in Objects : Makes(p, o)) \/ Fails(p)
    BY <1>0, <1>6, NewMakes DEF CheckNew, managerVars
  <2>2. Others(p) /\ p \notin Starting /\ p \notin Starting'
    BY <2>1 DEF Makes, Fails, Added, Starting
  <2>3. QED BY <2>1, <2>2, StartingStays DEF StartsNothing
<1>7. CASE StartSubscribers(p)
  <2>1. proc[p].at = "start" /\ Moves(p, "start_plugin") /\ triggers' = triggers
        /\ triggerCounter' = triggerCounter
    BY <1>0, <1>7, GotoMoves DEF StartSubscribers, managerVars, Steps, StartSteps
  <2>2. QED BY <2>1, StartingStays DEF StartsNothing, Moves, Starting
<1>8. CASE StartPlugin(p)
  <2>1. proc[p].at = "start_plugin" /\ Moves(p, "start_bus") /\ triggers' = triggers
        /\ triggerCounter' = triggerCounter
    BY <1>0, <1>8, GotoMoves DEF StartPlugin, managerVars, Steps, StartSteps
  <2>2. QED BY <2>1, StartingStays DEF StartsNothing, Moves, Starting
<1>9. CASE StartBus(p)
  <2>1. proc[p].at = "start_bus" /\ Moves(p, "count") /\ triggers' = triggers
        /\ triggerCounter' = triggerCounter
    BY <1>0, <1>9, GotoMoves DEF StartBus, managerVars, Steps, StartSteps
  <2>2. QED BY <2>1, StartingStays DEF StartsNothing, Moves, Starting
<1>10. QED
  BY <1>1, <1>2, <1>3, <1>4, <1>5, <1>6, <1>7, <1>8, <1>9 DEF Step

LEMMA StillMain == ASSUME WorkInv, MainStep PROVE StartsNothing
<1>0. TypeOK /\ Main \in Procs
  BY DEF WorkInv, Procs
<1>1. ASSUME NEW model \in todo, LoadNext(model) PROVE StartsNothing
  <2>1. /\ proc[Main].at = "loading" /\ proc'[Main].at = "check" /\ Others(Main)
        /\ triggers' = triggers /\ triggerCounter' = triggerCounter
    BY <1>0, <1>1, LoadCalls DEF LoadNext, managerVars
  <2>2. QED BY <2>1, StartingStays DEF StartsNothing, Starting
<1>2. ASSUME NEW model \in todo, UnloadNext(model) PROVE StartsNothing
  <2>1. /\ proc[Main].at = "unloading" /\ proc'[Main].at = "remove" /\ Others(Main)
        /\ triggers' = triggers /\ triggerCounter' = triggerCounter
    BY <1>0, <1>2, UnloadCalls DEF UnloadNext, managerVars
  <2>2. QED BY <2>1, StartingStays DEF StartsNothing, Starting
<1>3. CASE Load \/ LoadEnd \/ Subscribe \/ Shutdown \/ UnloadEnd \/ Unsubscribe
  <2>1. /\ proc[Main].at \in MainSteps /\ \E step \in MainSteps : Goto(Main, step)
        /\ triggers' = triggers /\ triggerCounter' = triggerCounter
    BY <1>3
    DEF Load, LoadEnd, Subscribe, Shutdown, UnloadEnd, Unsubscribe, managerVars, MainSteps
  <2>2. \E step \in MainSteps : Moves(Main, step)
    BY <1>0, <2>1, GotoMoves DEF Steps
  <2>3. Others(Main) /\ Main \notin Starting /\ Main \notin Starting'
    BY <2>1, <2>2 DEF Moves, Starting, MainSteps
  <2>4. QED BY <2>1, <2>3, StartingStays DEF StartsNothing
<1>4. QED BY <1>1, <1>2, <1>3 DEF MainStep

LEMMA StillEvent == ASSUME WorkInv, Event PROVE StartsNothing
<1>1. PICK id \in Ids : Kept(id) /\ Told(id)
  BY EventTells DEF WorkInv
<1>2. triggers' = triggers /\ triggerCounter' = triggerCounter
  BY <1>1 DEF Kept, managerVars
<1>3. CASE proc' = proc
  BY <1>2, <1>3 DEF StartsNothing, Starting
<1>4. ASSUME NEW j \in Jobs, proc[j] = Rest, Others(j), proc'[j].at \in {"check", "remove"}
      PROVE  StartsNothing
  <2>1. j \notin Starting /\ j \notin Starting'
    BY <1>4, RestFits DEF Starting
  <2>2. QED BY <1>2, <1>4, <2>1, StartingStays DEF StartsNothing
<1>5. QED BY <1>1, <1>3, <1>4 DEF Told, Starts

LEMMA CountNext == CountInv /\ WorkInv' /\ [Next]_vars => CountInv'
<1> SUFFICES ASSUME CountInv, WorkInv', [Next]_vars PROVE CountInv'
  OBVIOUS
<1>0. WorkInv
  BY DEF CountInv
<1>1. CASE Event
  BY <1>0, <1>1, StillEvent, CountStill DEF StartsNothing
<1>2. ASSUME NEW p \in Procs, Step(p) PROVE CountInv'
  BY <1>0, <1>2, CountStore, CountDelete, CountCount, StillStep, CountStill DEF StartsNothing
<1>3. CASE MainStep
  BY <1>0, <1>3, StillMain, CountStill DEF StartsNothing
<1>4. CASE UNCHANGED stateVars
  <2>1. triggers' = triggers /\ triggerCounter' = triggerCounter /\ Starting' = Starting
    BY <1>4 DEF stateVars, managerVars, Starting
  <2>2. QED BY <2>1, CountStill
<1>5. QED BY <1>1, <1>2, <1>3, <1>4, WorksOrStays DEF Work

\* No entry of the map is left out of the counter for longer than its Start
\* takes, however calls overlap (the deferred increment of addTrigger and the
\* decrement of removeTrigger).
THEOREM TriggersAreCounted == Spec => []CounterCoversMap
<1>1. Init => CountInv
  <2> SUFFICES ASSUME Init PROVE CountInv
    OBVIOUS
  <2>1. WorkInv
    BY WorkInit
  <2>2. Loaded = {} /\ triggerCounter = 0
    BY DEF Init, Loaded
  <2>3. Starting = {}
    BY RestFits DEF Init, Starting, Rest
  <2>4. QED BY <2>1, <2>2, <2>3, FS_EmptySet DEF CountInv, CounterCoversMap
<1>2. CountInv /\ [Next]_vars => CountInv'
  BY CountNext, WorkNext DEF CountInv
<1>3. CountInv => CounterCoversMap
  BY DEF CountInv
<1>4. QED BY <1>1, <1>2, <1>3, PTL DEF Spec

-----------------------------------------------------------------------------
(* What a step of a call leaves alone.                                      *)

CallStep(p) ==
    /\ Others(p) /\ Calling(p)
    /\ Calling(p)' => proc'[p].id = proc[p].id
    /\ row' = row /\ rowEnabled' = rowEnabled /\ todo' = todo /\ overlapped' = overlapped
    /\ \A i \in Ids : i # proc[p].id => triggers'[i] = triggers[i] /\ synced'[i] = synced[i]
    /\ \A i \in Ids : synced'[i] => synced[i]
    /\ \A o \in Objects : \/ proc[p].at \in StartSteps \cup StopSteps /\ proc[p].obj = o
                          \/ (plugged'[o] => plugged[o]) /\ onBus'[o] = onBus[o]
    /\ \A o \in Objects : Garbage(o) \/ version'[o] = version[o]
    /\ Loading' <=> Loading
    /\ Unloading' <=> Unloading

\* Main stays within load, or within unload.
LEMMA SameSide ==
    ASSUME NEW p \in Procs, Others(p),
           p = Main => \/ /\ {proc[p].at, proc'[p].at} \subseteq
                                 {"loading", "check", "store"} \cup StartSteps
                       \/ /\ {proc[p].at, proc'[p].at} \subseteq
                                 {"unloading", "remove"} \cup StopSteps
    PROVE  (Loading' <=> Loading) /\ (Unloading' <=> Unloading)
<1>1. CASE p = Main
  BY <1>1 DEF Loading, Unloading, StartSteps, StopSteps
<1>2. CASE p # Main
  <2>1. proc'[Main] = proc[Main]
    BY <1>2 DEF Others, Procs
  <2>2. QED BY <2>1 DEF Loading, Unloading
<1>3. QED BY <1>1, <1>2

LEMMA FrameStopBus == ASSUME WorkInv, NEW p \in Procs, StopBus(p) PROVE CallStep(p) /\ Moves(p, "stop_plugin")
<1>1. TypeOK /\ CallOK(p) /\ proc[p].at = "stop_bus"
  BY DEF WorkInv, CallsOK, StopBus
<1>2. Moves(p, "stop_plugin")
  BY <1>1, GotoMoves DEF StopBus, Steps, StopSteps, StartSteps
<1>3. (Loading' <=> Loading) /\ (Unloading' <=> Unloading)
  BY <1>1, <1>2, SameSide DEF Moves, StopSteps, StartSteps
<1>4. QED
  BY <1>1, <1>2, <1>3
  DEF StopBus, CallStep, Moves, Others, TypeOK, CallOK, Calling, StopSteps, StartSteps, MainSteps,
      rowVars, managerVars, mainVars, objectVars, historyVars

LEMMA FrameStopPlugin == ASSUME WorkInv, NEW p \in Procs, StopPlugin(p) PROVE CallStep(p) /\ Moves(p, "delete")
<1>1. TypeOK /\ CallOK(p) /\ proc[p].at = "stop_plugin"
  BY DEF WorkInv, CallsOK, StopPlugin
<1>2. Moves(p, "delete")
  BY <1>1, GotoMoves DEF StopPlugin, Steps, StopSteps, StartSteps
<1>3. (Loading' <=> Loading) /\ (Unloading' <=> Unloading)
  BY <1>1, <1>2, SameSide DEF Moves, StopSteps, StartSteps
<1>4. QED
  BY <1>1, <1>2, <1>3
  DEF StopPlugin, CallStep, Moves, Others, TypeOK, CallOK, Calling, StopSteps, StartSteps, MainSteps,
      rowVars, managerVars, mainVars, objectVars, historyVars

LEMMA FrameStoreTrigger == ASSUME WorkInv, NEW p \in Procs, StoreTrigger(p) PROVE CallStep(p) /\ Moves(p, "start")
<1>1. TypeOK /\ CallOK(p) /\ proc[p].at = "store"
  BY DEF WorkInv, CallsOK, StoreTrigger
<1>2. Moves(p, "start")
  BY <1>1, GotoMoves DEF StoreTrigger, Steps, StopSteps, StartSteps
<1>3. (Loading' <=> Loading) /\ (Unloading' <=> Unloading)
  BY <1>1, <1>2, SameSide DEF Moves, StopSteps, StartSteps
<1>4. QED
  BY <1>1, <1>2, <1>3
  DEF StoreTrigger, CallStep, Moves, Others, TypeOK, CallOK, Calling, StopSteps, StartSteps, MainSteps,
      rowVars, managerVars, mainVars, objectVars, historyVars

LEMMA FrameStartSubscribers == ASSUME WorkInv, NEW p \in Procs, StartSubscribers(p) PROVE CallStep(p) /\ Moves(p, "start_plugin")
<1>1. TypeOK /\ CallOK(p) /\ proc[p].at = "start"
  BY DEF WorkInv, CallsOK, StartSubscribers
<1>2. Moves(p, "start_plugin")
  BY <1>1, GotoMoves DEF StartSubscribers, Steps, StopSteps, StartSteps
<1>3. (Loading' <=> Loading) /\ (Unloading' <=> Unloading)
  BY <1>1, <1>2, SameSide DEF Moves, StopSteps, StartSteps
<1>4. QED
  BY <1>1, <1>2, <1>3
  DEF StartSubscribers, CallStep, Moves, Others, TypeOK, CallOK, Calling, StopSteps, StartSteps, MainSteps,
      rowVars, managerVars, mainVars, objectVars, historyVars

LEMMA FrameStartPlugin == ASSUME WorkInv, NEW p \in Procs, StartPlugin(p) PROVE CallStep(p) /\ Moves(p, "start_bus")
<1>1. TypeOK /\ CallOK(p) /\ proc[p].at = "start_plugin"
  BY DEF WorkInv, CallsOK, StartPlugin
<1>2. Moves(p, "start_bus")
  BY <1>1, GotoMoves DEF StartPlugin, Steps, StopSteps, StartSteps
<1>3. (Loading' <=> Loading) /\ (Unloading' <=> Unloading)
  BY <1>1, <1>2, SameSide DEF Moves, StopSteps, StartSteps
<1>4. QED
  BY <1>1, <1>2, <1>3
  DEF StartPlugin, CallStep, Moves, Others, TypeOK, CallOK, Calling, StopSteps, StartSteps, MainSteps,
      rowVars, managerVars, mainVars, objectVars, historyVars

LEMMA FrameStartBus == ASSUME WorkInv, NEW p \in Procs, StartBus(p) PROVE CallStep(p) /\ Moves(p, "count")
<1>1. TypeOK /\ CallOK(p) /\ proc[p].at = "start_bus"
  BY DEF WorkInv, CallsOK, StartBus
<1>2. Moves(p, "count")
  BY <1>1, GotoMoves DEF StartBus, Steps, StopSteps, StartSteps
<1>3. (Loading' <=> Loading) /\ (Unloading' <=> Unloading)
  BY <1>1, <1>2, SameSide DEF Moves, StopSteps, StartSteps
<1>4. QED
  BY <1>1, <1>2, <1>3
  DEF StartBus, CallStep, Moves, Others, TypeOK, CallOK, Calling, StopSteps, StartSteps, MainSteps,
      rowVars, managerVars, mainVars, objectVars, historyVars

LEMMA FrameCheckExist == ASSUME WorkInv, NEW p \in Procs, CheckExist(p) PROVE CallStep(p) /\ Added(p)
<1>1. TypeOK /\ CallOK(p) /\ proc[p].at = "check"
  BY DEF WorkInv, CallsOK, CheckExist
<1>2. Added(p)
  BY <1>1, AddReturns DEF CheckExist
<1>3. (Loading' <=> Loading) /\ (Unloading' <=> Unloading)
  BY <1>1, <1>2, SameSide DEF Added, StopSteps, StartSteps
<1>4. Others(p) /\ Calling(p) /\ (Calling(p)' => proc'[p].id = proc[p].id)
  BY <1>1, <1>2, ProcOf DEF Added, Calling, MainSteps
<1>5. QED
  BY <1>1, <1>2, <1>3, <1>4
  DEF CheckExist, CallStep, TypeOK, CallOK, rowVars, managerVars, mainVars, objectVars, historyVars

LEMMA FrameCheckDisabled == ASSUME WorkInv, NEW p \in Procs, CheckDisabled(p) PROVE CallStep(p) /\ Added(p)
<1>1. TypeOK /\ CallOK(p) /\ proc[p].at = "check"
  BY DEF WorkInv, CallsOK, CheckDisabled
<1>2. Added(p)
  BY <1>1, AddReturns DEF CheckDisabled
<1>3. (Loading' <=> Loading) /\ (Unloading' <=> Unloading)
  BY <1>1, <1>2, SameSide DEF Added, StopSteps, StartSteps
<1>4. Others(p) /\ Calling(p) /\ (Calling(p)' => proc'[p].id = proc[p].id)
  BY <1>1, <1>2, ProcOf DEF Added, Calling, MainSteps
<1>5. QED
  BY <1>1, <1>2, <1>3, <1>4
  DEF CheckDisabled, CallStep, TypeOK, CallOK, rowVars, managerVars, mainVars, objectVars, historyVars

LEMMA FrameCount == ASSUME WorkInv, NEW p \in Procs, Count(p) PROVE CallStep(p) /\ Added(p)
<1>1. TypeOK /\ CallOK(p) /\ proc[p].at = "count"
  BY DEF WorkInv, CallsOK, Count
<1>2. Added(p)
  BY <1>1, AddReturns DEF Count
<1>3. (Loading' <=> Loading) /\ (Unloading' <=> Unloading)
  BY <1>1, <1>2, SameSide DEF Added, StopSteps, StartSteps
<1>4. Others(p) /\ Calling(p) /\ (Calling(p)' => proc'[p].id = proc[p].id)
  BY <1>1, <1>2, ProcOf DEF Added, Calling, MainSteps
<1>5. QED
  BY <1>1, <1>2, <1>3, <1>4
  DEF Count, CallStep, TypeOK, CallOK, rowVars, managerVars, mainVars, objectVars, historyVars

LEMMA FrameDeleteUnlock == ASSUME WorkInv, NEW p \in Procs, DeleteUnlock(p) PROVE CallStep(p) /\ Removed(p)
<1>1. TypeOK /\ CallOK(p) /\ proc[p].at = "delete"
  BY DEF WorkInv, CallsOK, DeleteUnlock
<1>2. Removed(p)
  BY <1>1, RemoveReturns DEF DeleteUnlock
<1>3. (Loading' <=> Loading) /\ (Unloading' <=> Unloading)
  BY <1>1, <1>2, SameSide DEF Removed, StopSteps, StartSteps
<1>4. Others(p) /\ Calling(p) /\ (Calling(p)' => proc'[p].id = proc[p].id)
  BY <1>1, <1>2, ProcOf DEF Removed, Calling, MainSteps
<1>5. QED
  BY <1>1, <1>2, <1>3, <1>4
  DEF DeleteUnlock, CallStep, TypeOK, CallOK, rowVars, managerVars, mainVars, objectVars, historyVars

LEMMA FrameRemoveLock ==
    ASSUME WorkInv, NEW p \in Procs, RemoveLock(p)
    PROVE  /\ CallStep(p)
           /\ \/ triggers[proc[p].id] = None /\ Removed(p)
              \/ triggers[proc[p].id] # None /\ Locks(p)
<1>1. TypeOK /\ CallOK(p) /\ proc[p].at = "remove" /\ proc[p].id \in Ids
  BY DEF WorkInv, CallsOK, CallOK, RemoveLock, Calling, MainSteps
<1>2. \/ triggers[proc[p].id] = None /\ Removed(p)
      \/ triggers[proc[p].id] # None /\ Locks(p)
  BY <1>1, LockLocks
<1>3. /\ Others(p) /\ Calling(p) /\ (Calling(p)' => proc'[p].id = proc[p].id)
      /\ p = Main => proc'[p].at \in {"unloading", "stop_bus"}
  BY <1>1, <1>2, ProcOf DEF Removed, Locks, Calling, MainSteps
<1>4. (Loading' <=> Loading) /\ (Unloading' <=> Unloading)
  BY <1>1, <1>3, SameSide DEF StopSteps
<1>5. QED
  BY <1>1, <1>2, <1>3, <1>4
  DEF RemoveLock, CallStep, rowVars, managerVars, mainVars, objectVars, historyVars

LEMMA FrameFetch ==
    ASSUME WorkInv, NEW p \in Procs, Fetch(p)
    PROVE  CallStep(p) /\ (ReadsRow(p) \/ GivesUp(p))
<1>1. /\ TypeOK /\ CallOK(p) /\ proc[p].at = "fetch" /\ proc[p].id \in Ids
      /\ p \in Jobs /\ p # Main
  BY NamesAssumption DEF WorkInv, CallsOK, CallOK, Fetch, Calling, MainSteps
<1>2. ReadsRow(p) \/ GivesUp(p)
  BY <1>1, FetchReads
<1>3. /\ Others(p) /\ Calling(p) /\ (Calling(p)' => proc'[p].id = proc[p].id)
      /\ \A i \in Ids : i # proc[p].id => synced'[i] = synced[i]
      /\ \A i \in Ids : synced'[i] => synced[i]
  BY <1>1, <1>2, RestFits DEF ReadsRow, GivesUp, Calling, MainSteps, TypeOK
<1>4. (Loading' <=> Loading) /\ (Unloading' <=> Unloading)
  BY <1>1, <1>3, SameSide
<1>5. QED
  BY <1>2, <1>3, <1>4 DEF Fetch, CallStep, rowVars, managerVars, mainVars, objectVars

LEMMA FrameCheckNew ==
    ASSUME WorkInv, NEW p \in Procs, CheckNew(p)
    PROVE  CallStep(p) /\ ((\E o \in Objects : Makes(p, o)) \/ Fails(p))
<1>1. TypeOK /\ CallOK(p) /\ proc[p].at = "check" /\ proc[p].id \in Ids
  BY DEF WorkInv, CallsOK, CallOK, CheckNew, Calling, MainSteps
<1>2. (\E o \in Objects : Makes(p, o)) \/ Fails(p)
  BY <1>1, NewMakes
<1>3. /\ Others(p) /\ Calling(p) /\ (Calling(p)' => proc'[p].id = proc[p].id)
      /\ p = Main => proc'[p].at \in {"loading", "store"}
      /\ \A i \in Ids : i # proc[p].id => synced'[i] = synced[i]
      /\ \A i \in Ids : synced'[i] => synced[i]
      /\ \A o \in Objects : Garbage(o) \/ version'[o] = version[o]
  <2>1. CASE Fails(p)
    BY <1>1, <2>1 DEF Fails, Added, Calling, MainSteps, TypeOK
  <2>2. ASSUME NEW o \in Objects, Makes(p, o)
        PROVE  /\ Others(p) /\ proc'[p].at = "store" /\ proc'[p].id = proc[p].id
               /\ synced' = synced /\ \A u \in Objects : Garbage(u) \/ version'[u] = version[u]
    <3>1. \A u \in Objects : u = o \/ version'[u] = version[u]
      BY <1>1, <2>2 DEF Makes, TypeOK
    <3>2. QED BY <2>2, <3>1 DEF Makes
  <2>3. QED BY <1>1, <1>2, <2>1, <2>2 DEF Calling, MainSteps
<1>4. (Loading' <=> Loading) /\ (Unloading' <=> Unloading)
  BY <1>1, <1>3, SameSide
<1>5. QED
  BY <1>2, <1>3, <1>4 DEF CheckNew, CallStep, rowVars, managerVars, mainVars

LEMMA StepFrames == ASSUME WorkInv, NEW p \in Procs, Step(p) PROVE CallStep(p)
BY FrameRemoveLock, FrameStopBus, FrameStopPlugin, FrameDeleteUnlock, FrameFetch, FrameCheckExist,
   FrameCheckDisabled, FrameCheckNew, FrameStoreTrigger, FrameStartSubscribers, FrameStartPlugin,
   FrameStartBus, FrameCount DEF Step

-----------------------------------------------------------------------------
(* Calls that do not overlap.                                               *)

LEMMA LiveInit == Init => LiveInv
<1> SUFFICES ASSUME Init PROVE LiveInv
  OBVIOUS
<1>1. WorkInv
  BY WorkInit
<1>2. \A p \in Procs : proc[p].at \in {"idle", "down"}
  BY RestFits DEF Init, Rest
<1>3. (\A p \in Procs : ~Calling(p)) /\ ~Loading
  BY <1>2 DEF Calling, MainSteps, Loading, StartSteps, Procs
<1>4. OneLiveTrigger
  BY DEF Init, OneLiveTrigger
<1>5. Alone /\ AllUndisturbed
  BY <1>3 DEF Alone, AllUndisturbed, Undisturbed
<1>6. Rowless
  BY <1>2, <1>3 DEF Init, Rowless, StartSteps
<1>7. QED BY <1>1, <1>4, <1>5, <1>6 DEF LiveInv

\* As long as its id has no overlap, no other call works on a call's object.
LEMMA Apart ==
    ASSUME LiveInv, NEW p \in Procs, NEW q \in Procs \ {p}, Calling(p), Calling(q),
           ~overlapped[proc[q].id]
    PROVE  /\ proc[q].id # proc[p].id
           /\ proc[p].at \in StartSteps \cup StopSteps /\ proc[q].at \in StartSteps \cup StopSteps
                  => proc[q].obj # proc[p].obj
BY DEF LiveInv, Alone, WorkInv, CallsOK, CallOK

\* A step of a call disturbs no other, and keeps what the rows say.
LEMMA LiveCall ==
    ASSUME LiveInv, WorkInv', NEW p \in Procs, CallStep(p),
           triggers'[proc[p].id] # None => row[proc[p].id] # 0,
           proc'[p].at \in {"check", "store"} \cup StartSteps => row[proc[p].id] # 0,
           Undisturbed(p)', OneLiveTrigger'
    PROVE  LiveInv'
<1>0. /\ TypeOK /\ Alone /\ Rowless /\ AllUndisturbed /\ CallsOK
      /\ \A q \in Procs \ {p} : proc'[q] = proc[q]
      /\ overlapped' = overlapped /\ row' = row /\ todo' = todo
  BY DEF LiveInv, WorkInv, CallStep, Others
<1>1. Alone'
  <2>1. \A q \in Procs : Calling(q)' => Calling(q) /\ proc'[q].id = proc[q].id
    BY <1>0 DEF CallStep, Calling
  <2>2. QED BY <1>0, <2>1 DEF Alone
<1>2. AllUndisturbed'
  <2> SUFFICES ASSUME NEW q \in Procs \ {p}, Calling(q), ~overlapped[proc[q].id]
               PROVE  Undisturbed(q)'
    BY <1>0 DEF AllUndisturbed, Undisturbed, Calling
  <2>1. /\ proc'[q] = proc[q] /\ Undisturbed(q) /\ proc[q].id \in Ids
        /\ proc[q].at \in StartSteps \cup StopSteps => proc[q].obj \in Objects
    BY <1>0 DEF AllUndisturbed, CallsOK, CallOK
  <2>2. triggers'[proc[q].id] = triggers[proc[q].id]
    BY <2>1, Apart DEF CallStep
  <2>3. proc[q].at \in StartSteps \cup StopSteps =>
            (plugged'[proc[q].obj] => plugged[proc[q].obj]) /\ onBus'[proc[q].obj] = onBus[proc[q].obj]
    BY <2>1, Apart DEF CallStep
  <2>4. QED BY <1>0, <2>1, <2>2, <2>3 DEF Undisturbed, Calling, StartSteps, StopSteps
<1>3. Rowless'
  <2>1. \A id \in Ids : triggers'[id] # None => row'[id] # 0
    BY <1>0 DEF Rowless, CallStep
  <2>2. \A q \in Procs : proc'[q].at \in {"check", "store"} \cup StartSteps => row'[proc'[q].id] # 0
    <3>1. proc'[p].at \in {"check", "store"} \cup StartSteps => proc'[p].id = proc[p].id
      BY DEF CallStep, Calling, StartSteps, MainSteps
    <3>2. QED BY <1>0, <3>1 DEF Rowless
  <2>3. Loading' => Loading
    BY DEF CallStep
  <2>4. QED BY <1>0, <2>1, <2>2, <2>3 DEF Rowless
<1>4. QED BY <1>1, <1>2, <1>3 DEF LiveInv

LEMMA LiveStopBus == ASSUME LiveInv, NEW p \in Procs, StopBus(p) PROVE LiveInv'
<1>0. /\ WorkInv /\ WorkInv' /\ TypeOK /\ CallOK(p) /\ MapOK /\ PluggedOK
      /\ Rowless /\ Undisturbed(p) /\ OneLiveTrigger
  BY WorkStopBus DEF LiveInv, WorkInv, AllUndisturbed, CallsOK
<1>1. CallStep(p) /\ Moves(p, "stop_plugin") /\ proc[p].at = "stop_bus"
  BY <1>0, FrameStopBus DEF StopBus
<1>2. /\ proc[p].id \in Ids /\ proc[p].obj \in Objects /\ version[proc[p].obj].id = proc[p].id
      /\ overlapped' = overlapped
      /\ triggers[proc[p].id] = proc[p].obj
  BY <1>0, <1>1 DEF CallOK, Calling, MainSteps, StopSteps, StartSteps, CallStep
<1>3. Undisturbed(p)'
  BY <1>0, <1>1, <1>2
  DEF StopBus, Undisturbed, Moves, Calling, TypeOK, MainSteps, StopSteps, StartSteps, objectVars,
      managerVars
<1>4. OneLiveTrigger'
  BY <1>0, <1>1, <1>2, NamesAssumption
  DEF StopBus, OneLiveTrigger, Undisturbed, Calling, TypeOK, MainSteps, StopSteps, StartSteps,
      objectVars, managerVars, PluggedOK
<1>5. triggers'[proc[p].id] # None => row[proc[p].id] # 0
  BY <1>0, <1>2 DEF StopBus, Rowless, managerVars
<1>6. proc'[p].at \in {"check", "store"} \cup StartSteps => row[proc[p].id] # 0
  BY <1>1, <1>2 DEF Moves, StartSteps
<1>7. QED BY <1>0, <1>1, <1>3, <1>4, <1>5, <1>6, LiveCall

LEMMA LiveStopPlugin == ASSUME LiveInv, NEW p \in Procs, StopPlugin(p) PROVE LiveInv'
<1>0. /\ WorkInv /\ WorkInv' /\ TypeOK /\ CallOK(p) /\ MapOK /\ PluggedOK
      /\ Rowless /\ Undisturbed(p) /\ OneLiveTrigger
  BY WorkStopPlugin DEF LiveInv, WorkInv, AllUndisturbed, CallsOK
<1>1. CallStep(p) /\ Moves(p, "delete") /\ proc[p].at = "stop_plugin"
  BY <1>0, FrameStopPlugin DEF StopPlugin
<1>2. /\ proc[p].id \in Ids /\ proc[p].obj \in Objects /\ version[proc[p].obj].id = proc[p].id
      /\ overlapped' = overlapped
      /\ triggers[proc[p].id] = proc[p].obj
  BY <1>0, <1>1 DEF CallOK, Calling, MainSteps, StopSteps, StartSteps, CallStep
<1>3. Undisturbed(p)'
  BY <1>0, <1>1, <1>2
  DEF StopPlugin, Undisturbed, Moves, Calling, TypeOK, MainSteps, StopSteps, StartSteps, objectVars,
      managerVars, PluggedOK
<1>4. OneLiveTrigger'
  BY <1>0, <1>1, <1>2, NamesAssumption
  DEF StopPlugin, OneLiveTrigger, Undisturbed, Calling, TypeOK, MainSteps, StopSteps, StartSteps,
      objectVars, managerVars, PluggedOK
<1>5. triggers'[proc[p].id] # None => row[proc[p].id] # 0
  BY <1>0, <1>2 DEF StopPlugin, Rowless, managerVars
<1>6. proc'[p].at \in {"check", "store"} \cup StartSteps => row[proc[p].id] # 0
  BY <1>1, <1>2 DEF Moves, StartSteps
<1>7. QED BY <1>0, <1>1, <1>3, <1>4, <1>5, <1>6, LiveCall

LEMMA LiveStoreTrigger == ASSUME LiveInv, NEW p \in Procs, StoreTrigger(p) PROVE LiveInv'
<1>0. /\ WorkInv /\ WorkInv' /\ TypeOK /\ CallOK(p) /\ MapOK /\ PluggedOK
      /\ Rowless /\ Undisturbed(p) /\ OneLiveTrigger
  BY WorkStoreTrigger DEF LiveInv, WorkInv, AllUndisturbed, CallsOK
<1>1. CallStep(p) /\ Moves(p, "start") /\ proc[p].at = "store"
  BY <1>0, FrameStoreTrigger DEF StoreTrigger
<1>2. /\ proc[p].id \in Ids /\ proc[p].obj \in Objects /\ version[proc[p].obj].id = proc[p].id
      /\ overlapped' = overlapped
      /\ row[proc[p].id] # 0
  BY <1>0, <1>1 DEF CallOK, Calling, MainSteps, StopSteps, StartSteps, CallStep, Rowless
<1>3. Undisturbed(p)'
  BY <1>0, <1>1, <1>2
  DEF StoreTrigger, Undisturbed, Moves, Calling, TypeOK, MainSteps, StopSteps, StartSteps, objectVars,
      managerVars
<1>4. OneLiveTrigger'
  BY <1>0, <1>1, <1>2, NamesAssumption
  DEF StoreTrigger, OneLiveTrigger, Undisturbed, Calling, TypeOK, MainSteps, StopSteps, StartSteps,
      objectVars, managerVars, PluggedOK
<1>5. triggers'[proc[p].id] # None => row[proc[p].id] # 0
  BY <1>0, <1>2 DEF StoreTrigger, Rowless, managerVars
<1>6. proc'[p].at \in {"check", "store"} \cup StartSteps => row[proc[p].id] # 0
  BY <1>1, <1>2 DEF Moves, StartSteps
<1>7. QED BY <1>0, <1>1, <1>3, <1>4, <1>5, <1>6, LiveCall

LEMMA LiveStartSubscribers == ASSUME LiveInv, NEW p \in Procs, StartSubscribers(p) PROVE LiveInv'
<1>0. /\ WorkInv /\ WorkInv' /\ TypeOK /\ CallOK(p) /\ MapOK /\ PluggedOK
      /\ Rowless /\ Undisturbed(p) /\ OneLiveTrigger
  BY WorkStartSubscribers DEF LiveInv, WorkInv, AllUndisturbed, CallsOK
<1>1. CallStep(p) /\ Moves(p, "start_plugin") /\ proc[p].at = "start"
  BY <1>0, FrameStartSubscribers DEF StartSubscribers
<1>2. /\ proc[p].id \in Ids /\ proc[p].obj \in Objects /\ version[proc[p].obj].id = proc[p].id
      /\ overlapped' = overlapped
      /\ row[proc[p].id] # 0
  BY <1>0, <1>1 DEF CallOK, Calling, MainSteps, StopSteps, StartSteps, CallStep, Rowless
<1>3. Undisturbed(p)'
  BY <1>0, <1>1, <1>2
  DEF StartSubscribers, Undisturbed, Moves, Calling, TypeOK, MainSteps, StopSteps, StartSteps, objectVars,
      managerVars
<1>4. OneLiveTrigger'
  BY <1>0, <1>1, <1>2, NamesAssumption
  DEF StartSubscribers, OneLiveTrigger, Undisturbed, Calling, TypeOK, MainSteps, StopSteps, StartSteps,
      objectVars, managerVars, PluggedOK
<1>5. triggers'[proc[p].id] # None => row[proc[p].id] # 0
  BY <1>0, <1>2 DEF StartSubscribers, Rowless, managerVars
<1>6. proc'[p].at \in {"check", "store"} \cup StartSteps => row[proc[p].id] # 0
  BY <1>1, <1>2 DEF Moves, StartSteps
<1>7. QED BY <1>0, <1>1, <1>3, <1>4, <1>5, <1>6, LiveCall

LEMMA LiveStartPlugin == ASSUME LiveInv, NEW p \in Procs, StartPlugin(p) PROVE LiveInv'
<1>0. /\ WorkInv /\ WorkInv' /\ TypeOK /\ CallOK(p) /\ MapOK /\ PluggedOK
      /\ Rowless /\ Undisturbed(p) /\ OneLiveTrigger
  BY WorkStartPlugin DEF LiveInv, WorkInv, AllUndisturbed, CallsOK
<1>1. CallStep(p) /\ Moves(p, "start_bus") /\ proc[p].at = "start_plugin"
  BY <1>0, FrameStartPlugin DEF StartPlugin
<1>2. /\ proc[p].id \in Ids /\ proc[p].obj \in Objects /\ version[proc[p].obj].id = proc[p].id
      /\ overlapped' = overlapped
      /\ row[proc[p].id] # 0
  BY <1>0, <1>1 DEF CallOK, Calling, MainSteps, StopSteps, StartSteps, CallStep, Rowless
<1>3. Undisturbed(p)'
  BY <1>0, <1>1, <1>2
  DEF StartPlugin, Undisturbed, Moves, Calling, TypeOK, MainSteps, StopSteps, StartSteps, objectVars,
      managerVars
<1>4. OneLiveTrigger'
  BY <1>0, <1>1, <1>2, NamesAssumption
  DEF StartPlugin, OneLiveTrigger, Undisturbed, Calling, TypeOK, MainSteps, StopSteps, StartSteps,
      objectVars, managerVars, PluggedOK
<1>5. triggers'[proc[p].id] # None => row[proc[p].id] # 0
  BY <1>0, <1>2 DEF StartPlugin, Rowless, managerVars
<1>6. proc'[p].at \in {"check", "store"} \cup StartSteps => row[proc[p].id] # 0
  BY <1>1, <1>2 DEF Moves, StartSteps
<1>7. QED BY <1>0, <1>1, <1>3, <1>4, <1>5, <1>6, LiveCall

LEMMA LiveStartBus == ASSUME LiveInv, NEW p \in Procs, StartBus(p) PROVE LiveInv'
<1>0. /\ WorkInv /\ WorkInv' /\ TypeOK /\ CallOK(p) /\ MapOK /\ PluggedOK
      /\ Rowless /\ Undisturbed(p) /\ OneLiveTrigger
  BY WorkStartBus DEF LiveInv, WorkInv, AllUndisturbed, CallsOK
<1>1. CallStep(p) /\ Moves(p, "count") /\ proc[p].at = "start_bus"
  BY <1>0, FrameStartBus DEF StartBus
<1>2. /\ proc[p].id \in Ids /\ proc[p].obj \in Objects /\ version[proc[p].obj].id = proc[p].id
      /\ overlapped' = overlapped
      /\ row[proc[p].id] # 0
  BY <1>0, <1>1 DEF CallOK, Calling, MainSteps, StopSteps, StartSteps, CallStep, Rowless
<1>3. Undisturbed(p)'
  BY <1>0, <1>1, <1>2
  DEF StartBus, Undisturbed, Moves, Calling, TypeOK, MainSteps, StopSteps, StartSteps, objectVars,
      managerVars
<1>4. OneLiveTrigger'
  BY <1>0, <1>1, <1>2, NamesAssumption
  DEF StartBus, OneLiveTrigger, Undisturbed, Calling, TypeOK, MainSteps, StopSteps, StartSteps,
      objectVars, managerVars, PluggedOK
<1>5. triggers'[proc[p].id] # None => row[proc[p].id] # 0
  BY <1>0, <1>2 DEF StartBus, Rowless, managerVars
<1>6. proc'[p].at \in {"check", "store"} \cup StartSteps => row[proc[p].id] # 0
  BY <1>1, <1>2 DEF Moves, StartSteps
<1>7. QED BY <1>0, <1>1, <1>3, <1>4, <1>5, <1>6, LiveCall

LEMMA LiveCheckExist == ASSUME LiveInv, NEW p \in Procs, CheckExist(p) PROVE LiveInv'
<1>0. /\ WorkInv /\ WorkInv' /\ TypeOK /\ CallOK(p) /\ MapOK /\ PluggedOK
      /\ Rowless /\ Undisturbed(p) /\ OneLiveTrigger
  BY WorkCheckExist DEF LiveInv, WorkInv, AllUndisturbed, CallsOK
<1>1. CallStep(p) /\ Added(p) /\ proc[p].at = "check"
  BY <1>0, FrameCheckExist DEF CheckExist
<1>2. proc[p].id \in Ids /\ overlapped' = overlapped
  BY <1>0, <1>1 DEF CallOK, Calling, MainSteps, CallStep
<1>3. Undisturbed(p)'
  BY <1>0, <1>1, <1>2, ProcOf
  DEF CheckExist, Undisturbed, Added, Calling, TypeOK, MainSteps, StopSteps, StartSteps
<1>4. OneLiveTrigger'
  BY <1>0, <1>1, <1>2, NamesAssumption
  DEF CheckExist, OneLiveTrigger, Undisturbed, CallOK, Calling, TypeOK, MainSteps, StopSteps, objectVars,
      managerVars
<1>5. triggers'[proc[p].id] # None => row[proc[p].id] # 0
  BY <1>0, <1>2 DEF CheckExist, Rowless, TypeOK, managerVars
<1>6. proc'[p].at \in {"check", "store"} \cup StartSteps => row[proc[p].id] # 0
  BY <1>1, ProcOf DEF Added, StartSteps
<1>7. QED BY <1>0, <1>1, <1>3, <1>4, <1>5, <1>6, LiveCall

LEMMA LiveCheckDisabled == ASSUME LiveInv, NEW p \in Procs, CheckDisabled(p) PROVE LiveInv'
<1>0. /\ WorkInv /\ WorkInv' /\ TypeOK /\ CallOK(p) /\ MapOK /\ PluggedOK
      /\ Rowless /\ Undisturbed(p) /\ OneLiveTrigger
  BY WorkCheckDisabled DEF LiveInv, WorkInv, AllUndisturbed, CallsOK
<1>1. CallStep(p) /\ Added(p) /\ proc[p].at = "check"
  BY <1>0, FrameCheckDisabled DEF CheckDisabled
<1>2. proc[p].id \in Ids /\ overlapped' = overlapped
  BY <1>0, <1>1 DEF CallOK, Calling, MainSteps, CallStep
<1>3. Undisturbed(p)'
  BY <1>0, <1>1, <1>2, ProcOf
  DEF CheckDisabled, Undisturbed, Added, Calling, TypeOK, MainSteps, StopSteps, StartSteps
<1>4. OneLiveTrigger'
  BY <1>0, <1>1, <1>2, NamesAssumption
  DEF CheckDisabled, OneLiveTrigger, Undisturbed, CallOK, Calling, TypeOK, MainSteps, StopSteps, objectVars,
      managerVars
<1>5. triggers'[proc[p].id] # None => row[proc[p].id] # 0
  BY <1>0, <1>2 DEF CheckDisabled, Rowless, TypeOK, managerVars
<1>6. proc'[p].at \in {"check", "store"} \cup StartSteps => row[proc[p].id] # 0
  BY <1>1, ProcOf DEF Added, StartSteps
<1>7. QED BY <1>0, <1>1, <1>3, <1>4, <1>5, <1>6, LiveCall

LEMMA LiveCount == ASSUME LiveInv, NEW p \in Procs, Count(p) PROVE LiveInv'
<1>0. /\ WorkInv /\ WorkInv' /\ TypeOK /\ CallOK(p) /\ MapOK /\ PluggedOK
      /\ Rowless /\ Undisturbed(p) /\ OneLiveTrigger
  BY WorkCount DEF LiveInv, WorkInv, AllUndisturbed, CallsOK
<1>1. CallStep(p) /\ Added(p) /\ proc[p].at = "count"
  BY <1>0, FrameCount DEF Count
<1>2. proc[p].id \in Ids /\ overlapped' = overlapped
  BY <1>0, <1>1 DEF CallOK, Calling, MainSteps, CallStep
<1>3. Undisturbed(p)'
  BY <1>0, <1>1, <1>2, ProcOf
  DEF Count, Undisturbed, Added, Calling, TypeOK, MainSteps, StopSteps, StartSteps
<1>4. OneLiveTrigger'
  BY <1>0, <1>1, <1>2, NamesAssumption
  DEF Count, OneLiveTrigger, Undisturbed, CallOK, Calling, TypeOK, MainSteps, StopSteps, objectVars,
      managerVars
<1>5. triggers'[proc[p].id] # None => row[proc[p].id] # 0
  BY <1>0, <1>2 DEF Count, Rowless, TypeOK, managerVars
<1>6. proc'[p].at \in {"check", "store"} \cup StartSteps => row[proc[p].id] # 0
  BY <1>1, ProcOf DEF Added, StartSteps
<1>7. QED BY <1>0, <1>1, <1>3, <1>4, <1>5, <1>6, LiveCall

LEMMA LiveDeleteUnlock == ASSUME LiveInv, NEW p \in Procs, DeleteUnlock(p) PROVE LiveInv'
<1>0. /\ WorkInv /\ WorkInv' /\ TypeOK /\ CallOK(p) /\ MapOK /\ PluggedOK
      /\ Rowless /\ Undisturbed(p) /\ OneLiveTrigger
  BY WorkDeleteUnlock DEF LiveInv, WorkInv, AllUndisturbed, CallsOK
<1>1. CallStep(p) /\ Removed(p) /\ proc[p].at = "delete"
  BY <1>0, FrameDeleteUnlock DEF DeleteUnlock
<1>2. proc[p].id \in Ids /\ overlapped' = overlapped
  BY <1>0, <1>1 DEF CallOK, Calling, MainSteps, CallStep
<1>3. Undisturbed(p)'
  BY <1>0, <1>1, <1>2, ProcOf
  DEF DeleteUnlock, Undisturbed, Removed, Calling, TypeOK, MainSteps, StopSteps, StartSteps
<1>4. OneLiveTrigger'
  BY <1>0, <1>1, <1>2, NamesAssumption
  DEF DeleteUnlock, OneLiveTrigger, Undisturbed, CallOK, Calling, TypeOK, MainSteps, StopSteps, objectVars,
      managerVars
<1>5. triggers'[proc[p].id] # None => row[proc[p].id] # 0
  BY <1>0, <1>2 DEF DeleteUnlock, Rowless, TypeOK, managerVars
<1>6. proc'[p].at \in {"check", "store"} \cup StartSteps => row[proc[p].id] # 0
  BY <1>1, ProcOf DEF Removed, StartSteps
<1>7. QED BY <1>0, <1>1, <1>3, <1>4, <1>5, <1>6, LiveCall

LEMMA LiveRemoveLock == ASSUME LiveInv, NEW p \in Procs, RemoveLock(p) PROVE LiveInv'
<1>0. /\ WorkInv /\ WorkInv' /\ TypeOK /\ CallOK(p) /\ MapOK /\ PluggedOK
      /\ Rowless /\ Undisturbed(p) /\ OneLiveTrigger
  BY WorkRemoveLock DEF LiveInv, WorkInv, AllUndisturbed, CallsOK
<1>1. /\ CallStep(p) /\ proc[p].at = "remove"
      /\ \/ triggers[proc[p].id] = None /\ Removed(p)
         \/ triggers[proc[p].id] # None /\ Locks(p)
  BY <1>0, FrameRemoveLock DEF RemoveLock
<1>2. /\ proc[p].id \in Ids
      /\ UNCHANGED <<overlapped, triggers, plugged, onBus, version>>
  BY <1>0, <1>1 DEF RemoveLock, CallOK, Calling, MainSteps, managerVars, objectVars, historyVars
<1>3. /\ proc'[p].at \in {"unloading", "idle", "fetch", "stop_bus"}
      /\ proc'[p].at = "fetch" => triggers[proc[p].id] = None /\ proc'[p].id = proc[p].id
  BY <1>1, ProcOf DEF Removed, Locks
<1>4. Undisturbed(p)'
  BY <1>2, <1>3 DEF Undisturbed, Calling, MainSteps, StopSteps, StartSteps
<1>5. OneLiveTrigger'
  BY <1>0, <1>2 DEF OneLiveTrigger
<1>6. triggers'[proc[p].id] # None => row[proc[p].id] # 0
  BY <1>0, <1>2 DEF Rowless
<1>7. proc'[p].at \notin {"check", "store"} \cup StartSteps
  BY <1>3 DEF StartSteps
<1>8. QED BY <1>0, <1>1, <1>4, <1>5, <1>6, <1>7, LiveCall

LEMMA LiveFetch == ASSUME LiveInv, NEW p \in Procs, Fetch(p) PROVE LiveInv'
<1>0. /\ WorkInv /\ WorkInv' /\ TypeOK /\ CallOK(p) /\ MapOK /\ PluggedOK
      /\ Rowless /\ Undisturbed(p) /\ OneLiveTrigger
  BY WorkFetch DEF LiveInv, WorkInv, AllUndisturbed, CallsOK
<1>1. CallStep(p) /\ proc[p].at = "fetch" /\ (ReadsRow(p) \/ GivesUp(p))
  BY <1>0, FrameFetch DEF Fetch
<1>2. /\ proc[p].id \in Ids
      /\ UNCHANGED <<overlapped, triggers, plugged, onBus, version>>
  BY <1>0, <1>1 DEF Fetch, CallOK, Calling, MainSteps, managerVars, objectVars
<1>3. /\ proc'[p].at \in {"idle", "check"}
      /\ proc'[p].at = "check" => proc'[p].id = proc[p].id /\ row[proc[p].id] # 0
  BY <1>1, RestFits, BoundsAssumption DEF ReadsRow, GivesUp, Exists
<1>4. Undisturbed(p)'
  BY <1>0, <1>1, <1>2, <1>3 DEF Undisturbed, Calling, MainSteps, StopSteps, StartSteps
<1>5. OneLiveTrigger'
  BY <1>0, <1>2 DEF OneLiveTrigger
<1>6. triggers'[proc[p].id] # None => row[proc[p].id] # 0
  BY <1>0, <1>2 DEF Rowless
<1>7. proc'[p].at \in {"check", "store"} \cup StartSteps => row[proc[p].id] # 0
  BY <1>3 DEF StartSteps
<1>8. QED BY <1>0, <1>1, <1>4, <1>5, <1>6, <1>7, LiveCall

LEMMA LiveCheckNew == ASSUME LiveInv, NEW p \in Procs, CheckNew(p) PROVE LiveInv'
<1>0. /\ WorkInv /\ WorkInv' /\ TypeOK /\ CallOK(p) /\ MapOK /\ PluggedOK
      /\ Rowless /\ Undisturbed(p) /\ OneLiveTrigger
  BY WorkCheckNew DEF LiveInv, WorkInv, AllUndisturbed, CallsOK
<1>1. CallStep(p) /\ proc[p].at = "check" /\ ((\E o \in Objects : Makes(p, o)) \/ Fails(p))
  BY <1>0, FrameCheckNew DEF CheckNew
<1>2. /\ proc[p].id \in Ids /\ row[proc[p].id] # 0 /\ triggers[proc[p].id] = None
      /\ UNCHANGED <<overlapped, triggers, plugged, onBus>>
  BY <1>0, <1>1 DEF CheckNew, CallOK, Calling, MainSteps, Rowless, managerVars
<1>3. /\ proc'[p].at \in {"idle", "loading", "store"}
      /\ proc'[p].at = "store" => proc'[p].id = proc[p].id
  BY <1>1 DEF Makes, Fails, Added
<1>4. Undisturbed(p)'
  BY <1>2, <1>3 DEF Undisturbed, Calling, MainSteps, StopSteps, StartSteps
<1>5. OneLiveTrigger'
  <2>1. \A o \in Objects : plugged[o] \/ onBus[o] => version'[o] = version[o]
    BY <1>1 DEF CallStep, Garbage
  <2>2. QED BY <1>0, <1>2, <2>1 DEF OneLiveTrigger
<1>6. QED BY <1>0, <1>1, <1>2, <1>4, <1>5, LiveCall

LEMMA LiveStep == ASSUME LiveInv, NEW p \in Procs, Step(p) PROVE LiveInv'
BY LiveRemoveLock, LiveStopBus, LiveStopPlugin, LiveDeleteUnlock, LiveFetch, LiveCheckExist,
   LiveCheckDisabled, LiveCheckNew, LiveStoreTrigger, LiveStartSubscribers, LiveStartPlugin,
   LiveStartBus, LiveCount DEF Step

\* Main goes on between two calls.
LEMMA LiveRest ==
    ASSUME LiveInv, WorkInv', row' = row, overlapped' = overlapped,
           UNCHANGED <<triggers, version, plugged, onBus>>,
           \A q \in Procs : proc'[q] = proc[q] \/ (~Calling(q) /\ ~Calling(q)'),
           Loading' => \A model \in todo' : row[model.id] # 0
    PROVE  LiveInv'
<1>1. \A q \in Procs : Calling(q)' => proc'[q] = proc[q] /\ Calling(q)
  BY DEF Calling
<1>2. Alone'
  BY <1>1 DEF LiveInv, Alone
<1>3. AllUndisturbed'
  BY <1>1 DEF LiveInv, AllUndisturbed, Undisturbed
<1>4. Rowless'
  <2>1. \A q \in Procs : proc'[q].at \in {"check", "store"} \cup StartSteps => Calling(q)'
    BY DEF Calling, StartSteps, MainSteps
  <2>2. QED BY <1>1, <2>1 DEF LiveInv, Rowless
<1>5. OneLiveTrigger'
  BY DEF LiveInv, OneLiveTrigger
<1>6. QED BY <1>2, <1>3, <1>4, <1>5 DEF LiveInv

\* A call begins: with removeTrigger, or with addTrigger for an id that
\* is not in the map unless that counts as an overlap.
LEMMA LiveBegin ==
    ASSUME LiveInv, WorkInv', NEW p \in Procs, NEW id \in Ids, ~Calling(p), Others(p),
           proc'[p].at \in {"remove", "check"}, proc'[p].id = id,
           UNCHANGED <<triggers, version, plugged, onBus>>,
           \A i \in Ids : row[i] # 0 => row'[i] # 0,
           \A i \in Ids : overlapped[i] => overlapped'[i],
           ~overlapped'[id] => \A q \in Procs \ {p} : ~(Calling(q) /\ proc[q].id = id),
           proc'[p].at = "check" => /\ row'[id] # 0
                                    /\ triggers[id] # None => overlapped'[id],
           todo' \subseteq todo, Loading' => Loading
    PROVE  LiveInv'
<1>0. /\ TypeOK /\ TypeOK' /\ CallsOK /\ Alone /\ AllUndisturbed /\ Rowless /\ OneLiveTrigger
      /\ \A q \in Procs \ {p} : proc'[q] = proc[q]
  BY DEF LiveInv, WorkInv, Others
<1>1. \A q \in Procs \ {p} : Calling(q)' => Calling(q) /\ proc[q].id \in Ids
  BY <1>0 DEF Calling, CallsOK, CallOK
<1>2. Alone'
  <2> SUFFICES ASSUME NEW q \in Procs, NEW r \in Procs, q # r, Calling(q)', Calling(r)',
                      proc'[q].id = proc'[r].id
               PROVE  overlapped'[proc'[q].id]
    BY DEF Alone
  <2>1. CASE q # p /\ r # p
    BY <1>0, <1>1, <2>1 DEF Alone
  <2>2. CASE q = p \/ r = p
    <3>1. PICK s \in {q, r} : s # p
      OBVIOUS
    <3>2. Calling(s) /\ proc[s].id = id /\ s \in Procs \ {p} /\ proc'[q].id = id
      BY <1>0, <1>1, <2>2, <3>1
    <3>3. QED BY <3>2, <1>0 DEF TypeOK
  <2>3. QED BY <2>1, <2>2
<1>3. AllUndisturbed'
  <2> SUFFICES ASSUME NEW q \in Procs PROVE Undisturbed(q)'
    BY DEF AllUndisturbed
  <2>1. CASE q = p
    BY <1>0, <2>1 DEF Undisturbed, StartSteps, StopSteps
  <2>2. CASE q # p
    BY <1>0, <1>1, <2>2 DEF AllUndisturbed, Undisturbed
  <2>3. QED BY <2>1, <2>2
<1>4. Rowless'
  <2>1. \A i \in Ids : triggers'[i] # None => row'[i] # 0
    BY <1>0 DEF Rowless
  <2>2. \A q \in Procs : proc'[q].at \in {"check", "store"} \cup StartSteps => row'[proc'[q].id] # 0
    <3> SUFFICES ASSUME NEW q \in Procs, proc'[q].at \in {"check", "store"} \cup StartSteps
                 PROVE  row'[proc'[q].id] # 0
      OBVIOUS
    <3>1. CASE q = p
      BY <3>1 DEF StartSteps
    <3>2. CASE q # p
      <4>1. Calling(q)'
        BY DEF Calling, StartSteps, MainSteps
      <4>2. QED BY <1>0, <1>1, <3>2, <4>1 DEF Rowless
    <3>3. QED BY <3>1, <3>2
  <2>3. Loading' => \A model \in todo' : row'[model.id] # 0
    BY <1>0 DEF Rowless, TypeOK
  <2>4. QED BY <2>1, <2>2, <2>3 DEF Rowless
<1>5. OneLiveTrigger'
  <2>1. \A o \in Objects : plugged[o] \/ onBus[o] => version[o].id \in Ids
    BY DEF LiveInv, WorkInv, PluggedOK
  <2>2. QED BY <1>0, <2>1 DEF OneLiveTrigger
<1>6. QED BY <1>2, <1>3, <1>4, <1>5 DEF LiveInv

\* What a new goroutine means for the other calls for its id.
LEMMA StartsAlone ==
    ASSUME TypeOK, NEW j \in Jobs, NEW id \in Ids, NEW what, NEW model, Starts(j, id, what, model)
    PROVE  /\ j \in Procs /\ ~Calling(j) /\ j # Main
           /\ \A i \in Ids : overlapped[i] => overlapped'[i]
           /\ \A i \in Ids \ {id} : overlapped'[i] = overlapped[i]
           /\ overlapped'[id] \/ (~overlapped[id] /\ Quiet(id))
<1>1. j \in Procs /\ ~Calling(j) /\ j # Main
  BY RestFits, NamesAssumption DEF Starts, Calling, Procs
<1>2. overlapped' = [overlapped EXCEPT ![id] = @ \/ ~Quiet(id)]
  BY DEF Starts
<1>3. QED BY <1>1, <1>2 DEF TypeOK

LEMMA LiveEvent == ASSUME LiveInv, Event PROVE LiveInv'
<1>0. WorkInv /\ WorkInv' /\ TypeOK /\ Rowless
  BY WorkEvent DEF LiveInv, WorkInv
<1>1. PICK id \in Ids : Kept(id) /\ Told(id)
  BY <1>0, EventTells
<1>2. /\ UNCHANGED <<triggers, version, plugged, onBus, todo>>
      /\ \A i \in Ids : row[i] # 0 => row'[i] # 0
  BY <1>1 DEF Kept, managerVars, objectVars, mainVars
<1>3. CASE proc' = proc /\ overlapped' = overlapped
  <2>1. Alone' /\ AllUndisturbed' /\ OneLiveTrigger'
    BY <1>2, <1>3 DEF LiveInv, Alone, AllUndisturbed, Undisturbed, Calling, OneLiveTrigger
  <2>2. Rowless'
    <3>1. /\ \A q \in Procs : proc[q].at \in {"check", "store"} \cup StartSteps => proc[q].id \in Ids
          /\ \A model \in todo : model.id \in Ids
      BY <1>0 DEF WorkInv, CallsOK, CallOK, Calling, StartSteps, MainSteps, TypeOK
    <3>2. QED BY <1>0, <1>2, <1>3, <3>1 DEF Rowless, Loading
  <2>3. QED BY <1>0, <2>1, <2>2 DEF LiveInv
<1>4. ASSUME NEW j \in Jobs, NEW what, NEW model, Starts(j, id, what, model),
             what = "add" => row[id] = 0 /\ row'[id] # 0
      PROVE  LiveInv'
  <2>0. /\ Others(j) /\ proc'[j].id = id
        /\ proc'[j].at = "check" => what = "add"
        /\ proc'[j].at \in {"check", "remove"}
    BY <1>4 DEF Starts
  <2>1. /\ j \in Procs /\ ~Calling(j) /\ j # Main
        /\ \A i \in Ids : overlapped[i] => overlapped'[i]
        /\ overlapped'[id] \/ Quiet(id)
    BY <1>0, <1>4, StartsAlone
  <2>2. proc'[j].at = "check" => row'[id] # 0 /\ triggers[id] = None
    <3>1. row[id] = 0 => triggers[id] = None
      BY <1>0 DEF Rowless
    <3>2. QED BY <1>4, <2>0, <3>1
  <2>3. ~overlapped'[id] => \A q \in Procs \ {j} : ~(Calling(q) /\ proc[q].id = id)
    BY <2>1 DEF Quiet, Busy
  <2>4. Loading' => Loading
    BY <2>0, <2>1 DEF Others, Loading, Procs
  <2>5. QED BY <1>0, <1>2, <2>0, <2>1, <2>2, <2>3, <2>4, LiveBegin
<1>5. QED BY <1>1, <1>3, <1>4 DEF Told

LEMMA LiveLoadNext == ASSUME LiveInv, NEW model \in todo, LoadNext(model) PROVE LiveInv'
<1>0. WorkInv /\ WorkInv' /\ TypeOK /\ Rowless
  BY WorkLoadNext DEF LiveInv, WorkInv
<1>1. /\ Main \in Procs /\ model.id \in Ids /\ Others(Main)
      /\ proc[Main].at = "loading" /\ proc'[Main].at = "check" /\ proc'[Main].id = model.id
  BY <1>0, LoadCalls DEF LoadNext
<1>2. /\ UNCHANGED <<row, triggers, version, plugged, onBus>> /\ todo' \subseteq todo
      /\ overlapped' = [overlapped EXCEPT ![model.id] =
                          @ \/ (\E j \in Jobs : Busy(j, model.id)) \/ triggers[model.id] # None]
  BY DEF LoadNext, rowVars, managerVars, objectVars
<1>3. Loading /\ ~Calling(Main) /\ row[model.id] # 0
  BY <1>0, <1>1 DEF Loading, Calling, MainSteps, Rowless
<1>4. /\ \A i \in Ids : overlapped[i] => overlapped'[i]
      /\ overlapped'[model.id] \/ \A j \in Jobs : ~Busy(j, model.id)
      /\ triggers[model.id] # None => overlapped'[model.id]
  BY <1>0, <1>1, <1>2 DEF TypeOK
<1>5. ~overlapped'[model.id] => \A q \in Procs \ {Main} : ~(Calling(q) /\ proc[q].id = model.id)
  BY <1>4 DEF Busy, Procs
<1>6. QED BY <1>0, <1>1, <1>2, <1>3, <1>4, <1>5, LiveBegin

LEMMA LiveUnloadNext == ASSUME LiveInv, NEW model \in todo, UnloadNext(model) PROVE LiveInv'
<1>0. WorkInv /\ WorkInv' /\ TypeOK
  BY WorkUnloadNext DEF LiveInv, WorkInv
<1>1. /\ Main \in Procs /\ model.id \in Ids /\ Others(Main)
      /\ proc[Main].at = "unloading" /\ proc'[Main].at = "remove" /\ proc'[Main].id = model.id
  BY <1>0, UnloadCalls DEF UnloadNext
<1>2. /\ UNCHANGED <<row, triggers, version, plugged, onBus>> /\ todo' \subseteq todo
      /\ overlapped' = [overlapped EXCEPT ![model.id] = @ \/ \E j \in Jobs : Busy(j, model.id)]
  BY DEF UnloadNext, rowVars, managerVars, objectVars
<1>3. ~Loading' /\ ~Calling(Main)
  BY <1>1 DEF Loading, Calling, MainSteps, StartSteps
<1>4. /\ \A i \in Ids : overlapped[i] => overlapped'[i]
      /\ overlapped'[model.id] \/ \A j \in Jobs : ~Busy(j, model.id)
  BY <1>0, <1>1, <1>2 DEF TypeOK
<1>5. ~overlapped'[model.id] => \A q \in Procs \ {Main} : ~(Calling(q) /\ proc[q].id = model.id)
  BY <1>4 DEF Busy, Procs
<1>6. QED BY <1>0, <1>1, <1>2, <1>3, <1>4, <1>5, LiveBegin

\* What the steps of Main between two calls leave alone.
LEMMA MainRests ==
    ASSUME WorkInv, Load \/ LoadEnd \/ Subscribe \/ Shutdown \/ UnloadEnd \/ Unsubscribe
    PROVE  /\ UNCHANGED <<row, rowEnabled, overlapped, triggers, version, plugged, onBus>>
           /\ proc[Main].at \in MainSteps /\ \E step \in MainSteps : Moves(Main, step)
           /\ \A q \in Procs : proc'[q] = proc[q] \/ (~Calling(q) /\ ~Calling(q)')
           /\ \A q \in Procs : q # Main => proc'[q] = proc[q]
<1>0. TypeOK /\ Main \in Procs
  BY DEF WorkInv, Procs
<1>1. /\ UNCHANGED <<row, rowEnabled, overlapped, triggers, version, plugged, onBus>>
      /\ proc[Main].at \in MainSteps /\ \E step \in MainSteps : Goto(Main, step)
  BY DEF Load, LoadEnd, Subscribe, Shutdown, UnloadEnd, Unsubscribe, MainSteps, rowVars,
     managerVars, objectVars, historyVars
<1>2. \E step \in MainSteps : Moves(Main, step)
  BY <1>0, <1>1, GotoMoves DEF Steps
<1>3. ~Calling(Main) /\ ~Calling(Main)' /\ \A q \in Procs : q # Main => proc'[q] = proc[q]
  BY <1>1, <1>2 DEF Calling, Moves, Others
<1>4. QED BY <1>1, <1>2, <1>3

LEMMA LiveMain == ASSUME LiveInv, MainStep PROVE LiveInv'
<1>0. WorkInv /\ WorkInv' /\ TypeOK /\ Rowless
  BY WorkMain DEF LiveInv, WorkInv
<1>1. CASE Load \/ LoadEnd \/ Subscribe \/ Shutdown \/ UnloadEnd \/ Unsubscribe
  <2>1. Loading' => \A model \in todo' : row[model.id] # 0
    <3>1. CASE Load
      <4>1. CASE isStarted
        <5>1. proc'[Main].at = "subscribe"
          BY <1>0, <3>1, <4>1, GotoMoves DEF Load, Moves, Procs, Steps, MainSteps
        <5>2. QED BY <5>1 DEF Loading, StartSteps
      <4>2. CASE ~isStarted
        <5>1. \/ todo' = {[id |-> id, version |-> row[id]] :
                            id \in {i \in Ids : Exists(i) /\ rowEnabled[i]}}
              \/ Goto(Main, "subscribe")
          BY <3>1, <4>2 DEF Load
        <5>2. Goto(Main, "subscribe") => ~Loading'
          <6>1. Goto(Main, "subscribe") => proc'[Main].at = "subscribe"
            BY <1>0, GotoMoves DEF Moves, Procs, Steps, MainSteps
          <6>2. QED BY <6>1 DEF Loading, StartSteps
        <5>3. \A i \in Ids : Exists(i) => row[i] # 0
          BY BoundsAssumption DEF Exists
        <5>4. QED BY <5>1, <5>2, <5>3
      <4>3. QED BY <4>1, <4>2
    <3>2. CASE LoadEnd \/ Subscribe \/ Shutdown \/ UnloadEnd \/ Unsubscribe
      <4>1. \E step \in {"subscribe", "up", "unloading", "unsubscribe", "down"} : Goto(Main, step)
        BY <3>2 DEF LoadEnd, Subscribe, Shutdown, UnloadEnd, Unsubscribe
      <4>2. proc'[Main].at \in {"subscribe", "up", "unloading", "unsubscribe", "down"}
        BY <1>0, <4>1, GotoMoves DEF Moves, Procs, Steps, MainSteps
      <4>3. QED BY <4>2 DEF Loading, StartSteps
    <3>3. QED BY <1>1, <3>1, <3>2
  <2>2. QED BY <1>0, <1>1, <2>1, MainRests, LiveRest
<1>2. QED BY <1>1, LiveLoadNext, LiveUnloadNext DEF MainStep

LEMMA LiveNext == LiveInv /\ [Next]_vars => LiveInv'
<1> SUFFICES ASSUME LiveInv, [Next]_vars PROVE LiveInv'
  OBVIOUS
<1>1. CASE UNCHANGED stateVars
  <2>1. /\ UNCHANGED <<row, overlapped, triggers, version, plugged, onBus, proc, todo>>
        /\ WorkInv'
    BY <1>1, WorkStutter DEF LiveInv, stateVars, rowVars, managerVars, mainVars, objectVars, historyVars
  <2>2. Loading' => \A model \in todo' : row[model.id] # 0
    BY <2>1 DEF LiveInv, Rowless, Loading
  <2>3. QED BY <2>1, <2>2, LiveRest
<1>2. QED BY <1>1, LiveEvent, LiveStep, LiveMain, WorksOrStays DEF Work

\* While the calls for a trigger do not overlap, nothing but the object in
\* the map fires or listens (Start and Stop of addTrigger, removeTrigger).
THEOREM OneTriggerFires == Spec => []OneLiveTrigger
<1>1. LiveInv => OneLiveTrigger
  BY DEF LiveInv
<1>2. QED BY <1>1, LiveInit, LiveNext, PTL DEF Spec

-----------------------------------------------------------------------------
(* The map follows the rows.                                                *)

LEMMA SyncInit == Init => SyncInv
<1> SUFFICES ASSUME Init PROVE SyncInv
  OBVIOUS
<1>1. LiveInv
  BY LiveInit
<1>2. todo = {} /\ \A id \in Ids : ~synced[id]
  BY DEF Init
<1>3. TodoOK /\ ListFresh /\ RestSynced
  BY <1>2 DEF TodoOK, ListFresh, RestSynced
<1>4. CallsFresh
  <2>1. \A p \in Procs : Calling(p) => proc[p].id \in Ids
    BY <1>1 DEF LiveInv, WorkInv, CallsOK, CallOK
  <2>2. QED BY <1>2, <2>1 DEF CallsFresh, CallFresh
<1>5. QED BY <1>1, <1>3, <1>4 DEF SyncInv

\* A step of a call, which leaves a row in sync when it is the last.
LEMMA SyncCall ==
    ASSUME SyncInv, LiveInv', NEW p \in Procs, CallStep(p), CallFresh(p)',
           \A id \in Ids : id = proc[p].id /\ ~overlapped[id] /\ synced'[id] /\ ~Calling(p)'
               => InPlace(id)'
    PROVE  SyncInv'
<1>0. /\ TypeOK /\ CallsOK /\ MapOK /\ TodoOK /\ ListFresh /\ CallsFresh /\ RestSynced
      /\ \A q \in Procs \ {p} : proc'[q] = proc[q]
      /\ overlapped' = overlapped /\ row' = row /\ rowEnabled' = rowEnabled /\ todo' = todo
      /\ \A i \in Ids : Wanted(i)' <=> Wanted(i)
  BY DEF SyncInv, LiveInv, WorkInv, CallStep, Others, Wanted, Exists
<1>1. TodoOK'
  BY <1>0 DEF TodoOK, CallStep
<1>2. ListFresh'
  <2>1. \A model \in todo : model.id \in Ids
    BY <1>0 DEF TypeOK
  <2>2. QED BY <1>0, <2>1 DEF ListFresh, CallStep
<1>3. CallsFresh'
  <2> SUFFICES ASSUME NEW q \in Procs \ {p}, Calling(q), ~overlapped[proc[q].id],
                      synced'[proc[q].id]
               PROVE  CallFresh(q)'
    BY <1>0 DEF CallsFresh, CallFresh, Calling
  <2>1. proc'[q] = proc[q] /\ CallFresh(q) /\ proc[q].id \in Ids
    BY <1>0 DEF CallsFresh, CallsOK, CallOK
  <2>2. synced[proc[q].id] /\ (Wanted(proc[q].id)' <=> Wanted(proc[q].id))
    BY <1>0, <2>1 DEF CallStep
  <2>3. proc[q].at \in {"store"} \cup StartSteps => version'[proc[q].obj] = version[proc[q].obj]
    BY <1>0 DEF CallStep, Garbage, CallsOK, CallOK
  <2>4. Exists(proc[q].id)' <=> Exists(proc[q].id)
    BY <1>0 DEF Exists
  <2>5. QED BY <1>0, <2>1, <2>2, <2>3, <2>4 DEF CallFresh, Calling
<1>4. RestSynced'
  <2> SUFFICES ASSUME NEW id \in Ids, Quiet(id)', ~overlapped[id], synced'[id]
               PROVE  InPlace(id)'
    BY <1>0 DEF RestSynced
  <2>1. CASE id = proc[p].id
    <3>1. ~Calling(p)'
      BY <2>1 DEF Quiet, Busy, CallStep
    <3>2. QED BY <2>1, <3>1
  <2>2. CASE id # proc[p].id
    <3>1. Quiet(id)
      BY <1>0, <2>2 DEF Quiet, Busy, Calling
    <3>2. InPlace(id) /\ triggers'[id] = triggers[id] /\ (Wanted(id)' <=> Wanted(id))
      BY <1>0, <2>2, <3>1 DEF RestSynced, CallStep
    <3>3. ASSUME triggers[id] \in Objects
          PROVE  /\ version'[triggers[id]] = version[triggers[id]]
                 /\ onBus'[triggers[id]] = onBus[triggers[id]]
      <4>1. version'[triggers[id]] = version[triggers[id]]
        BY <3>3 DEF CallStep, Garbage
      <4>2. version[triggers[id]].id = id
        BY <1>0, <3>3, NamesAssumption DEF MapOK
      <4>3. proc[p].at \in StartSteps \cup StopSteps => triggers[id] # proc[p].obj
        BY <1>0, <2>2, <4>2 DEF CallsOK, CallOK
      <4>4. QED BY <3>3, <4>1, <4>3 DEF CallStep
    <3>4. QED BY <1>0, <3>2, <3>3 DEF InPlace
  <2>3. QED BY <2>1, <2>2
<1>5. QED BY <1>1, <1>2, <1>3, <1>4 DEF SyncInv

LEMMA SyncStopBus == ASSUME SyncInv, NEW p \in Procs, StopBus(p) PROVE SyncInv'
<1>0. /\ LiveInv' /\ WorkInv /\ TypeOK /\ CallOK(p)
      /\ Undisturbed(p) /\ CallFresh(p)
  BY LiveStopBus DEF SyncInv, LiveInv, WorkInv, AllUndisturbed, CallsOK, CallsFresh
<1>1. CallStep(p) /\ Moves(p, "stop_plugin") /\ proc[p].at = "stop_bus" /\ version' = version
  BY <1>0, FrameStopBus DEF StopBus, objectVars
<1>2. proc[p].id \in Ids /\ Calling(p)'
  BY <1>0, <1>1 DEF CallOK, Calling, MainSteps, Moves
<1>3. CallFresh(p)'
  BY <1>0, <1>1, <1>2
  DEF CallStep, Moves, CallFresh, Wanted, Exists, Calling, MainSteps, StopSteps, StartSteps
<1>4. QED BY <1>0, <1>1, <1>2, <1>3, SyncCall

LEMMA SyncStopPlugin == ASSUME SyncInv, NEW p \in Procs, StopPlugin(p) PROVE SyncInv'
<1>0. /\ LiveInv' /\ WorkInv /\ TypeOK /\ CallOK(p)
      /\ Undisturbed(p) /\ CallFresh(p)
  BY LiveStopPlugin DEF SyncInv, LiveInv, WorkInv, AllUndisturbed, CallsOK, CallsFresh
<1>1. CallStep(p) /\ Moves(p, "delete") /\ proc[p].at = "stop_plugin" /\ version' = version
  BY <1>0, FrameStopPlugin DEF StopPlugin, objectVars
<1>2. proc[p].id \in Ids /\ Calling(p)'
  BY <1>0, <1>1 DEF CallOK, Calling, MainSteps, Moves
<1>3. CallFresh(p)'
  BY <1>0, <1>1, <1>2
  DEF CallStep, Moves, CallFresh, Wanted, Exists, Calling, MainSteps, StopSteps, StartSteps
<1>4. QED BY <1>0, <1>1, <1>2, <1>3, SyncCall

LEMMA SyncStoreTrigger == ASSUME SyncInv, NEW p \in Procs, StoreTrigger(p) PROVE SyncInv'
<1>0. /\ LiveInv' /\ WorkInv /\ TypeOK /\ CallOK(p)
      /\ Undisturbed(p) /\ CallFresh(p)
  BY LiveStoreTrigger DEF SyncInv, LiveInv, WorkInv, AllUndisturbed, CallsOK, CallsFresh
<1>1. CallStep(p) /\ Moves(p, "start") /\ proc[p].at = "store" /\ version' = version
  BY <1>0, FrameStoreTrigger DEF StoreTrigger, objectVars
<1>2. proc[p].id \in Ids /\ Calling(p)'
  BY <1>0, <1>1 DEF CallOK, Calling, MainSteps, Moves
<1>3. CallFresh(p)'
  BY <1>0, <1>1, <1>2
  DEF CallStep, Moves, CallFresh, Wanted, Exists, Calling, MainSteps, StopSteps, StartSteps
<1>4. QED BY <1>0, <1>1, <1>2, <1>3, SyncCall

LEMMA SyncStartSubscribers == ASSUME SyncInv, NEW p \in Procs, StartSubscribers(p) PROVE SyncInv'
<1>0. /\ LiveInv' /\ WorkInv /\ TypeOK /\ CallOK(p)
      /\ Undisturbed(p) /\ CallFresh(p)
  BY LiveStartSubscribers DEF SyncInv, LiveInv, WorkInv, AllUndisturbed, CallsOK, CallsFresh
<1>1. CallStep(p) /\ Moves(p, "start_plugin") /\ proc[p].at = "start" /\ version' = version
  BY <1>0, FrameStartSubscribers DEF StartSubscribers, objectVars
<1>2. proc[p].id \in Ids /\ Calling(p)'
  BY <1>0, <1>1 DEF CallOK, Calling, MainSteps, Moves
<1>3. CallFresh(p)'
  BY <1>0, <1>1, <1>2
  DEF CallStep, Moves, CallFresh, Wanted, Exists, Calling, MainSteps, StopSteps, StartSteps
<1>4. QED BY <1>0, <1>1, <1>2, <1>3, SyncCall

LEMMA SyncStartPlugin == ASSUME SyncInv, NEW p \in Procs, StartPlugin(p) PROVE SyncInv'
<1>0. /\ LiveInv' /\ WorkInv /\ TypeOK /\ CallOK(p)
      /\ Undisturbed(p) /\ CallFresh(p)
  BY LiveStartPlugin DEF SyncInv, LiveInv, WorkInv, AllUndisturbed, CallsOK, CallsFresh
<1>1. CallStep(p) /\ Moves(p, "start_bus") /\ proc[p].at = "start_plugin" /\ version' = version
  BY <1>0, FrameStartPlugin DEF StartPlugin, objectVars
<1>2. proc[p].id \in Ids /\ Calling(p)'
  BY <1>0, <1>1 DEF CallOK, Calling, MainSteps, Moves
<1>3. CallFresh(p)'
  BY <1>0, <1>1, <1>2
  DEF CallStep, Moves, CallFresh, Wanted, Exists, Calling, MainSteps, StopSteps, StartSteps
<1>4. QED BY <1>0, <1>1, <1>2, <1>3, SyncCall

LEMMA SyncStartBus == ASSUME SyncInv, NEW p \in Procs, StartBus(p) PROVE SyncInv'
<1>0. /\ LiveInv' /\ WorkInv /\ TypeOK /\ CallOK(p)
      /\ Undisturbed(p) /\ CallFresh(p)
  BY LiveStartBus DEF SyncInv, LiveInv, WorkInv, AllUndisturbed, CallsOK, CallsFresh
<1>1. CallStep(p) /\ Moves(p, "count") /\ proc[p].at = "start_bus" /\ version' = version
  BY <1>0, FrameStartBus DEF StartBus, objectVars
<1>2. proc[p].id \in Ids /\ Calling(p)'
  BY <1>0, <1>1 DEF CallOK, Calling, MainSteps, Moves
<1>3. CallFresh(p)'
  BY <1>0, <1>1, <1>2
  DEF CallStep, Moves, CallFresh, Wanted, Exists, Calling, MainSteps, StopSteps, StartSteps
<1>4. QED BY <1>0, <1>1, <1>2, <1>3, SyncCall

LEMMA SyncCheckExist == ASSUME SyncInv, NEW p \in Procs, CheckExist(p) PROVE SyncInv'
<1>0. /\ LiveInv' /\ WorkInv /\ TypeOK /\ CallOK(p)
      /\ Undisturbed(p) /\ CallFresh(p)
  BY LiveCheckExist DEF SyncInv, LiveInv, WorkInv, AllUndisturbed, CallsOK, CallsFresh
<1>1. CallStep(p) /\ Added(p) /\ proc[p].at = "check"
  BY <1>0, FrameCheckExist DEF CheckExist
<1>2. proc[p].id \in Ids
  BY <1>0, <1>1 DEF CallOK, CallStep
<1>3. CallFresh(p)'
  BY <1>1, ProcOf, <1>0 DEF CallFresh, Added, Calling, MainSteps, StopSteps, StartSteps
<1>4. overlapped[proc[p].id]
  BY <1>0, <1>1 DEF CheckExist, Undisturbed, CallStep
<1>5. QED BY <1>0, <1>1, <1>3, <1>4, SyncCall

LEMMA SyncCheckDisabled == ASSUME SyncInv, NEW p \in Procs, CheckDisabled(p) PROVE SyncInv'
<1>0. /\ LiveInv' /\ WorkInv /\ TypeOK /\ CallOK(p)
      /\ Undisturbed(p) /\ CallFresh(p)
  BY LiveCheckDisabled DEF SyncInv, LiveInv, WorkInv, AllUndisturbed, CallsOK, CallsFresh
<1>1. CallStep(p) /\ Added(p) /\ proc[p].at = "check"
  BY <1>0, FrameCheckDisabled DEF CheckDisabled
<1>2. proc[p].id \in Ids
  BY <1>0, <1>1 DEF CallOK, CallStep
<1>3. CallFresh(p)'
  BY <1>1, ProcOf, <1>0 DEF CallFresh, Added, Calling, MainSteps, StopSteps, StartSteps
<1>4. ASSUME NEW id \in Ids, id = proc[p].id, ~overlapped[id], synced'[id] PROVE InPlace(id)'
  <2>1. ~Wanted(id) /\ triggers'[id] = None
    BY <1>0, <1>1, <1>2, <1>4 DEF CheckDisabled, CallFresh, CallStep, Wanted
  <2>2. QED BY <1>1, <2>1 DEF InPlace, Wanted, Exists, CallStep
<1>5. QED BY <1>0, <1>1, <1>3, <1>4, SyncCall

LEMMA SyncCount == ASSUME SyncInv, NEW p \in Procs, Count(p) PROVE SyncInv'
<1>0. /\ LiveInv' /\ WorkInv /\ TypeOK /\ CallOK(p)
      /\ Undisturbed(p) /\ CallFresh(p)
  BY LiveCount DEF SyncInv, LiveInv, WorkInv, AllUndisturbed, CallsOK, CallsFresh
<1>1. CallStep(p) /\ Added(p) /\ proc[p].at = "count"
  BY <1>0, FrameCount DEF Count
<1>2. proc[p].id \in Ids
  BY <1>0, <1>1 DEF CallOK, CallStep
<1>3. CallFresh(p)'
  BY <1>1, ProcOf, <1>0 DEF CallFresh, Added, Calling, MainSteps, StopSteps, StartSteps
<1>4. ASSUME NEW id \in Ids, id = proc[p].id, ~overlapped[id], synced'[id] PROVE InPlace(id)'
  <2>1. /\ Wanted(id) /\ version[proc[p].obj].version = row[id]
        /\ triggers[id] = proc[p].obj /\ proc[p].obj \in Objects
        /\ onBus[proc[p].obj]
    BY <1>0, <1>1, <1>2, <1>4 DEF CallFresh, CallStep, Undisturbed, CallOK, StartSteps
  <2>2. UNCHANGED <<row, rowEnabled, triggers, version, plugged, onBus>>
    BY DEF Count, rowVars, objectVars
  <2>3. QED BY <2>1, <2>2 DEF InPlace, Wanted, Exists
<1>5. QED BY <1>0, <1>1, <1>3, <1>4, SyncCall

LEMMA SyncDeleteUnlock == ASSUME SyncInv, NEW p \in Procs, DeleteUnlock(p) PROVE SyncInv'
<1>0. /\ LiveInv' /\ WorkInv /\ TypeOK /\ CallOK(p)
      /\ Undisturbed(p) /\ CallFresh(p)
  BY LiveDeleteUnlock DEF SyncInv, LiveInv, WorkInv, AllUndisturbed, CallsOK, CallsFresh
<1>1. CallStep(p) /\ Removed(p) /\ proc[p].at = "delete"
  BY <1>0, FrameDeleteUnlock DEF DeleteUnlock
<1>2. proc[p].id \in Ids
  BY <1>0, <1>1 DEF CallOK, CallStep
<1>3. CallFresh(p)'
  BY <1>1, ProcOf, <1>0 DEF CallFresh, Removed, Calling, MainSteps, StopSteps, StartSteps
<1>4. ASSUME NEW id \in Ids, id = proc[p].id, ~overlapped[id], synced'[id], ~Calling(p)'
      PROVE  InPlace(id)'
  <2>1. p = Main \/ proc[p].op # "update"
    BY <1>1, <1>4 DEF Removed, Calling, MainSteps
  <2>2. ~Wanted(id) /\ triggers'[id] = None
    BY <1>0, <1>1, <1>2, <1>4, <2>1 DEF DeleteUnlock, CallFresh, CallStep, TypeOK, StopSteps
  <2>3. QED BY <1>1, <2>2 DEF InPlace, Wanted, Exists, CallStep
<1>5. QED BY <1>0, <1>1, <1>3, <1>4, SyncCall

LEMMA SyncRemoveLock == ASSUME SyncInv, NEW p \in Procs, RemoveLock(p) PROVE SyncInv'
<1>0. /\ LiveInv' /\ WorkInv /\ TypeOK /\ CallOK(p)
      /\ Undisturbed(p) /\ CallFresh(p)
  BY LiveRemoveLock DEF SyncInv, LiveInv, WorkInv, AllUndisturbed, CallsOK, CallsFresh
<1>1. /\ CallStep(p) /\ proc[p].at = "remove"
      /\ \/ triggers[proc[p].id] = None /\ Removed(p)
         \/ triggers[proc[p].id] # None /\ Locks(p)
  BY <1>0, FrameRemoveLock DEF RemoveLock
<1>2. /\ proc[p].id \in Ids
      /\ UNCHANGED <<row, rowEnabled, triggers, overlapped, synced>>
  BY <1>0, <1>1 DEF RemoveLock, CallOK, CallStep, rowVars, managerVars, historyVars
<1>3. CallFresh(p)'
  <2>1. CASE Removed(p)
    BY <1>0, <2>1, ProcOf DEF CallFresh, Removed, Calling, MainSteps, StopSteps, StartSteps
  <2>2. CASE Locks(p)
    BY <1>0, <1>1, <1>2, <2>2
    DEF CallFresh, Locks, Calling, CallStep, Wanted, Exists, StopSteps, StartSteps
  <2>3. QED BY <1>1, <2>1, <2>2
<1>4. ASSUME NEW id \in Ids, id = proc[p].id, ~overlapped[id], synced'[id], ~Calling(p)'
      PROVE  InPlace(id)'
  <2>1. Removed(p) /\ triggers[id] = None /\ (p = Main \/ proc[p].op # "update")
    BY <1>1, <1>4 DEF Removed, Locks, Calling, MainSteps
  <2>2. ~Wanted(id)
    BY <1>0, <1>1, <1>2, <1>4, <2>1 DEF CallFresh, CallStep
  <2>3. QED BY <1>2, <2>1, <2>2 DEF InPlace, Wanted, Exists
<1>5. QED BY <1>0, <1>1, <1>3, <1>4, SyncCall

LEMMA SyncFetch == ASSUME SyncInv, NEW p \in Procs, Fetch(p) PROVE SyncInv'
<1>0. /\ LiveInv' /\ WorkInv /\ TypeOK /\ CallOK(p)
      /\ Undisturbed(p) /\ CallFresh(p)
  BY LiveFetch DEF SyncInv, LiveInv, WorkInv, AllUndisturbed, CallsOK, CallsFresh
<1>1. CallStep(p) /\ proc[p].at = "fetch" /\ (ReadsRow(p) \/ GivesUp(p))
  BY <1>0, FrameFetch DEF Fetch
<1>2. /\ proc[p].id \in Ids
      /\ UNCHANGED <<row, rowEnabled, triggers, overlapped>>
  BY <1>0, <1>1 DEF Fetch, CallOK, CallStep, rowVars, managerVars
<1>3. CallFresh(p)'
  <2>1. CASE ReadsRow(p)
    BY <1>2, <2>1 DEF CallFresh, ReadsRow, Exists, StopSteps, StartSteps
  <2>2. CASE GivesUp(p)
    BY <2>2, RestFits DEF CallFresh, GivesUp, Calling
  <2>3. QED BY <1>1, <2>1, <2>2
<1>4. ASSUME NEW id \in Ids, id = proc[p].id, ~overlapped[id], synced'[id], ~Calling(p)'
      PROVE  InPlace(id)'
  <2>1. GivesUp(p)
    BY <1>1, <1>4 DEF ReadsRow, Calling, MainSteps
  <2>2. ~Exists(id)
    BY <1>0, <1>2, <1>4, <2>1 DEF GivesUp, TypeOK
  <2>3. triggers[id] = None
    BY <1>0, <1>1, <1>4 DEF Undisturbed, CallStep
  <2>4. QED BY <1>2, <2>2, <2>3 DEF InPlace, Wanted, Exists
<1>5. QED BY <1>0, <1>1, <1>3, <1>4, SyncCall

LEMMA SyncCheckNew == ASSUME SyncInv, NEW p \in Procs, CheckNew(p) PROVE SyncInv'
<1>0. /\ LiveInv' /\ WorkInv /\ TypeOK /\ CallOK(p)
      /\ Undisturbed(p) /\ CallFresh(p)
  BY LiveCheckNew DEF SyncInv, LiveInv, WorkInv, AllUndisturbed, CallsOK, CallsFresh
<1>1. /\ CallStep(p) /\ proc[p].at = "check" /\ proc[p].on
      /\ (\E o \in Objects : Makes(p, o)) \/ Fails(p)
  BY <1>0, FrameCheckNew DEF CheckNew
<1>2. /\ proc[p].id \in Ids
      /\ UNCHANGED <<row, rowEnabled, overlapped>>
  BY <1>0, <1>1 DEF CheckNew, CallOK, CallStep, rowVars
<1>3. CallFresh(p)' /\ (~Calling(p)' => ~synced'[proc[p].id])
  <2>1. ASSUME NEW o \in Objects, Makes(p, o)
        PROVE  CallFresh(p)' /\ Calling(p)'
    <3>1. /\ proc'[p].at = "store" /\ proc'[p].id = proc[p].id /\ proc'[p].obj = o
          /\ synced' = synced /\ version'[o].version = proc[p].version
      BY <1>0, <2>1, ProcOf DEF Makes, TypeOK
    <3>2. QED
      BY <1>0, <1>1, <1>2, <3>1
      DEF CallFresh, Calling, CallStep, MainSteps, Wanted, Exists, StopSteps
  <2>2. CASE Fails(p)
    BY <1>0, <1>2, <2>2
    DEF Fails, Added, CallFresh, Calling, MainSteps, StopSteps, StartSteps, TypeOK
  <2>3. QED BY <1>1, <2>1, <2>2
<1>4. QED BY <1>0, <1>1, <1>3, SyncCall

LEMMA SyncStep == ASSUME SyncInv, NEW p \in Procs, Step(p) PROVE SyncInv'
BY SyncRemoveLock, SyncStopBus, SyncStopPlugin, SyncDeleteUnlock, SyncFetch, SyncCheckExist,
   SyncCheckDisabled, SyncCheckNew, SyncStoreTrigger, SyncStartSubscribers, SyncStartPlugin,
   SyncStartBus, SyncCount DEF Step

\* A row that nothing happens to stays in sync.
LEMMA SameInPlace ==
    ASSUME NEW id \in Ids, triggers' = triggers, version' = version, plugged' = plugged,
           onBus' = onBus, row'[id] = row[id], rowEnabled'[id] = rowEnabled[id]
    PROVE  (InPlace(id)' <=> InPlace(id)) /\ (Wanted(id)' <=> Wanted(id))
BY DEF InPlace, Wanted, Exists

LEMMA SyncEvent == ASSUME SyncInv, Event PROVE SyncInv'
<1>0. /\ LiveInv' /\ TypeOK /\ TypeOK' /\ CallsOK /\ Rowless
      /\ TodoOK /\ ListFresh /\ CallsFresh /\ RestSynced
  BY LiveEvent DEF SyncInv, LiveInv, WorkInv
<1>1. PICK id \in Ids : Kept(id) /\ Told(id)
  BY <1>0, EventTells
<1>2. /\ UNCHANGED <<triggers, version, plugged, onBus, todo>>
      /\ \A i \in Ids : i # id =>
             /\ row'[i] = row[i] /\ rowEnabled'[i] = rowEnabled[i] /\ synced'[i] = synced[i]
             /\ (InPlace(i)' <=> InPlace(i)) /\ (Wanted(i)' <=> Wanted(i))
  <2>1. UNCHANGED <<triggers, version, plugged, onBus, todo>>
    BY <1>1 DEF Kept, managerVars, objectVars, mainVars
  <2>2. \A i \in Ids : i # id =>
            row'[i] = row[i] /\ rowEnabled'[i] = rowEnabled[i] /\ synced'[i] = synced[i]
    BY <1>1 DEF Kept
  <2>3. QED BY <2>1, <2>2, SameInPlace
<1>3. ASSUME NEW S \in SUBSET Procs,
             \A q \in Procs \ S : proc'[q] = proc[q],
             \A q \in S : ~Calling(q) /\ Calling(q)' /\ proc'[q].id = id /\ CallFresh(q)',
             \A i \in Ids : i # id => overlapped'[i] = overlapped[i],
             \/ overlapped'[id]
             \/ ~synced'[id]
             \/ S # {} /\ Quiet(id),
             Loading' <=> Loading, Unloading' <=> Unloading
      PROVE  SyncInv'
  <2>1. TodoOK'
    BY <1>0, <1>2, <1>3 DEF TodoOK
  <2>2. ListFresh'
    <3> SUFFICES ASSUME Loading, NEW model \in todo, ~overlapped'[model.id], synced'[model.id]
                 PROVE  Wanted(model.id)' /\ model.version = row'[model.id]
      BY <1>2, <1>3 DEF ListFresh
    <3>1. model.id \in Ids
      BY <1>0 DEF TypeOK
    <3>2. model.id # id
      BY <1>3 DEF Quiet
    <3>3. Wanted(model.id) /\ model.version = row[model.id]
      BY <1>0, <1>2, <1>3, <3>1, <3>2 DEF ListFresh
    <3>4. row'[model.id] = row[model.id] /\ rowEnabled'[model.id] = rowEnabled[model.id]
      BY <1>2, <3>1, <3>2
    <3>5. QED BY <1>2, <3>3, <3>4 DEF Wanted, Exists
  <2>3. CallsFresh'
    <3> SUFFICES ASSUME NEW q \in Procs \ S, Calling(q), ~overlapped'[proc[q].id],
                        synced'[proc[q].id]
                 PROVE  CallFresh(q)'
      BY <1>3 DEF CallsFresh, CallFresh, Calling
    <3>1. proc'[q] = proc[q] /\ CallFresh(q) /\ proc[q].id \in Ids
      BY <1>0, <1>3 DEF CallsFresh, CallsOK, CallOK
    <3>2. proc[q].id # id
      BY <1>3 DEF Quiet, Busy
    <3>3. /\ ~overlapped[proc[q].id] /\ synced[proc[q].id]
          /\ row'[proc[q].id] = row[proc[q].id]
          /\ rowEnabled'[proc[q].id] = rowEnabled[proc[q].id]
      BY <1>2, <1>3, <3>1, <3>2
    <3>4. QED BY <1>2, <3>1, <3>3 DEF CallFresh, Calling, Wanted, Exists
  <2>4. RestSynced'
    <3> SUFFICES ASSUME NEW i \in Ids, Quiet(i)', ~overlapped'[i], synced'[i]
                 PROVE  InPlace(i)'
      BY DEF RestSynced
    <3>1. i # id
      BY <1>3 DEF Quiet, Busy
    <3>2. Quiet(i)
      BY <1>2, <1>3, <3>1 DEF Quiet, Busy, Calling
    <3>3. QED BY <1>0, <1>2, <1>3, <3>1, <3>2 DEF RestSynced
  <2>5. QED BY <1>0, <2>1, <2>2, <2>3, <2>4 DEF SyncInv
<1>4. ASSUME NEW j \in Jobs, NEW what, NEW model, Starts(j, id, what, model), CallFresh(j)',
             what \in {"update", "remove", "add"}
      PROVE  SyncInv'
  <2>1. /\ j \in Procs /\ ~Calling(j) /\ j # Main
        /\ \A i \in Ids \ {id} : overlapped'[i] = overlapped[i]
        /\ overlapped'[id] \/ (~overlapped[id] /\ Quiet(id))
    BY <1>0, <1>4, StartsAlone
  <2>2. Others(j) /\ proc'[j].id = id /\ Calling(j)'
    BY <1>4 DEF Starts, Calling, MainSteps
  <2>3. (Loading' <=> Loading) /\ (Unloading' <=> Unloading)
    BY <2>1, <2>2, SameSide
  <2>4. \A q \in Procs \ {j} : proc'[q] = proc[q]
    BY <2>2 DEF Others
  <2>5. {j} \in SUBSET Procs /\ {j} # {}
    BY <2>1
  <2>6. \A q \in {j} : ~Calling(q) /\ Calling(q)' /\ proc'[q].id = id /\ CallFresh(q)'
    BY <1>4, <2>1, <2>2
  <2>7. QED BY <1>3, <2>1, <2>3, <2>4, <2>5, <2>6
<1>5. CASE proc' = proc /\ overlapped' = overlapped /\ ~synced'[id]
  <2>1. (Loading' <=> Loading) /\ (Unloading' <=> Unloading)
    BY <1>5 DEF Loading, Unloading
  <2>2. /\ {} \in SUBSET Procs
        /\ \A q \in Procs \ {} : proc'[q] = proc[q]
        /\ \A i \in Ids : i # id => overlapped'[i] = overlapped[i]
    BY <1>5
  <2>3. \A q \in {} : ~Calling(q) /\ Calling(q)' /\ proc'[q].id = id /\ CallFresh(q)'
    OBVIOUS
  <2>4. QED BY <1>3, <1>5, <2>1, <2>2, <2>3
<1>6. ASSUME NEW j \in Jobs, NEW what \in {"update", "remove"}, Starts(j, id, what, NoModel),
             what = "remove" /\ synced'[id] => ~rowEnabled'[id]
      PROVE  CallFresh(j)'
  <2>1. /\ proc'[j].at = "remove" /\ proc'[j].id = id /\ proc'[j].op = what /\ j # Main
    BY <1>0, <1>6, StartsAlone DEF Starts
  <2>2. QED BY <1>6, <2>1 DEF CallFresh, Wanted, StopSteps, StartSteps
<1>7. ASSUME NEW j \in Jobs, row'[id] = 1, row'[id] <= MaxVersion,
             Starts(j, id, "add", [version |-> 1, on |-> rowEnabled'[id]])
      PROVE  CallFresh(j)'
  <2>1. /\ proc'[j].at = "check" /\ proc'[j].id = id /\ proc'[j].version = 1
        /\ proc'[j].on = rowEnabled'[id]
    BY <1>7 DEF Starts
  <2>2. row'[id] \in 1..MaxVersion
    BY <1>7, BoundsAssumption
  <2>3. QED BY <1>7, <2>1, <2>2 DEF CallFresh, Exists, StopSteps, StartSteps
<1>8. QED BY <1>1, <1>4, <1>5, <1>6, <1>7 DEF Told

LEMMA SyncLoadNext == ASSUME SyncInv, NEW model \in todo, LoadNext(model) PROVE SyncInv'
<1>0. /\ LiveInv' /\ TypeOK /\ CallsOK /\ ListFresh /\ CallsFresh /\ RestSynced
      /\ \A m \in todo : m.id \in Ids
  BY LiveLoadNext DEF SyncInv, LiveInv, WorkInv, TypeOK
<1>1. /\ Main \in Procs /\ model.id \in Ids /\ Others(Main)
      /\ proc[Main].at = "loading" /\ proc'[Main].at = "check" /\ proc'[Main].id = model.id
      /\ proc'[Main].version = model.version /\ proc'[Main].on = TRUE
  BY <1>0, LoadCalls DEF LoadNext
<1>2. /\ UNCHANGED <<row, rowEnabled, triggers, version, plugged, onBus, synced>>
      /\ todo' = todo \ {model}
      /\ \A i \in Ids : i # model.id => overlapped'[i] = overlapped[i]
      /\ overlapped[model.id] => overlapped'[model.id]
  BY <1>0, <1>1 DEF LoadNext, rowVars, managerVars, objectVars, TypeOK
<1>3. Loading /\ Loading' /\ \A i \in Ids : ~overlapped'[i] => ~overlapped[i]
  BY <1>1, <1>2 DEF Loading
<1>4. TodoOK' /\ ListFresh'
  BY <1>0, <1>2, <1>3 DEF TodoOK, ListFresh, Wanted, Exists
<1>5. CallsFresh'
  <2> SUFFICES ASSUME NEW q \in Procs PROVE CallFresh(q)'
    BY DEF CallsFresh
  <2>1. CASE q = Main
    <3>1. ~overlapped'[model.id] /\ synced[model.id] =>
              Wanted(model.id) /\ model.version = row[model.id]
      BY <1>0, <1>1, <1>3 DEF ListFresh
    <3>2. QED
      BY <1>1, <1>2, <2>1, <3>1 DEF CallFresh, Wanted, Exists, StopSteps, StartSteps
  <2>2. CASE q # Main
    <3>1. proc'[q] = proc[q] /\ CallFresh(q) /\ (Calling(q) => proc[q].id \in Ids)
      BY <1>0, <1>1, <2>2 DEF Others, CallsFresh, CallsOK, CallOK
    <3>2. QED BY <1>2, <1>3, <3>1 DEF CallFresh, Calling, Wanted, Exists
  <2>3. QED BY <2>1, <2>2
<1>6. RestSynced'
  <2> SUFFICES ASSUME NEW i \in Ids, Quiet(i)', ~overlapped'[i], synced[i] PROVE InPlace(i)'
    BY <1>2 DEF RestSynced
  <2>1. i # model.id
    BY <1>1 DEF Quiet, Busy, Calling, MainSteps
  <2>2. Quiet(i)
    <3>1. \A q \in Procs : ~Busy(q, i)
      BY <1>1 DEF Quiet, Busy, Others, Calling, MainSteps
    <3>2. QED BY <1>2, <2>1, <3>1 DEF Quiet
  <2>3. QED BY <1>0, <1>2, <1>3, <2>2, SameInPlace DEF RestSynced
<1>7. QED BY <1>0, <1>4, <1>5, <1>6 DEF SyncInv

LEMMA SyncUnloadNext == ASSUME SyncInv, NEW model \in todo, UnloadNext(model) PROVE SyncInv'
<1>0. /\ LiveInv' /\ TypeOK /\ CallsOK /\ CallsFresh /\ RestSynced
      /\ \A m \in todo : m.id \in Ids
  BY LiveUnloadNext DEF SyncInv, LiveInv, WorkInv, TypeOK
<1>1. /\ Main \in Procs /\ model.id \in Ids /\ Others(Main)
      /\ proc[Main].at = "unloading" /\ proc'[Main].at = "remove" /\ proc'[Main].id = model.id
  BY <1>0, UnloadCalls DEF UnloadNext
<1>2. /\ UNCHANGED <<row, rowEnabled, triggers, version, plugged, onBus>>
      /\ todo' = todo \ {model}
      /\ \A i \in Ids : i # model.id => overlapped'[i] = overlapped[i] /\ synced'[i] = synced[i]
      /\ overlapped[model.id] => overlapped'[model.id]
      /\ ~synced'[model.id]
  BY <1>0, <1>1 DEF UnloadNext, rowVars, managerVars, objectVars, TypeOK
<1>3. Unloading' /\ ~Loading'
  BY <1>1 DEF Unloading, Loading, StartSteps
<1>4. TodoOK' /\ ListFresh'
  BY <1>3 DEF TodoOK, ListFresh
<1>5. CallsFresh'
  <2> SUFFICES ASSUME NEW q \in Procs PROVE CallFresh(q)'
    BY DEF CallsFresh
  <2>1. CASE q = Main
    BY <1>1, <1>2, <2>1 DEF CallFresh
  <2>2. CASE q # Main
    <3>1. proc'[q] = proc[q] /\ CallFresh(q) /\ (Calling(q) => proc[q].id \in Ids)
      BY <1>0, <1>1, <2>2 DEF Others, CallsFresh, CallsOK, CallOK
    <3>2. QED BY <1>2, <3>1 DEF CallFresh, Calling, Wanted, Exists
  <2>3. QED BY <2>1, <2>2
<1>6. RestSynced'
  <2> SUFFICES ASSUME NEW i \in Ids, Quiet(i)', ~overlapped'[i], synced'[i] PROVE InPlace(i)'
    BY DEF RestSynced
  <2>1. i # model.id
    BY <1>2
  <2>2. Quiet(i)
    <3>1. \A q \in Procs : ~Busy(q, i)
      BY <1>1 DEF Quiet, Busy, Others, Calling, MainSteps
    <3>2. QED BY <1>2, <2>1, <3>1 DEF Quiet
  <2>3. QED BY <1>0, <1>2, <2>1, <2>2, SameInPlace DEF RestSynced
<1>7. QED BY <1>0, <1>4, <1>5, <1>6 DEF SyncInv

\* A step of Main between two calls; only Load lets a row be in sync that
\* was not, one that is not in the map and not worked on.
LEMMA SyncRest ==
    ASSUME SyncInv, LiveInv', TodoOK', ListFresh',
           UNCHANGED <<row, rowEnabled, overlapped, triggers, version, plugged, onBus>>,
           \A q \in Procs : proc'[q] = proc[q] \/ (~Calling(q) /\ ~Calling(q)'),
           todo = {},
           \A i \in Ids : synced'[i] => synced[i] \/ (triggers[i] = None /\ Quiet(i)),
           \A i \in Ids : synced'[i] /\ ~synced[i] /\ Wanted(i) => ~Quiet(i)'
    PROVE  SyncInv'
<1>0. CallsFresh /\ RestSynced /\ CallsOK
  BY DEF SyncInv, LiveInv, WorkInv
<1>1. CallsFresh'
  <2> SUFFICES ASSUME NEW q \in Procs, Calling(q)' PROVE CallFresh(q)'
    BY DEF CallsFresh, CallFresh
  <2>1. proc'[q] = proc[q] /\ Calling(q) /\ CallFresh(q) /\ proc[q].id \in Ids
    <3>1. proc'[q] = proc[q]
      OBVIOUS
    <3>2. Calling(q)
      BY <3>1 DEF Calling
    <3>3. QED BY <1>0, <3>1, <3>2 DEF CallsFresh, CallsOK, CallOK
  <2>2. synced'[proc[q].id] => synced[proc[q].id]
    BY <2>1 DEF Quiet, Busy
  <2>3. QED BY <2>1, <2>2 DEF CallFresh, Calling, Wanted, Exists
<1>2. RestSynced'
  <2> SUFFICES ASSUME NEW i \in Ids, Quiet(i)', ~overlapped[i], synced'[i] PROVE InPlace(i)'
    BY DEF RestSynced
  <2>1. CASE synced[i]
    <3>1. Quiet(i)
      BY DEF Quiet, Busy, Calling
    <3>2. QED BY <1>0, <2>1, <3>1, SameInPlace DEF RestSynced
  <2>2. CASE ~synced[i]
    <3>1. triggers[i] = None /\ ~Wanted(i)
      BY <2>2
    <3>2. QED BY <3>1, SameInPlace DEF InPlace
  <2>3. QED BY <2>1, <2>2
<1>3. QED BY <1>1, <1>2 DEF SyncInv

LEMMA SyncMain == ASSUME SyncInv, MainStep PROVE SyncInv'
<1>0. /\ LiveInv' /\ WorkInv /\ TypeOK /\ Main \in Procs /\ TodoOK
  BY LiveMain DEF SyncInv, LiveInv, WorkInv, Procs
<1>1. CASE LoadEnd \/ Subscribe \/ Shutdown \/ UnloadEnd \/ Unsubscribe
  <2>1. /\ UNCHANGED <<row, rowEnabled, overlapped, triggers, version, plugged, onBus>>
        /\ \A q \in Procs : proc'[q] = proc[q] \/ (~Calling(q) /\ ~Calling(q)')
    BY <1>0, <1>1, MainRests
  <2>2. synced' = synced
    BY <1>1 DEF LoadEnd, Subscribe, Shutdown, UnloadEnd, Unsubscribe, historyVars
  <2>3. todo = {}
    <3>1. CASE LoadEnd \/ UnloadEnd
      BY <3>1 DEF LoadEnd, UnloadEnd
    <3>2. CASE Subscribe \/ Shutdown \/ Unsubscribe
      <4>1. proc[Main].at \in {"subscribe", "up", "unsubscribe"}
        BY <3>2 DEF Subscribe, Shutdown, Unsubscribe
      <4>2. QED BY <1>0, <4>1 DEF TodoOK, Loading, Unloading, StartSteps, StopSteps
    <3>3. QED BY <1>1, <3>1, <3>2
  <2>4. ~Loading' /\ (Unloading' \/ todo' = {})
    <3>1. \E step \in {"subscribe", "up", "unloading", "unsubscribe", "down"} :
              Goto(Main, step) /\ (step = "unloading" \/ todo' = todo)
      BY <1>1 DEF LoadEnd, Subscribe, Shutdown, UnloadEnd, Unsubscribe
    <3>2. /\ proc'[Main].at \in {"subscribe", "up", "unloading", "unsubscribe", "down"}
          /\ proc'[Main].at = "unloading" \/ todo' = todo
      BY <1>0, <3>1, GotoMoves DEF Moves, Steps, MainSteps
    <3>3. QED BY <2>3, <3>2 DEF Loading, Unloading, StartSteps
  <2>5. TodoOK' /\ ListFresh'
    BY <2>4 DEF TodoOK, ListFresh
  <2>6. QED BY <1>0, <2>1, <2>2, <2>3, <2>5, SyncRest
<1>2. CASE Load
  <2>1. /\ UNCHANGED <<row, rowEnabled, overlapped, triggers, version, plugged, onBus>>
        /\ \A q \in Procs : proc'[q] = proc[q] \/ (~Calling(q) /\ ~Calling(q)')
    BY <1>0, <1>2, MainRests
  <2>2. todo = {}
    BY <1>0, <1>2 DEF Load, TodoOK, Loading, Unloading, StartSteps, StopSteps
  <2>3. Goto(Main, "loading") => proc'[Main].at = "loading"
    BY <1>0, GotoMoves DEF Moves, Steps, MainSteps
  <2>4. Goto(Main, "subscribe") => proc'[Main].at = "subscribe"
    BY <1>0, GotoMoves DEF Moves, Steps, MainSteps
  <2>5. CASE Goto(Main, "subscribe") /\ todo' = todo /\ \A i \in Ids : synced'[i] => synced[i]
    <3>1. ~Loading' /\ todo' = {}
      BY <2>2, <2>4, <2>5 DEF Loading, StartSteps
    <3>2. TodoOK' /\ ListFresh'
      BY <3>1 DEF TodoOK, ListFresh
    <3>3. QED BY <1>0, <2>1, <2>2, <2>5, <3>2, SyncRest
  <2>6. CASE /\ todo' = {[id |-> id, version |-> row[id]] :
                           id \in {i \in Ids : Exists(i) /\ rowEnabled[i]}}
             /\ synced' = [id \in Ids |-> synced[id] \/ (triggers[id] = None /\ Quiet(id))]
             /\ Goto(Main, "loading")
    <3>1. TodoOK' /\ ListFresh'
      <4>1. Loading'
        BY <2>3, <2>6 DEF Loading
      <4>2. \A model \in todo' : Wanted(model.id) /\ model.version = row[model.id]
        BY <2>6 DEF Wanted
      <4>3. \A model \in todo' : Wanted(model.id)' /\ model.version = row'[model.id]
        BY <2>1, <4>2 DEF Wanted, Exists
      <4>4. QED BY <4>1, <4>3 DEF TodoOK, ListFresh
    <3>2. \A i \in Ids : synced'[i] => synced[i] \/ (triggers[i] = None /\ Quiet(i))
      BY <2>6
    <3>3. \A i \in Ids : Wanted(i) => ~Quiet(i)'
      <4>1. \A i \in Ids : Wanted(i) => [id |-> i, version |-> row[i]] \in todo'
        BY <2>6 DEF Wanted
      <4>2. \A i \in Ids : [id |-> i, version |-> row[i]].id = i
        OBVIOUS
      <4>3. QED BY <4>1, <4>2 DEF Quiet
    <3>4. QED BY <1>0, <2>1, <2>2, <3>1, <3>2, <3>3, SyncRest
  <2>7. QED BY <1>2, <2>5, <2>6 DEF Load
<1>3. QED BY <1>1, <1>2, SyncLoadNext, SyncUnloadNext DEF MainStep

LEMMA SyncNext == SyncInv /\ [Next]_vars => SyncInv'
<1> SUFFICES ASSUME SyncInv, [Next]_vars PROVE SyncInv'
  OBVIOUS
<1>1. CASE UNCHANGED stateVars
  <2>1. UNCHANGED <<row, rowEnabled, overlapped, synced, triggers, version, plugged, onBus,
                    proc, todo>>
    BY <1>1 DEF stateVars, rowVars, managerVars, mainVars, objectVars, historyVars
  <2>2. LiveInv'
    BY <1>1, LiveNext DEF SyncInv
  <2>3. TodoOK' /\ ListFresh'
    BY <2>1 DEF SyncInv, TodoOK, ListFresh, Loading, Unloading, Wanted, Exists
  <2>4. CallsFresh' /\ RestSynced'
    BY <2>1
    DEF SyncInv, CallsFresh, CallFresh, RestSynced, Quiet, Busy, Calling, InPlace, Wanted, Exists
  <2>5. QED BY <2>2, <2>3, <2>4 DEF SyncInv
<1>2. QED BY <1>1, SyncEvent, SyncStep, SyncMain, WorksOrStays DEF Work

\* When the last change of a row reached the manager and its calls did not
\* overlap, the map at rest holds the trigger in the row's version, listening
\* on the bus, or nothing if the row is disabled or gone.
THEOREM MapFollowsRows == Spec => []InSync
<1>1. SyncInv => InSync
  BY DEF SyncInv, RestSynced, InPlace, Wanted, InSync
<1>2. QED BY <1>1, SyncInit, SyncNext, PTL DEF Spec
=============================================================================
