------------------------- MODULE TaskManagerProofs -------------------------
(***************************************************************************)
(* Proofs about TaskManager, for any number of ids, objects and calls.     *)
(* WorkInv: what a call under way holds (its id, its object, the mutex     *)
(* while it stops), and that the map files every object under its own id.  *)
(* CountInv: taskCount covers the loaded tasks and those about to be       *)
(* stored. LiveInv: as long as no two calls for an id overlapped, whoever  *)
(* adds found the id free and finds its object there until it is done, and *)
(* an object that is switched on has its group or is about to make it.     *)
(* FreshInv: the list Main loads, each call, and the map between calls     *)
(* hold the version of the row, unless an event for the row was missed.    *)
(***************************************************************************)
EXTENDS TaskManager, Integers, FiniteSetTheorems, TLAPS

-----------------------------------------------------------------------------
(* The inductive invariants.                                                *)

Stopping == {"stop", "stop_triggers", "stop_actions", "stop_group", "delete"}
Starting == {"start", "start_actions", "start_group", "start_conditions", "start_triggers"}
MainRests == {"down", "adding", "subscribe", "up", "unloading", "unsubscribe"}
Steps == {"idle", "unload", "fetch", "store"} \cup Stopping \cup Starting \cup MainRests

TypeOK ==
    /\ row \in [Ids -> Nat]
    /\ rowEnabled \in [Ids -> BOOLEAN]
    /\ tasks \in [Ids -> Objects \cup {None}]
    /\ taskCount \in Int
    /\ isStarted \in BOOLEAN
    /\ subscribed \in BOOLEAN
    /\ mu \in Procs \cup {None}
    /\ pc \in [Procs -> Steps]
    /\ arg \in [Procs -> Ids \cup {None}]
    /\ op \in [Procs -> {"update", "unload"}]
    /\ obj \in [Procs -> Objects \cup {None}]
    /\ todo \subseteq [id : Ids, version : Nat]
    /\ task \in [Objects -> [id : Ids \cup {None}, version : Nat]]
    /\ enabled \in [Objects -> BOOLEAN]
    /\ actions \in [Objects -> BOOLEAN]
    /\ group \in [Objects -> BOOLEAN]
    /\ listening \in [Objects -> BOOLEAN]
    /\ handler \in [Objects -> {"idle", "check"}]
    /\ overlapped \in [Ids -> BOOLEAN]
    /\ missed \in [Ids -> BOOLEAN]

\* A call is about an id; what it stops is in the map, and the mutex keeps
\* it there; an object is stored, started and stopped for its own id.
CallOK(p) ==
    /\ Calling(p) => arg[p] \in Ids
    /\ pc[p] \in Stopping => mu = p /\ obj[p] \in Objects /\ tasks[arg[p]] = obj[p]
    /\ pc[p] \in Starting \cup {"store"} => obj[p] \in Objects
    /\ pc[p] \in Starting \cup Stopping \cup {"store"} => task[obj[p]].id = arg[p]
    /\ pc[p] \in MainRests => p = Main
    /\ pc[p] \in {"idle", "fetch"} => p \in Jobs

CallsOK == \A p \in Procs : CallOK(p)
MapOK == \A id \in Ids : tasks[id] # None => task[tasks[id]].id = id
WorkInv == TypeOK /\ CallsOK /\ MapOK

Storing == {p \in Procs : pc[p] = "store"}
CountInv == WorkInv /\ IsFiniteSet(Loaded) /\ IsFiniteSet(Storing) /\ CountCoversMap

\* Two calls for an id that are under way together are an overlap.
Alone == \A p, q \in Procs : p # q /\ Calling(p) /\ Calling(q) /\ arg[p] = arg[q] => overlapped[arg[p]]

\* What a call may count on as long as its id has no overlap.
Undisturbed(p) ==
    Calling(p) /\ ~overlapped[arg[p]] =>
        /\ pc[p] \in {"fetch", "store"} => tasks[arg[p]] = None
        /\ pc[p] \in Starting => tasks[arg[p]] = obj[p]
        /\ pc[p] \in Stopping \ {"stop"} => ~enabled[obj[p]]
        /\ pc[p] \in {"stop_triggers", "stop_actions", "stop_group"} => group[obj[p]]
        /\ pc[p] \in {"start_conditions", "start_triggers"} => group[obj[p]]
AllUndisturbed == \A p \in Procs : Undisturbed(p)

Grouped == \A o \in Objects :
    task[o].id # None /\ ~overlapped[task[o].id] /\ enabled[o] =>
        group[o] \/ \E p \in Procs : pc[p] \in {"start_actions", "start_group"} /\ obj[p] = o

LiveInv == WorkInv /\ Alone /\ AllUndisturbed /\ Grouped /\ OneLiveObject /\ CallsDoNotPanic

Adding == pc[Main] \in {"adding", "store"} \cup Starting
Unloading == pc[Main] \in {"unloading", "unload"} \cup Stopping

NotYet == pc[Main] \in {"down", "subscribe"}

MainOK ==
    /\ Adding \/ NotYet => ~subscribed
    /\ ~Adding /\ ~Unloading => todo = {}

ListFresh == Adding => \A model \in todo : missed[model.id] \/ model.version = row[model.id]

CallFresh(p) ==
    pc[p] \in Starting \cup {"store"} /\ ~overlapped[arg[p]] /\ ~missed[arg[p]] =>
        task[obj[p]].version = row[arg[p]]
CallsFresh == \A p \in Procs : CallFresh(p)

RestFresh == \A id \in Ids : Quiet(id) /\ ~overlapped[id] /\ ~missed[id] /\ tasks[id] # None
                => task[tasks[id]].version = row[id]

FreshInv == LiveInv /\ MainOK /\ ListFresh /\ CallsFresh /\ RestFresh

-----------------------------------------------------------------------------
(* Calls and the map.                                                       *)

LEMMA WorkInit == Init => WorkInv
<1> SUFFICES ASSUME Init PROVE WorkInv
  OBVIOUS
<1>1. TypeOK
  <2>1. row \in [Ids -> Nat] /\ rowEnabled \in [Ids -> BOOLEAN]
    BY DEF Init
  <2>2. task \in [Objects -> [id : Ids \cup {None}, version : Nat]]
    BY DEF Init, NoTask
  <2>3. /\ mu \in Procs \cup {None} /\ pc \in [Procs -> Steps]
        /\ arg \in [Procs -> Ids \cup {None}] /\ op \in [Procs -> {"update", "unload"}]
        /\ obj \in [Procs -> Objects \cup {None}]
    BY DEF Init, Procs, Steps, MainRests
  <2>4. /\ overlapped \in [Ids -> BOOLEAN] /\ missed \in [Ids -> BOOLEAN]
        /\ tasks \in [Ids -> Objects \cup {None}]
    BY DEF Init
  <2>7. isStarted \in BOOLEAN /\ subscribed \in BOOLEAN
    BY Zenon DEF Init
  <2>9. taskCount \in Int
    BY DEF Init
  <2>8. todo \subseteq [id : Ids, version : Nat]
    <3>1. todo = {}
      BY DEF Init
    <3>2. QED BY <3>1
  <2>5. /\ enabled \in [Objects -> BOOLEAN] /\ actions \in [Objects -> BOOLEAN]
        /\ group \in [Objects -> BOOLEAN] /\ listening \in [Objects -> BOOLEAN]
        /\ handler \in [Objects -> {"idle", "check"}]
    BY DEF Init
  <2>6. QED BY <2>1, <2>2, <2>3, <2>4, <2>5, <2>7, <2>8, <2>9 DEF TypeOK
<1>2. CallsOK
  BY MainAssumption DEF Init, CallsOK, CallOK, Calling, Procs, Starting, Stopping, MainRests
<1>3. MapOK
  BY DEF Init, MapOK
<1>4. QED BY <1>1, <1>2, <1>3 DEF WorkInv

LEMMA WorkNotify ==
    ASSUME WorkInv, NEW id \in Ids, NEW what \in {"update", "unload"}, Notify(id, what),
           row' \in [Ids -> Nat], rowEnabled' \in [Ids -> BOOLEAN],
           UNCHANGED <<managerVars, mainVars, objectVars, handler, panicked>>
    PROVE  WorkInv'
<1>1. TypeOK'
  <2>1. CASE subscribed
    <3>1. PICK j \in Jobs :
            /\ pc' = [pc EXCEPT ![j] = "unload"]
            /\ arg' = [arg EXCEPT ![j] = id]
            /\ op' = [op EXCEPT ![j] = what]
            /\ overlapped' = [overlapped EXCEPT ![id] = @ \/ ~Quiet(id)]
            /\ UNCHANGED <<obj, missed>>
      BY <2>1 DEF Notify, Goto
    <3>2. /\ pc' \in [Procs -> Steps] /\ arg' \in [Procs -> Ids \cup {None}]
          /\ op' \in [Procs -> {"update", "unload"}] /\ overlapped' \in [Ids -> BOOLEAN]
      BY <3>1 DEF WorkInv, TypeOK, Steps
    <3>3. QED BY <3>1, <3>2 DEF WorkInv, TypeOK, managerVars, mainVars, objectVars
  <2>2. CASE ~subscribed
    <3>1. missed' \in [Ids -> BOOLEAN]
      BY <2>2 DEF Notify, WorkInv, TypeOK
    <3>2. QED BY <2>2, <3>1 DEF Notify, WorkInv, TypeOK, managerVars, mainVars, objectVars, procVars
  <2>3. QED BY <2>1, <2>2
<1>2. CallsOK'
  BY MainAssumption DEF WorkInv, TypeOK, Notify, Goto, Procs, Steps, Stopping, Starting, MainRests, managerVars,
     mainVars, objectVars, procVars, CallsOK, CallOK, Calling
<1>3. MapOK'
  BY DEF WorkInv, MapOK, managerVars, objectVars
<1>4. QED BY <1>1, <1>2, <1>3 DEF WorkInv

\* The end of a call, of addTask or unloadTask.
LEMMA GoesTo ==
    ASSUME TypeOK, NEW p \in Procs, NEW step \in Steps, Goes(p, step)
    PROVE  /\ pc' \in [Procs -> Steps] /\ pc' = [pc EXCEPT ![p] = step]
           /\ arg' \in [Procs -> Ids \cup {None}]
           /\ op' \in [Procs -> {"update", "unload"}]
           /\ obj' \in [Procs -> Objects \cup {None}] /\ obj'[p] = None
           /\ step = "fetch" => arg' = arg
           /\ \A q \in Procs \ {p} : arg'[q] = arg[q] /\ op'[q] = op[q] /\ obj'[q] = obj[q]
BY DEF TypeOK, Goes, Goto

LEMMA AfterCall ==
    ASSUME TypeOK, NEW p \in Procs
    PROVE  /\ AfterAdd(p) \in Steps /\ AfterUnload(p) \in Steps
           /\ AfterAdd(p) = IF p = Main THEN "adding" ELSE "idle"
           /\ AfterUnload(p) \in {"unloading", "fetch", "idle"}
           /\ AfterUnload(p) = "unloading" <=> p = Main
           /\ p # Main => p \in Jobs
BY DEF TypeOK, AfterAdd, AfterUnload, Steps, MainRests, Procs

\* addTask up to the map, from updateTask or from load.
LEMMA WorkAdd ==
    ASSUME WorkInv, NEW p \in Procs, NEW id \in Ids, NEW version \in Nat,
           AddTask(p, id, version),
           \/ pc[p] = "fetch" /\ arg[p] = id
           \/ pc[p] = "adding",
           todo' \subseteq [id : Ids, version : Nat], overlapped' \in [Ids -> BOOLEAN],
           UNCHANGED <<rowVars, tasks, mu, isStarted, subscribed, handler, missed>>
    PROVE  WorkInv'
<1>1. PICK o \in Objects :
        /\ Garbage(o)
        /\ task' = [task EXCEPT ![o] = [id |-> id, version |-> version]]
        /\ enabled' = [enabled EXCEPT ![o] = FALSE]
        /\ actions' = [actions EXCEPT ![o] = FALSE]
        /\ group' = [group EXCEPT ![o] = FALSE]
        /\ obj' = [obj EXCEPT ![p] = o]
        /\ arg' = [arg EXCEPT ![p] = id]
        /\ taskCount' = taskCount + 1
        /\ pc' = [pc EXCEPT ![p] = "store"]
        /\ UNCHANGED <<listening, op>>
  BY DEF AddTask, Goto
<1>2. TypeOK'
  <2>1. task' \in [Objects -> [id : Ids \cup {None}, version : Nat]]
    BY <1>1 DEF WorkInv, TypeOK
  <2>2. /\ enabled' \in [Objects -> BOOLEAN] /\ actions' \in [Objects -> BOOLEAN]
        /\ group' \in [Objects -> BOOLEAN] /\ listening' \in [Objects -> BOOLEAN]
        /\ taskCount' \in Int
    BY <1>1 DEF WorkInv, TypeOK
  <2>3. /\ obj' \in [Procs -> Objects \cup {None}] /\ arg' \in [Procs -> Ids \cup {None}]
        /\ pc' \in [Procs -> Steps] /\ op' \in [Procs -> {"update", "unload"}]
    BY <1>1 DEF WorkInv, TypeOK, Steps
  <2>4. QED BY <2>1, <2>2, <2>3 DEF WorkInv, TypeOK, rowVars
<1>3. /\ \A i \in Ids : tasks[i] # o
      /\ \A q \in Procs : obj[q] # o
  BY <1>1 DEF Garbage
<1>4. CallsOK'
  BY <1>1, <1>3, MainAssumption
  DEF WorkInv, TypeOK, CallsOK, CallOK, Calling, Stopping, Starting, MainRests
<1>5. MapOK'
  BY <1>1, <1>3 DEF WorkInv, TypeOK, MapOK
<1>6. QED BY <1>2, <1>4, <1>5 DEF WorkInv

LEMMA WorkUnloadLock == ASSUME WorkInv, NEW p \in Procs, UnloadLock(p) PROVE WorkInv'
<1>0. /\ TypeOK /\ CallsOK /\ MapOK
      /\ pc[p] = "unload" /\ arg[p] \in Ids /\ mu = None
      /\ UNCHANGED <<rowVars, tasks, taskCount, mainVars, objectVars, handler, missed, overlapped>>
  BY DEF WorkInv, CallsOK, CallOK, UnloadLock, Calling, historyVars
<1>1. CASE tasks[arg[p]] = None
  <2>1. Goes(p, AfterUnload(p)) /\ UNCHANGED mu
    BY <1>1 DEF UnloadLock
  <2>2. TypeOK'
    BY <1>0, <2>1, GoesTo, AfterCall DEF TypeOK, rowVars, mainVars, objectVars
  <2>3. CallsOK'
    BY <1>0, <2>1, GoesTo, AfterCall, MainAssumption
    DEF CallsOK, CallOK, TypeOK, Calling, Procs, Stopping, Starting, MainRests, objectVars
  <2>4. QED BY <1>0, <2>2, <2>3 DEF WorkInv, MapOK, objectVars
<1>2. CASE tasks[arg[p]] # None
  <2>1. /\ mu' = p /\ obj' = [obj EXCEPT ![p] = tasks[arg[p]]]
        /\ pc' = [pc EXCEPT ![p] = "stop"] /\ UNCHANGED <<arg, op>>
    BY <1>2 DEF UnloadLock, Goto
  <2>2. TypeOK'
    BY <1>0, <1>2, <2>1 DEF TypeOK, Steps, Stopping, rowVars, mainVars, objectVars
  <2>3. CallsOK'
    BY <1>0, <1>2, <2>1, NoneAssumption
    DEF CallsOK, CallOK, MapOK, TypeOK, Calling, Procs, Stopping, Starting, MainRests, objectVars
  <2>4. QED BY <1>0, <2>2, <2>3 DEF WorkInv, MapOK, objectVars
<1>3. QED BY <1>1, <1>2

LEMMA WorkStop == ASSUME WorkInv, NEW p \in Procs, Stop(p) PROVE WorkInv'
<1>1. TypeOK'
  <2>1. TypeOK /\ obj[p] \in Objects
    BY DEF Stop, WorkInv, CallsOK, CallOK, Stopping
  <2>2. enabled' \in [Objects -> BOOLEAN]
    BY <2>1 DEF Stop, TypeOK
  <2>3. pc' \in [Procs -> Steps]
    <3>1. \E s \in {"stop_triggers", "delete"} : pc' = [pc EXCEPT ![p] = s]
      BY DEF Stop, Goto
    <3>2. QED BY <2>1, <3>1 DEF TypeOK, Steps, Stopping
  <2>4. QED BY <2>1, <2>2, <2>3 DEF Stop, TypeOK, rowVars, managerVars, mainVars, historyVars
<1>2. CallsOK'
  BY MainAssumption, NoneAssumption
  DEF Stop, Goto, rowVars, managerVars, mainVars, historyVars, WorkInv, TypeOK, CallsOK,
      CallOK, MapOK, Calling, Procs, Steps, Stopping, Starting, MainRests
<1>3. MapOK'
  BY NoneAssumption
  DEF Stop, Goto, rowVars, managerVars, mainVars, historyVars, WorkInv, TypeOK, CallsOK,
      CallOK, MapOK, Procs, Steps, Stopping, Starting, MainRests
<1>4. QED BY <1>1, <1>2, <1>3 DEF WorkInv

LEMMA WorkStopTriggers == ASSUME WorkInv, NEW p \in Procs, StopTriggers(p) PROVE WorkInv'
<1>1. TypeOK'
  BY DEF StopTriggers, Goto, rowVars, managerVars, mainVars, historyVars, WorkInv, TypeOK,
      CallsOK, CallOK, Procs, Steps, Stopping, Starting, MainRests
<1>2. CallsOK'
  BY MainAssumption, NoneAssumption
  DEF StopTriggers, Goto, rowVars, managerVars, mainVars, historyVars, WorkInv, TypeOK,
      CallsOK, CallOK, MapOK, Calling, Procs, Steps, Stopping, Starting, MainRests
<1>3. MapOK'
  BY NoneAssumption
  DEF StopTriggers, Goto, rowVars, managerVars, mainVars, historyVars, WorkInv, TypeOK,
      CallsOK, CallOK, MapOK, Procs, Steps, Stopping, Starting, MainRests
<1>4. QED BY <1>1, <1>2, <1>3 DEF WorkInv

LEMMA WorkStopActions == ASSUME WorkInv, NEW p \in Procs, StopActions(p) PROVE WorkInv'
<1>1. TypeOK'
  BY DEF StopActions, Goto, rowVars, managerVars, mainVars, historyVars, WorkInv, TypeOK,
      CallsOK, CallOK, Procs, Steps, Stopping, Starting, MainRests
<1>2. CallsOK'
  BY MainAssumption, NoneAssumption
  DEF StopActions, Goto, rowVars, managerVars, mainVars, historyVars, WorkInv, TypeOK,
      CallsOK, CallOK, MapOK, Calling, Procs, Steps, Stopping, Starting, MainRests
<1>3. MapOK'
  BY NoneAssumption
  DEF StopActions, Goto, rowVars, managerVars, mainVars, historyVars, WorkInv, TypeOK,
      CallsOK, CallOK, MapOK, Procs, Steps, Stopping, Starting, MainRests
<1>4. QED BY <1>1, <1>2, <1>3 DEF WorkInv

LEMMA WorkStopGroup == ASSUME WorkInv, NEW p \in Procs, StopGroup(p) PROVE WorkInv'
<1>1. TypeOK'
  <2>1. TypeOK /\ obj[p] \in Objects
    BY DEF StopGroup, WorkInv, CallsOK, CallOK, Stopping
  <2>2. group' \in [Objects -> BOOLEAN]
    BY <2>1 DEF StopGroup, TypeOK
  <2>3. pc' \in [Procs -> Steps]
    BY <2>1 DEF StopGroup, Goto, TypeOK, Steps, Stopping
  <2>4. QED BY <2>1, <2>2, <2>3 DEF StopGroup, TypeOK, rowVars, managerVars, mainVars, historyVars
<1>2. CallsOK'
  BY MainAssumption, NoneAssumption
  DEF StopGroup, Goto, rowVars, managerVars, mainVars, historyVars, WorkInv, TypeOK,
      CallsOK, CallOK, MapOK, Calling, Procs, Steps, Stopping, Starting, MainRests
<1>3. MapOK'
  BY NoneAssumption
  DEF StopGroup, Goto, rowVars, managerVars, mainVars, historyVars, WorkInv, TypeOK,
      CallsOK, CallOK, MapOK, Procs, Steps, Stopping, Starting, MainRests
<1>4. QED BY <1>1, <1>2, <1>3 DEF WorkInv

LEMMA WorkDeleteUnlock == ASSUME WorkInv, NEW p \in Procs, DeleteUnlock(p) PROVE WorkInv'
<1>0. /\ TypeOK /\ CallsOK /\ MapOK
      /\ pc[p] = "delete" /\ arg[p] \in Ids /\ mu = p
      /\ tasks' = [tasks EXCEPT ![arg[p]] = None] /\ mu' = None
      /\ taskCount' = taskCount - 1 /\ Goes(p, AfterUnload(p))
      /\ UNCHANGED <<rowVars, mainVars, objectVars, handler, missed, overlapped>>
  BY DEF WorkInv, CallsOK, CallOK, DeleteUnlock, Calling, Stopping, historyVars
<1>1. TypeOK'
  <2>1. pc' \in [Procs -> Steps] /\ arg' \in [Procs -> Ids \cup {None}]
    BY <1>0, GoesTo, AfterCall
  <2>2. op' \in [Procs -> {"update", "unload"}] /\ obj' \in [Procs -> Objects \cup {None}]
    BY <1>0, GoesTo, AfterCall
  <2>3. tasks' \in [Ids -> Objects \cup {None}] /\ taskCount' \in Int
    BY <1>0 DEF TypeOK
  <2>4. QED BY <1>0, <2>1, <2>2, <2>3 DEF TypeOK, rowVars, mainVars, objectVars
<1>2. CallsOK'
  BY <1>0, GoesTo, AfterCall, MainAssumption
  DEF CallsOK, CallOK, TypeOK, Calling, Procs, Stopping, Starting, MainRests, objectVars
<1>3. MapOK'
  BY <1>0 DEF TypeOK, MapOK, objectVars
<1>4. QED BY <1>1, <1>2, <1>3 DEF WorkInv

LEMMA WorkFetch == ASSUME WorkInv, NEW p \in Procs, Fetch(p) PROVE WorkInv'
<1>0. /\ TypeOK /\ CallsOK /\ MapOK
      /\ pc[p] = "fetch" /\ arg[p] \in Ids /\ p \in Jobs
      /\ UNCHANGED <<rowVars, tasks, mu, mainVars, handler, missed, overlapped>>
  BY DEF WorkInv, CallsOK, CallOK, Fetch, Calling, historyVars
<1>1. CASE AddTask(p, arg[p], row[arg[p]])
  <2>1. row[arg[p]] \in Nat
    BY <1>0 DEF TypeOK
  <2>2. todo' \subseteq [id : Ids, version : Nat] /\ overlapped' \in [Ids -> BOOLEAN]
    BY <1>0 DEF TypeOK, mainVars
  <2>3. UNCHANGED <<rowVars, tasks, mu, isStarted, subscribed, handler, missed>>
    BY <1>0 DEF mainVars
  <2>4. QED BY <1>0, <1>1, <2>1, <2>2, <2>3, WorkAdd
<1>2. CASE Goes(p, "idle") /\ UNCHANGED <<taskCount, objectVars>>
  <2>1. TypeOK'
    BY <1>0, <1>2, GoesTo DEF TypeOK, Steps, rowVars, mainVars, objectVars
  <2>2. CallsOK'
    BY <1>0, <1>2, GoesTo, MainAssumption
    DEF CallsOK, CallOK, TypeOK, Steps, Calling, Stopping, Starting, MainRests, objectVars
  <2>3. QED BY <1>0, <1>2, <2>1, <2>2 DEF WorkInv, MapOK, objectVars
<1>3. QED BY <1>1, <1>2 DEF Fetch

LEMMA WorkStoreTask == ASSUME WorkInv, NEW p \in Procs, StoreTask(p) PROVE WorkInv'
<1>1. TypeOK'
  BY DEF StoreTask, Goto, rowVars, mainVars, objectVars, historyVars, WorkInv, TypeOK,
      CallsOK, CallOK, Procs, Steps, Stopping, Starting, MainRests
<1>2. CallsOK'
  BY MainAssumption, NoneAssumption
  DEF StoreTask, Goto, rowVars, mainVars, objectVars, historyVars, WorkInv, TypeOK, CallsOK,
      CallOK, MapOK, Calling, Procs, Steps, Stopping, Starting, MainRests
<1>3. MapOK'
  BY NoneAssumption
  DEF StoreTask, Goto, rowVars, mainVars, objectVars, historyVars, WorkInv, TypeOK, CallsOK,
      CallOK, MapOK, Procs, Steps, Stopping, Starting, MainRests
<1>4. QED BY <1>1, <1>2, <1>3 DEF WorkInv

LEMMA WorkStart == ASSUME WorkInv, NEW p \in Procs, Start(p) PROVE WorkInv'
<1>1. TypeOK'
  <2>1. obj[p] \in Objects /\ enabled' \in [Objects -> BOOLEAN]
    BY DEF Start, WorkInv, TypeOK, CallsOK, CallOK, Starting
  <2>2. /\ pc' \in [Procs -> Steps] /\ arg' \in [Procs -> Ids \cup {None}]
        /\ op' \in [Procs -> {"update", "unload"}] /\ obj' \in [Procs -> Objects \cup {None}]
    BY GoesTo, AfterCall DEF Start, Goto, WorkInv, TypeOK, Steps, Starting
  <2>3. QED BY <2>1, <2>2 DEF Start, WorkInv, TypeOK, rowVars, managerVars, mainVars, historyVars
<1>2. CallsOK'
  BY GoesTo, AfterCall, MainAssumption, NoneAssumption
  DEF Start, Goto, rowVars, managerVars, mainVars, historyVars, WorkInv, TypeOK, CallsOK,
      CallOK, MapOK, Calling, Procs, Steps, Stopping, Starting, MainRests
<1>3. MapOK'
  BY GoesTo, AfterCall, NoneAssumption
  DEF Start, Goto, rowVars, managerVars, mainVars, historyVars, WorkInv, TypeOK, CallsOK,
      CallOK, MapOK, Procs, Steps, Stopping, Starting, MainRests
<1>4. QED BY <1>1, <1>2, <1>3 DEF WorkInv

LEMMA WorkStartActions == ASSUME WorkInv, NEW p \in Procs, StartActions(p) PROVE WorkInv'
<1>1. TypeOK'
  BY DEF StartActions, Goto, rowVars, managerVars, mainVars, historyVars, WorkInv, TypeOK,
      CallsOK, CallOK, Procs, Steps, Stopping, Starting, MainRests
<1>2. CallsOK'
  BY MainAssumption, NoneAssumption
  DEF StartActions, Goto, rowVars, managerVars, mainVars, historyVars, WorkInv, TypeOK,
      CallsOK, CallOK, MapOK, Calling, Procs, Steps, Stopping, Starting, MainRests
<1>3. MapOK'
  BY NoneAssumption
  DEF StartActions, Goto, rowVars, managerVars, mainVars, historyVars, WorkInv, TypeOK,
      CallsOK, CallOK, MapOK, Procs, Steps, Stopping, Starting, MainRests
<1>4. QED BY <1>1, <1>2, <1>3 DEF WorkInv

LEMMA WorkStartGroup == ASSUME WorkInv, NEW p \in Procs, StartGroup(p) PROVE WorkInv'
<1>1. TypeOK'
  BY DEF StartGroup, Goto, rowVars, managerVars, mainVars, historyVars, WorkInv, TypeOK,
      CallsOK, CallOK, Procs, Steps, Stopping, Starting, MainRests
<1>2. CallsOK'
  BY MainAssumption, NoneAssumption
  DEF StartGroup, Goto, rowVars, managerVars, mainVars, historyVars, WorkInv, TypeOK,
      CallsOK, CallOK, MapOK, Calling, Procs, Steps, Stopping, Starting, MainRests
<1>3. MapOK'
  BY NoneAssumption
  DEF StartGroup, Goto, rowVars, managerVars, mainVars, historyVars, WorkInv, TypeOK,
      CallsOK, CallOK, MapOK, Procs, Steps, Stopping, Starting, MainRests
<1>4. QED BY <1>1, <1>2, <1>3 DEF WorkInv

LEMMA WorkStartConditions == ASSUME WorkInv, NEW p \in Procs, StartConditions(p) PROVE WorkInv'
<1>1. TypeOK'
  BY DEF StartConditions, Goto, rowVars, managerVars, mainVars, objectVars, historyVars,
      WorkInv, TypeOK, CallsOK, CallOK, Procs, Steps, Stopping, Starting, MainRests
<1>2. CallsOK'
  BY MainAssumption, NoneAssumption
  DEF StartConditions, Goto, rowVars, managerVars, mainVars, objectVars, historyVars,
      WorkInv, TypeOK, CallsOK, CallOK, MapOK, Calling, Procs, Steps, Stopping, Starting,
      MainRests
<1>3. MapOK'
  BY NoneAssumption
  DEF StartConditions, Goto, rowVars, managerVars, mainVars, objectVars, historyVars,
      WorkInv, TypeOK, CallsOK, CallOK, MapOK, Procs, Steps, Stopping, Starting, MainRests
<1>4. QED BY <1>1, <1>2, <1>3 DEF WorkInv

LEMMA WorkStartTriggers == ASSUME WorkInv, NEW p \in Procs, StartTriggers(p) PROVE WorkInv'
<1>1. TypeOK'
  BY GoesTo, AfterCall
  DEF StartTriggers, rowVars, managerVars, mainVars, historyVars, WorkInv, TypeOK, CallsOK,
      CallOK, Procs, Steps, Stopping, Starting, MainRests
<1>2. CallsOK'
  BY GoesTo, AfterCall, MainAssumption, NoneAssumption
  DEF StartTriggers, rowVars, managerVars, mainVars, historyVars, WorkInv, TypeOK, CallsOK,
      CallOK, MapOK, Calling, Procs, Steps, Stopping, Starting, MainRests
<1>3. MapOK'
  BY GoesTo, AfterCall, NoneAssumption
  DEF StartTriggers, rowVars, managerVars, mainVars, historyVars, WorkInv, TypeOK, CallsOK,
      CallOK, MapOK, Procs, Steps, Stopping, Starting, MainRests
<1>4. QED BY <1>1, <1>2, <1>3 DEF WorkInv

LEMMA WorkLoad == ASSUME WorkInv, Load PROVE WorkInv'
<1>1. TypeOK'
  BY MaxVersionAssumption
  DEF Load, Goto, rowVars, managerVars, objectVars, Calling, WorkInv, TypeOK, Procs, Steps,
      Stopping, Starting, MainRests
<1>2. CallsOK'
  BY MainAssumption, NoneAssumption
  DEF Load, Goto, rowVars, managerVars, objectVars, Calling, WorkInv, TypeOK, CallsOK,
      CallOK, MapOK, Procs, Steps, Stopping, Starting, MainRests
<1>3. MapOK'
  BY NoneAssumption
  DEF Load, Goto, rowVars, managerVars, objectVars, Calling, WorkInv, TypeOK, CallsOK,
      MapOK, Procs
<1>4. QED BY <1>1, <1>2, <1>3 DEF WorkInv

LEMMA WorkLoadNext == ASSUME WorkInv, NEW model \in todo, LoadNext(model) PROVE WorkInv'
<1>1. /\ Main \in Procs /\ model.id \in Ids /\ model.version \in Nat /\ pc[Main] = "adding"
      /\ todo' \subseteq todo
  BY DEF WorkInv, TypeOK, Procs, LoadNext
<1>2. overlapped' \in [Ids -> BOOLEAN] /\ missed' = missed
  BY DEF WorkInv, TypeOK, LoadNext, MainCalls
<1>3. QED BY <1>1, <1>2, WorkAdd DEF LoadNext, WorkInv, TypeOK

LEMMA WorkLoadEnd == ASSUME WorkInv, LoadEnd PROVE WorkInv'
<1>1. TypeOK'
  BY MaxVersionAssumption
  DEF LoadEnd, Goto, rowVars, managerVars, objectVars, historyVars, WorkInv, TypeOK, Procs,
      Steps, Stopping, Starting, MainRests
<1>2. CallsOK'
  BY MainAssumption, NoneAssumption
  DEF LoadEnd, Goto, rowVars, managerVars, objectVars, historyVars, WorkInv, TypeOK,
      CallsOK, CallOK, MapOK, Calling, Procs, Steps, Stopping, Starting, MainRests
<1>3. MapOK'
  BY NoneAssumption
  DEF LoadEnd, Goto, rowVars, managerVars, objectVars, historyVars, WorkInv, TypeOK,
      CallsOK, MapOK, Procs
<1>4. QED BY <1>1, <1>2, <1>3 DEF WorkInv

LEMMA WorkSubscribe == ASSUME WorkInv, Subscribe PROVE WorkInv'
<1>1. TypeOK'
  BY MaxVersionAssumption
  DEF Subscribe, Goto, rowVars, managerVars, objectVars, historyVars, WorkInv, TypeOK,
      Procs, Steps, Stopping, Starting, MainRests
<1>2. CallsOK'
  BY MainAssumption, NoneAssumption
  DEF Subscribe, Goto, rowVars, managerVars, objectVars, historyVars, WorkInv, TypeOK,
      CallsOK, CallOK, MapOK, Calling, Procs, Steps, Stopping, Starting, MainRests
<1>3. MapOK'
  BY NoneAssumption
  DEF Subscribe, Goto, rowVars, managerVars, objectVars, historyVars, WorkInv, TypeOK,
      CallsOK, MapOK, Procs
<1>4. QED BY <1>1, <1>2, <1>3 DEF WorkInv

LEMMA WorkShutdown == ASSUME WorkInv, Shutdown PROVE WorkInv'
<1>1. TypeOK'
  BY MaxVersionAssumption
  DEF Shutdown, Goto, Loaded, rowVars, managerVars, objectVars, historyVars, WorkInv,
      TypeOK, Procs, Steps, Stopping, Starting, MainRests
<1>2. CallsOK'
  BY MainAssumption, NoneAssumption
  DEF Shutdown, Goto, Loaded, rowVars, managerVars, objectVars, historyVars, WorkInv,
      TypeOK, CallsOK, CallOK, MapOK, Calling, Procs, Steps, Stopping, Starting, MainRests
<1>3. MapOK'
  BY NoneAssumption
  DEF Shutdown, Goto, Loaded, rowVars, managerVars, objectVars, historyVars, WorkInv,
      TypeOK, CallsOK, MapOK, Procs
<1>4. QED BY <1>1, <1>2, <1>3 DEF WorkInv

LEMMA WorkUnloadNext == ASSUME WorkInv, NEW model \in todo, UnloadNext(model) PROVE WorkInv'
<1>1. TypeOK'
  BY MaxVersionAssumption
  DEF UnloadNext, Goto, MainCalls, rowVars, managerVars, objectVars, Calling, WorkInv,
      TypeOK, Procs, Steps, Stopping, Starting, MainRests
<1>2. CallsOK'
  BY MainAssumption, NoneAssumption
  DEF UnloadNext, Goto, MainCalls, rowVars, managerVars, objectVars, Calling, WorkInv,
      TypeOK, CallsOK, CallOK, MapOK, Procs, Steps, Stopping, Starting, MainRests
<1>3. MapOK'
  BY NoneAssumption
  DEF UnloadNext, Goto, MainCalls, rowVars, managerVars, objectVars, Calling, WorkInv,
      TypeOK, CallsOK, MapOK, Procs
<1>4. QED BY <1>1, <1>2, <1>3 DEF WorkInv

LEMMA WorkUnloadEnd == ASSUME WorkInv, UnloadEnd PROVE WorkInv'
<1>1. TypeOK'
  BY MaxVersionAssumption
  DEF UnloadEnd, Goto, rowVars, managerVars, objectVars, historyVars, WorkInv, TypeOK,
      Procs, Steps, Stopping, Starting, MainRests
<1>2. CallsOK'
  BY MainAssumption, NoneAssumption
  DEF UnloadEnd, Goto, rowVars, managerVars, objectVars, historyVars, WorkInv, TypeOK,
      CallsOK, CallOK, MapOK, Calling, Procs, Steps, Stopping, Starting, MainRests
<1>3. MapOK'
  BY NoneAssumption
  DEF UnloadEnd, Goto, rowVars, managerVars, objectVars, historyVars, WorkInv, TypeOK,
      CallsOK, MapOK, Procs
<1>4. QED BY <1>1, <1>2, <1>3 DEF WorkInv

LEMMA WorkUnsubscribe == ASSUME WorkInv, Unsubscribe PROVE WorkInv'
<1>1. TypeOK'
  BY MaxVersionAssumption
  DEF Unsubscribe, Goto, rowVars, managerVars, objectVars, historyVars, WorkInv, TypeOK,
      Procs, Steps, Stopping, Starting, MainRests
<1>2. CallsOK'
  BY MainAssumption, NoneAssumption
  DEF Unsubscribe, Goto, rowVars, managerVars, objectVars, historyVars, WorkInv, TypeOK,
      CallsOK, CallOK, MapOK, Calling, Procs, Steps, Stopping, Starting, MainRests
<1>3. MapOK'
  BY NoneAssumption
  DEF Unsubscribe, Goto, rowVars, managerVars, objectVars, historyVars, WorkInv, TypeOK,
      CallsOK, MapOK, Procs
<1>4. QED BY <1>1, <1>2, <1>3 DEF WorkInv

LEMMA WorkEvent == ASSUME WorkInv, Event PROVE WorkInv'
<1>0. TypeOK /\ UNCHANGED <<managerVars, mainVars, objectVars, handler, panicked>>
  BY DEF Event, WorkInv
<1>1. PICK id \in Ids :
         \/ \E on \in BOOLEAN : WriteRow(id, on)
         \/ Enable(id)
         \/ Disable(id)
         \/ Delete(id)
         \/ \E what \in {"update", "unload"} : PushCommand(id, what)
  BY DEF Event
<1>2. Gone \in Nat
  BY MaxVersionAssumption DEF Gone
<1>3. row' \in [Ids -> Nat] /\ rowEnabled' \in [Ids -> BOOLEAN]
  <2>1. CASE \E on \in BOOLEAN : WriteRow(id, on)
    BY <1>0, <2>1 DEF TypeOK, WriteRow
  <2>2. CASE Enable(id)
    BY <1>0, <2>2 DEF TypeOK, Enable
  <2>3. CASE Disable(id)
    BY <1>0, <2>3 DEF TypeOK, Disable
  <2>4. CASE Delete(id)
    BY <1>0, <1>2, <2>4 DEF TypeOK, Delete
  <2>5. CASE \E what \in {"update", "unload"} : PushCommand(id, what)
    BY <1>0, <2>5 DEF TypeOK, PushCommand, rowVars
  <2>6. QED BY <1>1, <2>1, <2>2, <2>3, <2>4, <2>5
<1>4. \E what \in {"update", "unload"} : Notify(id, what)
  BY <1>1 DEF WriteRow, Enable, Disable, Delete, PushCommand
<1>5. QED BY <1>0, <1>3, <1>4, WorkNotify

LEMMA WorkHandle == ASSUME WorkInv, NEW o \in Objects, Handle(o) PROVE WorkInv'
<1>1. UNCHANGED <<rowVars, managerVars, mainVars, procVars, objectVars, historyVars>>
  BY DEF Handle, TriggerCompleted, CheckAndRun
<1>2. TypeOK'
  <2>1. handler' \in [Objects -> {"idle", "check"}]
    BY DEF WorkInv, TypeOK, Handle, TriggerCompleted, CheckAndRun
  <2>2. QED
    BY <1>1, <2>1
    DEF WorkInv, TypeOK, rowVars, managerVars, mainVars, procVars, objectVars, historyVars
<1>3. CallsOK' /\ MapOK'
  BY <1>1 DEF WorkInv, CallsOK, CallOK, MapOK, Calling, managerVars, procVars, objectVars
<1>4. QED BY <1>2, <1>3 DEF WorkInv

LEMMA WorkMapRace == ASSUME WorkInv, MapRace PROVE WorkInv'
<1>1. /\ UNCHANGED <<rowVars, managerVars, mainVars, procVars, objectVars, historyVars>>
      /\ UNCHANGED handler
  BY DEF MapRace
<1>2. TypeOK'
  BY <1>1
  DEF WorkInv, TypeOK, rowVars, managerVars, mainVars, procVars, objectVars, historyVars
<1>3. CallsOK' /\ MapOK'
  BY <1>1 DEF WorkInv, CallsOK, CallOK, MapOK, Calling, managerVars, procVars, objectVars
<1>4. QED BY <1>2, <1>3 DEF WorkInv

LEMMA WorkStep == ASSUME WorkInv, NEW p \in Procs, Step(p) PROVE WorkInv'
BY WorkUnloadLock, WorkStop, WorkStopTriggers, WorkStopActions, WorkStopGroup, WorkDeleteUnlock,
   WorkFetch, WorkStoreTask, WorkStart, WorkStartActions, WorkStartGroup, WorkStartConditions,
   WorkStartTriggers DEF Step

LEMMA WorkMain == ASSUME WorkInv, MainStep PROVE WorkInv'
BY WorkLoad, WorkLoadNext, WorkLoadEnd, WorkSubscribe, WorkShutdown, WorkUnloadNext,
   WorkUnloadEnd, WorkUnsubscribe DEF MainStep

LEMMA WorkStutter == ASSUME WorkInv, UNCHANGED vars PROVE WorkInv'
<1>1. UNCHANGED <<rowVars, managerVars, mainVars, procVars, objectVars, historyVars, handler>>
  BY DEF vars
<1>2. TypeOK'
  BY <1>1 DEF WorkInv, TypeOK, rowVars, managerVars, mainVars, procVars, objectVars, historyVars
<1>3. CallsOK' /\ MapOK'
  BY <1>1 DEF WorkInv, CallsOK, CallOK, MapOK, Calling, managerVars, procVars, objectVars
<1>4. QED BY <1>2, <1>3 DEF WorkInv

LEMMA WorkNext == WorkInv /\ [Next]_vars => WorkInv'
BY WorkEvent, WorkStep, WorkMain, WorkMapRace, WorkHandle, WorkStutter DEF Next

\* The state is of its type, and every process that holds the mutex works on
\* the object the map holds for its id (the steps of unloadTask and addTask).
THEOREM CallsOwnObjects == Spec => []WorkInv
<1>1. Init => WorkInv
  BY WorkInit
<1>2. WorkInv /\ [Next]_vars => WorkInv'
  BY WorkNext
<1>3. QED BY <1>1, <1>2, PTL DEF Spec

-----------------------------------------------------------------------------
(* The counter.                                                             *)

\* A step that counts nothing, stores nothing and deletes nothing.
LEMMA CountStill ==
    ASSUME CountInv, WorkInv', tasks' = tasks, taskCount' = taskCount, Storing' \subseteq Storing
    PROVE  CountInv'
<1>1. Loaded' = Loaded
  BY DEF Loaded
<1>2. IsFiniteSet(Storing') /\ Cardinality(Storing') <= Cardinality(Storing)
  BY FS_Subset DEF CountInv
<1>3. /\ Cardinality(Loaded) \in Nat /\ Cardinality(Storing) \in Nat
      /\ Cardinality(Storing') \in Nat /\ taskCount \in Int
  BY <1>2, FS_CardinalityType DEF CountInv, WorkInv, TypeOK
<1>4. Cardinality(Loaded) + Cardinality(Storing) <= taskCount
  BY DEF CountInv, CountCoversMap, Storing
<1>5. Cardinality(Loaded) + Cardinality(Storing') <= taskCount
  BY <1>2, <1>3, <1>4
<1>6. QED BY <1>1, <1>2, <1>5 DEF CountInv, CountCoversMap, Storing

LEMMA CountAdd ==
    ASSUME CountInv, WorkInv', tasks' = tasks, taskCount' = taskCount + 1,
           NEW p \in Procs, pc' = [pc EXCEPT ![p] = "store"]
    PROVE  CountInv'
<1>1. Loaded' = Loaded
  BY DEF Loaded
<1>2. Storing' \subseteq Storing \cup {p}
  BY DEF Storing, CountInv, WorkInv, TypeOK
<1>3. /\ IsFiniteSet(Storing \cup {p})
      /\ Cardinality(Storing \cup {p}) <= Cardinality(Storing) + 1
      /\ Cardinality(Loaded) \in Nat /\ Cardinality(Storing) \in Nat
  <2>1. IsFiniteSet(Storing) /\ IsFiniteSet(Loaded)
    BY DEF CountInv
  <2>2. Cardinality(Loaded) \in Nat /\ Cardinality(Storing) \in Nat
    BY <2>1, FS_CardinalityType
  <2>3. /\ IsFiniteSet(Storing \cup {p})
        /\ \/ Cardinality(Storing \cup {p}) = Cardinality(Storing)
           \/ Cardinality(Storing \cup {p}) = Cardinality(Storing) + 1
    BY <2>1, FS_AddElement, Zenon
  <2>4. QED BY <2>2, <2>3
<1>4. /\ IsFiniteSet(Storing')
      /\ Cardinality(Storing') <= Cardinality(Storing \cup {p})
      /\ Cardinality(Storing') \in Nat /\ Cardinality(Storing \cup {p}) \in Nat
  BY <1>2, <1>3, FS_Subset, FS_CardinalityType
<1>5. Cardinality(Loaded) + Cardinality(Storing) <= taskCount /\ taskCount \in Int
  BY DEF CountInv, CountCoversMap, Storing, WorkInv, TypeOK
<1>6. Cardinality(Loaded) + Cardinality(Storing') <= taskCount'
  BY <1>3, <1>4, <1>5
<1>7. QED BY <1>1, <1>4, <1>6 DEF CountInv, CountCoversMap, Storing

LEMMA CountStore ==
    ASSUME CountInv, WorkInv', NEW p \in Procs, StoreTask(p)
    PROVE  CountInv'
<1>0. /\ pc[p] = "store" /\ pc' = [pc EXCEPT ![p] = "start"] /\ taskCount' = taskCount
      /\ tasks' = [tasks EXCEPT ![arg[p]] = obj[p]] /\ arg[p] \in Ids
  BY DEF StoreTask, Goto, CountInv, WorkInv, CallsOK, CallOK, Calling
<1>1. Loaded' \subseteq Loaded \cup {arg[p]}
  BY <1>0 DEF Loaded, CountInv, WorkInv, TypeOK
<1>2. Storing' = Storing \ {p} /\ p \in Storing
  BY <1>0 DEF Storing, CountInv, WorkInv, TypeOK
<1>3. /\ IsFiniteSet(Loaded \cup {arg[p]})
      /\ Cardinality(Loaded \cup {arg[p]}) <= Cardinality(Loaded) + 1
      /\ Cardinality(Loaded) \in Nat /\ Cardinality(Storing) \in Nat
  BY FS_AddElement, FS_CardinalityType DEF CountInv
<1>4. /\ IsFiniteSet(Loaded')
      /\ Cardinality(Loaded') <= Cardinality(Loaded \cup {arg[p]})
      /\ Cardinality(Loaded') \in Nat /\ Cardinality(Loaded \cup {arg[p]}) \in Nat
  BY <1>1, <1>3, FS_Subset, FS_CardinalityType
<1>5. IsFiniteSet(Storing') /\ Cardinality(Storing') = Cardinality(Storing) - 1
  BY <1>2, FS_RemoveElement DEF CountInv
<1>6. Cardinality(Loaded) + Cardinality(Storing) <= taskCount /\ taskCount \in Int
  BY DEF CountInv, CountCoversMap, Storing, WorkInv, TypeOK
<1>7. Cardinality(Loaded') + Cardinality(Storing') <= taskCount'
  BY <1>0, <1>3, <1>4, <1>5, <1>6
<1>8. QED BY <1>4, <1>5, <1>7 DEF CountInv, CountCoversMap, Storing

LEMMA CountDelete ==
    ASSUME CountInv, WorkInv', NEW p \in Procs, DeleteUnlock(p)
    PROVE  CountInv'
<1>0. /\ pc[p] = "delete" /\ Goes(p, AfterUnload(p)) /\ taskCount' = taskCount - 1
      /\ tasks' = [tasks EXCEPT ![arg[p]] = None] /\ arg[p] \in Ids
      /\ tasks[arg[p]] # None /\ TypeOK
  BY NoneAssumption DEF DeleteUnlock, CountInv, WorkInv, CallsOK, CallOK, Calling, Stopping
<1>1. Loaded' = Loaded \ {arg[p]} /\ arg[p] \in Loaded
  BY <1>0 DEF Loaded, TypeOK
<1>2. Storing' \subseteq Storing
  BY <1>0, GoesTo, AfterCall DEF Storing, TypeOK
<1>3. /\ IsFiniteSet(Storing') /\ Cardinality(Storing') <= Cardinality(Storing)
      /\ Cardinality(Loaded) \in Nat /\ Cardinality(Storing) \in Nat
      /\ Cardinality(Storing') \in Nat
  BY <1>2, FS_Subset, FS_CardinalityType DEF CountInv
<1>4. IsFiniteSet(Loaded') /\ Cardinality(Loaded') = Cardinality(Loaded) - 1
  BY <1>1, FS_RemoveElement DEF CountInv
<1>5. Cardinality(Loaded) + Cardinality(Storing) <= taskCount /\ taskCount \in Int
  BY <1>0 DEF CountInv, CountCoversMap, Storing, TypeOK
<1>6. Cardinality(Loaded') + Cardinality(Storing') <= taskCount'
  BY <1>0, <1>3, <1>4, <1>5
<1>7. QED BY <1>3, <1>4, <1>6 DEF CountInv, CountCoversMap, Storing

\* Every other step counts, stores and deletes nothing.
LEMMA StillStep ==
    ASSUME TypeOK, NEW p \in Procs, Step(p), ~StoreTask(p), ~DeleteUnlock(p),
           ~(Fetch(p) /\ AddTask(p, arg[p], row[arg[p]]))
    PROVE  tasks' = tasks /\ taskCount' = taskCount /\ Storing' \subseteq Storing
<1>1. CASE UnloadLock(p)
  BY <1>1, GoesTo, AfterCall DEF UnloadLock, Goto, Storing, TypeOK
<1>2. CASE Stop(p)
  BY <1>2 DEF Stop, Goto, managerVars, Storing, TypeOK
<1>3. CASE StopTriggers(p)
  BY <1>3 DEF StopTriggers, Goto, managerVars, Storing, TypeOK
<1>4. CASE StopActions(p)
  BY <1>4 DEF StopActions, Goto, managerVars, Storing, TypeOK
<1>5. CASE StopGroup(p)
  BY <1>5 DEF StopGroup, Goto, managerVars, Storing, TypeOK
<1>6. CASE Fetch(p)
  BY <1>6, GoesTo, AfterCall DEF Fetch, Storing, TypeOK, Steps
<1>7. CASE Start(p)
  BY <1>7, GoesTo, AfterCall DEF Start, Goto, managerVars, Storing, TypeOK
<1>8. CASE StartActions(p)
  BY <1>8 DEF StartActions, Goto, managerVars, Storing, TypeOK
<1>9. CASE StartGroup(p)
  BY <1>9 DEF StartGroup, Goto, managerVars, Storing, TypeOK
<1>10. CASE StartConditions(p)
  BY <1>10 DEF StartConditions, Goto, managerVars, Storing, TypeOK
<1>11. CASE StartTriggers(p)
  BY <1>11, GoesTo, AfterCall DEF StartTriggers, managerVars, Storing, TypeOK
<1>12. QED
  BY <1>1, <1>2, <1>3, <1>4, <1>5, <1>6, <1>7, <1>8, <1>9, <1>10, <1>11 DEF Step

LEMMA StillMain ==
    ASSUME TypeOK, MainStep, ~\E model \in todo : LoadNext(model)
    PROVE  tasks' = tasks /\ taskCount' = taskCount /\ Storing' \subseteq Storing
<1>1. CASE Load
  BY <1>1 DEF Load, Goto, managerVars, Storing, TypeOK
<1>2. CASE LoadEnd
  BY <1>2 DEF LoadEnd, Goto, managerVars, Storing, TypeOK
<1>3. CASE Subscribe
  BY <1>3 DEF Subscribe, Goto, managerVars, Storing, TypeOK
<1>4. CASE Shutdown
  BY <1>4 DEF Shutdown, Goto, managerVars, Storing, TypeOK
<1>5. CASE \E model \in todo : UnloadNext(model)
  BY <1>5 DEF UnloadNext, Goto, managerVars, Storing, TypeOK
<1>6. CASE UnloadEnd
  BY <1>6 DEF UnloadEnd, Goto, managerVars, Storing, TypeOK
<1>7. CASE Unsubscribe
  BY <1>7 DEF Unsubscribe, Goto, managerVars, Storing, TypeOK
<1>8. QED
  BY <1>1, <1>2, <1>3, <1>4, <1>5, <1>6, <1>7 DEF MainStep

LEMMA StillEvent ==
    ASSUME TypeOK, Event
    PROVE  tasks' = tasks /\ taskCount' = taskCount /\ Storing' \subseteq Storing
<1>1. tasks' = tasks /\ taskCount' = taskCount
  BY DEF Event, managerVars
<1>2. \E id \in Ids, what \in {"update", "unload"} : Notify(id, what)
  BY DEF Event, WriteRow, Enable, Disable, Delete, PushCommand
<1>3. Storing' \subseteq Storing
  BY <1>2 DEF Notify, Goto, Storing, TypeOK, procVars
<1>4. QED BY <1>1, <1>3

LEMMA CountNext == CountInv /\ WorkInv' /\ [Next]_vars => CountInv'
<1> SUFFICES ASSUME CountInv, WorkInv', [Next]_vars PROVE CountInv'
  OBVIOUS
<1>0. TypeOK
  BY DEF CountInv, WorkInv
<1>1. CASE Event
  BY <1>0, <1>1, StillEvent, CountStill
<1>2. ASSUME NEW p \in Procs, Step(p) PROVE CountInv'
  <2>1. CASE StoreTask(p)
    BY <2>1, CountStore
  <2>2. CASE DeleteUnlock(p)
    BY <2>2, CountDelete
  <2>3. CASE Fetch(p) /\ AddTask(p, arg[p], row[arg[p]])
    BY <2>3, CountAdd DEF Fetch, AddTask, Goto
  <2>4. QED BY <1>0, <1>2, <2>1, <2>2, <2>3, StillStep, CountStill
<1>3. CASE MainStep
  <2>1. CASE \E model \in todo : LoadNext(model)
    <3>1. Main \in Procs
      BY DEF Procs
    <3>2. QED BY <2>1, <3>1, CountAdd DEF LoadNext, AddTask, Goto
  <2>2. QED BY <1>0, <1>3, <2>1, StillMain, CountStill
<1>4. ASSUME NEW o \in Objects, Handle(o) PROVE CountInv'
  <2>1. tasks' = tasks /\ taskCount' = taskCount /\ Storing' \subseteq Storing
    BY <1>4 DEF Handle, TriggerCompleted, CheckAndRun, managerVars, procVars, Storing
  <2>2. QED BY <2>1, CountStill
<1>5. CASE UNCHANGED vars
  <2>1. tasks' = tasks /\ taskCount' = taskCount /\ Storing' \subseteq Storing
    BY <1>5 DEF vars, managerVars, procVars, Storing
  <2>2. QED BY <2>1, CountStill
<1>6. CASE MapRace
  <2>1. tasks' = tasks /\ taskCount' = taskCount /\ Storing' \subseteq Storing
    BY <1>6 DEF MapRace, managerVars, procVars, Storing
  <2>2. QED BY <2>1, CountStill
<1>7. QED BY <1>1, <1>2, <1>3, <1>4, <1>5, <1>6 DEF Next

\* Every entry of the map and every task about to be stored has been
\* counted, whatever overlaps (the deferred decrement of unloadTask and the
\* increment of addTask).
THEOREM TasksAreCounted == Spec => []CountCoversMap
<1>1. Init => CountInv
  <2> SUFFICES ASSUME Init PROVE CountInv
    OBVIOUS
  <2>1. WorkInv
    BY WorkInit
  <2>2. Loaded = {} /\ Storing = {} /\ taskCount = 0
    BY DEF Init, Loaded, Storing
  <2>3. QED BY <2>1, <2>2, FS_EmptySet DEF CountInv, CountCoversMap, Storing
<1>2. CountInv /\ [Next]_vars => CountInv'
  BY CountNext, WorkNext DEF CountInv
<1>3. CountInv => CountCoversMap
  BY DEF CountInv
<1>4. QED BY <1>1, <1>2, <1>3, PTL DEF Spec

-----------------------------------------------------------------------------
(* Calls that do not overlap.                                               *)

LEMMA LiveInit == Init => LiveInv
<1> SUFFICES ASSUME Init PROVE LiveInv
  OBVIOUS
<1>1. WorkInv
  BY WorkInit
<1>2. \A p \in Procs : ~Calling(p)
  BY DEF Init, Calling
<1>3. OneLiveObject /\ Grouped
  BY DEF Init, OneLiveObject, Grouped, NoTask
<1>4. CallsDoNotPanic
  BY NoneAssumption DEF Init, CallsDoNotPanic
<1>5. QED BY <1>1, <1>2, <1>3, <1>4 DEF LiveInv, Alone, AllUndisturbed, Undisturbed

\* addTask up to the map, of a call that is alone or that overlaps.
LEMMA LiveAdd ==
    ASSUME LiveInv, WorkInv', NEW p \in Procs, NEW id \in Ids, NEW version \in Nat,
           AddTask(p, id, version), pc[p] \in {"fetch", "adding"},
           ~overlapped'[id] => /\ tasks[id] = None
                               /\ \A q \in Procs \ {p} : ~(Calling(q) /\ arg[q] = id),
           \A i \in Ids : overlapped[i] => overlapped'[i],
           UNCHANGED <<tasks, panicked>>
    PROVE  LiveInv'
<1>0. TypeOK /\ overlapped' \in [Ids -> BOOLEAN]
  BY DEF LiveInv, WorkInv, TypeOK
<1>1. PICK o \in Objects :
        /\ Garbage(o)
        /\ task' = [task EXCEPT ![o] = [id |-> id, version |-> version]]
        /\ enabled' = [enabled EXCEPT ![o] = FALSE]
        /\ actions' = [actions EXCEPT ![o] = FALSE]
        /\ group' = [group EXCEPT ![o] = FALSE]
        /\ obj' = [obj EXCEPT ![p] = o]
        /\ arg' = [arg EXCEPT ![p] = id]
        /\ taskCount' = taskCount + 1
        /\ pc' = [pc EXCEPT ![p] = "store"]
        /\ UNCHANGED <<listening, op>>
  BY DEF AddTask, Goto
<1>2. (\A i \in Ids : tasks[i] # o) /\ (\A q \in Procs : obj[q] # o)
  BY <1>1 DEF Garbage
<1>3. pc'[p] = "store" /\ arg'[p] = id /\ obj'[p] = o
  BY <1>0, <1>1 DEF TypeOK
<1>4. ASSUME NEW q \in Procs, q # p
      PROVE  /\ pc'[q] = pc[q] /\ arg'[q] = arg[q] /\ obj'[q] = obj[q]
             /\ obj[q] \in Objects => /\ enabled'[obj[q]] = enabled[obj[q]]
                                      /\ group'[obj[q]] = group[obj[q]]
  <2>1. pc'[q] = pc[q] /\ arg'[q] = arg[q] /\ obj'[q] = obj[q] /\ obj[q] # o
    BY <1>0, <1>1, <1>2, <1>4 DEF TypeOK
  <2>2. QED BY <1>0, <1>1, <2>1 DEF TypeOK
<1>5. Alone'
  <2> SUFFICES ASSUME NEW q \in Procs, NEW r \in Procs, q # r, Calling(q)', Calling(r)',
                      arg'[q] = arg'[r]
               PROVE  overlapped'[arg'[q]]
    BY DEF Alone
  <2>1. CASE q # p /\ r # p
    <3>1. Calling(q) /\ Calling(r) /\ arg'[q] = arg[q] /\ arg[q] = arg[r] /\ arg[q] \in Ids
      BY <1>4, <2>1 DEF Calling, LiveInv, WorkInv, CallsOK, CallOK
    <3>2. QED BY <3>1 DEF LiveInv, Alone
  <2>2. CASE q = p \/ r = p
    <3>1. PICK s \in {q, r} : s # p
      OBVIOUS
    <3>2. Calling(s) /\ arg[s] = id /\ s \in Procs \ {p} /\ arg'[q] = id
      BY <1>3, <1>4, <2>2, <3>1 DEF Calling
    <3>3. QED BY <3>2, <1>0
  <2>3. QED BY <2>1, <2>2
<1>6. AllUndisturbed'
  <2> SUFFICES ASSUME NEW q \in Procs PROVE Undisturbed(q)'
    BY DEF AllUndisturbed
  <2>1. CASE q = p
    BY <1>0, <1>3, <2>1 DEF Undisturbed, Calling, Starting, Stopping
  <2>2. CASE q # p
    <3>1. Calling(q) => arg[q] \in Ids
      BY DEF LiveInv, WorkInv, CallsOK, CallOK
    <3>2. pc[q] \in Starting \cup Stopping => obj[q] \in Objects
      BY DEF LiveInv, WorkInv, CallsOK, CallOK
    <3>3. Undisturbed(q)
      BY DEF LiveInv, AllUndisturbed
    <3>4. QED BY <1>4, <2>2, <3>1, <3>2, <3>3 DEF Undisturbed, Calling, Starting, Stopping
  <2>3. QED BY <2>1, <2>2
<1>7. Grouped'
  <2> SUFFICES ASSUME NEW u \in Objects, task'[u].id # None, ~overlapped'[task'[u].id], enabled'[u]
               PROVE  group'[u] \/ \E q \in Procs :
                          pc'[q] \in {"start_actions", "start_group"} /\ obj'[q] = u
    BY DEF Grouped
  <2>1. u # o /\ task'[u] = task[u] /\ enabled[u] /\ group'[u] = group[u] /\ task[u].id \in Ids
    BY <1>0, <1>1 DEF TypeOK
  <2>2. group[u] \/ \E q \in Procs : pc[q] \in {"start_actions", "start_group"} /\ obj[q] = u
    BY <2>1 DEF LiveInv, Grouped
  <2>3. ASSUME NEW q \in Procs, pc[q] \in {"start_actions", "start_group"}, obj[q] = u
        PROVE  group'[u] \/ \E r \in Procs :
                   pc'[r] \in {"start_actions", "start_group"} /\ obj'[r] = u
    <3>1. q # p
      BY <2>3
    <3>2. QED BY <1>4, <2>3, <3>1
  <2>4. QED BY <2>1, <2>2, <2>3
<1>8. OneLiveObject'
  BY <1>0, <1>1 DEF LiveInv, OneLiveObject, TypeOK
<1>9. CallsDoNotPanic'
  BY DEF LiveInv, CallsDoNotPanic
<1>10. QED BY <1>5, <1>6, <1>7, <1>8, <1>9 DEF LiveInv

LEMMA LiveUnloadLock == ASSUME LiveInv, NEW p \in Procs, UnloadLock(p) PROVE LiveInv'
<1>0. WorkInv /\ WorkInv' /\ Alone /\ AllUndisturbed /\ Grouped /\ OneLiveObject /\ CallsDoNotPanic
  BY WorkUnloadLock DEF LiveInv
<1>1. /\ TypeOK /\ pc[p] = "unload" /\ arg[p] \in Ids
      /\ UNCHANGED <<tasks, task, enabled, group, panicked, overlapped>>
  BY <1>0 DEF WorkInv, CallsOK, CallOK, Calling, UnloadLock, objectVars, historyVars
<1>2. /\ pc'[p] \in {"stop", "unloading", "fetch", "idle"} /\ arg' \in [Procs -> Ids \cup {None}]
      /\ pc'[p] \in {"stop", "fetch"} => arg'[p] = arg[p]
      /\ pc'[p] = "fetch" => tasks[arg[p]] = None
      /\ pc'[p] = "stop" => obj'[p] = tasks[arg[p]]
      /\ \A q \in Procs \ {p} : pc'[q] = pc[q] /\ arg'[q] = arg[q] /\ obj'[q] = obj[q]
  <2>1. CASE tasks[arg[p]] = None
    BY <1>1, <2>1, GoesTo, AfterCall DEF UnloadLock, TypeOK
  <2>2. CASE tasks[arg[p]] # None
    BY <1>1, <2>2 DEF UnloadLock, Goto, TypeOK
  <2>3. QED BY <2>1, <2>2
<1>3. Alone'
  BY <1>0, <1>1, <1>2 DEF Alone, Calling
<1>4. AllUndisturbed'
  <2> SUFFICES ASSUME NEW q \in Procs PROVE Undisturbed(q)'
    BY DEF AllUndisturbed
  <2>1. CASE q = p
    BY <1>1, <1>2, <2>1 DEF Undisturbed, Calling, Starting, Stopping
  <2>2. CASE q # p
    <3>1. pc'[q] = pc[q] /\ arg'[q] = arg[q] /\ obj'[q] = obj[q]
      BY <1>2, <2>2
    <3>2. QED BY <1>0, <1>1, <3>1 DEF AllUndisturbed, Undisturbed, Calling
  <2>3. QED BY <2>1, <2>2
<1>5. Grouped'
  BY <1>0, <1>1, <1>2 DEF Grouped
<1>6. OneLiveObject' /\ CallsDoNotPanic'
  BY <1>0, <1>1 DEF OneLiveObject, CallsDoNotPanic
<1>7. QED BY <1>0, <1>3, <1>4, <1>5, <1>6 DEF LiveInv

LEMMA LiveStop == ASSUME LiveInv, NEW p \in Procs, Stop(p) PROVE LiveInv'
<1>0. WorkInv /\ WorkInv' /\ Alone /\ AllUndisturbed /\ Grouped /\ OneLiveObject /\ CallsDoNotPanic
  BY WorkStop DEF LiveInv
<1>1. /\ TypeOK /\ pc[p] = "stop" /\ arg[p] \in Ids
      /\ obj[p] \in Objects /\ task[obj[p]].id = arg[p] /\ tasks[arg[p]] = obj[p]
      /\ enabled' = [enabled EXCEPT ![obj[p]] = FALSE]
      /\ pc' = [pc EXCEPT ![p] = IF enabled[obj[p]] THEN "stop_triggers" ELSE "delete"]
      /\ UNCHANGED <<tasks, arg, obj, task, group, panicked, overlapped>>
  <2>1. /\ TypeOK /\ pc[p] = "stop" /\ arg[p] \in Ids
        /\ obj[p] \in Objects /\ task[obj[p]].id = arg[p] /\ tasks[arg[p]] = obj[p]
        /\ UNCHANGED <<tasks, arg, obj, task, group, panicked, overlapped>>
    BY <1>0 DEF WorkInv, CallsOK, CallOK, Calling, Stopping, Stop, managerVars, historyVars
  <2>2. enabled' = [enabled EXCEPT ![obj[p]] = FALSE]
    BY <2>1 DEF Stop, TypeOK
  <2>3. pc' = [pc EXCEPT ![p] = IF enabled[obj[p]] THEN "stop_triggers" ELSE "delete"]
    BY DEF Stop, Goto
  <2>4. QED BY <2>1, <2>2, <2>3
<1>2. /\ pc'[p] \in {"stop_triggers", "delete"} /\ Calling(p)
      /\ pc'[p] = "stop_triggers" => enabled[obj[p]]
      /\ \A q \in Procs \ {p} : pc'[q] = pc[q]
  BY <1>1 DEF TypeOK, Calling
<1>3. Alone'
  BY <1>0, <1>1, <1>2 DEF Alone, Calling
<1>4. \A q \in Procs \ {p} : Calling(q) /\ ~overlapped[arg[q]] => arg[q] # arg[p]
  BY <1>0, <1>2 DEF Alone
<1>5. ~overlapped[arg[p]] /\ enabled[obj[p]] => group[obj[p]]
  <2> SUFFICES ASSUME ~overlapped[arg[p]], enabled[obj[p]], ~group[obj[p]] PROVE FALSE
    OBVIOUS
  <2>1. PICK q \in Procs : pc[q] \in {"start_actions", "start_group"} /\ obj[q] = obj[p]
    BY <1>0, <1>1, NoneAssumption DEF Grouped
  <2>2. q # p /\ Calling(q) /\ arg[q] = arg[p]
    BY <1>0, <1>1, <2>1 DEF Calling, WorkInv, CallsOK, CallOK, Starting
  <2>3. QED BY <1>4, <2>2
<1>6. AllUndisturbed'
  <2> SUFFICES ASSUME NEW q \in Procs PROVE Undisturbed(q)'
    BY DEF AllUndisturbed
  <2>1. CASE q = p
    BY <1>1, <1>2, <1>5, <2>1 DEF Undisturbed, Calling, Starting, TypeOK
  <2>2. CASE q # p
    <3>1. pc'[q] = pc[q] /\ (enabled'[obj[q]] => enabled[obj[q]])
      BY <1>1, <1>2, <2>2 DEF TypeOK
    <3>2. QED BY <1>0, <1>1, <3>1 DEF AllUndisturbed, Undisturbed, Calling
  <2>3. QED BY <2>1, <2>2
<1>7. Grouped'
  BY <1>0, <1>1, <1>2 DEF Grouped, TypeOK
<1>8. OneLiveObject'
  BY <1>0, <1>1 DEF OneLiveObject, TypeOK
<1>9. CallsDoNotPanic'
  BY <1>0, <1>1 DEF CallsDoNotPanic
<1>10. QED BY <1>0, <1>3, <1>6, <1>7, <1>8, <1>9 DEF LiveInv

LEMMA LiveStopTriggers == ASSUME LiveInv, NEW p \in Procs, StopTriggers(p) PROVE LiveInv'
<1>0. WorkInv /\ WorkInv' /\ Alone /\ AllUndisturbed /\ Grouped /\ OneLiveObject /\ CallsDoNotPanic
  BY WorkStopTriggers DEF LiveInv
<1>1. Alone'
  <2>1. arg' = arg /\ overlapped' = overlapped /\ Calling(p) /\ \A q \in Procs : pc'[q] = pc[q] \/ q = p
    BY <1>0 DEF StopTriggers, Goto, historyVars, WorkInv, TypeOK, Calling
  <2>2. QED BY <1>0, <2>1 DEF Alone, Calling
<1>2. AllUndisturbed'
  BY <1>0, NoneAssumption
  DEF StopTriggers, Goto, managerVars, historyVars, AllUndisturbed, Undisturbed, Alone,
      OneLiveObject, Grouped, Calling, WorkInv, TypeOK, CallsOK, CallOK, MapOK, Procs,
      Steps, Stopping, Starting, MainRests
<1>3. Grouped'
  BY <1>0, NoneAssumption
  DEF StopTriggers, Goto, managerVars, historyVars, AllUndisturbed, Undisturbed, Grouped,
      OneLiveObject, Calling, WorkInv, TypeOK, CallsOK, CallOK, MapOK, Procs, Steps,
      Stopping, Starting, MainRests
<1>4. OneLiveObject'
  BY <1>0, NoneAssumption
  DEF StopTriggers, Goto, managerVars, historyVars, AllUndisturbed, Undisturbed,
      OneLiveObject, Calling, WorkInv, TypeOK, CallsOK, CallOK, MapOK, Procs, Steps,
      Stopping, Starting, MainRests
<1>5. CallsDoNotPanic'
  BY <1>0
  DEF StopTriggers, Goto, managerVars, historyVars, AllUndisturbed, Undisturbed,
      CallsDoNotPanic, Calling, WorkInv, TypeOK, CallsOK, CallOK, MapOK, Procs, Steps,
      Stopping, Starting, MainRests
<1>6. QED BY <1>0, <1>1, <1>2, <1>3, <1>4, <1>5 DEF LiveInv

LEMMA LiveStopActions == ASSUME LiveInv, NEW p \in Procs, StopActions(p) PROVE LiveInv'
<1>0. WorkInv /\ WorkInv' /\ Alone /\ AllUndisturbed /\ Grouped /\ OneLiveObject /\ CallsDoNotPanic
  BY WorkStopActions DEF LiveInv
<1>1. Alone'
  <2>1. arg' = arg /\ overlapped' = overlapped /\ Calling(p) /\ \A q \in Procs : pc'[q] = pc[q] \/ q = p
    BY <1>0 DEF StopActions, Goto, historyVars, WorkInv, TypeOK, Calling
  <2>2. QED BY <1>0, <2>1 DEF Alone, Calling
<1>2. AllUndisturbed'
  BY <1>0, NoneAssumption
  DEF StopActions, Goto, managerVars, historyVars, AllUndisturbed, Undisturbed, Alone,
      OneLiveObject, Grouped, Calling, WorkInv, TypeOK, CallsOK, CallOK, MapOK, Procs,
      Steps, Stopping, Starting, MainRests
<1>3. Grouped'
  BY <1>0, NoneAssumption
  DEF StopActions, Goto, managerVars, historyVars, AllUndisturbed, Undisturbed, Grouped,
      OneLiveObject, Calling, WorkInv, TypeOK, CallsOK, CallOK, MapOK, Procs, Steps,
      Stopping, Starting, MainRests
<1>4. OneLiveObject'
  BY <1>0, NoneAssumption
  DEF StopActions, Goto, managerVars, historyVars, AllUndisturbed, Undisturbed,
      OneLiveObject, Calling, WorkInv, TypeOK, CallsOK, CallOK, MapOK, Procs, Steps,
      Stopping, Starting, MainRests
<1>5. CallsDoNotPanic'
  BY <1>0
  DEF StopActions, Goto, managerVars, historyVars, AllUndisturbed, Undisturbed,
      CallsDoNotPanic, Calling, WorkInv, TypeOK, CallsOK, CallOK, MapOK, Procs, Steps,
      Stopping, Starting, MainRests
<1>6. QED BY <1>0, <1>1, <1>2, <1>3, <1>4, <1>5 DEF LiveInv

LEMMA LiveStopGroup == ASSUME LiveInv, NEW p \in Procs, StopGroup(p) PROVE LiveInv'
<1>0. WorkInv /\ WorkInv' /\ Alone /\ AllUndisturbed /\ Grouped /\ OneLiveObject /\ CallsDoNotPanic
  BY WorkStopGroup DEF LiveInv
<1>1. Alone'
  <2>1. arg' = arg /\ overlapped' = overlapped /\ Calling(p) /\ \A q \in Procs : pc'[q] = pc[q] \/ q = p
    BY <1>0 DEF StopGroup, Goto, historyVars, WorkInv, TypeOK, Calling
  <2>2. QED BY <1>0, <2>1 DEF Alone, Calling
<1>2. AllUndisturbed'
  BY <1>0, NoneAssumption
  DEF StopGroup, Goto, managerVars, historyVars, AllUndisturbed, Undisturbed, Alone,
      OneLiveObject, Grouped, Calling, WorkInv, TypeOK, CallsOK, CallOK, MapOK, Procs,
      Steps, Stopping, Starting, MainRests
<1>3. Grouped'
  BY <1>0, NoneAssumption
  DEF StopGroup, Goto, managerVars, historyVars, AllUndisturbed, Undisturbed, Grouped,
      OneLiveObject, Calling, WorkInv, TypeOK, CallsOK, CallOK, MapOK, Procs, Steps,
      Stopping, Starting, MainRests
<1>4. OneLiveObject'
  BY <1>0, NoneAssumption
  DEF StopGroup, Goto, managerVars, historyVars, AllUndisturbed, Undisturbed, OneLiveObject,
      Calling, WorkInv, TypeOK, CallsOK, CallOK, MapOK, Procs, Steps, Stopping, Starting,
      MainRests
<1>5. CallsDoNotPanic'
  BY <1>0
  DEF StopGroup, Goto, managerVars, historyVars, AllUndisturbed, Undisturbed,
      CallsDoNotPanic, Calling, WorkInv, TypeOK, CallsOK, CallOK, MapOK, Procs, Steps,
      Stopping, Starting, MainRests
<1>6. QED BY <1>0, <1>1, <1>2, <1>3, <1>4, <1>5 DEF LiveInv

LEMMA LiveDeleteUnlock == ASSUME LiveInv, NEW p \in Procs, DeleteUnlock(p) PROVE LiveInv'
<1>0. WorkInv /\ WorkInv' /\ Alone /\ AllUndisturbed /\ Grouped /\ OneLiveObject /\ CallsDoNotPanic
  BY WorkDeleteUnlock DEF LiveInv
<1>1. /\ TypeOK /\ pc[p] = "delete" /\ arg[p] \in Ids
      /\ obj[p] \in Objects /\ task[obj[p]].id = arg[p] /\ tasks[arg[p]] = obj[p]
      /\ tasks' = [tasks EXCEPT ![arg[p]] = None] /\ Goes(p, AfterUnload(p))
      /\ UNCHANGED <<task, enabled, group, panicked, overlapped>>
  BY <1>0 DEF WorkInv, CallsOK, CallOK, Calling, Stopping, DeleteUnlock, objectVars, historyVars
<1>2. /\ pc'[p] \in {"unloading", "fetch", "idle"}
      /\ pc'[p] = "fetch" => arg'[p] = arg[p]
      /\ \A q \in Procs \ {p} : pc'[q] = pc[q] /\ arg'[q] = arg[q] /\ obj'[q] = obj[q]
  BY <1>1, GoesTo, AfterCall DEF TypeOK
<1>3. Alone'
  BY <1>0, <1>1, <1>2 DEF Alone, Calling
<1>4. AllUndisturbed'
  <2> SUFFICES ASSUME NEW q \in Procs PROVE Undisturbed(q)'
    BY DEF AllUndisturbed
  <2>1. CASE q = p
    BY <1>1, <1>2, <2>1 DEF Undisturbed, Calling, Starting, Stopping, TypeOK
  <2>2. CASE q # p
    <3>1. pc'[q] = pc[q] /\ arg'[q] = arg[q] /\ obj'[q] = obj[q]
      BY <1>2, <2>2
    <3>2. Calling(q) /\ ~overlapped[arg[q]] => arg[q] # arg[p] /\ arg[q] \in Ids
      BY <1>0, <1>1, <2>2 DEF Alone, Calling, WorkInv, CallsOK, CallOK
    <3>3. Calling(q) /\ ~overlapped[arg[q]] => tasks'[arg[q]] = tasks[arg[q]]
      BY <1>1, <3>2 DEF TypeOK
    <3>4. QED BY <1>0, <1>1, <3>1, <3>3 DEF AllUndisturbed, Undisturbed, Calling
  <2>3. QED BY <2>1, <2>2
<1>5. Grouped'
  BY <1>0, <1>1, <1>2 DEF Grouped
<1>6. OneLiveObject'
  <2>1. ~overlapped[arg[p]] => ~enabled[obj[p]]
    BY <1>0, <1>1 DEF AllUndisturbed, Undisturbed, Calling, Stopping
  <2>2. QED BY <1>0, <1>1, <2>1 DEF OneLiveObject, TypeOK
<1>7. CallsDoNotPanic'
  BY <1>0, <1>1 DEF CallsDoNotPanic
<1>8. QED BY <1>0, <1>3, <1>4, <1>5, <1>6, <1>7 DEF LiveInv

LEMMA LiveFetch == ASSUME LiveInv, NEW p \in Procs, Fetch(p) PROVE LiveInv'
<1>0. WorkInv /\ WorkInv' /\ Alone /\ AllUndisturbed /\ Grouped /\ OneLiveObject /\ CallsDoNotPanic
  BY WorkFetch DEF LiveInv
<1>1. /\ TypeOK /\ pc[p] = "fetch" /\ arg[p] \in Ids /\ Calling(p)
      /\ UNCHANGED <<tasks, panicked, overlapped>>
  BY <1>0 DEF WorkInv, CallsOK, CallOK, Calling, Fetch, historyVars
<1>2. CASE AddTask(p, arg[p], row[arg[p]])
  <2>1. row[arg[p]] \in Nat
    BY <1>1 DEF TypeOK
  <2>2. ~overlapped'[arg[p]] => /\ tasks[arg[p]] = None
                                /\ \A q \in Procs \ {p} : ~(Calling(q) /\ arg[q] = arg[p])
    BY <1>0, <1>1 DEF AllUndisturbed, Undisturbed, Alone
  <2>3. QED BY <1>0, <1>1, <1>2, <2>1, <2>2, LiveAdd
<1>3. CASE Goes(p, "idle") /\ UNCHANGED <<taskCount, objectVars>>
  <2>1. /\ pc'[p] = "idle" /\ UNCHANGED <<task, enabled, group>>
        /\ \A q \in Procs \ {p} : pc'[q] = pc[q] /\ arg'[q] = arg[q] /\ obj'[q] = obj[q]
    BY <1>1, <1>3, GoesTo DEF TypeOK, Steps, objectVars
  <2>2. Alone'
    BY <1>0, <1>1, <2>1 DEF Alone, Calling
  <2>3. AllUndisturbed'
    BY <1>0, <1>1, <2>1 DEF AllUndisturbed, Undisturbed, Calling
  <2>4. Grouped'
    BY <1>0, <1>1, <2>1 DEF Grouped
  <2>5. OneLiveObject' /\ CallsDoNotPanic'
    BY <1>0, <1>1, <2>1 DEF OneLiveObject, CallsDoNotPanic
  <2>6. QED BY <1>0, <2>2, <2>3, <2>4, <2>5 DEF LiveInv
<1>4. QED BY <1>2, <1>3 DEF Fetch

LEMMA LiveStoreTask == ASSUME LiveInv, NEW p \in Procs, StoreTask(p) PROVE LiveInv'
<1>0. WorkInv /\ WorkInv' /\ Alone /\ AllUndisturbed /\ Grouped /\ OneLiveObject /\ CallsDoNotPanic
  BY WorkStoreTask DEF LiveInv
<1>1. Alone'
  <2>1. arg' = arg /\ overlapped' = overlapped /\ Calling(p) /\ \A q \in Procs : pc'[q] = pc[q] \/ q = p
    BY <1>0 DEF StoreTask, Goto, historyVars, WorkInv, TypeOK, Calling
  <2>2. QED BY <1>0, <2>1 DEF Alone, Calling
<1>2. AllUndisturbed'
  BY <1>0, NoneAssumption
  DEF StoreTask, Goto, objectVars, historyVars, AllUndisturbed, Undisturbed, Alone,
      OneLiveObject, Grouped, Calling, WorkInv, TypeOK, CallsOK, CallOK, MapOK, Procs,
      Steps, Stopping, Starting, MainRests
<1>3. Grouped'
  BY <1>0, NoneAssumption
  DEF StoreTask, Goto, objectVars, historyVars, AllUndisturbed, Undisturbed, Grouped,
      OneLiveObject, Calling, WorkInv, TypeOK, CallsOK, CallOK, MapOK, Procs, Steps,
      Stopping, Starting, MainRests
<1>4. OneLiveObject'
  BY <1>0, NoneAssumption
  DEF StoreTask, Goto, objectVars, historyVars, AllUndisturbed, Undisturbed, OneLiveObject,
      Calling, WorkInv, TypeOK, CallsOK, CallOK, MapOK, Procs, Steps, Stopping, Starting,
      MainRests
<1>5. CallsDoNotPanic'
  BY <1>0
  DEF StoreTask, Goto, objectVars, historyVars, AllUndisturbed, Undisturbed,
      CallsDoNotPanic, Calling, WorkInv, TypeOK, CallsOK, CallOK, MapOK, Procs, Steps,
      Stopping, Starting, MainRests
<1>6. QED BY <1>0, <1>1, <1>2, <1>3, <1>4, <1>5 DEF LiveInv

LEMMA LiveStart == ASSUME LiveInv, NEW p \in Procs, Start(p) PROVE LiveInv'
<1>0. WorkInv /\ WorkInv' /\ Alone /\ AllUndisturbed /\ Grouped /\ OneLiveObject /\ CallsDoNotPanic
  BY WorkStart DEF LiveInv
<1>1. Alone'
  BY <1>0, GoesTo, AfterCall
  DEF Start, Goto, historyVars, WorkInv, TypeOK, Alone, Calling, Stopping, Starting
<1>2. AllUndisturbed'
  BY <1>0, NoneAssumption, GoesTo, AfterCall
  DEF Start, Goto, managerVars, historyVars, AllUndisturbed, Undisturbed, Alone,
      OneLiveObject, Grouped, Calling, WorkInv, TypeOK, CallsOK, CallOK, MapOK, Procs,
      Steps, Stopping, Starting, MainRests
<1>3. Grouped'
  <2>1. /\ TypeOK /\ pc[p] = "start" /\ obj[p] \in Objects /\ UNCHANGED <<task, group, overlapped>>
        /\ \A q \in Procs : pc[q] \in {"start_actions", "start_group"} =>
               pc'[q] = pc[q] /\ obj'[q] = obj[q]
    BY <1>0, GoesTo, AfterCall
    DEF Start, Goto, historyVars, WorkInv, TypeOK, CallsOK, CallOK, Starting
  <2>2. CASE enabled[obj[p]]
    BY <1>0, <2>1, <2>2 DEF Start, Grouped
  <2>3. CASE ~enabled[obj[p]]
    <3>1. /\ enabled' = [enabled EXCEPT ![obj[p]] = TRUE]
          /\ pc'[p] = "start_actions" /\ obj'[p] = obj[p]
      BY <2>1, <2>3 DEF Start, Goto, TypeOK
    <3>2. QED BY <1>0, <2>1, <3>1 DEF Grouped, TypeOK
  <2>4. QED BY <2>2, <2>3
<1>4. OneLiveObject'
  BY <1>0, NoneAssumption, GoesTo, AfterCall
  DEF Start, Goto, managerVars, historyVars, AllUndisturbed, Undisturbed, OneLiveObject,
      Calling, WorkInv, TypeOK, CallsOK, CallOK, MapOK, Procs, Steps, Stopping, Starting,
      MainRests
<1>5. CallsDoNotPanic'
  BY <1>0, GoesTo, AfterCall
  DEF Start, Goto, managerVars, historyVars, AllUndisturbed, Undisturbed, CallsDoNotPanic,
      Calling, WorkInv, TypeOK, CallsOK, CallOK, MapOK, Procs, Steps, Stopping, Starting,
      MainRests
<1>6. QED BY <1>0, <1>1, <1>2, <1>3, <1>4, <1>5 DEF LiveInv

LEMMA LiveStartActions == ASSUME LiveInv, NEW p \in Procs, StartActions(p) PROVE LiveInv'
<1>0. WorkInv /\ WorkInv' /\ Alone /\ AllUndisturbed /\ Grouped /\ OneLiveObject /\ CallsDoNotPanic
  BY WorkStartActions DEF LiveInv
<1>1. Alone'
  <2>1. arg' = arg /\ overlapped' = overlapped /\ Calling(p) /\ \A q \in Procs : pc'[q] = pc[q] \/ q = p
    BY <1>0 DEF StartActions, Goto, historyVars, WorkInv, TypeOK, Calling
  <2>2. QED BY <1>0, <2>1 DEF Alone, Calling
<1>2. AllUndisturbed'
  BY <1>0, NoneAssumption
  DEF StartActions, Goto, managerVars, historyVars, AllUndisturbed, Undisturbed, Alone,
      OneLiveObject, Grouped, Calling, WorkInv, TypeOK, CallsOK, CallOK, MapOK, Procs,
      Steps, Stopping, Starting, MainRests
<1>3. Grouped'
  BY <1>0, NoneAssumption
  DEF StartActions, Goto, managerVars, historyVars, AllUndisturbed, Undisturbed, Grouped,
      OneLiveObject, Calling, WorkInv, TypeOK, CallsOK, CallOK, MapOK, Procs, Steps,
      Stopping, Starting, MainRests
<1>4. OneLiveObject'
  BY <1>0, NoneAssumption
  DEF StartActions, Goto, managerVars, historyVars, AllUndisturbed, Undisturbed,
      OneLiveObject, Calling, WorkInv, TypeOK, CallsOK, CallOK, MapOK, Procs, Steps,
      Stopping, Starting, MainRests
<1>5. CallsDoNotPanic'
  BY <1>0
  DEF StartActions, Goto, managerVars, historyVars, AllUndisturbed, Undisturbed,
      CallsDoNotPanic, Calling, WorkInv, TypeOK, CallsOK, CallOK, MapOK, Procs, Steps,
      Stopping, Starting, MainRests
<1>6. QED BY <1>0, <1>1, <1>2, <1>3, <1>4, <1>5 DEF LiveInv

LEMMA LiveStartGroup == ASSUME LiveInv, NEW p \in Procs, StartGroup(p) PROVE LiveInv'
<1>0. WorkInv /\ WorkInv' /\ Alone /\ AllUndisturbed /\ Grouped /\ OneLiveObject /\ CallsDoNotPanic
  BY WorkStartGroup DEF LiveInv
<1>1. Alone'
  <2>1. arg' = arg /\ overlapped' = overlapped /\ Calling(p) /\ \A q \in Procs : pc'[q] = pc[q] \/ q = p
    BY <1>0 DEF StartGroup, Goto, historyVars, WorkInv, TypeOK, Calling
  <2>2. QED BY <1>0, <2>1 DEF Alone, Calling
<1>2. AllUndisturbed'
  BY <1>0, NoneAssumption
  DEF StartGroup, Goto, managerVars, historyVars, AllUndisturbed, Undisturbed, Alone,
      OneLiveObject, Grouped, Calling, WorkInv, TypeOK, CallsOK, CallOK, MapOK, Procs,
      Steps, Stopping, Starting, MainRests
<1>3. Grouped'
  BY <1>0, NoneAssumption
  DEF StartGroup, Goto, managerVars, historyVars, AllUndisturbed, Undisturbed, Grouped,
      OneLiveObject, Calling, WorkInv, TypeOK, CallsOK, CallOK, MapOK, Procs, Steps,
      Stopping, Starting, MainRests
<1>4. OneLiveObject'
  BY <1>0, NoneAssumption
  DEF StartGroup, Goto, managerVars, historyVars, AllUndisturbed, Undisturbed,
      OneLiveObject, Calling, WorkInv, TypeOK, CallsOK, CallOK, MapOK, Procs, Steps,
      Stopping, Starting, MainRests
<1>5. CallsDoNotPanic'
  BY <1>0
  DEF StartGroup, Goto, managerVars, historyVars, AllUndisturbed, Undisturbed,
      CallsDoNotPanic, Calling, WorkInv, TypeOK, CallsOK, CallOK, MapOK, Procs, Steps,
      Stopping, Starting, MainRests
<1>6. QED BY <1>0, <1>1, <1>2, <1>3, <1>4, <1>5 DEF LiveInv

LEMMA LiveStartConditions == ASSUME LiveInv, NEW p \in Procs, StartConditions(p) PROVE LiveInv'
<1>0. WorkInv /\ WorkInv' /\ Alone /\ AllUndisturbed /\ Grouped /\ OneLiveObject /\ CallsDoNotPanic
  BY WorkStartConditions DEF LiveInv
<1>1. Alone'
  <2>1. arg' = arg /\ overlapped' = overlapped /\ Calling(p) /\ \A q \in Procs : pc'[q] = pc[q] \/ q = p
    BY <1>0 DEF StartConditions, Goto, historyVars, WorkInv, TypeOK, Calling
  <2>2. QED BY <1>0, <2>1 DEF Alone, Calling
<1>2. AllUndisturbed'
  BY <1>0, NoneAssumption
  DEF StartConditions, Goto, managerVars, objectVars, historyVars, AllUndisturbed,
      Undisturbed, Alone, OneLiveObject, Grouped, Calling, WorkInv, TypeOK, CallsOK, CallOK,
      MapOK, Procs, Steps, Stopping, Starting, MainRests
<1>3. Grouped'
  BY <1>0, NoneAssumption
  DEF StartConditions, Goto, managerVars, objectVars, historyVars, AllUndisturbed,
      Undisturbed, Grouped, OneLiveObject, Calling, WorkInv, TypeOK, CallsOK, CallOK, MapOK,
      Procs, Steps, Stopping, Starting, MainRests
<1>4. OneLiveObject'
  BY <1>0, NoneAssumption
  DEF StartConditions, Goto, managerVars, objectVars, historyVars, AllUndisturbed,
      Undisturbed, OneLiveObject, Calling, WorkInv, TypeOK, CallsOK, CallOK, MapOK, Procs,
      Steps, Stopping, Starting, MainRests
<1>5. CallsDoNotPanic'
  BY <1>0
  DEF StartConditions, Goto, managerVars, objectVars, historyVars, AllUndisturbed,
      Undisturbed, CallsDoNotPanic, Calling, WorkInv, TypeOK, CallsOK, CallOK, MapOK, Procs,
      Steps, Stopping, Starting, MainRests
<1>6. QED BY <1>0, <1>1, <1>2, <1>3, <1>4, <1>5 DEF LiveInv

LEMMA LiveStartTriggers == ASSUME LiveInv, NEW p \in Procs, StartTriggers(p) PROVE LiveInv'
<1>0. WorkInv /\ WorkInv' /\ Alone /\ AllUndisturbed /\ Grouped /\ OneLiveObject /\ CallsDoNotPanic
  BY WorkStartTriggers DEF LiveInv
<1>1. /\ TypeOK /\ pc[p] = "start_triggers" /\ Goes(p, AfterAdd(p))
      /\ UNCHANGED <<tasks, task, enabled, group, panicked, overlapped>>
  BY <1>0 DEF WorkInv, StartTriggers, managerVars, historyVars
<1>2. /\ pc'[p] \in {"adding", "idle"}
      /\ \A q \in Procs \ {p} : pc'[q] = pc[q] /\ arg'[q] = arg[q] /\ obj'[q] = obj[q]
  BY <1>1, GoesTo, AfterCall DEF TypeOK
<1>3. Alone'
  BY <1>0, <1>1, <1>2 DEF Alone, Calling
<1>4. AllUndisturbed'
  BY <1>0, <1>1, <1>2 DEF AllUndisturbed, Undisturbed, Calling
<1>5. Grouped'
  BY <1>0, <1>1, <1>2 DEF Grouped
<1>6. OneLiveObject' /\ CallsDoNotPanic'
  BY <1>0, <1>1 DEF OneLiveObject, CallsDoNotPanic
<1>7. QED BY <1>0, <1>3, <1>4, <1>5, <1>6 DEF LiveInv

\* Main goes on between two calls.
LEMMA LiveRest ==
    ASSUME LiveInv, WorkInv', UNCHANGED <<tasks, task, enabled, group, obj, arg, overlapped>>,
           panicked' \in {panicked, "Check", "Map"},
           \A q \in Procs : pc'[q] = pc[q] \/ (~Calling(q) /\ ~Calling(q)')
    PROVE  LiveInv'
<1>1. \A q \in Procs : Calling(q)' => pc'[q] = pc[q] /\ Calling(q)
  BY DEF Calling
<1>2. Alone'
  BY <1>1 DEF LiveInv, Alone
<1>3. AllUndisturbed'
  BY <1>1 DEF LiveInv, AllUndisturbed, Undisturbed
<1>4. Grouped'
  <2>1. \A q \in Procs : pc[q] \in {"start_actions", "start_group"} => pc'[q] = pc[q]
    BY DEF Calling
  <2>2. QED BY <2>1 DEF LiveInv, Grouped
<1>5. OneLiveObject' /\ CallsDoNotPanic'
  BY DEF LiveInv, OneLiveObject, CallsDoNotPanic
<1>6. QED BY <1>2, <1>3, <1>4, <1>5 DEF LiveInv

\* A call begins, with unloadTask.
LEMMA LiveBegin ==
    ASSUME LiveInv, WorkInv', NEW p \in Procs, NEW id \in Ids, ~Calling(p),
           pc' = [pc EXCEPT ![p] = "unload"], arg' = [arg EXCEPT ![p] = id],
           UNCHANGED <<tasks, task, enabled, group, obj, panicked>>,
           \A i \in Ids : overlapped[i] => overlapped'[i],
           ~overlapped'[id] => \A q \in Procs \ {p} : ~(Calling(q) /\ arg[q] = id)
    PROVE  LiveInv'
<1>0. TypeOK /\ TypeOK'
  BY DEF LiveInv, WorkInv
<1>1. /\ pc'[p] = "unload" /\ arg'[p] = id
      /\ \A q \in Procs \ {p} : pc'[q] = pc[q] /\ arg'[q] = arg[q]
  BY <1>0 DEF TypeOK
<1>2. \A q \in Procs \ {p} : Calling(q)' => Calling(q) /\ arg[q] \in Ids
  BY <1>1 DEF Calling, LiveInv, WorkInv, CallsOK, CallOK
<1>3. Alone'
  <2> SUFFICES ASSUME NEW q \in Procs, NEW r \in Procs, q # r, Calling(q)', Calling(r)',
                      arg'[q] = arg'[r]
               PROVE  overlapped'[arg'[q]]
    BY DEF Alone
  <2>1. CASE q # p /\ r # p
    BY <1>1, <1>2, <2>1 DEF LiveInv, Alone
  <2>2. CASE q = p \/ r = p
    <3>1. PICK s \in {q, r} : s # p
      OBVIOUS
    <3>2. Calling(s) /\ arg[s] = id /\ s \in Procs \ {p} /\ arg'[q] = id
      BY <1>1, <1>2, <2>2, <3>1
    <3>3. QED BY <3>2, <1>0 DEF TypeOK
  <2>3. QED BY <2>1, <2>2
<1>4. AllUndisturbed'
  <2> SUFFICES ASSUME NEW q \in Procs PROVE Undisturbed(q)'
    BY DEF AllUndisturbed
  <2>1. CASE q = p
    BY <1>1, <2>1 DEF Undisturbed, Starting, Stopping
  <2>2. CASE q # p
    <3>1. Undisturbed(q)
      BY DEF LiveInv, AllUndisturbed
    <3>2. QED BY <1>1, <1>2, <2>2, <3>1 DEF Undisturbed
  <2>3. QED BY <2>1, <2>2
<1>5. Grouped'
  <2>1. \A q \in Procs : pc[q] \in {"start_actions", "start_group"} => pc'[q] = pc[q]
    BY <1>1 DEF Calling
  <2>2. \A o \in Objects : task[o].id # None => task[o].id \in Ids
    BY <1>0 DEF TypeOK
  <2>3. QED BY <2>1, <2>2 DEF LiveInv, Grouped
<1>6. OneLiveObject'
  <2>1. \A o \in Objects : task[o].id # None => task[o].id \in Ids
    BY <1>0 DEF TypeOK
  <2>2. QED BY <2>1 DEF LiveInv, OneLiveObject
<1>7. CallsDoNotPanic'
  BY DEF LiveInv, CallsDoNotPanic
<1>8. QED BY <1>3, <1>4, <1>5, <1>6, <1>7 DEF LiveInv

LEMMA LiveEvent == ASSUME LiveInv, Event PROVE LiveInv'
<1>0. WorkInv /\ WorkInv' /\ TypeOK
  BY WorkEvent DEF LiveInv, WorkInv
<1>1. PICK id \in Ids : \E what \in {"update", "unload"} : Notify(id, what)
  BY DEF Event, WriteRow, Enable, Disable, Delete, PushCommand
<1>2. UNCHANGED <<tasks, task, enabled, group, panicked>>
  BY DEF Event, managerVars, objectVars
<1>3. CASE subscribed
  <2>1. PICK j \in Jobs :
          /\ pc[j] = "idle"
          /\ pc' = [pc EXCEPT ![j] = "unload"]
          /\ arg' = [arg EXCEPT ![j] = id]
          /\ overlapped' = [overlapped EXCEPT ![id] = @ \/ ~Quiet(id)]
          /\ UNCHANGED obj
    BY <1>1, <1>3 DEF Notify, Goto
  <2>2. j \in Procs /\ ~Calling(j)
    BY <2>1 DEF Procs, Calling
  <2>3. ~overlapped'[id] => \A q \in Procs \ {j} : ~(Calling(q) /\ arg[q] = id)
    BY <1>0, <2>1 DEF Quiet, Busy, TypeOK
  <2>4. \A i \in Ids : overlapped[i] => overlapped'[i]
    BY <1>0, <2>1 DEF TypeOK
  <2>5. QED BY <1>0, <1>2, <2>1, <2>2, <2>3, <2>4, LiveBegin
<1>4. CASE ~subscribed
  <2>1. UNCHANGED <<pc, arg, obj, overlapped>>
    BY <1>1, <1>4 DEF Notify, procVars
  <2>2. QED BY <1>0, <1>2, <2>1, LiveRest
<1>5. QED BY <1>3, <1>4

LEMMA LiveHandle == ASSUME LiveInv, NEW o \in Objects, Handle(o) PROVE LiveInv'
<1>1. /\ WorkInv'
      /\ UNCHANGED <<tasks, task, enabled, group, pc, obj, arg, overlapped>>
      /\ panicked' \in {panicked, "Check"}
  BY WorkHandle DEF LiveInv, Handle, TriggerCompleted, CheckAndRun, managerVars, procVars,
     objectVars, historyVars
<1>2. QED BY <1>1, LiveRest

LEMMA LiveMapRace == ASSUME LiveInv, MapRace PROVE LiveInv'
<1>1. /\ WorkInv'
      /\ UNCHANGED <<tasks, task, enabled, group, pc, obj, arg, overlapped>>
      /\ panicked' = "Map"
  BY WorkMapRace DEF LiveInv, MapRace, managerVars, procVars, objectVars, historyVars
<1>2. QED BY <1>1, LiveRest

LEMMA LiveLoadNext == ASSUME LiveInv, NEW model \in todo, LoadNext(model) PROVE LiveInv'
<1>0. WorkInv /\ WorkInv' /\ TypeOK
  BY WorkLoadNext DEF LiveInv, WorkInv
<1>1. /\ Main \in Procs /\ model.id \in Ids /\ model.version \in Nat /\ pc[Main] = "adding"
      /\ AddTask(Main, model.id, model.version) /\ UNCHANGED <<tasks, panicked>>
  BY <1>0 DEF LoadNext, TypeOK, Procs
<1>2. overlapped' = [overlapped EXCEPT ![model.id] =
          @ \/ (\E j \in Jobs : Busy(j, model.id)) \/ tasks[model.id] # None]
  BY DEF LoadNext, MainCalls
<1>3. ~overlapped'[model.id] =>
        /\ tasks[model.id] = None
        /\ \A q \in Procs \ {Main} : ~(Calling(q) /\ arg[q] = model.id)
  BY <1>0, <1>1, <1>2 DEF TypeOK, Procs, Busy
<1>4. \A i \in Ids : overlapped[i] => overlapped'[i]
  BY <1>0, <1>1, <1>2 DEF TypeOK
<1>5. QED BY <1>0, <1>1, <1>3, <1>4, LiveAdd

LEMMA LiveUnloadNext == ASSUME LiveInv, NEW model \in todo, UnloadNext(model) PROVE LiveInv'
<1>0. WorkInv /\ WorkInv' /\ TypeOK
  BY WorkUnloadNext DEF LiveInv, WorkInv
<1>1. /\ Main \in Procs /\ model.id \in Ids /\ ~Calling(Main)
      /\ pc' = [pc EXCEPT ![Main] = "unload"] /\ arg' = [arg EXCEPT ![Main] = model.id]
      /\ UNCHANGED <<tasks, task, enabled, group, obj, panicked>>
  BY <1>0 DEF UnloadNext, Goto, TypeOK, Procs, Calling, managerVars, objectVars
<1>2. overlapped' = [overlapped EXCEPT ![model.id] = @ \/ (\E j \in Jobs : Busy(j, model.id))]
  BY <1>0, <1>1 DEF UnloadNext, MainCalls, TypeOK
<1>3. ~overlapped'[model.id] => \A q \in Procs \ {Main} : ~(Calling(q) /\ arg[q] = model.id)
  BY <1>0, <1>1, <1>2 DEF TypeOK, Procs, Busy
<1>4. \A i \in Ids : overlapped[i] => overlapped'[i]
  BY <1>0, <1>1, <1>2 DEF TypeOK
<1>5. QED BY <1>0, <1>1, <1>3, <1>4, LiveBegin

LEMMA LiveMain == ASSUME LiveInv, MainStep PROVE LiveInv'
<1>0. WorkInv /\ WorkInv' /\ TypeOK
  BY WorkMain DEF LiveInv, WorkInv
<1>1. CASE \E model \in todo : LoadNext(model)
  BY <1>1, LiveLoadNext
<1>2. CASE \E model \in todo : UnloadNext(model)
  BY <1>2, LiveUnloadNext
<1>3. CASE Load \/ LoadEnd \/ Subscribe \/ Shutdown \/ UnloadEnd \/ Unsubscribe
  <2>1. \E a, b \in MainRests : pc[Main] = a /\ pc' = [pc EXCEPT ![Main] = b]
    BY <1>3 DEF Load, LoadEnd, Subscribe, Shutdown, UnloadEnd, Unsubscribe, Goto, MainRests
  <2>2. \A q \in Procs : pc'[q] = pc[q] \/ (~Calling(q) /\ ~Calling(q)')
    BY <1>0, <2>1 DEF TypeOK, Calling, MainRests
  <2>3. UNCHANGED <<tasks, task, enabled, group, obj, arg, overlapped, panicked>>
    BY <1>3 DEF Load, LoadEnd, Subscribe, Shutdown, UnloadEnd, Unsubscribe, managerVars,
       objectVars, historyVars
  <2>4. QED BY <1>0, <2>2, <2>3, LiveRest
<1>4. QED BY <1>1, <1>2, <1>3 DEF MainStep

LEMMA LiveStep == ASSUME LiveInv, NEW p \in Procs, Step(p) PROVE LiveInv'
BY LiveUnloadLock, LiveStop, LiveStopTriggers, LiveStopActions, LiveStopGroup, LiveDeleteUnlock,
   LiveFetch, LiveStoreTask, LiveStart, LiveStartActions, LiveStartGroup, LiveStartConditions,
   LiveStartTriggers DEF Step

LEMMA LiveNext == LiveInv /\ [Next]_vars => LiveInv'
<1>1. ASSUME LiveInv, UNCHANGED vars PROVE LiveInv'
  <2>1. WorkInv' /\ UNCHANGED <<tasks, task, enabled, group, pc, obj, arg, overlapped, panicked>>
    BY <1>1, WorkStutter DEF LiveInv, vars, managerVars, procVars, objectVars, historyVars
  <2>2. QED BY <1>1, <2>1, LiveRest
<1>2. QED BY <1>1, LiveEvent, LiveStep, LiveMain, LiveMapRace, LiveHandle DEF Next

\* As long as the calls for a task do not overlap, an object that may act on
\* triggers is the one the map holds (addTask, unloadTask, Start and Stop).
THEOREM OneTaskRuns == Spec => []OneLiveObject
<1>1. LiveInv => OneLiveObject
  BY DEF LiveInv
<1>2. QED BY <1>1, LiveInit, LiveNext, PTL DEF Spec

\* Start and Stop find the condition group in place unless calls for a task
\* have overlapped.
THEOREM GroupInPlace == Spec => []CallsDoNotPanic
<1>1. LiveInv => CallsDoNotPanic
  BY DEF LiveInv
<1>2. QED BY <1>1, LiveInit, LiveNext, PTL DEF Spec

-----------------------------------------------------------------------------
(* The versions of loaded tasks.                                            *)

\* What a step of a call does to the mode of Main and to other calls.
LEMMA ModeStep ==
    ASSUME WorkInv, NEW p \in Procs, Step(p)
    PROVE  /\ (Adding' <=> Adding) /\ (Unloading' <=> Unloading) /\ (NotYet' <=> NotYet)
           /\ UNCHANGED <<row, subscribed, todo, overlapped, missed>>
<1>0. TypeOK /\ (pc[p] = "fetch" => p \in Jobs) /\ Main \notin Jobs /\ Main \in Procs
  BY MainAssumption DEF WorkInv, CallsOK, CallOK, Procs
<1>1. UNCHANGED <<row, subscribed, todo, overlapped, missed>>
  BY DEF Step, UnloadLock, Stop, StopTriggers, StopActions, StopGroup, DeleteUnlock, Fetch,
     StoreTask, Start, StartActions, StartGroup, StartConditions, StartTriggers, rowVars,
     mainVars, historyVars
<1>2. \/ pc'[Main] = pc[Main]
      \/ pc[Main] \in {"store"} \cup Starting /\ pc'[Main] \in {"adding"} \cup Starting
      \/ pc[Main] \in {"unload"} \cup Stopping /\ pc'[Main] \in {"unloading"} \cup Stopping
  <2>1. CASE UnloadLock(p)
    BY <1>0, <2>1, GoesTo, AfterCall DEF UnloadLock, Goto, TypeOK, Starting, Stopping
  <2>2. CASE Stop(p)
    BY <1>0, <2>2 DEF Stop, Goto, TypeOK, Starting, Stopping
  <2>3. CASE StopTriggers(p)
    BY <1>0, <2>3 DEF StopTriggers, Goto, TypeOK, Starting, Stopping
  <2>4. CASE StopActions(p)
    BY <1>0, <2>4 DEF StopActions, Goto, TypeOK, Starting, Stopping
  <2>5. CASE StopGroup(p)
    BY <1>0, <2>5 DEF StopGroup, Goto, TypeOK, Starting, Stopping
  <2>6. CASE DeleteUnlock(p)
    BY <1>0, <2>6, GoesTo, AfterCall DEF DeleteUnlock, TypeOK, Starting, Stopping
  <2>7. CASE Fetch(p)
    BY <1>0, <2>7, GoesTo, AfterCall
    DEF Fetch, AddTask, Goto, TypeOK, Starting, Stopping, Steps
  <2>8. CASE StoreTask(p)
    BY <1>0, <2>8 DEF StoreTask, Goto, TypeOK, Starting, Stopping
  <2>9. CASE Start(p)
    BY <1>0, <2>9, GoesTo, AfterCall DEF Start, Goto, TypeOK, Starting, Stopping
  <2>10. CASE StartActions(p)
    BY <1>0, <2>10 DEF StartActions, Goto, TypeOK, Starting, Stopping
  <2>11. CASE StartGroup(p)
    BY <1>0, <2>11 DEF StartGroup, Goto, TypeOK, Starting, Stopping
  <2>12. CASE StartConditions(p)
    BY <1>0, <2>12 DEF StartConditions, Goto, TypeOK, Starting, Stopping
  <2>13. CASE StartTriggers(p)
    BY <1>0, <2>13, GoesTo, AfterCall DEF StartTriggers, TypeOK, Starting, Stopping
  <2>14. QED
    BY <2>1, <2>2, <2>3, <2>4, <2>5, <2>6, <2>7, <2>8, <2>9, <2>10, <2>11, <2>12, <2>13 DEF Step
<1>3. QED BY <1>1, <1>2 DEF Adding, Unloading, NotYet, Starting, Stopping

\* What a step of a call does to the objects, the map and the call itself.
Frame(p) ==
    /\ \A q \in Procs \ {p} : pc'[q] = pc[q] /\ arg'[q] = arg[q] /\ obj'[q] = obj[q]
    /\ \A o \in Objects : \/ task'[o] = task[o]
                          \/ (\A id \in Ids : tasks[id] # o) /\ (\A q \in Procs : obj[q] # o)
    /\ \A id \in Ids \ {arg[p]} : tasks'[id] = tasks[id]
    /\ ~Calling(p)' => \/ tasks'[arg[p]] = None
                       \/ pc[p] \in Starting \cup {"fetch"} /\ tasks' = tasks
    /\ Calling(p)' => arg'[p] = arg[p]
    /\ pc'[p] \in Starting \cup {"store"} =>
           \/ pc[p] \in Starting \cup {"store"} /\ obj'[p] = obj[p]
           \/ task'[obj'[p]].version = row[arg[p]]

LEMMA FrameStep == ASSUME WorkInv, NEW p \in Procs, Step(p) PROVE Frame(p)
<1>0. /\ TypeOK /\ (Calling(p) => arg[p] \in Ids)
      /\ (pc[p] \in Starting \cup Stopping \cup {"store"} => obj[p] \in Objects)
  BY DEF WorkInv, CallsOK, CallOK
<1>1. CASE UnloadLock(p)
  BY <1>0, <1>1, GoesTo, AfterCall
  DEF UnloadLock, Goto, objectVars, Frame, Calling, TypeOK, Starting, Stopping
<1>2. CASE Stop(p)
  BY <1>0, <1>2 DEF Stop, Goto, managerVars, Frame, Calling, TypeOK, Starting, Stopping
<1>3. CASE StopTriggers(p)
  BY <1>0, <1>3
  DEF StopTriggers, Goto, managerVars, Frame, Calling, TypeOK, Starting, Stopping
<1>4. CASE StopActions(p)
  BY <1>0, <1>4
  DEF StopActions, Goto, managerVars, Frame, Calling, TypeOK, Starting, Stopping
<1>5. CASE StopGroup(p)
  BY <1>0, <1>5 DEF StopGroup, Goto, managerVars, Frame, Calling, TypeOK, Starting, Stopping
<1>6. CASE DeleteUnlock(p)
  BY <1>0, <1>6, GoesTo, AfterCall
  DEF DeleteUnlock, objectVars, Frame, Calling, TypeOK, Starting, Stopping
<1>7. CASE Fetch(p)
  BY <1>0, <1>7, GoesTo, AfterCall
  DEF Fetch, AddTask, objectVars, Goto, Garbage, Frame, Calling, TypeOK, Starting, Stopping,
      Steps
<1>8. CASE StoreTask(p)
  BY <1>0, <1>8 DEF StoreTask, Goto, objectVars, Frame, Calling, TypeOK, Starting, Stopping
<1>9. CASE Start(p)
  BY <1>0, <1>9, GoesTo, AfterCall
  DEF Start, Goto, managerVars, Frame, Calling, TypeOK, Starting, Stopping
<1>10. CASE StartActions(p)
  BY <1>0, <1>10
  DEF StartActions, Goto, managerVars, Frame, Calling, TypeOK, Starting, Stopping
<1>11. CASE StartGroup(p)
  BY <1>0, <1>11
  DEF StartGroup, Goto, managerVars, Frame, Calling, TypeOK, Starting, Stopping
<1>12. CASE StartConditions(p)
  BY <1>0, <1>12
  DEF StartConditions, Goto, managerVars, objectVars, Frame, Calling, TypeOK, Starting,
      Stopping
<1>13. CASE StartTriggers(p)
  BY <1>0, <1>13, GoesTo, AfterCall
  DEF StartTriggers, managerVars, Frame, Calling, TypeOK, Starting, Stopping
<1>14. QED
  BY <1>1, <1>2, <1>3, <1>4, <1>5, <1>6, <1>7, <1>8, <1>9, <1>10, <1>11, <1>12, <1>13 DEF Step

LEMMA FreshInit == Init => FreshInv
<1> SUFFICES ASSUME Init PROVE FreshInv
  OBVIOUS
<1>1. Main \in Procs /\ pc[Main] = "down" /\ \A p \in Procs : pc[p] \in {"down", "idle"}
  BY DEF Init, Procs
<1>2. MainOK /\ ListFresh
  BY <1>1 DEF Init, MainOK, ListFresh, Adding, NotYet, Unloading, Starting, Stopping
<1>3. CallsFresh /\ RestFresh
  BY <1>1 DEF Init, CallsFresh, CallFresh, RestFresh, Starting
<1>4. QED BY <1>2, <1>3, LiveInit DEF FreshInv

LEMMA FreshStep == ASSUME FreshInv, NEW p \in Procs, Step(p) PROVE FreshInv'
<1>0. /\ LiveInv /\ LiveInv' /\ WorkInv /\ WorkInv' /\ TypeOK /\ CallsOK
      /\ MainOK /\ ListFresh /\ CallsFresh /\ RestFresh
  BY LiveStep DEF FreshInv, LiveInv, WorkInv
<1>1. /\ (Adding' <=> Adding) /\ (Unloading' <=> Unloading) /\ (NotYet' <=> NotYet)
      /\ UNCHANGED <<row, subscribed, todo, overlapped, missed>>
  BY <1>0, ModeStep
<1>2. Frame(p)
  BY <1>0, FrameStep
<1>3. Calling(p)
  BY DEF Step, UnloadLock, Stop, StopTriggers, StopActions, StopGroup, DeleteUnlock, Fetch,
     StoreTask, Start, StartActions, StartGroup, StartConditions, StartTriggers, Calling
<1>4. MainOK' /\ ListFresh'
  BY <1>0, <1>1 DEF MainOK, ListFresh
<1>5. CallsFresh'
  <2> SUFFICES ASSUME NEW q \in Procs, pc'[q] \in Starting \cup {"store"}, ~overlapped[arg'[q]],
                      ~missed[arg'[q]]
               PROVE  task'[obj'[q]].version = row[arg'[q]]
    BY <1>1 DEF CallsFresh, CallFresh
  <2>0. Calling(q)'
    BY DEF Calling, Starting
  <2>1. CASE pc[q] \in Starting \cup {"store"} /\ obj'[q] = obj[q] /\ arg'[q] = arg[q]
    <3>1. task[obj[q]].version = row[arg[q]]
      BY <1>0, <2>1 DEF CallsFresh, CallFresh
    <3>2. obj[q] \in Objects
      BY <1>0, <2>1 DEF CallsOK, CallOK
    <3>3. task'[obj[q]] = task[obj[q]]
      BY <1>2, <3>2 DEF Frame
    <3>4. QED BY <2>1, <3>1, <3>3
  <2>2. CASE q = p
    BY <1>2, <2>0, <2>1, <2>2 DEF Frame
  <2>3. CASE q # p
    BY <1>2, <2>1, <2>3 DEF Frame
  <2>4. QED BY <2>2, <2>3
<1>6. RestFresh'
  <2> SUFFICES ASSUME NEW id \in Ids, Quiet(id)', ~overlapped[id], ~missed[id], tasks'[id] # None
               PROVE  task'[tasks'[id]].version = row[id]
    BY <1>1 DEF RestFresh
  <2>1. tasks'[id] = tasks[id] /\ task[tasks[id]].version = row[id]
    <3>1. CASE arg[p] # id
      <4>1. Quiet(id)
        BY <1>2, <3>1 DEF Quiet, Busy, Frame, Calling
      <4>2. tasks'[id] = tasks[id]
        BY <1>2, <3>1 DEF Frame
      <4>3. QED BY <1>0, <4>1, <4>2 DEF RestFresh
    <3>2. CASE arg[p] = id
      <4>1. ~Calling(p)'
        BY <1>2, <3>2 DEF Quiet, Busy, Frame
      <4>2. pc[p] \in Starting \cup {"fetch"} /\ tasks' = tasks
        BY <1>2, <3>2, <4>1 DEF Frame
      <4>3. pc[p] \in Starting /\ tasks[id] = obj[p]
        BY <1>0, <1>3, <3>2, <4>2 DEF LiveInv, AllUndisturbed, Undisturbed
      <4>4. QED BY <1>0, <3>2, <4>2, <4>3 DEF CallsFresh, CallFresh
    <3>3. QED BY <3>1, <3>2
  <2>2. tasks[id] \in Objects
    BY <1>0, <2>1 DEF TypeOK
  <2>3. task'[tasks[id]] = task[tasks[id]]
    BY <1>2, <2>2 DEF Frame
  <2>4. QED BY <2>1, <2>3
<1>7. QED BY <1>0, <1>4, <1>5, <1>6 DEF FreshInv

LEMMA FreshEvent == ASSUME FreshInv, Event PROVE FreshInv'
<1>0. /\ LiveInv' /\ WorkInv /\ TypeOK /\ CallsOK
      /\ MainOK /\ ListFresh /\ CallsFresh /\ RestFresh
  BY LiveEvent DEF FreshInv, LiveInv, WorkInv
<1>1. PICK id \in Ids :
        /\ \E what \in {"update", "unload"} : Notify(id, what)
        /\ \A i \in Ids \ {id} : row'[i] = row[i]
  BY <1>0 DEF Event, WriteRow, Enable, Disable, Delete, PushCommand, TypeOK, rowVars
<1>2. UNCHANGED <<tasks, task, obj, subscribed, todo>>
  BY <1>1 DEF Event, managerVars, mainVars, objectVars, Notify, procVars
<1>3. CASE subscribed
  <2>1. PICK j \in Jobs :
          /\ pc[j] = "idle"
          /\ pc' = [pc EXCEPT ![j] = "unload"]
          /\ arg' = [arg EXCEPT ![j] = id]
          /\ overlapped' = [overlapped EXCEPT ![id] = @ \/ ~Quiet(id)]
          /\ missed' = missed
    BY <1>1, <1>3 DEF Notify, Goto
  <2>2. /\ j \in Procs /\ j # Main /\ pc'[j] = "unload" /\ arg'[j] = id
        /\ \A q \in Procs \ {j} : pc'[q] = pc[q] /\ arg'[q] = arg[q]
        /\ \A i \in Ids \ {id} : overlapped'[i] = overlapped[i]
        /\ overlapped'[id] \/ (~overlapped[id] /\ Quiet(id))
    BY <1>0, <2>1, MainAssumption DEF Procs, TypeOK
  <2>3. MainOK' /\ ~Adding'
    BY <1>0, <1>2, <1>3, <2>2 DEF MainOK, Adding, NotYet, Unloading, Procs
  <2>4. CallsFresh'
    <3> SUFFICES ASSUME NEW q \in Procs, pc'[q] \in Starting \cup {"store"},
                        ~overlapped'[arg'[q]], ~missed[arg'[q]]
                 PROVE  task[obj[q]].version = row'[arg'[q]]
      BY <1>2, <2>1 DEF CallsFresh, CallFresh
    <3>1. q # j /\ pc'[q] = pc[q] /\ arg'[q] = arg[q] /\ Calling(q) /\ arg[q] \in Ids
      BY <1>0, <2>2 DEF Starting, Calling, CallsOK, CallOK
    <3>2. arg[q] # id
      BY <2>2, <3>1 DEF Quiet, Busy
    <3>3. QED BY <1>0, <1>1, <2>2, <3>1, <3>2 DEF CallsFresh, CallFresh
  <2>5. RestFresh'
    <3> SUFFICES ASSUME NEW i \in Ids, Quiet(i)', ~overlapped'[i], ~missed[i], tasks[i] # None
                 PROVE  task[tasks[i]].version = row'[i]
      BY <1>2, <2>1 DEF RestFresh
    <3>1. i # id
      BY <2>2 DEF Quiet, Busy, Calling
    <3>2. Quiet(i)
      BY <2>1, <2>2, <3>1 DEF Quiet, Busy, Calling
    <3>3. QED BY <1>0, <1>1, <2>2, <3>1, <3>2 DEF RestFresh
  <2>6. QED BY <1>0, <2>3, <2>4, <2>5 DEF FreshInv, ListFresh
<1>4. CASE ~subscribed
  <2>1. UNCHANGED <<pc, arg, overlapped>> /\ missed' = [missed EXCEPT ![id] = TRUE]
    BY <1>1, <1>4 DEF Notify, procVars
  <2>2. missed'[id] /\ \A i \in Ids \ {id} : missed'[i] = missed[i] /\ row'[i] = row[i]
    BY <1>0, <1>1, <2>1 DEF TypeOK
  <2>3. MainOK'
    BY <1>0, <1>2, <2>1 DEF MainOK, Adding, NotYet, Unloading
  <2>4. ListFresh'
    BY <1>0, <1>2, <2>1, <2>2 DEF ListFresh, Adding, TypeOK
  <2>5. CallsFresh'
    <3>1. \A q \in Procs : pc[q] \in Starting \cup {"store"} => arg[q] \in Ids
      BY <1>0 DEF CallsOK, CallOK, Calling, Starting
    <3>2. QED BY <1>0, <1>2, <2>1, <2>2, <3>1 DEF CallsFresh, CallFresh
  <2>6. RestFresh'
    BY <1>0, <1>2, <2>1, <2>2 DEF RestFresh, Quiet, Busy, Calling
  <2>7. QED BY <1>0, <2>3, <2>4, <2>5, <2>6 DEF FreshInv
<1>5. QED BY <1>3, <1>4

\* Nothing a version depends on changes.
LEMMA FreshFrame ==
    ASSUME FreshInv, LiveInv',
           UNCHANGED <<row, tasks, task, obj, arg, overlapped, missed>>,
           \A q \in Procs : pc'[q] = pc[q] \/ (~Calling(q) /\ ~Calling(q)')
    PROVE  CallsFresh' /\ RestFresh'
<1>1. \A q \in Procs : pc'[q] \in Starting \cup {"store"} => pc'[q] = pc[q]
  BY DEF Calling, Starting
<1>2. \A q \in Procs : Calling(q)' <=> Calling(q)
  BY DEF Calling
<1>3. QED BY <1>1, <1>2 DEF FreshInv, CallsFresh, CallFresh, RestFresh, Quiet, Busy

LEMMA FreshLoad == ASSUME FreshInv, Load PROVE FreshInv'
<1>0. /\ LiveInv' /\ WorkInv /\ TypeOK /\ CallsOK /\ Main \in Procs
      /\ MainOK /\ ListFresh /\ CallsFresh /\ RestFresh
  BY LiveMain DEF FreshInv, LiveInv, WorkInv, MainStep, Procs
<1>1. /\ pc[Main] = "down" /\ pc'[Main] \in {"subscribe", "adding"}
      /\ \A q \in Procs \ {Main} : pc'[q] = pc[q]
      /\ UNCHANGED <<row, tasks, task, obj, arg, overlapped, subscribed>>
  BY <1>0 DEF Load, Goto, TypeOK, rowVars, managerVars, objectVars
<1>2. ~Adding /\ ~Unloading /\ todo = {} /\ ~Calling(Main) /\ ~Calling(Main)'
  BY <1>0, <1>1 DEF Adding, NotYet, Unloading, Starting, Stopping, MainOK, Calling
<1>3. CASE UNCHANGED <<todo, missed>>
  <2>1. todo' = {}
    BY <1>2, <1>3
  <2>2. MainOK' /\ ListFresh'
    BY <1>0, <1>1, <2>1 DEF MainOK, ListFresh, Adding, NotYet, Starting
  <2>3. QED BY <1>0, <1>1, <1>2, <1>3, <2>2, FreshFrame DEF FreshInv
<1>4. CASE /\ pc'[Main] = "adding"
           /\ todo' = {[id |-> id, version |-> row[id]] :
                         id \in {i \in Ids : Exists(i) /\ rowEnabled[i]}}
           /\ missed' = [id \in Ids |-> missed[id] /\ ~(tasks[id] = None /\ Quiet(id))]
  <2>1. \A id \in Ids : missed'[id] = missed[id] \/ (tasks[id] = None /\ Quiet(id))
    BY <1>0, <1>4 DEF TypeOK
  <2>2. MainOK' /\ ListFresh'
    BY <1>0, <1>1, <1>4 DEF MainOK, ListFresh, Adding, NotYet
  <2>3. CallsFresh'
    <3>1. ASSUME NEW q \in Procs, pc'[q] \in Starting \cup {"store"}
          PROVE  pc[q] = pc'[q] /\ arg[q] \in Ids /\ missed'[arg[q]] = missed[arg[q]]
      <4>1. pc[q] = pc'[q] /\ Calling(q) /\ arg[q] \in Ids
        BY <1>0, <1>1, <3>1 DEF Calling, Starting, CallsOK, CallOK
      <4>2. QED BY <2>1, <4>1 DEF Quiet, Busy
    <3>2. QED BY <1>0, <1>1, <3>1 DEF CallsFresh, CallFresh
  <2>4. RestFresh'
    <3>1. \A q \in Procs : Calling(q)' <=> Calling(q)
      BY <1>1, <1>2 DEF Calling
    <3>2. QED BY <1>0, <1>1, <2>1, <3>1 DEF RestFresh, Quiet, Busy
  <2>5. QED BY <1>0, <2>2, <2>3, <2>4 DEF FreshInv
<1>5. QED BY <1>0, <1>3, <1>4 DEF Load, Goto, TypeOK

LEMMA FreshLoadNext == ASSUME FreshInv, NEW model \in todo, LoadNext(model) PROVE FreshInv'
<1>0. /\ LiveInv' /\ WorkInv /\ TypeOK /\ TypeOK' /\ CallsOK /\ Main \in Procs
      /\ MainOK /\ ListFresh /\ CallsFresh /\ RestFresh
      /\ model.id \in Ids /\ model.version \in Nat /\ \A m \in todo : m.id \in Ids
  BY LiveLoadNext DEF FreshInv, LiveInv, WorkInv, TypeOK, Procs
<1>1. /\ pc[Main] = "adding" /\ todo' = todo \ {model}
      /\ AddTask(Main, model.id, model.version)
      /\ \A i \in Ids \ {model.id} : overlapped'[i] = overlapped[i]
      /\ overlapped[model.id] => overlapped'[model.id]
      /\ UNCHANGED <<row, tasks, subscribed, missed>>
  BY <1>0 DEF LoadNext, MainCalls, rowVars, TypeOK
<1>2. PICK o \in Objects :
        /\ Garbage(o)
        /\ task' = [task EXCEPT ![o] = [id |-> model.id, version |-> model.version]]
        /\ obj' = [obj EXCEPT ![Main] = o]
        /\ arg' = [arg EXCEPT ![Main] = model.id]
        /\ pc' = [pc EXCEPT ![Main] = "store"]
  BY <1>1 DEF AddTask, Goto
<1>3. /\ \A i \in Ids : tasks[i] # o
      /\ \A q \in Procs : obj[q] # o
  BY <1>2 DEF Garbage
<1>4. /\ pc'[Main] = "store" /\ arg'[Main] = model.id /\ task'[obj'[Main]].version = model.version
      /\ \A q \in Procs \ {Main} : pc'[q] = pc[q] /\ arg'[q] = arg[q] /\ obj'[q] = obj[q]
      /\ \A u \in Objects \ {o} : task'[u] = task[u]
  BY <1>0, <1>2 DEF TypeOK
<1>5. Adding /\ Adding' /\ ~NotYet'
  BY <1>1, <1>4 DEF Adding, NotYet
<1>6. MainOK' /\ ListFresh'
  BY <1>0, <1>1, <1>5 DEF MainOK, ListFresh
<1>7. CallsFresh'
  <2> SUFFICES ASSUME NEW q \in Procs, pc'[q] \in Starting \cup {"store"}, ~overlapped'[arg'[q]],
                      ~missed[arg'[q]]
               PROVE  task'[obj'[q]].version = row[arg'[q]]
    BY <1>1 DEF CallsFresh, CallFresh
  <2>1. CASE q = Main
    BY <1>0, <1>4, <1>5, <2>1 DEF ListFresh
  <2>2. CASE q # Main
    <3>1. /\ pc[q] \in Starting \cup {"store"} /\ arg[q] \in Ids /\ obj[q] \in Objects \ {o}
          /\ arg'[q] = arg[q] /\ obj'[q] = obj[q]
      BY <1>0, <1>3, <1>4, <2>2 DEF CallsOK, CallOK, Calling, Starting
    <3>2. ~overlapped[arg[q]]
      BY <1>1, <3>1
    <3>3. QED BY <1>0, <1>4, <3>1, <3>2 DEF CallsFresh, CallFresh
  <2>3. QED BY <2>1, <2>2
<1>8. RestFresh'
  <2> SUFFICES ASSUME NEW i \in Ids, Quiet(i)', ~overlapped'[i], ~missed[i], tasks[i] # None
               PROVE  task'[tasks[i]].version = row[i]
    BY <1>1 DEF RestFresh
  <2>1. i # model.id
    BY <1>0, <1>4 DEF Quiet, Busy, Calling
  <2>2. Quiet(i)
    BY <1>1, <1>4 DEF Quiet, Busy, Calling
  <2>3. tasks[i] \in Objects \ {o}
    BY <1>0, <1>3 DEF TypeOK
  <2>4. QED BY <1>0, <1>1, <1>4, <2>1, <2>2, <2>3 DEF RestFresh
<1>9. QED BY <1>0, <1>6, <1>7, <1>8 DEF FreshInv

LEMMA FreshUnloadNext == ASSUME FreshInv, NEW model \in todo, UnloadNext(model) PROVE FreshInv'
<1>0. /\ LiveInv' /\ WorkInv /\ TypeOK /\ CallsOK /\ Main \in Procs
      /\ MainOK /\ ListFresh /\ CallsFresh /\ RestFresh /\ model.id \in Ids
  BY LiveUnloadNext DEF FreshInv, LiveInv, WorkInv, TypeOK, Procs
<1>1. /\ pc[Main] = "unloading"
      /\ arg' = [arg EXCEPT ![Main] = model.id] /\ pc' = [pc EXCEPT ![Main] = "unload"]
      /\ \A i \in Ids \ {model.id} : overlapped'[i] = overlapped[i]
      /\ overlapped[model.id] => overlapped'[model.id]
      /\ UNCHANGED <<row, tasks, task, obj, subscribed, missed>>
  BY <1>0 DEF UnloadNext, MainCalls, Goto, rowVars, managerVars, objectVars, TypeOK
<1>2. /\ pc'[Main] = "unload" /\ arg'[Main] = model.id
      /\ \A q \in Procs \ {Main} : pc'[q] = pc[q] /\ arg'[q] = arg[q]
  BY <1>0, <1>1 DEF TypeOK
<1>3. MainOK' /\ ListFresh'
  BY <1>2 DEF MainOK, ListFresh, Adding, NotYet, Unloading, Starting
<1>4. CallsFresh'
  <2> SUFFICES ASSUME NEW q \in Procs, pc'[q] \in Starting \cup {"store"}, ~overlapped'[arg'[q]],
                      ~missed[arg'[q]]
               PROVE  task[obj[q]].version = row[arg'[q]]
    BY <1>1 DEF CallsFresh, CallFresh
  <2>1. q # Main /\ pc[q] \in Starting \cup {"store"} /\ arg[q] \in Ids /\ arg'[q] = arg[q]
    BY <1>0, <1>2 DEF Starting, CallsOK, CallOK, Calling
  <2>2. QED BY <1>0, <1>1, <2>1 DEF CallsFresh, CallFresh
<1>5. RestFresh'
  <2> SUFFICES ASSUME NEW i \in Ids, Quiet(i)', ~overlapped'[i], ~missed[i], tasks[i] # None
               PROVE  task[tasks[i]].version = row[i]
    BY <1>1 DEF RestFresh
  <2>1. i # model.id
    BY <1>0, <1>2 DEF Quiet, Busy, Calling
  <2>2. Quiet(i)
    BY <1>1, <1>2 DEF Quiet, Busy, Calling
  <2>3. QED BY <1>0, <1>1, <2>1, <2>2 DEF RestFresh
<1>6. QED BY <1>0, <1>3, <1>4, <1>5 DEF FreshInv

LEMMA FreshMain == ASSUME FreshInv, MainStep PROVE FreshInv'
<1>0. /\ LiveInv' /\ WorkInv /\ TypeOK /\ Main \in Procs /\ MainOK /\ ListFresh
  BY LiveMain DEF FreshInv, LiveInv, WorkInv, Procs
<1>1. CASE \E model \in todo : LoadNext(model)
  BY <1>1, FreshLoadNext
<1>2. CASE \E model \in todo : UnloadNext(model)
  BY <1>2, FreshUnloadNext
<1>3. CASE Load
  BY <1>3, FreshLoad
<1>4. CASE LoadEnd \/ Subscribe \/ Shutdown \/ UnloadEnd \/ Unsubscribe
  <2>1. \E a, b \in MainRests : pc[Main] = a /\ pc' = [pc EXCEPT ![Main] = b]
    BY <1>4 DEF LoadEnd, Subscribe, Shutdown, UnloadEnd, Unsubscribe, Goto, MainRests
  <2>2. \A q \in Procs : pc'[q] = pc[q] \/ (~Calling(q) /\ ~Calling(q)')
    BY <1>0, <2>1 DEF TypeOK, Calling, MainRests
  <2>3. UNCHANGED <<row, tasks, task, obj, arg, overlapped, missed>>
    BY <1>4 DEF LoadEnd, Subscribe, Shutdown, UnloadEnd, Unsubscribe, rowVars, managerVars,
       objectVars, historyVars
  <2>4. MainOK' /\ ListFresh'
    <3>1. CASE LoadEnd
      BY <1>0, <3>1 DEF LoadEnd, Goto, TypeOK, MainOK, ListFresh, Adding, NotYet, Unloading, Starting
    <3>2. CASE Subscribe
      BY <1>0, <3>2
      DEF Subscribe, Goto, TypeOK, MainOK, ListFresh, Adding, NotYet, Unloading, Starting, Stopping
    <3>3. CASE Shutdown
      <4>1. pc[Main] = "up" /\ pc'[Main] \in {"unloading", "unsubscribe"}
        BY <1>0, <3>3 DEF Shutdown, Goto, TypeOK
      <4>2. pc'[Main] = "unsubscribe" => todo' = todo
        BY <1>0, <3>3 DEF Shutdown, Goto, TypeOK
      <4>3. ~Adding' /\ ~NotYet' /\ (pc'[Main] = "unloading" => Unloading')
        BY <4>1 DEF Adding, NotYet, Unloading, Starting
      <4>4. todo = {}
        BY <1>0, <4>1 DEF MainOK, Adding, Unloading, Starting, Stopping
      <4>5. QED BY <4>1, <4>2, <4>3, <4>4 DEF MainOK, ListFresh
    <3>4. CASE UnloadEnd
      BY <1>0, <3>4
      DEF UnloadEnd, Goto, TypeOK, MainOK, ListFresh, Adding, NotYet, Unloading, Starting
    <3>5. CASE Unsubscribe
      BY <1>0, <3>5
      DEF Unsubscribe, Goto, TypeOK, MainOK, ListFresh, Adding, NotYet, Unloading, Starting,
          Stopping
    <3>6. QED BY <1>4, <3>1, <3>2, <3>3, <3>4, <3>5
  <2>5. QED BY <1>0, <2>2, <2>3, <2>4, FreshFrame DEF FreshInv
<1>5. QED BY <1>1, <1>2, <1>3, <1>4 DEF MainStep

LEMMA FreshStill ==
    ASSUME FreshInv, LiveInv',
           UNCHANGED <<row, mainVars, tasks, task, procVars, overlapped, missed>>
    PROVE  FreshInv'
<1>1. MainOK' /\ ListFresh'
  BY DEF FreshInv, MainOK, ListFresh, Adding, NotYet, Unloading, mainVars, procVars
<1>2. CallsFresh' /\ RestFresh'
  BY FreshFrame DEF procVars
<1>3. QED BY <1>1, <1>2 DEF FreshInv

LEMMA FreshNext == FreshInv /\ [Next]_vars => FreshInv'
<1> SUFFICES ASSUME FreshInv, [Next]_vars PROVE FreshInv'
  OBVIOUS
<1>1. LiveInv'
  BY LiveNext DEF FreshInv
<1>2. ASSUME NEW o \in Objects, Handle(o) PROVE FreshInv'
  <2>1. UNCHANGED <<row, mainVars, tasks, task, procVars, overlapped, missed>>
    BY <1>2 DEF Handle, TriggerCompleted, CheckAndRun, rowVars, managerVars, objectVars,
       historyVars
  <2>2. QED BY <1>1, <2>1, FreshStill
<1>3. CASE UNCHANGED vars
  <2>1. UNCHANGED <<row, mainVars, tasks, task, procVars, overlapped, missed>>
    BY <1>3 DEF vars, rowVars, managerVars, objectVars, historyVars
  <2>2. QED BY <1>1, <2>1, FreshStill
<1>4. CASE MapRace
  <2>1. UNCHANGED <<row, mainVars, tasks, task, procVars, overlapped, missed>>
    BY <1>4 DEF MapRace, rowVars, managerVars, objectVars, historyVars
  <2>2. QED BY <1>1, <2>1, FreshStill
<1>5. QED BY <1>2, <1>3, <1>4, FreshEvent, FreshStep, FreshMain DEF Next

\* A loaded task at rest has its row's latest version, if every event for it
\* met a subscriber and its calls did not overlap (updateTask, load).
THEOREM LoadedTasksAreFresh == Spec => []LoadedIsFresh
<1>1. FreshInv => LoadedIsFresh
  BY DEF FreshInv, RestFresh, LoadedIsFresh
<1>2. QED BY <1>1, FreshInit, FreshNext, PTL DEF Spec
=============================================================================
