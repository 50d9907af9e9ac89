---------------------------- MODULE TaskManager ----------------------------
(***************************************************************************)
(* The task manager of internal/system/automation: the map of loaded tasks *)
(* and the goroutines that load and unload them.                           *)
(*                                                                         *)
(* eventHandler starts a goroutine (a job) for every command and every     *)
(* model event, so jobs run in any order and in parallel: an enable, an    *)
(* update or a creation runs updateTask, a disable or a removal runs       *)
(* unloadTask.  The main thread runs Start and Shutdown, which use the     *)
(* same addTask and unloadTask.  Task.Start and Task.Stop are broken into  *)
(* the steps between which another goroutine can see the object: Stop runs *)
(* under the manager's mutex, Start does not.                              *)
(*                                                                         *)
(* A Task object is an element of Objects.  An object nobody refers to any *)
(* more is used again, so Objects bounds the objects alive at a time.  A   *)
(* task is its row's version, whether it is enabled and whether its row    *)
(* exists; its actions, its conditions and its subscriptions to triggers   *)
(* are each taken as a whole.  MaxVersion bounds the versions of a row.    *)
(***************************************************************************)
EXTENDS Naturals, FiniteSets

CONSTANTS
    Ids,        \* task ids
    Objects,    \* Task objects
    Jobs,       \* goroutines started by eventHandler
    Main,       \* the goroutine that runs Start and Shutdown
    None,
    MaxVersion

ASSUME MainAssumption == Main \notin Jobs
ASSUME NoneAssumption ==
    /\ None \notin Ids /\ None \notin Objects /\ None \notin Jobs /\ None # Main
    /\ None \notin {"Stop", "Start", "Check", "Map"}
ASSUME MaxVersionAssumption == MaxVersion \in Nat

Procs == Jobs \cup {Main}

VARIABLES
    row,        \* id -> version of the task's row; 0: not created yet;
                \*       Gone: deleted
    rowEnabled, \* id -> the row's enabled column
    tasks,      \* id -> the object in the manager's map, or None
    taskCount,
    isStarted,
    subscribed, \* the manager's eventHandler is subscribed
    mu,         \* the process that holds the manager's mutex, or None
    pc,         \* process -> next step
    arg,        \* process -> id the call is about
    op,         \* process -> "update" or "unload"
    obj,        \* process -> object the call works on
    todo,       \* the models Main has yet to add, or the tasks to unload
    task,       \* object -> [id, version] of the model it was made from
    enabled, actions, group, listening,
                \* object -> its enabled flag; has it actions, a condition
                \* group, subscriptions to its triggers
    handler,    \* object -> where its handling of a completed trigger stands
    panicked,   \* the place of a nil dereference, "Map" for a fatal use of
                \* the map, or None
    overlapped, \* history: two calls for the id were under way together
    missed      \* history: an event for the id found no subscriber

rowVars == <<row, rowEnabled>>
managerVars == <<tasks, taskCount, mu>>
mainVars == <<isStarted, subscribed, todo>>
procVars == <<pc, arg, op, obj>>
objectVars == <<task, enabled, actions, group, listening>>
historyVars == <<overlapped, missed>>
vars == <<rowVars, managerVars, mainVars, procVars, objectVars, handler,
          panicked, historyVars>>

NoTask == [id |-> None, version |-> 0]

Gone == MaxVersion + 1
Exists(id) == row[id] \in 1..MaxVersion

Loaded == {id \in Ids : tasks[id] # None}

\* The process is inside unloadTask, updateTask or addTask for the id.
Calling(p) == pc[p] \notin {"idle", "down", "adding", "subscribe", "up", "unloading",
                           "unsubscribe"}
Busy(p, id) == Calling(p) /\ arg[p] = id
Quiet(id) == \A p \in Procs : ~Busy(p, id)

\* Nothing refers to the object: the garbage collector may take it.
Garbage(o) ==
    /\ \A id \in Ids : tasks[id] # o
    /\ \A p \in Procs : obj[p] # o
    /\ ~listening[o]
    /\ handler[o] = "idle"

Init ==
    /\ row \in [Ids -> {0, 1}]
    /\ rowEnabled \in {f \in [Ids -> BOOLEAN] : \A id \in Ids : f[id] => row[id] = 1}
    /\ tasks = [id \in Ids |-> None]
    /\ taskCount = 0
    /\ isStarted = FALSE
    /\ subscribed = FALSE
    /\ mu = None
    /\ pc = [p \in Procs |-> IF p = Main THEN "down" ELSE "idle"]
    /\ arg = [p \in Procs |-> None]
    /\ op = [p \in Procs |-> "unload"]
    /\ obj = [p \in Procs |-> None]
    /\ todo = {}
    /\ task = [o \in Objects |-> NoTask]
    /\ enabled = [o \in Objects |-> FALSE]
    /\ actions = [o \in Objects |-> FALSE]
    /\ group = [o \in Objects |-> FALSE]
    /\ listening = [o \in Objects |-> FALSE]
    /\ handler = [o \in Objects |-> "idle"]
    /\ panicked = None
    /\ overlapped = [id \in Ids |-> FALSE]
    /\ missed = [id \in Ids |-> FALSE]

Goto(p, step) == pc' = [pc EXCEPT ![p] = step]

\* A call of addTask or unloadTask goes on, or returns, for a job to nothing
\* and for Main to its loop; the process keeps no reference to the object.
Goes(p, step) ==
    /\ Goto(p, step)
    /\ obj' = [obj EXCEPT ![p] = None]
    /\ IF step \in {"idle", "adding", "unloading"}
         THEN arg' = [arg EXCEPT ![p] = None] /\ op' = [op EXCEPT ![p] = "unload"]
         ELSE UNCHANGED <<arg, op>>

\* Where a process goes when addTask or unloadTask returns.
AfterAdd(p) == IF p = Main THEN "adding" ELSE "idle"
AfterUnload(p) ==
    IF p = Main THEN "unloading" ELSE IF op[p] = "update" THEN "fetch" ELSE "idle"

-----------------------------------------------------------------------------
(* Events: a row is written, or a script pushes a command, and the event   *)
(* is handled by a new job if the manager is subscribed.                   *)

Notify(id, what) ==
    IF subscribed
      THEN \E j \in Jobs :
             /\ pc[j] = "idle"
             /\ Goto(j, "unload")
             /\ arg' = [arg EXCEPT ![j] = id]
             /\ op' = [op EXCEPT ![j] = what]
             /\ overlapped' = [overlapped EXCEPT ![id] = @ \/ ~Quiet(id)]
             /\ UNCHANGED <<obj, missed>>
      ELSE /\ missed' = [missed EXCEPT ![id] = TRUE]
           /\ UNCHANGED <<procVars, overlapped>>

\* Mutant of WriteRow: only an enabled row is announced.
WriteRowQuietly(id, on) ==
    /\ row[id] < MaxVersion
    /\ row' = [row EXCEPT ![id] = @ + 1]
    /\ rowEnabled' = [rowEnabled EXCEPT ![id] = on]
    /\ IF on THEN Notify(id, "update") ELSE UNCHANGED <<procVars, historyVars>>

\* TaskEndpoint.Add, Import, Update: the row is written, enabled or not.
WriteRow(id, on) ==
    /\ row[id] < MaxVersion
    /\ row' = [row EXCEPT ![id] = @ + 1]
    /\ rowEnabled' = [rowEnabled EXCEPT ![id] = on]
    /\ Notify(id, "update")

Enable(id) ==
    /\ Exists(id)
    /\ rowEnabled' = [rowEnabled EXCEPT ![id] = TRUE]
    /\ UNCHANGED row
    /\ Notify(id, "update")

Disable(id) ==
    /\ Exists(id)
    /\ rowEnabled' = [rowEnabled EXCEPT ![id] = FALSE]
    /\ UNCHANGED row
    /\ Notify(id, "unload")

Delete(id) ==
    /\ Exists(id)
    /\ row' = [row EXCEPT ![id] = Gone]
    /\ rowEnabled' = [rowEnabled EXCEPT ![id] = FALSE]
    /\ Notify(id, "unload")

\* PushSystemEvent: the command without a change of the row.
PushCommand(id, what) ==
    /\ UNCHANGED rowVars
    /\ Notify(id, what)

Event ==
    /\ \E id \in Ids :
         \/ \E on \in BOOLEAN : WriteRow(id, on)
         \/ Enable(id)
         \/ Disable(id)
         \/ Delete(id)
         \/ \E what \in {"update", "unload"} : PushCommand(id, what)
    /\ UNCHANGED <<managerVars, mainVars, objectVars, handler, panicked>>

-----------------------------------------------------------------------------
(* unloadTask: lock, look the task up, Stop it, delete it, unlock *)

\* Mutant of UnloadLock: the task is dropped from the map without a Stop.
UnloadWithoutStop(p) ==
    /\ pc[p] = "unload"
    /\ mu = None
    /\ IF tasks[arg[p]] = None
         THEN Goes(p, AfterUnload(p)) /\ UNCHANGED mu
         ELSE mu' = p /\ Goto(p, "delete") /\ UNCHANGED <<arg, op, obj>>
    /\ UNCHANGED <<rowVars, tasks, taskCount, mainVars, objectVars, handler, panicked,
                   historyVars>>

UnloadLock(p) ==
    /\ pc[p] = "unload"
    /\ mu = None
    /\ LET o == tasks[arg[p]] IN
         IF o = None
           THEN Goes(p, AfterUnload(p)) /\ UNCHANGED mu
           ELSE /\ mu' = p
                /\ obj' = [obj EXCEPT ![p] = o]
                /\ Goto(p, "stop")
                /\ UNCHANGED <<arg, op>>
    /\ UNCHANGED <<rowVars, tasks, taskCount, mainVars, objectVars, handler, panicked,
                   historyVars>>

\* Task.Stop returns at once when the task is not enabled.
Stop(p) ==
    /\ pc[p] = "stop"
    /\ IF enabled[obj[p]]
         THEN /\ enabled' = [enabled EXCEPT ![obj[p]] = FALSE]
              /\ Goto(p, "stop_triggers")
         ELSE Goto(p, "delete") /\ UNCHANGED enabled
    /\ UNCHANGED <<rowVars, managerVars, mainVars, arg, op, obj, task, actions, group,
                   listening, handler, panicked, historyVars>>

StopTriggers(p) ==
    /\ pc[p] = "stop_triggers"
    /\ listening' = [listening EXCEPT ![obj[p]] = FALSE]
    /\ Goto(p, "stop_actions")
    /\ UNCHANGED <<rowVars, managerVars, mainVars, arg, op, obj, task, enabled, actions,
                   group, handler, panicked, historyVars>>

StopActions(p) ==
    /\ pc[p] = "stop_actions"
    /\ actions' = [actions EXCEPT ![obj[p]] = FALSE]
    /\ Goto(p, "stop_group")
    /\ UNCHANGED <<rowVars, managerVars, mainVars, arg, op, obj, task, enabled, group,
                   listening, handler, panicked, historyVars>>

\* t.conditionGroup.Stop() reads the rules through a pointer that Start may
\* not have set yet.
StopGroup(p) ==
    /\ pc[p] = "stop_group"
    /\ IF group[obj[p]]
         THEN /\ group' = [group EXCEPT ![obj[p]] = FALSE]
              /\ Goto(p, "delete")
              /\ UNCHANGED panicked
         ELSE panicked' = "Stop" /\ UNCHANGED <<group, pc>>
    /\ UNCHANGED <<rowVars, managerVars, mainVars, arg, op, obj, task, enabled, actions,
                   listening, handler, historyVars>>

DeleteUnlock(p) ==
    /\ pc[p] = "delete"
    /\ tasks' = [tasks EXCEPT ![arg[p]] = None]
    /\ taskCount' = taskCount - 1
    /\ mu' = None
    /\ Goes(p, AfterUnload(p))
    /\ UNCHANGED <<rowVars, mainVars, objectVars, handler, panicked, historyVars>>

-----------------------------------------------------------------------------
(* addTask: make the object, count it, store it in the map, Start it *)

\* Mutant of AddTask: the task is not counted.
AddTaskUncounted(p, id, version) ==
    \E o \in Objects :
        /\ Garbage(o)
        /\ task' = [task EXCEPT ![o] = [id |-> id, version |-> version]]
        /\ enabled' = [enabled EXCEPT ![o] = FALSE]
        /\ actions' = [actions EXCEPT ![o] = FALSE]
        /\ group' = [group EXCEPT ![o] = FALSE]
        /\ obj' = [obj EXCEPT ![p] = o]
        /\ arg' = [arg EXCEPT ![p] = id]
        /\ Goto(p, "store")
        /\ UNCHANGED <<taskCount, listening, op>>

AddTask(p, id, version) ==
    \E o \in Objects :
        /\ Garbage(o)
        /\ task' = [task EXCEPT ![o] = [id |-> id, version |-> version]]
        /\ enabled' = [enabled EXCEPT ![o] = FALSE]
        /\ actions' = [actions EXCEPT ![o] = FALSE]
        /\ group' = [group EXCEPT ![o] = FALSE]
        /\ obj' = [obj EXCEPT ![p] = o]
        /\ arg' = [arg EXCEPT ![p] = id]
        /\ taskCount' = taskCount + 1
        /\ Goto(p, "store")
        /\ UNCHANGED <<listening, op>>

\* updateTask reads the row between unloadTask and addTask.
Fetch(p) ==
    /\ pc[p] = "fetch"
    /\ \/ Exists(arg[p]) /\ AddTask(p, arg[p], row[arg[p]])
       \/ \* no such row, or the query failed
          Goes(p, "idle") /\ UNCHANGED <<taskCount, objectVars>>
    /\ UNCHANGED <<rowVars, tasks, mu, mainVars, handler, panicked, historyVars>>

StoreTask(p) ==
    /\ pc[p] = "store"
    /\ mu = None
    /\ tasks' = [tasks EXCEPT ![arg[p]] = obj[p]]
    /\ Goto(p, "start")
    /\ UNCHANGED <<rowVars, taskCount, mu, mainVars, arg, op, obj, objectVars, handler,
                   panicked, historyVars>>

Start(p) ==
    /\ pc[p] = "start"
    /\ IF enabled[obj[p]]
         THEN Goes(p, AfterAdd(p)) /\ UNCHANGED enabled
         ELSE /\ enabled' = [enabled EXCEPT ![obj[p]] = TRUE]
              /\ Goto(p, "start_actions")
              /\ UNCHANGED <<arg, op, obj>>
    /\ UNCHANGED <<rowVars, managerVars, mainVars, task, actions, group, listening,
                   handler, panicked, historyVars>>

\* Mutant of StartActions: the conditions are added before the group is made.
StartWithoutGroup(p) ==
    /\ pc[p] = "start_actions"
    /\ actions' = [actions EXCEPT ![obj[p]] = TRUE]
    /\ Goto(p, "start_conditions")
    /\ UNCHANGED <<rowVars, managerVars, mainVars, arg, op, obj, task, enabled, group,
                   listening, handler, panicked, historyVars>>

StartActions(p) ==
    /\ pc[p] = "start_actions"
    /\ actions' = [actions EXCEPT ![obj[p]] = TRUE]
    /\ Goto(p, "start_group")
    /\ UNCHANGED <<rowVars, managerVars, mainVars, arg, op, obj, task, enabled, group,
                   listening, handler, panicked, historyVars>>

StartGroup(p) ==
    /\ pc[p] = "start_group"
    /\ group' = [group EXCEPT ![obj[p]] = TRUE]
    /\ Goto(p, "start_conditions")
    /\ UNCHANGED <<rowVars, managerVars, mainVars, arg, op, obj, task, enabled, actions,
                   listening, handler, panicked, historyVars>>

\* AddCondition appends to the group's rules, if a Stop left the group.
StartConditions(p) ==
    /\ pc[p] = "start_conditions"
    /\ IF group[obj[p]]
         THEN Goto(p, "start_triggers") /\ UNCHANGED panicked
         ELSE panicked' = "Start" /\ UNCHANGED pc
    /\ UNCHANGED <<rowVars, managerVars, mainVars, arg, op, obj, objectVars, handler,
                   historyVars>>

StartTriggers(p) ==
    /\ pc[p] = "start_triggers"
    /\ listening' = [listening EXCEPT ![obj[p]] = TRUE]
    /\ Goes(p, AfterAdd(p))
    /\ UNCHANGED <<rowVars, managerVars, mainVars, task, enabled, actions, group, handler,
                   panicked, historyVars>>

-----------------------------------------------------------------------------
(* Start and Shutdown of the manager *)

\* The main thread calls addTask or unloadTask for the id.  Loading a task
\* that a job of an earlier run left in the map is counted as an overlap.
MainCalls(id, loads) ==
    /\ overlapped' = [overlapped EXCEPT ![id] =
          @ \/ (\E j \in Jobs : Busy(j, id)) \/ (loads /\ tasks[id] # None)]
    /\ UNCHANGED missed

\* load: list the enabled rows, or fail to: no task is added then, and the
\* manager counts as started.  The triggers plugin that load asks for is
\* registered with the program.
Load ==
    /\ pc[Main] = "down"
    /\ IF isStarted
         THEN Goto(Main, "subscribe") /\ UNCHANGED <<todo, missed>>
         ELSE /\ Goto(Main, "adding")
              /\ \/ /\ todo' = {[id |-> id, version |-> row[id]] :
                                  id \in {i \in Ids : Exists(i) /\ rowEnabled[i]}}
                    /\ missed' = [id \in Ids |->
                                    missed[id] /\ ~(tasks[id] = None /\ Quiet(id))]
                 \/ UNCHANGED <<todo, missed>>
    /\ UNCHANGED <<rowVars, managerVars, isStarted, subscribed, arg, op, obj, objectVars,
                   handler, panicked, overlapped>>

\* A row the list gave is added even if it has changed since.
LoadNext(model) ==
    /\ pc[Main] = "adding"
    /\ model \in todo
    /\ todo' = todo \ {model}
    /\ AddTask(Main, model.id, model.version)
    /\ MainCalls(model.id, TRUE)
    /\ UNCHANGED <<rowVars, tasks, mu, isStarted, subscribed, handler, panicked>>

LoadEnd ==
    /\ pc[Main] = "adding"
    /\ todo = {}
    /\ isStarted' = TRUE
    /\ Goto(Main, "subscribe")
    /\ UNCHANGED <<rowVars, managerVars, subscribed, todo, arg, op, obj, objectVars,
                   handler, panicked, historyVars>>

Subscribe ==
    /\ pc[Main] = "subscribe"
    /\ subscribed' = TRUE
    /\ Goto(Main, "up")
    /\ UNCHANGED <<rowVars, managerVars, isStarted, todo, arg, op, obj, objectVars,
                   handler, panicked, historyVars>>

\* unload ranges over the map while jobs may still add to it: what is added
\* meanwhile may or may not be met (but see MapRace).
Shutdown ==
    /\ pc[Main] = "up"
    /\ IF isStarted
         THEN /\ \E late \in SUBSET (Ids \ Loaded) :
                   todo' = {[id |-> id, version |-> 0] : id \in Loaded \cup late}
              /\ Goto(Main, "unloading")
         ELSE Goto(Main, "unsubscribe") /\ UNCHANGED todo
    /\ UNCHANGED <<rowVars, managerVars, isStarted, subscribed, arg, op, obj, objectVars,
                   handler, panicked, historyVars>>

UnloadNext(model) ==
    /\ pc[Main] = "unloading"
    /\ model \in todo
    /\ todo' = todo \ {model}
    /\ arg' = [arg EXCEPT ![Main] = model.id]
    /\ Goto(Main, "unload")
    /\ MainCalls(model.id, FALSE)
    /\ UNCHANGED <<rowVars, managerVars, isStarted, subscribed, op, obj, objectVars,
                   handler, panicked>>

UnloadEnd ==
    /\ pc[Main] = "unloading"
    /\ todo = {}
    /\ isStarted' = FALSE
    /\ Goto(Main, "unsubscribe")
    /\ UNCHANGED <<rowVars, managerVars, subscribed, todo, arg, op, obj, objectVars,
                   handler, panicked, historyVars>>

\* unload advances its range without the mutex.  When a job writes the map at
\* that moment, Go may notice and end the process; when it does not, the two
\* go on as if they had taken turns.
MapRace ==
    /\ pc[Main] = "unloading"
    /\ \E j \in Jobs : (pc[j] = "store" /\ mu = None) \/ pc[j] = "delete"
    /\ panicked' = "Map"
    /\ UNCHANGED <<rowVars, managerVars, mainVars, procVars, objectVars, handler,
                   historyVars>>

Unsubscribe ==
    /\ pc[Main] = "unsubscribe"
    /\ subscribed' = FALSE
    /\ Goto(Main, "down")
    /\ UNCHANGED <<rowVars, managerVars, isStarted, todo, arg, op, obj, objectVars,
                   handler, panicked, historyVars>>

-----------------------------------------------------------------------------
(* A trigger of the task completes: the bus calls Task.eventHandler        *)

\* A task that is not enabled ignores the event.
TriggerCompleted(o) ==
    /\ listening[o]
    /\ enabled[o]
    /\ handler[o] = "idle"
    /\ handler' = [handler EXCEPT ![o] = "check"]
    /\ UNCHANGED <<rowVars, managerVars, mainVars, procVars, objectVars, panicked,
                   historyVars>>

\* t.conditionGroup.Check and the actions, or a panic if Stop has cleared
\* the pointer to the group.
CheckAndRun(o) ==
    /\ handler[o] = "check"
    /\ IF group[o]
         THEN handler' = [handler EXCEPT ![o] = "idle"] /\ UNCHANGED panicked
         ELSE panicked' = "Check" /\ UNCHANGED handler
    /\ UNCHANGED <<rowVars, managerVars, mainVars, procVars, objectVars, historyVars>>

-----------------------------------------------------------------------------
Step(p) ==
    \/ UnloadLock(p)
    \/ Stop(p)
    \/ StopTriggers(p)
    \/ StopActions(p)
    \/ StopGroup(p)
    \/ DeleteUnlock(p)
    \/ Fetch(p)
    \/ StoreTask(p)
    \/ Start(p)
    \/ StartActions(p)
    \/ StartGroup(p)
    \/ StartConditions(p)
    \/ StartTriggers(p)

MainStep ==
    \/ Load
    \/ \E model \in todo : LoadNext(model) \/ UnloadNext(model)
    \/ LoadEnd
    \/ Subscribe
    \/ Shutdown
    \/ UnloadEnd
    \/ Unsubscribe

Handle(o) == TriggerCompleted(o) \/ CheckAndRun(o)

\* A panic in a goroutine, or a fatal error, ends the process.
Next ==
    /\ panicked = None
    /\ \/ Event
       \/ \E p \in Procs : Step(p)
       \/ MainStep
       \/ MapRace
       \/ \E o \in Objects : Handle(o)

Spec == Init /\ [][Next]_vars

-----------------------------------------------------------------------------
\* As long as the calls for a task do not overlap, a task object that may
\* act on triggers is the one in the map, the one IsLoaded reports and the
\* next unload stops (addTask, unloadTask, Task.Start, Task.Stop).
OneLiveObject ==
    \A o \in Objects :
        LET id == task[o].id IN
        enabled[o] /\ id # None /\ ~overlapped[id] => tasks[id] = o

\* As long as the calls for a task do not overlap, Start and Stop of the
\* task never meet, so neither finds the condition group missing.
CallsDoNotPanic ==
    panicked \in {"Stop", "Start"} => \E id \in Ids : overlapped[id]

\* Every entry of the map and every task about to be stored has been
\* counted: the unsigned taskCount never goes below zero, whatever overlaps
\* (addTask counts before it stores, unloadTask after it found the entry).
CountCoversMap ==
    Cardinality(Loaded) + Cardinality({p \in Procs : pc[p] = "store"}) <= taskCount

\* When every event for a task met a subscriber and its calls did not
\* overlap, a loaded task at rest has the latest version of its row
\* (updateTask reads the row after the event).
LoadedIsFresh ==
    \A id \in Ids :
        /\ subscribed /\ Quiet(id) /\ ~overlapped[id] /\ ~missed[id]
        /\ tasks[id] # None
        => task[tasks[id]].version = row[id]
=============================================================================
