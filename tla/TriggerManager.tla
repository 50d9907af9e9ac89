--------------------------- MODULE TriggerManager ---------------------------
(***************************************************************************)
(* The trigger manager of internal/system/automation: the map of loaded    *)
(* triggers and the goroutines that add and remove them.                   *)
(*                                                                         *)
(* As in the task manager every event starts a goroutine (a job).  Unlike  *)
(* there, scripts start jobs as well, addTrigger looks at the map before   *)
(* it takes the mutex and drops a disabled model, and a Trigger has no     *)
(* enabled flag: Stop undoes what it finds done.  Stop runs under the      *)
(* mutex, Start does not.                                                  *)
(*                                                                         *)
(* The subscribers of a trigger (one per entity, or one) are taken as a    *)
(* whole.  The plugin may refuse them, and the time plugin forgets those   *)
(* of other triggers with the same schedule (see TimeTrigger).             *)
(*                                                                         *)
(* An object nobody refers to any more is used again.  A counter           *)
(* below zero stands for one that wrapped.  MaxVersion bounds the versions *)
(* of a row, MaxCounter the counter, which models that are not loaded make *)
(* grow for ever.                                                          *)
(***************************************************************************)
EXTENDS Integers, FiniteSets

CONSTANTS
    Ids,        \* trigger ids
    Objects,    \* Trigger objects
    Jobs,       \* goroutines started by eventHandler and by scripts
    Main,       \* the goroutine that runs Start and Shutdown
    None,
    MaxVersion,
    MaxCounter

ASSUME NamesAssumption ==
    /\ Main \notin Jobs
    /\ None \notin Ids \cup Objects \cup Jobs \cup {Main}
ASSUME BoundsAssumption == MaxVersion \in Nat /\ MaxCounter \in Nat

Procs == Jobs \cup {Main}

VARIABLES
    row,        \* id -> version of the row; 0: not yet created; Gone: deleted
    rowEnabled, \* id -> the row's enabled column
    triggers,   \* id -> the object in the manager's map, or None
    triggerCounter,
    mu,         \* the process that holds the manager's mutex, or None
    isStarted,
    subscribed, \* the manager's eventHandler is subscribed
    bound,      \* bindScripts gave the scripts their functions
    todo,       \* the models load has yet to add, or the ids to remove
    proc,       \* process -> its step and what its call works on
    version,    \* object -> [id, version] of the model it was made from
    subs,       \* object -> it has its subscribers
    plugged,    \* object -> they are subscribed at the trigger plugin
    onBus,      \* object -> its eventHandler is subscribed
    crashed,    \* the Go runtime ended the process
    overlapped, \* history: two calls for the id were under way together
    synced      \* history: the last change of the row reached the manager

rowVars == <<row, rowEnabled>>
managerVars == <<triggers, triggerCounter>>
mainVars == <<isStarted, subscribed, bound, todo>>
objectVars == <<version, subs, plugged, onBus>>
historyVars == <<overlapped, synced>>
stateVars == <<rowVars, managerVars, mu, mainVars, proc, objectVars, historyVars>>
vars == <<stateVars, crashed>>

Gone == MaxVersion + 1
Exists(id) == row[id] \in 1..MaxVersion

Loaded == {id \in Ids : triggers[id] # None}

Rest == [at |-> "idle", id |-> None, op |-> "remove", version |-> 0, on |-> FALSE,
         obj |-> None]

\* The steps of Main outside a call of addTrigger or removeTrigger.
MainSteps == {"down", "loading", "subscribe", "up", "unloading", "unsubscribe"}

Calling(p) == proc[p].at \notin MainSteps \cup {"idle"}
Busy(p, id) == Calling(p) /\ proc[p].id = id

\* No call for the id is under way, nor will load or unload make one.
Quiet(id) == (\A p \in Procs : ~Busy(p, id)) /\ (\A model \in todo : model.id # id)

Garbage(o) ==
    /\ \A id \in Ids : triggers[id] # o
    /\ \A p \in Procs : proc[p].obj # o
    /\ ~plugged[o]
    /\ ~onBus[o]

Init ==
    /\ row \in [Ids -> {0, 1}]
    /\ rowEnabled \in {f \in [Ids -> BOOLEAN] : \A id \in Ids : f[id] => row[id] = 1}
    /\ triggers = [id \in Ids |-> None]
    /\ triggerCounter = 0
    /\ mu = None
    /\ isStarted = FALSE
    /\ subscribed = FALSE
    /\ bound = FALSE
    /\ todo = {}
    /\ proc = [p \in Procs |-> IF p = Main THEN [Rest EXCEPT !.at = "down"] ELSE Rest]
    /\ version = [o \in Objects |-> [id |-> None, version |-> 0]]
    /\ subs = [o \in Objects |-> FALSE]
    /\ plugged = [o \in Objects |-> FALSE]
    /\ onBus = [o \in Objects |-> FALSE]
    /\ crashed = FALSE
    /\ overlapped = [id \in Ids |-> FALSE]
    /\ synced = [id \in Ids |-> FALSE]

Goto(p, step) == proc' = [proc EXCEPT ![p].at = step]

\* addTrigger returns to eventHandler's goroutine, which ends, or to load.
ReturnFromAdd(p) ==
    proc' = [proc EXCEPT ![p] =
                IF p = Main THEN [Rest EXCEPT !.at = "loading"] ELSE Rest]

\* removeTrigger returns to unload, to updateTrigger, or the goroutine ends.
ReturnFromRemove(p) ==
    proc' = [proc EXCEPT ![p] =
                IF p = Main THEN [Rest EXCEPT !.at = "unloading"]
                ELSE IF @.op = "update" THEN [@ EXCEPT !.at = "fetch", !.obj = None]
                ELSE Rest]

-----------------------------------------------------------------------------
(* Changes of a row, by the endpoint, which publishes an event, or by a    *)
(* script, which starts the goroutine itself; and commands of scripts.     *)

\* A new goroutine runs updateTrigger ("update"), removeTrigger ("remove")
\* or, with the model the caller read, addTrigger ("add").
Spawn(id, what, model) ==
    \E j \in Jobs :
        /\ proc[j] = Rest
        /\ proc' = [proc EXCEPT ![j] =
                      [at |-> IF what = "add" THEN "check" ELSE "remove", id |-> id,
                       op |-> what, version |-> model.version, on |-> model.on,
                       obj |-> None]]
        /\ overlapped' = [overlapped EXCEPT ![id] = @ \/ ~Quiet(id)]

NoModel == [version |-> 0, on |-> FALSE]

\* eventHandler, if it is subscribed.
Publish(id, what) ==
    IF subscribed
      THEN Spawn(id, what, NoModel) /\ synced' = [synced EXCEPT ![id] = TRUE]
      ELSE synced' = [synced EXCEPT ![id] = FALSE] /\ UNCHANGED <<proc, overlapped>>

Save(id, on) ==
    /\ row[id] < MaxVersion
    /\ row' = [row EXCEPT ![id] = @ + 1]
    /\ rowEnabled' = [rowEnabled EXCEPT ![id] = on]

Drop(id) ==
    /\ Exists(id)
    /\ row' = [row EXCEPT ![id] = Gone]
    /\ rowEnabled' = [rowEnabled EXCEPT ![id] = FALSE]

\* TriggerEndpoint.Add and Update
Write(id, on) == Save(id, on) /\ Publish(id, "update")

Enable(id) ==
    /\ Exists(id)
    /\ rowEnabled' = [rowEnabled EXCEPT ![id] = TRUE]
    /\ UNCHANGED row
    /\ Publish(id, "update")

\* Mutant of Disable: the endpoint writes the row and publishes nothing.
DisableQuietly(id) ==
    /\ Exists(id)
    /\ rowEnabled' = [rowEnabled EXCEPT ![id] = FALSE]
    /\ UNCHANGED <<row, proc, historyVars>>

Disable(id) ==
    /\ Exists(id)
    /\ rowEnabled' = [rowEnabled EXCEPT ![id] = FALSE]
    /\ UNCHANGED row
    /\ Publish(id, "remove")

Delete(id) == Drop(id) /\ Publish(id, "remove")

\* PushSystemEvent: an enable or disable command without a change of the
\* row; a disable leaves the map behind the row on purpose.
PushCommand(id, what) ==
    /\ subscribed
    /\ Spawn(id, what, NoModel)
    /\ synced' = [synced EXCEPT ![id] = @ /\ what = "update"]
    /\ UNCHANGED rowVars

TriggerAdd(id, on) ==
    /\ bound
    /\ row[id] = 0
    /\ Save(id, on)
    /\ Spawn(id, "add", [version |-> 1, on |-> on])
    /\ synced' = [synced EXCEPT ![id] = TRUE]

TriggerUpdate(id, on) ==
    /\ bound
    /\ Exists(id)
    /\ Save(id, on)
    /\ Spawn(id, "update", NoModel)
    /\ synced' = [synced EXCEPT ![id] = TRUE]

TriggerDelete(id) ==
    /\ bound
    /\ Drop(id)
    /\ Spawn(id, "remove", NoModel)
    /\ synced' = [synced EXCEPT ![id] = TRUE]

Event ==
    /\ triggerCounter < MaxCounter
    /\ \E id \in Ids :
         \/ \E on \in BOOLEAN : Write(id, on) \/ TriggerAdd(id, on) \/ TriggerUpdate(id, on)
         \/ Enable(id)
         \/ Disable(id)
         \/ Delete(id)
         \/ TriggerDelete(id)
         \/ \E what \in {"update", "remove"} : PushCommand(id, what)
    /\ UNCHANGED <<managerVars, mu, mainVars, objectVars>>

-----------------------------------------------------------------------------
(* removeTrigger: lock, look up, Stop, delete, unlock                      *)

RemoveLock(p) ==
    /\ proc[p].at = "remove"
    /\ mu = None
    /\ LET o == triggers[proc[p].id] IN
         IF o = None
           THEN ReturnFromRemove(p) /\ UNCHANGED mu
           ELSE /\ mu' = p
                /\ proc' = [proc EXCEPT ![p].at = "stop_bus", ![p].obj = o]
    /\ UNCHANGED <<rowVars, managerVars, mainVars, objectVars, historyVars>>

StopBus(p) ==
    /\ proc[p].at = "stop_bus"
    /\ onBus' = [onBus EXCEPT ![proc[p].obj] = FALSE]
    /\ Goto(p, "stop_plugin")
    /\ UNCHANGED <<rowVars, managerVars, mu, mainVars, version, subs, plugged, historyVars>>

\* Mutant of StopPlugin: the subscribers stay at the plugin.
StopPluginNot(p) ==
    /\ proc[p].at = "stop_plugin"
    /\ Goto(p, "delete")
    /\ UNCHANGED <<rowVars, managerVars, mu, mainVars, objectVars, historyVars>>

\* Stop unsubscribes the subscribers Start has made by now.  The time plugin
\* tells them apart by the code of their handlers, which all triggers share,
\* so those of other triggers with the same schedule go with them.
StopPlugin(p) ==
    /\ proc[p].at = "stop_plugin"
    /\ IF subs[proc[p].obj]
         THEN \E off \in SUBSET Objects :
                /\ proc[p].obj \in off
                /\ plugged' = [o \in Objects |-> plugged[o] /\ o \notin off]
         ELSE UNCHANGED plugged
    /\ Goto(p, "delete")
    /\ UNCHANGED <<rowVars, managerVars, mu, mainVars, version, subs, onBus, historyVars>>

DeleteUnlock(p) ==
    /\ proc[p].at = "delete"
    /\ triggers' = [triggers EXCEPT ![proc[p].id] = None]
    /\ triggerCounter' = triggerCounter - 1
    /\ mu' = None
    /\ ReturnFromRemove(p)
    /\ UNCHANGED <<rowVars, mainVars, objectVars, historyVars>>

-----------------------------------------------------------------------------
(* updateTrigger reads the row again; addTrigger                           *)

Fetch(p) ==
    /\ proc[p].at = "fetch"
    /\ LET id == proc[p].id IN
         \/ /\ Exists(id)
            /\ proc' = [proc EXCEPT ![p].at = "check", ![p].version = row[id],
                                    ![p].on = rowEnabled[id]]
            /\ UNCHANGED synced
         \/ \* no such row, or the query failed
            /\ proc' = [proc EXCEPT ![p] = Rest]
            /\ synced' = [synced EXCEPT ![id] = @ /\ ~Exists(id)]
    /\ UNCHANGED <<rowVars, managerVars, mu, mainVars, objectVars, overlapped>>

\* addTrigger finds the id in the map, which it reads without the mutex.
CheckExist(p) ==
    /\ proc[p].at = "check"
    /\ triggers[proc[p].id] # None
    /\ ReturnFromAdd(p)
    /\ UNCHANGED <<rowVars, managerVars, mu, mainVars, objectVars, historyVars>>

\* A model that is not enabled is counted and not loaded.
CheckDisabled(p) ==
    /\ proc[p].at = "check"
    /\ triggers[proc[p].id] = None
    /\ ~proc[p].on
    /\ triggerCounter' = triggerCounter + 1
    /\ ReturnFromAdd(p)
    /\ UNCHANGED <<rowVars, triggers, mu, mainVars, objectVars, historyVars>>

\* NewTrigger makes the object, or fails: the plugin has no such trigger.
CheckNew(p) ==
    /\ proc[p].at = "check"
    /\ triggers[proc[p].id] = None
    /\ proc[p].on
    /\ \/ \E o \in Objects :
            /\ Garbage(o)
            /\ version' = [version EXCEPT ![o] = [id |-> proc[p].id,
                                                  version |-> proc[p].version]]
            /\ subs' = [subs EXCEPT ![o] = FALSE]
            /\ proc' = [proc EXCEPT ![p].at = "store", ![p].obj = o]
            /\ UNCHANGED synced
       \/ /\ ReturnFromAdd(p)
          /\ synced' = [synced EXCEPT ![proc[p].id] = FALSE]
          /\ UNCHANGED <<version, subs>>
    /\ UNCHANGED <<rowVars, managerVars, mu, mainVars, plugged, onBus, overlapped>>

StoreTrigger(p) ==
    /\ proc[p].at = "store"
    /\ mu = None
    /\ triggers' = [triggers EXCEPT ![proc[p].id] = proc[p].obj]
    /\ Goto(p, "start")
    /\ UNCHANGED <<rowVars, triggerCounter, mu, mainVars, objectVars, historyVars>>

\* Start appends the subscribers, subscribes them at the plugin, and then
\* subscribes to the bus.
StartSubscribers(p) ==
    /\ proc[p].at = "start"
    /\ subs' = [subs EXCEPT ![proc[p].obj] = TRUE]
    /\ Goto(p, "start_plugin")
    /\ UNCHANGED <<rowVars, managerVars, mu, mainVars, version, plugged, onBus, historyVars>>

\* The plugin may refuse them; the error is dropped and the start goes on.
StartPlugin(p) ==
    /\ proc[p].at = "start_plugin"
    /\ \E ok \in BOOLEAN : plugged' = [plugged EXCEPT ![proc[p].obj] = ok]
    /\ Goto(p, "start_bus")
    /\ UNCHANGED <<rowVars, managerVars, mu, mainVars, version, subs, onBus, historyVars>>

StartBus(p) ==
    /\ proc[p].at = "start_bus"
    /\ onBus' = [onBus EXCEPT ![proc[p].obj] = TRUE]
    /\ Goto(p, "count")
    /\ UNCHANGED <<rowVars, managerVars, mu, mainVars, version, subs, plugged, historyVars>>

\* Mutant of Count: the deferred increment is left out.
CountNot(p) ==
    /\ proc[p].at = "count"
    /\ ReturnFromAdd(p)
    /\ UNCHANGED <<rowVars, managerVars, mu, mainVars, objectVars, historyVars>>

Count(p) ==
    /\ proc[p].at = "count"
    /\ triggerCounter' = triggerCounter + 1
    /\ ReturnFromAdd(p)
    /\ UNCHANGED <<rowVars, triggers, mu, mainVars, objectVars, historyVars>>

Step(p) ==
    \/ RemoveLock(p)
    \/ StopBus(p)
    \/ StopPlugin(p)
    \/ DeleteUnlock(p)
    \/ Fetch(p)
    \/ CheckExist(p)
    \/ CheckDisabled(p)
    \/ CheckNew(p)
    \/ StoreTrigger(p)
    \/ StartSubscribers(p)
    \/ StartPlugin(p)
    \/ StartBus(p)
    \/ Count(p)

-----------------------------------------------------------------------------
(* Start and Shutdown of the manager                                       *)

\* load: the enabled rows, or a failed query.
Load ==
    /\ proc[Main].at = "down"
    /\ IF isStarted
         THEN Goto(Main, "subscribe") /\ UNCHANGED <<todo, synced>>
         ELSE \/ /\ todo' = {[id |-> id, version |-> row[id]] :
                               id \in {i \in Ids : Exists(i) /\ rowEnabled[i]}}
                 /\ synced' = [id \in Ids |-> synced[id] \/ (triggers[id] = None /\ Quiet(id))]
                 /\ Goto(Main, "loading")
              \/ /\ synced' = [id \in Ids |-> FALSE]
                 /\ Goto(Main, "subscribe")
                 /\ UNCHANGED todo
    /\ UNCHANGED <<rowVars, managerVars, mu, isStarted, subscribed, bound, objectVars,
                   overlapped>>

\* addTrigger for a row of the list, even if it has changed since.  To meet
\* a trigger a job of an earlier run left in the map counts as an overlap.
LoadNext(model) ==
    /\ proc[Main].at = "loading"
    /\ model \in todo
    /\ todo' = todo \ {model}
    /\ proc' = [proc EXCEPT ![Main] = [at |-> "check", id |-> model.id, op |-> "add",
                                       version |-> model.version, on |-> TRUE, obj |-> None]]
    /\ overlapped' = [overlapped EXCEPT ![model.id] =
                        @ \/ (\E j \in Jobs : Busy(j, model.id)) \/ triggers[model.id] # None]
    /\ UNCHANGED <<rowVars, managerVars, mu, isStarted, subscribed, bound, objectVars, synced>>

LoadEnd ==
    /\ proc[Main].at = "loading"
    /\ todo = {}
    /\ bound' = TRUE
    /\ Goto(Main, "subscribe")
    /\ UNCHANGED <<rowVars, managerVars, mu, isStarted, subscribed, todo, objectVars,
                   historyVars>>

\* isStarted is set even if load failed.
Subscribe ==
    /\ proc[Main].at = "subscribe"
    /\ subscribed' = TRUE
    /\ isStarted' = TRUE
    /\ Goto(Main, "up")
    /\ UNCHANGED <<rowVars, managerVars, mu, bound, todo, objectVars, historyVars>>

\* unload ranges over the map while jobs may add to it.
Shutdown ==
    /\ proc[Main].at = "up"
    /\ IF isStarted
         THEN /\ \E late \in SUBSET (Ids \ Loaded) :
                   todo' = {[id |-> id, version |-> 0] : id \in Loaded \cup late}
              /\ Goto(Main, "unloading")
         ELSE Goto(Main, "unsubscribe") /\ UNCHANGED todo
    /\ UNCHANGED <<rowVars, managerVars, mu, isStarted, subscribed, bound, objectVars,
                   historyVars>>

UnloadNext(model) ==
    /\ proc[Main].at = "unloading"
    /\ model \in todo
    /\ todo' = todo \ {model}
    /\ proc' = [proc EXCEPT ![Main].at = "remove", ![Main].id = model.id]
    /\ overlapped' = [overlapped EXCEPT ![model.id] = @ \/ \E j \in Jobs : Busy(j, model.id)]
    /\ synced' = [synced EXCEPT ![model.id] = FALSE]
    /\ UNCHANGED <<rowVars, managerVars, mu, isStarted, subscribed, bound, objectVars>>

UnloadEnd ==
    /\ proc[Main].at = "unloading"
    /\ todo = {}
    /\ isStarted' = FALSE
    /\ Goto(Main, "unsubscribe")
    /\ UNCHANGED <<rowVars, managerVars, mu, subscribed, bound, todo, objectVars, historyVars>>

Unsubscribe ==
    /\ proc[Main].at = "unsubscribe"
    /\ subscribed' = FALSE
    /\ Goto(Main, "down")
    /\ UNCHANGED <<rowVars, managerVars, mu, isStarted, bound, todo, objectVars, historyVars>>

MainStep ==
    \/ Load
    \/ \E model \in todo : LoadNext(model) \/ UnloadNext(model)
    \/ LoadEnd
    \/ Subscribe
    \/ Shutdown
    \/ UnloadEnd
    \/ Unsubscribe

-----------------------------------------------------------------------------
(* Steps at which the Go runtime ends the process                          *)

Reads(p) == proc[p].at = "check" \/ (p = Main /\ proc[p].at = "unloading")
Writes(p) == (proc[p].at = "store" /\ mu = None) \/ proc[p].at = "delete"

\* addTrigger looks into the map, and unload ranges over it, without the
\* mutex: Go may notice that another goroutine writes it.
MapRace == \E p, q \in Procs : p # q /\ Reads(p) /\ Writes(q)

\* The time plugin's Unsubscribe dereferences a schedule that is not there,
\* the case in which Subscribe only returned an error.
NoSchedule == \E p \in Procs :
    proc[p].at = "stop_plugin" /\ subs[proc[p].obj] /\ ~plugged[proc[p].obj]

Fatal ==
    /\ ~crashed
    /\ MapRace \/ NoSchedule
    /\ crashed' = TRUE
    /\ UNCHANGED stateVars

Ended == crashed /\ UNCHANGED vars

Work ==
    \/ Event
    \/ \E p \in Procs : Step(p)
    \/ MainStep

Next ==
    \/ ~crashed /\ Work /\ UNCHANGED crashed
    \/ Fatal
    \/ Ended

Spec == Init /\ [][Next]_vars

-----------------------------------------------------------------------------
\* The processes that stored a trigger and have yet to count it.
Starting == {p \in Procs : proc[p].at \in {"start", "start_plugin", "start_bus", "count"}}

\* Every entry of the map has been counted or is about to be, whatever
\* overlaps: the counter lags behind by the triggers being started at most
\* (addTrigger counts last, removeTrigger with the deletion).
CounterCoversMap == Cardinality(Loaded) <= triggerCounter + Cardinality(Starting)

\* As long as the calls for a trigger do not overlap, the object that fires
\* or listens is the one in the map, or one that Stop is taking apart.
OneLiveTrigger ==
    \A o \in Objects :
        LET id == version[o].id IN
        (plugged[o] \/ onBus[o]) /\ ~overlapped[id] => triggers[id] = o

\* When the last change of the row reached the manager, and calls for the
\* trigger did not overlap, it is loaded at rest exactly if the row is
\* enabled, in the row's version, and listens on the bus.  That it is
\* subscribed at the plugin is not promised: StartPlugin drops an error and
\* StopPlugin of another trigger may undo it.
InSync ==
    \A id \in Ids :
        subscribed /\ synced[id] /\ ~overlapped[id] /\ Quiet(id) =>
            IF Exists(id) /\ rowEnabled[id]
              THEN \E o \in Objects :
                     triggers[id] = o /\ version[o].version = row[id] /\ onBus[o]
              ELSE triggers[id] = None
=============================================================================
