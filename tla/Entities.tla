------------------------------ MODULE Entities ------------------------------
(***************************************************************************)
(* An entity between its row and its actor: the supervisor's handlers of   *)
(* entity, plugin and script events (internal/system/supervisor), and the  *)
(* map of actors of the entity's plugin (pkg/plugins).                     *)
(*                                                                         *)
(* eventHandler starts a goroutine (a job) for every event, and nothing    *)
(* but the maps' own locks orders the jobs.  Entities share no state, so   *)
(* the module follows one, which uses one script; its actor is live from   *)
(* its constructor, which subscribes the watchers of its scripts, to       *)
(* StopWatchers and Destroy.  An actor nobody refers to any more is used   *)
(* again.  MaxVersion bounds the writes of the row, MaxPending the         *)
(* handlers of loaded and unloaded events under way.                       *)
(*                                                                         *)
(* Left out: Spawn, with which AddActor starts what the plugin's own actor *)
(* does after it is stored, and that Go may end the process where          *)
(* eventUpdatedScript and eventScriptDeleted look at eventScriptSubs       *)
(* without its mutex while Watch or Forget writes it.                      *)
(***************************************************************************)
EXTENDS Naturals

CONSTANTS
    Actors,     \* actor objects
    Jobs,       \* goroutines started by eventHandler
    None,
    MaxVersion,
    MaxPending

ASSUME ConstantsAssumption ==
    /\ None \notin Actors
    /\ MaxVersion \in Nat \ {0}
    /\ MaxPending \in Nat

VARIABLES
    row,        \* version, 0 if there is no row, and auto_load
    written,    \* the number of versions written
    enabled,    \* enabledPlugins has the plugin
    actor,      \* the entity's entry in the plugin's Actors, or None
    live,       \* the actors that are live
    made,       \* actor -> version of the model it was made from
    job,        \* job -> its step and what it works on
    watches,    \* handlers of EventEntityLoaded under way
    forgets,    \* handlers of EventEntityUnloaded under way
    watched,    \* eventScriptSubs has the entity
    inTurn,     \* history: each loaded or unloaded event found the last one handled
    kept,       \* history: no removal was under way at the last Store or since
    calm        \* history: jobs for the last version were under way one by one

rowVars == <<row, written>>
mapVars == <<actor, live, made>>
watchVars == <<watches, forgets, watched>>
history == <<kept, calm, inTurn>>
vars == <<rowVars, enabled, mapVars, job, watchVars, history>>

NoRow == [version |-> 0, auto |-> FALSE]
Exists == row.version > 0

Rest == [at |-> "idle", op |-> "add", version |-> 0, new |-> None, old |-> None]

AllIdle == \A j \in Jobs : job[j].at = "idle"

\* Jobs that remove the actor for good.
Removing(j) == job[j].at # "idle" /\ job[j].op \in {"unload", "unplug"}

Garbage(o) ==
    /\ o \notin live
    /\ o # actor
    /\ \A j \in Jobs : o \notin {job[j].new, job[j].old}

Init ==
    /\ row \in {NoRow, [version |-> 1, auto |-> TRUE]}
    /\ written = row.version
    /\ enabled = FALSE
    /\ actor = None
    /\ live = {}
    /\ made = [o \in Actors |-> 0]
    /\ job = [j \in Jobs |-> Rest]
    /\ watches = 0
    /\ forgets = 0
    /\ watched = FALSE
    /\ kept = FALSE
    /\ calm = FALSE
    /\ inTurn = TRUE

-----------------------------------------------------------------------------
(* Events, and the row they are about.                                      *)

\* eventHandler starts a job: add reads the row, unload does not.
Start(op) ==
    /\ \E j \in Jobs :
         /\ job[j] = Rest
         /\ job' = [job EXCEPT ![j].at = IF op = "add" THEN "fetch" ELSE "plugin", ![j].op = op]
    /\ kept' = (kept /\ op = "add")

Write(auto) ==
    /\ written < MaxVersion
    /\ written' = written + 1
    /\ row' = [version |-> written', auto |-> auto]
    /\ calm' = AllIdle

\* EntityEndpoint.Add, Import
Create(auto) ==
    /\ ~Exists
    /\ Write(auto)
    /\ Start("add")

\* EntityEndpoint.Update
Update(auto) ==
    /\ Exists
    /\ Write(auto)
    /\ Start("add")

Enable ==
    /\ Exists
    /\ row' = [row EXCEPT !.auto = TRUE]
    /\ calm' = (calm /\ AllIdle)
    /\ UNCHANGED written
    /\ Start("add")

Disable ==
    /\ Exists
    /\ row' = [row EXCEPT !.auto = FALSE]
    /\ calm' = (calm /\ AllIdle)
    /\ UNCHANGED written
    /\ Start("unload")

Delete ==
    /\ Exists
    /\ row' = NoRow
    /\ calm' = AllIdle
    /\ UNCHANGED written
    /\ Start("unload")

\* ReloadEntity, and the commands scripts push to load and unload.
Command(op) ==
    /\ calm' = (calm /\ AllIdle)
    /\ UNCHANGED rowVars
    /\ Start(op)

\* The script changed: the entity is updated if eventScriptSubs has it;
\* the script was removed: the entity is unloaded.
ScriptEvent(op) == watched /\ Command(op)

Event ==
    /\ \/ \E auto \in BOOLEAN : Create(auto) \/ Update(auto)
       \/ Enable
       \/ Disable
       \/ Delete
       \/ \E op \in {"add", "unload"} : Command(op) \/ ScriptEvent(op)
    /\ UNCHANGED <<enabled, mapVars, watchVars, inTurn>>

\* A plugin that is loaded publishes so, and its entities are added.
PluginLoad ==
    /\ ~enabled
    /\ enabled' = TRUE
    /\ Command("add")
    /\ UNCHANGED <<mapVars, watchVars, inTurn>>

\* unloadPlugin, one at a time, starts to range over Actors.
PluginUnload ==
    /\ enabled
    /\ \A j \in Jobs : job[j].op # "unplug"
    /\ \E j \in Jobs :
         /\ job[j] = Rest
         /\ job' = [job EXCEPT ![j].at = "remove", ![j].op = "unplug"]
    /\ kept' = FALSE
    /\ calm' = (calm /\ AllIdle)
    /\ UNCHANGED <<rowVars, enabled, mapVars, watchVars, inTurn>>

-----------------------------------------------------------------------------
(* The jobs.                                                                *)

Goto(j, step) == job' = [job EXCEPT ![j].at = step]
End(j) == job' = [job EXCEPT ![j] = Rest]

Published == inTurn' = (inTurn /\ watches = 0 /\ forgets = 0)

\* The row is read again; without it, or without auto_load, nothing is done.
Fetch(j) ==
    /\ job[j].at = "fetch"
    /\ IF Exists /\ row.auto
         THEN job' = [job EXCEPT ![j].at = "plugin", ![j].version = row.version]
         ELSE End(j)
    /\ UNCHANGED <<rowVars, enabled, mapVars, watchVars, history>>

PluginMissing(j) ==
    /\ job[j].at = "plugin"
    /\ ~enabled
    /\ End(j)
    /\ UNCHANGED <<rowVars, enabled, mapVars, watchVars, history>>

\* AddOrUpdateActor begins with the constructor, which may fail.
Construct(j) ==
    /\ job[j].at = "plugin"
    /\ enabled
    /\ job[j].op = "add"
    /\ \/ \E o \in Actors :
            /\ Garbage(o)
            /\ live' = live \cup {o}
            /\ made' = [made EXCEPT ![o] = job[j].version]
            /\ job' = [job EXCEPT ![j].at = "look", ![j].new = o]
            /\ UNCHANGED calm
       \/ End(j) /\ calm' = FALSE /\ UNCHANGED <<live, made>>
    /\ UNCHANGED <<rowVars, enabled, actor, watchVars, kept, inTurn>>

StartUnload(j) ==
    /\ job[j].at = "plugin"
    /\ enabled
    /\ job[j].op = "unload"
    /\ Goto(j, "remove")
    /\ UNCHANGED <<rowVars, enabled, mapVars, watchVars, history>>

\* Mutant of Look: an entity that is loaded is left as it is.
LookAndLeave(j) ==
    /\ job[j].at = "look"
    /\ IF actor = None
         THEN Goto(j, "store") /\ UNCHANGED live
         ELSE End(j) /\ live' = live \ {job[j].new}
    /\ UNCHANGED <<rowVars, enabled, actor, made, watchVars, history>>

Look(j) ==
    /\ job[j].at = "look"
    /\ Goto(j, IF actor = None THEN "store" ELSE "remove")
    /\ UNCHANGED <<rowVars, enabled, mapVars, watchVars, history>>

\* Where a job goes on when the actor is removed: AddOrUpdateActor stores the
\* new one, unloadPlugin marks the plugin.
Removed(j) ==
    IF job[j].op = "unload" THEN Rest
    ELSE [job[j] EXCEPT !.at = IF job[j].op = "add" THEN "store" ELSE "unplug", !.old = None]

\* Mutant of Remove: the actor is stopped without asking whether it is there.
RemoveUnchecked(j) ==
    /\ job[j].at = "remove"
    /\ job' = [job EXCEPT ![j].at = "stop", ![j].old = actor]
    /\ UNCHANGED <<rowVars, enabled, mapVars, watchVars, history>>

\* RemoveActor loads the actor, and so does Range: which one is stopped.
Remove(j) ==
    /\ job[j].at = "remove"
    /\ job' = [job EXCEPT ![j] =
         IF actor = None THEN Removed(j) ELSE [@ EXCEPT !.at = "stop", !.old = actor]]
    /\ UNCHANGED <<rowVars, enabled, mapVars, watchVars, history>>

\* Mutant of Stop: unloading ends once the actor is destroyed.
StopOnly(j) ==
    /\ job[j].at = "stop"
    /\ live' = live \ {job[j].old}
    /\ IF job[j].op = "unload" THEN End(j) ELSE Goto(j, "delete")
    /\ UNCHANGED <<rowVars, enabled, actor, made, watchVars, history>>

\* StopWatchers and Destroy; the actor may have been stopped already.
Stop(j) ==
    /\ job[j].at = "stop"
    /\ live' = live \ {job[j].old}
    /\ Goto(j, "delete")
    /\ UNCHANGED <<rowVars, enabled, actor, made, watchVars, history>>

\* Mutant of DeleteActor: only an update tells that the actor is gone.
DeleteQuietly(j) ==
    /\ job[j].at = "delete"
    /\ forgets < MaxPending
    /\ actor' = None
    /\ IF job[j].op = "add"
         THEN forgets' = forgets + 1 /\ Published
         ELSE UNCHANGED <<forgets, inTurn>>
    /\ job' = [job EXCEPT ![j] = Removed(j)]
    /\ UNCHANGED <<rowVars, enabled, live, made, watches, watched, kept, calm>>

\* Actors.Delete takes the entity's id: the actor that is there is lost, the
\* one that was stopped or another.  EventEntityUnloaded is published.
DeleteActor(j) ==
    /\ job[j].at = "delete"
    /\ forgets < MaxPending
    /\ actor' = None
    /\ forgets' = forgets + 1
    /\ Published
    /\ job' = [job EXCEPT ![j] = Removed(j)]
    /\ UNCHANGED <<rowVars, enabled, live, made, watches, watched, kept, calm>>

\* enabledPlugins.Store(name, false)
Unplug(j) ==
    /\ job[j].at = "unplug"
    /\ enabled' = FALSE
    /\ End(j)
    /\ UNCHANGED <<rowVars, mapVars, watchVars, history>>

StoreActor(j) ==
    /\ actor' = job[j].new
    /\ kept' = ~\E i \in Jobs : Removing(i)
    /\ job' = [job EXCEPT ![j].at = "loaded"]
    /\ UNCHANGED live

\* Mutant of Store: what can fail in an update comes after the removal.
StoreOrFail(j) ==
    /\ job[j].at = "store"
    /\ \/ StoreActor(j)
       \/ End(j) /\ live' = live \ {job[j].new} /\ UNCHANGED <<actor, kept>>
    /\ UNCHANGED <<rowVars, enabled, made, watchVars, calm, inTurn>>

\* Actors.Store, whatever was there.
Store(j) ==
    /\ job[j].at = "store"
    /\ StoreActor(j)
    /\ UNCHANGED <<rowVars, enabled, made, watchVars, calm, inTurn>>

\* EventEntityLoaded is published.
Loaded(j) ==
    /\ job[j].at = "loaded"
    /\ watches < MaxPending
    /\ watches' = watches + 1
    /\ Published
    /\ Goto(j, "check")
    /\ UNCHANGED <<rowVars, enabled, mapVars, forgets, watched, kept, calm>>

\* AddActor ends by adding the row if there is none, from the job's model.
CheckRow(j) ==
    /\ job[j].at = "check"
    /\ row' = IF Exists THEN row ELSE [version |-> job[j].version, auto |-> TRUE]
    /\ End(j)
    /\ UNCHANGED <<written, enabled, mapVars, watchVars, history>>

Step(j) ==
    \/ Fetch(j) \/ PluginMissing(j)
    \/ Construct(j) \/ Look(j) \/ Store(j) \/ Loaded(j) \/ CheckRow(j)
    \/ StartUnload(j) \/ Remove(j) \/ Stop(j) \/ DeleteActor(j) \/ Unplug(j)

-----------------------------------------------------------------------------
(* The handlers of the entity's own events, each a goroutine that takes     *)
(* eventScriptSubsMx.                                                       *)

\* updateScriptWatcher
Watch ==
    /\ watches > 0
    /\ watches' = watches - 1
    /\ watched' = (watched \/ Exists)
    /\ UNCHANGED <<rowVars, enabled, mapVars, job, forgets, history>>

\* eventEntityUnloaded
Forget ==
    /\ forgets > 0
    /\ forgets' = forgets - 1
    /\ watched' = FALSE
    /\ UNCHANGED <<rowVars, enabled, mapVars, job, watches, history>>

Next ==
    \/ Event \/ PluginLoad \/ PluginUnload
    \/ \E j \in Jobs : Step(j)
    \/ Watch \/ Forget

Spec == Init /\ [][Next]_vars

-----------------------------------------------------------------------------
(* Properties.                                                              *)

Steps == {"idle", "fetch", "plugin", "look", "remove", "stop", "delete",
          "store", "loaded", "check", "unplug"}

JobState ==
    [at : Steps, op : {"add", "unload", "unplug"}, version : 0..MaxVersion,
     new : Actors \cup {None}, old : Actors \cup {None}]

\* A job that adds holds the actor it made from its constructor on, a job that
\* stops an actor holds that one.
JobFits(j) ==
    /\ job[j].at = "idle" => job[j] = Rest
    /\ job[j].at \in {"look", "store", "loaded", "check"} => job[j].op = "add"
    /\ job[j].new \in Actors <=>
         job[j].op = "add" /\ job[j].at \notin {"idle", "fetch", "plugin"}
    /\ job[j].old \in Actors <=> job[j].at \in {"stop", "delete"}

\* Every variable has its type, and a job holds the actors its step needs.
TypeOK ==
    /\ row \in [version : 0..MaxVersion, auto : BOOLEAN]
    /\ written \in 0..MaxVersion
    /\ enabled \in BOOLEAN
    /\ actor \in Actors \cup {None}
    /\ live \subseteq Actors
    /\ made \in [Actors -> 0..MaxVersion]
    /\ job \in [Jobs -> JobState]
    /\ \A j \in Jobs : JobFits(j)
    /\ watches \in 0..MaxPending
    /\ forgets \in 0..MaxPending
    /\ watched \in BOOLEAN
    /\ kept \in BOOLEAN
    /\ calm \in BOOLEAN
    /\ inTurn \in BOOLEAN

\* Updates never lose the entity: once its actor is stored and nothing that
\* unloads it is started, there is an actor in the map or a job that is about
\* to store one, however the updates' removals, which delete by id, interleave
\* (AddOrUpdateActor, RemoveActor).
KeepsLoaded ==
    kept => \/ actor # None
            \/ \E j \in Jobs : job[j].at = "store"

\* The map holds no destroyed actor but one a removal is about to delete: a
\* reader of Actors meets a dead actor only between Destroy and Actors.Delete
\* (removePluginActor).
DeadIsLeaving ==
    actor \in Actors \ live => \E j \in Jobs : job[j].at = "delete" /\ job[j].old = actor

\* What KeepsLoaded rests on: while kept, no job removes the actor for good.
NoRemoval == kept => \A j \in Jobs : ~Removing(j)

\* What DeadIsLeaving rests on: an actor that is made and not yet stored is
\* live, is not in the map, and no other job has it or removes it.
MadeNotStored(j) ==
    job[j].op = "add" /\ job[j].at \in {"look", "remove", "stop", "delete", "store"}

Unstored ==
    \A j \in Jobs : MadeNotStored(j) =>
        /\ job[j].new \in live \ {actor}
        /\ \A i \in Jobs :
             /\ job[i].old # job[j].new
             /\ i # j => job[i].new # job[j].new

\* When the jobs about the last version came one at a time and are done, the
\* actor that is loaded was made from the last version of the row, and the
\* row is one the entity is loaded from (updatedEntityById, AddOrUpdateActor).
LoadedIsFresh ==
    (calm /\ AllIdle /\ Exists /\ row.auto /\ enabled /\ actor # None) =>
        made[actor] = row.version /\ actor \in live

\* When the jobs about the last version came one at a time, each event of the
\* entity was handled before the next, and all are done, the scripts of the
\* entity are watched exactly if it is loaded (updateScriptWatcher,
\* eventEntityUnloaded): only handlers out of turn lose a watch or leave one.
WatchedIfLoaded ==
    (calm /\ inTurn /\ AllIdle /\ watches = 0 /\ forgets = 0 /\ Exists /\ row.auto /\ enabled) =>
        (watched <=> actor # None)
=============================================================================
