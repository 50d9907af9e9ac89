--------------------------- MODULE PluginManager ---------------------------
(***************************************************************************)
(* The plugin manager of internal/system/supervisor: which plugins are     *)
(* loaded, the wait group Shutdown waits on, and the rows of the plugins,  *)
(* under the HTTP requests that enable, disable and configure them.        *)
(*                                                                         *)
(* No lock is held: a request, the goroutine of each plugin that Start     *)
(* loads, and Shutdown take their steps in any order.  A panic in a        *)
(* request is recovered by the HTTP server; one in Shutdown ends the       *)
(* process.  External plugins are off (GoPluginsEnabled), every plugin has *)
(* a row and is registered.                                                *)
(***************************************************************************)
EXTENDS Integers, FiniteSets

CONSTANTS
    Plugins,
    Calls,      \* HTTP requests
    Stopper,    \* the hook that calls Shutdown
    Settings,   \* values of a plugin's settings
    Initially   \* the settings of every row at the start

ASSUME PluginsAssumption ==
    /\ IsFiniteSet(Plugins) /\ IsFiniteSet(Calls)
    /\ Plugins \cap Calls = {}
    /\ Stopper \notin Plugins \cup Calls
    /\ Initially \in Settings

\* The goroutine in which Start loads a plugin is named by the plugin.
Workers == Plugins \cup Calls \cup {Stopper}

Rows == [enabled : BOOLEAN, settings : Settings]

VARIABLES
    manager,    \* isStarted: "new", "started", "stopping", "stopped", or "crashed"
    row,        \* plugin -> its row
    started,    \* plugins whose IsStarted is set
    enabled,    \* plugins that enabledPlugins says are loaded
    waiting,    \* the counter of pluginsWg
    unvisited,  \* plugins Shutdown's Range has not come to
    worker,     \* worker -> [call, at, plugin, copy]: copy is the row it read
    overlapped, \* history: plugins whose unload overlapped a load or an unload
    doubled,    \* history: plugins unloaded twice at once, or before their Add
    failed,     \* history: plugins whose Load failed after the swap
    late        \* history: plugins that were loaded after Shutdown began

managerVars == <<manager, row, started, enabled, waiting, unvisited>>
history == <<overlapped, doubled, failed, late>>
pluginVars == <<managerVars, worker, history>>

Idle == [call |-> "none", at |-> "idle", plugin |-> "none",
         copy |-> [enabled |-> FALSE, settings |-> Initially]]

PluginsInit ==
    /\ manager = "new"
    /\ row \in [Plugins -> [enabled : BOOLEAN, settings : {Initially}]]
    /\ started = {}
    /\ enabled = {}
    /\ waiting = 0
    /\ unvisited = {}
    /\ worker = [w \in Workers |-> Idle]
    /\ overlapped = {}
    /\ doubled = {}
    /\ failed = {}
    /\ late = {}

At(w, place) == worker[w].at = place
Of(w) == worker[w].plugin

\* What a call that is done held means nothing any more.
Move(w, place) ==
    worker' = [worker EXCEPT ![w] =
        IF place = "done" THEN [Idle EXCEPT !.at = "done"] ELSE [@ EXCEPT !.at = place]]
Copy(w, place, r) == worker' = [worker EXCEPT ![w].at = place, ![w].copy = r]

Loading(w) == worker[w].at \in {"load", "store", "add"}
Unloading(w) == worker[w].at \in {"unload", "clear", "release"}
Others(w) == {v \in Workers \ {w} : Of(v) = Of(w)}

-----------------------------------------------------------------------------
(* loadPlugin.                                                              *)

\* PluginIsLoaded lets the load go on or refuses it.
CheckLoad(w) ==
    /\ At(w, "checkLoad")
    /\ Move(w, IF Of(w) \in enabled THEN "done" ELSE "load")
    /\ overlapped' = IF Of(w) \notin enabled /\ \E v \in Others(w) : Unloading(v)
                     THEN overlapped \cup {Of(w)} ELSE overlapped
    /\ UNCHANGED <<managerVars, doubled, failed, late>>

\* Mutant of Load: the plugin does not look whether it was started.
LoadAnyway(w, ok) ==
    /\ At(w, "load")
    /\ started' = started \cup {Of(w)}
    /\ Move(w, IF ok THEN "store" ELSE "done")
    /\ failed' = IF ok THEN failed ELSE failed \cup {Of(w)}
    /\ UNCHANGED <<manager, row, enabled, waiting, unvisited, overlapped, doubled, late>>

\* The plugin's Load: the swap of IsStarted, then its own set-up, which may
\* fail and leaves IsStarted set.
Load(w, ok) ==
    /\ At(w, "load")
    /\ started' = started \cup {Of(w)}
    /\ Move(w, IF Of(w) \notin started /\ ok THEN "store" ELSE "done")
    /\ failed' = IF Of(w) \notin started /\ ~ok THEN failed \cup {Of(w)} ELSE failed
    /\ UNCHANGED <<manager, row, enabled, waiting, unvisited, overlapped, doubled, late>>

StoreLoaded(w) ==
    /\ At(w, "store")
    /\ enabled' = enabled \cup {Of(w)}
    /\ Move(w, "add")
    /\ late' = IF manager = "stopping" THEN late \cup {Of(w)} ELSE late
    /\ UNCHANGED <<manager, row, started, waiting, unvisited, overlapped, doubled, failed>>

\* pluginsWg.Add(1); EnablePlugin goes on to the row.
Add(w) ==
    /\ At(w, "add")
    /\ waiting' = waiting + 1
    /\ Move(w, IF worker[w].call = "boot" THEN "done" ELSE "saveOn")
    /\ UNCHANGED <<manager, row, started, enabled, unvisited, history>>

-----------------------------------------------------------------------------
(* unloadPlugin.                                                            *)

\* PluginIsLoaded lets the unload go on, or the call fails; Shutdown goes on
\* with its Range.
CheckUnload(w) ==
    LET p == Of(w)
        loaded == p \in enabled
    IN
    /\ At(w, "checkUnload")
    /\ Move(w, IF loaded THEN "unload" ELSE IF w = Stopper THEN "range" ELSE "done")
    /\ overlapped' = IF loaded /\ \E v \in Others(w) : Loading(v) \/ Unloading(v)
                     THEN overlapped \cup {p} ELSE overlapped
    /\ doubled' = IF loaded /\ \E v \in Others(w) : Unloading(v) \/ At(v, "add")
                  THEN doubled \cup {p} ELSE doubled
    /\ UNCHANGED <<managerVars, failed, late>>

\* Mutant of Unload: IsStarted is not reset.
UnloadKeepsStarted(w) ==
    /\ At(w, "unload")
    /\ Move(w, "clear")
    /\ UNCHANGED <<managerVars, history>>

\* The plugin's Unload, whose error is ignored.
Unload(w) ==
    /\ At(w, "unload")
    /\ started' = started \ {Of(w)}
    /\ Move(w, "clear")
    /\ UNCHANGED <<manager, row, enabled, waiting, unvisited, history>>

StoreUnloaded(w) ==
    /\ At(w, "clear")
    /\ enabled' = enabled \ {Of(w)}
    /\ Move(w, "release")
    /\ UNCHANGED <<manager, row, started, waiting, unvisited, history>>

\* Mutant of Done: Shutdown calls Done, too, for what it unloads.
DoneInShutdown(w) ==
    /\ At(w, "release")
    /\ waiting' = IF w = Stopper THEN waiting - 2 ELSE waiting - 1
    /\ manager' = IF waiting' < 0 /\ w = Stopper THEN "crashed" ELSE manager
    /\ Move(w, IF waiting' < 0 THEN "done" ELSE IF w = Stopper THEN "range" ELSE "readOff")
    /\ UNCHANGED <<row, started, enabled, unvisited, history>>

\* pluginsWg.Done(): below zero it panics.  DisablePlugin goes on to the
\* row, Shutdown with its Range.
Done(w) ==
    /\ At(w, "release")
    /\ waiting' = waiting - 1
    /\ manager' = IF waiting' < 0 /\ w = Stopper THEN "crashed" ELSE manager
    /\ Move(w, IF waiting' < 0 THEN "done" ELSE IF w = Stopper THEN "range" ELSE "readOff")
    /\ UNCHANGED <<row, started, enabled, unvisited, history>>

-----------------------------------------------------------------------------
(* EnablePlugin, DisablePlugin and UpdateSettings.                          *)

Begin(w, call, p) ==
    /\ manager \notin {"new", "crashed"}
    /\ At(w, "idle")
    /\ worker' = [worker EXCEPT ![w] =
           [Idle EXCEPT !.call = call, !.plugin = p,
                        !.at = CASE call = "enable" -> "readOn"
                                 [] call = "disable" -> "checkUnload"
                                 [] call = "settings" -> "readSettings"]]
    /\ UNCHANGED <<managerVars, history>>

\* EnablePlugin reads the row before it loads,
ReadOn(w) ==
    /\ At(w, "readOn")
    /\ Copy(w, "checkLoad", row[Of(w)])
    /\ UNCHANGED <<managerVars, history>>

\* A row's update, which may fail.
Save(w, r, ok) ==
    /\ row' = IF ok THEN [row EXCEPT ![Of(w)] = r] ELSE row
    /\ UNCHANGED <<manager, started, enabled, waiting, unvisited, history>>

\* and writes all of it afterwards.
SaveOn(w, ok) ==
    /\ At(w, "saveOn")
    /\ Save(w, [worker[w].copy EXCEPT !.enabled = TRUE], ok)
    /\ Move(w, "done")

\* DisablePlugin unloads first.
ReadOff(w) ==
    /\ At(w, "readOff")
    /\ Copy(w, "saveOff", row[Of(w)])
    /\ UNCHANGED <<managerVars, history>>

SaveOff(w, ok) ==
    /\ At(w, "saveOff")
    /\ Save(w, [worker[w].copy EXCEPT !.enabled = FALSE], ok)
    /\ Move(w, IF worker[w].call = "settings" /\ ok THEN "readOn" ELSE "done")

\* UpdateSettings writes the settings and, if the plugin is loaded, disables
\* and enables it.
ReadSettings(w, s) ==
    /\ At(w, "readSettings")
    /\ Copy(w, "saveSettings", [row[Of(w)] EXCEPT !.settings = s])
    /\ UNCHANGED <<managerVars, history>>

SaveSettings(w, ok) ==
    /\ At(w, "saveSettings")
    /\ Save(w, worker[w].copy, ok)
    /\ Move(w, IF ok THEN "checkReload" ELSE "done")

CheckReload(w) ==
    /\ At(w, "checkReload")
    /\ Move(w, IF Of(w) \in enabled THEN "checkUnload" ELSE "done")
    /\ UNCHANGED <<managerVars, history>>

-----------------------------------------------------------------------------
(* Start and Shutdown.                                                      *)

\* The rows that are enabled are loaded, each in a goroutine of its own that
\* nobody waits for.
Start ==
    /\ manager = "new"
    /\ manager' = "started"
    /\ worker' = [w \in Workers |->
           IF w \in Plugins /\ row[w].enabled
           THEN [Idle EXCEPT !.call = "boot", !.at = "checkLoad", !.plugin = w]
           ELSE worker[w]]
    /\ UNCHANGED <<row, started, enabled, waiting, unvisited, history>>

ShutdownStart ==
    /\ manager = "started"
    /\ manager' = "stopping"
    /\ unvisited' = Plugins
    /\ worker' = [worker EXCEPT ![Stopper] = [Idle EXCEPT !.call = "shutdown", !.at = "range"]]
    /\ UNCHANGED <<row, started, enabled, waiting, history>>

\* Mutant of Visit: Range stops at the first plugin that is not loaded.
VisitUntilUnloaded(p) ==
    /\ At(Stopper, "range")
    /\ p \in unvisited
    /\ unvisited' = IF p \in enabled THEN unvisited \ {p} ELSE {}
    /\ worker' = [worker EXCEPT ![Stopper].plugin = p,
                                ![Stopper].at = IF p \in enabled THEN "checkUnload" ELSE "range"]
    /\ UNCHANGED <<manager, row, started, enabled, waiting, history>>

\* Range comes to a plugin: if it is loaded it is unloaded.
Visit(p) ==
    /\ At(Stopper, "range")
    /\ p \in unvisited
    /\ unvisited' = unvisited \ {p}
    /\ worker' = [worker EXCEPT ![Stopper].plugin = p,
                                ![Stopper].at = IF p \in enabled THEN "checkUnload" ELSE "range"]
    /\ UNCHANGED <<manager, row, started, enabled, waiting, history>>

\* pluginsWg.Wait() returns.
Waited ==
    /\ At(Stopper, "range")
    /\ unvisited = {}
    /\ waiting = 0
    /\ manager' = "stopped"
    /\ Move(Stopper, "done")
    /\ UNCHANGED <<row, started, enabled, waiting, unvisited, history>>

-----------------------------------------------------------------------------
Step(w) ==
    /\ manager # "crashed"
    /\ \/ CheckLoad(w) \/ StoreLoaded(w) \/ Add(w)
       \/ CheckUnload(w) \/ Unload(w) \/ StoreUnloaded(w) \/ Done(w)
       \/ ReadOn(w) \/ ReadOff(w) \/ CheckReload(w)
       \/ \E ok \in BOOLEAN : Load(w, ok) \/ SaveOn(w, ok) \/ SaveOff(w, ok) \/ SaveSettings(w, ok)
       \/ \E s \in Settings : ReadSettings(w, s)

Stop ==
    /\ manager # "crashed"
    /\ (\E p \in Plugins : Visit(p)) \/ Waited

Ask(w) == \E call \in {"enable", "disable", "settings"}, p \in Plugins : Begin(w, call, p)

PluginsNext ==
    \/ \E w \in Workers : Step(w)
    \/ \E w \in Calls : Ask(w)
    \/ Start \/ ShutdownStart \/ Stop

PluginsSpec == PluginsInit /\ [][PluginsNext]_pluginVars

-----------------------------------------------------------------------------
PluginsTypeOK ==
    /\ manager \in {"new", "started", "stopping", "stopped", "crashed"}
    /\ row \in [Plugins -> Rows]
    /\ started \subseteq Plugins
    /\ enabled \subseteq Plugins
    /\ waiting \in Int
    /\ unvisited \subseteq Plugins
    /\ worker \in [Workers ->
           [call : {"none", "boot", "enable", "disable", "settings", "shutdown"},
            at : {"idle", "checkLoad", "load", "store", "add", "checkUnload", "unload", "clear",
                  "release", "readOn", "saveOn", "readOff", "saveOff", "readSettings",
                  "saveSettings", "checkReload", "range", "done"},
            plugin : Plugins \cup {"none"},
            copy : Rows]]
    /\ overlapped \subseteq Plugins
    /\ doubled \subseteq Plugins
    /\ failed \subseteq Plugins
    /\ late \subseteq Plugins

\* The wait group counts the plugins that are loaded, up to the calls that
\* stored one and did not add it yet, or cleared one and did not release it,
\* however loads overlap: only an unload that overlaps another call for its
\* plugin breaks it (loadPlugin, unloadPlugin).
WaitGroupCovers ==
    overlapped = {} =>
        waiting = Cardinality(enabled) - Cardinality({w \in Workers : At(w, "add")})
                                       + Cardinality({w \in Workers : At(w, "release")})

\* The counter goes below zero, which panics, only if two unloads of a
\* plugin were under way at once or an unload began between a load's Store
\* and its Add; stale checks of loads only ever make it too high.
PanicNeedsTwoUnloads == waiting < 0 => doubled # {}

\* What enabledPlugins says is loaded was started, unless it is being
\* unloaded, and what was started is loaded, unless it is being loaded or its
\* load failed; an unload that overlapped another call leaves a plugin that
\* can neither be loaded nor unloaded (Plugin.Load, Plugin.Unload).
LoadedIsStarted ==
    \A p \in Plugins \ overlapped :
        /\ p \in enabled => p \in started \/ \E w \in Workers : Of(w) = p /\ At(w, "clear")
        /\ p \in started => \/ p \in enabled \cup failed
                            \/ \E w \in Workers : Of(w) = p /\ At(w, "store")

\* Shutdown returns, unless a plugin was loaded after it began, by Start's
\* goroutine or a request, an unload that overlapped another call spoiled the
\* counter, or the process crashed (pluginManager.Shutdown).
ShutdownReturns ==
    manager = "stopping" ~>
        manager \in {"stopped", "crashed"} \/ overlapped # {} \/ late # {}
=============================================================================
