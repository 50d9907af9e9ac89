---------------------------- MODULE PluginsProofs ----------------------------
(***************************************************************************)
(* Proofs about the plugin manager, the time trigger and the event loop of *)
(* a script, for any plugins and workers, triggers and schedules, timers   *)
(* and intervals.                                                          *)
(***************************************************************************)
EXTENDS PluginManager, TimeTrigger, EventLoop, FiniteSetTheorems, TLAPS

-----------------------------------------------------------------------------
(* The plugin manager.  What is loaded was started: as long as no unload   *)
(* of a plugin overlaps another call for it, the swap of IsStarted lets    *)
(* one load at a time past it, and that one stores the plugin before       *)
(* anybody can unload it.                                                  *)

Inside(w) == Loading(w) \/ Unloading(w)

\* Whoever loads, unloads or updates has a plugin.
Named ==
    \A w \in Workers : worker[w].at \notin {"idle", "range", "done"} => Of(w) \in Plugins

\* An unload that overlaps another call is remembered.
Alone ==
    \A v, w \in Workers :
        Unloading(v) /\ Inside(w) /\ Of(v) = Of(w) /\ v # w => Of(w) \in overlapped

\* What a call found and did stays so while it is inside.
Places ==
    \A w \in Workers : Inside(w) /\ Of(w) \notin overlapped =>
        /\ At(w, "store") => Of(w) \in started \ enabled
        /\ At(w, "add") => Of(w) \in started \cap enabled
        /\ At(w, "unload") => Of(w) \in enabled
        /\ At(w, "clear") => Of(w) \in enabled \ started
        /\ At(w, "release") => Of(w) \notin enabled

\* One load at a time is past the swap.
Single ==
    \A v, w \in Workers :
        At(v, "store") /\ At(w, "store") /\ Of(v) = Of(w) /\ v # w => Of(w) \in overlapped

Fresh ==
    /\ manager = "new" => \A w \in Workers : At(w, "idle")
    /\ manager = "started" => At(Stopper, "idle")

LoadInv == PluginsTypeOK /\ Named /\ Alone /\ Places /\ Single /\ LoadedIsStarted /\ Fresh

LEMMA Initial == PluginsInit => LoadInv
  BY PluginsAssumption
     DEF PluginsInit, LoadInv, PluginsTypeOK, Named, Alone, Places, Single, LoadedIsStarted, Fresh,
         Rows, Idle, At, Of, Inside, Loading, Unloading

OutsidePlaces == {"idle", "checkLoad", "checkUnload", "readOn", "saveOn", "readOff", "saveOff",
                  "readSettings", "saveSettings", "checkReload", "range", "done"}

Calling == {"none", "boot", "enable", "disable", "settings", "shutdown"}

Jobs == [call : Calling, at : OutsidePlaces \cup {"load", "store", "add", "unload", "clear", "release"},
         plugin : Plugins \cup {"none"}, copy : Rows]

\* The part of the invariant that is about the calls.
Conduct == Named /\ Alone /\ Places /\ Single /\ LoadedIsStarted

\* A call that goes to a place outside a load or an unload, from any but
\* those that LoadedIsStarted counts on, keeps Conduct.
LEMMA Outside ==
    ASSUME LoadInv, NEW w \in Workers, NEW job \in Jobs,
           worker' = [worker EXCEPT ![w] = job],
           job.at \in OutsidePlaces,
           job.at \notin {"idle", "range", "done"} => job.plugin \in Plugins,
           worker[w].at \notin {"store", "clear"},
           UNCHANGED <<started, enabled, overlapped>>, failed \subseteq failed'
    PROVE  Conduct'
  <1>1. /\ \A v \in Workers \ {w} : worker'[v] = worker[v]
        /\ worker'[w] = job
    BY DEF LoadInv, PluginsTypeOK
  <1>2. ~Inside(w)' /\ \A v \in Workers \ {w} : /\ Of(v)' = Of(v)
                                               /\ Inside(v)' = Inside(v)
                                               /\ Unloading(v)' = Unloading(v)
    BY <1>1 DEF Inside, Loading, Unloading, Of, OutsidePlaces
  <1>3. \A v \in Workers : Unloading(v) => Inside(v)
    BY DEF Inside
  <1>4. Named'
    BY <1>1 DEF LoadInv, Named, Of
  <1>5. Alone'
    BY <1>1, <1>2, <1>3 DEF LoadInv, Alone, Inside
  <1>6. Places'
    BY <1>1, <1>2 DEF LoadInv, Places, At
  <1>7. Single'
    BY <1>1, <1>2 DEF LoadInv, Single, At, OutsidePlaces
  <1>8. LoadedIsStarted'
    <2>1. ASSUME NEW p, NEW place \in {"store", "clear"}, NEW v \in Workers,
                 Of(v) = p, At(v, place)
          PROVE  Of(v)' = p /\ At(v, place)'
      BY <1>1, <2>1 DEF At, Of
    <2> QED
      BY <2>1 DEF LoadInv, LoadedIsStarted
  <1> QED
    BY <1>4, <1>5, <1>6, <1>7, <1>8 DEF Conduct

AllPlaces == OutsidePlaces \cup {"load", "store", "add", "unload", "clear", "release"}

LEMMA MoveJob ==
    ASSUME LoadInv, NEW w \in Workers, NEW place \in AllPlaces, Move(w, place)
    PROVE  \E job \in Jobs : /\ worker' = [worker EXCEPT ![w] = job]
                             /\ job.at = place
                             /\ place # "done" => job.plugin = Of(w)
  <1> DEFINE job == IF place = "done" THEN [Idle EXCEPT !.at = "done"]
                    ELSE [worker[w] EXCEPT !.at = place]
  <1>1. worker' = [worker EXCEPT ![w] = job]
    BY DEF Move
  <1>2. CASE place = "done"
    <2>1. job = [Idle EXCEPT !.at = "done"]
      BY <1>2
    <2>2. job \in Jobs /\ job.at = place
      BY <1>2, <2>1, PluginsAssumption DEF Idle, Jobs, Rows, OutsidePlaces, Calling
    <2> QED
      BY <1>1, <1>2, <2>2
  <1>3. CASE place # "done"
    <2>1. job = [worker[w] EXCEPT !.at = place]
      BY <1>3
    <2>2. job \in Jobs /\ job.at = place /\ job.plugin = Of(w)
      BY <2>1 DEF LoadInv, PluginsTypeOK, Jobs, Of, AllPlaces, OutsidePlaces, Calling
    <2> QED
      BY <1>1, <2>2
  <1> QED
    BY <1>2, <1>3

LEMMA CopyJob ==
    ASSUME LoadInv, NEW w \in Workers, NEW place \in AllPlaces, NEW r \in Rows, Copy(w, place, r)
    PROVE  \E job \in Jobs : /\ worker' = [worker EXCEPT ![w] = job]
                             /\ job.at = place
                             /\ job.plugin = Of(w)
  <1> DEFINE job == [worker[w] EXCEPT !.at = place, !.copy = r]
  <1>1. worker' = [worker EXCEPT ![w] = job]
    BY DEF Copy
  <1>2. job \in Jobs /\ job.at = place /\ job.plugin = Of(w)
    BY DEF LoadInv, PluginsTypeOK, Jobs, Of, AllPlaces, OutsidePlaces, Calling
  <1> QED
    BY <1>1, <1>2

LEMMA JobTypes ==
    ASSUME LoadInv, NEW w \in Workers, NEW job \in Jobs, worker' = [worker EXCEPT ![w] = job]
    PROVE  worker' \in [Workers -> Jobs]
  BY DEF LoadInv, PluginsTypeOK, Jobs, OutsidePlaces, Calling

LEMMA JobTyped ==
    ASSUME manager' \in {"new", "started", "stopping", "stopped", "crashed"},
           row' \in [Plugins -> Rows],
           started' \subseteq Plugins, enabled' \subseteq Plugins, unvisited' \subseteq Plugins,
           waiting' \in Int,
           worker' \in [Workers -> Jobs],
           overlapped' \subseteq Plugins, doubled' \subseteq Plugins, failed' \subseteq Plugins,
           late' \subseteq Plugins
    PROVE  PluginsTypeOK'
  BY DEF PluginsTypeOK, Jobs, OutsidePlaces, Calling

\* A step of a call that leaves what is loaded alone and goes on outside.
LEMMA GoOutside ==
    ASSUME LoadInv, NEW w \in Workers, NEW place \in OutsidePlaces \ {"idle"},
           Move(w, place) \/ \E r \in Rows : Copy(w, place, r),
           worker[w].at \notin {"store", "clear"},
           place \in {"range", "done"} \/ worker[w].at \notin {"idle", "range", "done"},
           UNCHANGED <<started, enabled, overlapped>>, failed \subseteq failed'
    PROVE  Conduct' /\ worker' \in [Workers -> Jobs]
  <1>1. \E job \in Jobs : /\ worker' = [worker EXCEPT ![w] = job]
                          /\ job.at = place
                          /\ place # "done" => job.plugin = Of(w)
    BY MoveJob, CopyJob DEF AllPlaces
  <1>2. PICK job \in Jobs : /\ worker' = [worker EXCEPT ![w] = job]
                            /\ job.at = place
                            /\ place # "done" => job.plugin = Of(w)
    BY <1>1
  <1>3. job.at \notin {"idle", "range", "done"} => job.plugin \in Plugins
    BY <1>2 DEF LoadInv, Named
  <1> QED
    BY <1>2, <1>3, Outside, JobTypes

-----------------------------------------------------------------------------
(* The steps of loadPlugin and unloadPlugin.                                *)

\* A call that goes from place to place with its plugin.
LEMMA Inward ==
    ASSUME LoadInv, NEW w \in Workers, NEW place \in AllPlaces \ OutsidePlaces, Move(w, place)
    PROVE  /\ worker' \in [Workers -> Jobs]
           /\ worker'[w].at = place
           /\ worker'[w].plugin = Of(w)
           /\ \A v \in Workers \ {w} : worker'[v] = worker[v]
  <1>1. PICK job \in Jobs : /\ worker' = [worker EXCEPT ![w] = job]
                            /\ job.at = place
                            /\ place # "done" => job.plugin = Of(w)
    BY MoveJob
  <1>2. place # "done"
    BY DEF OutsidePlaces
  <1> QED
    BY <1>1, <1>2, JobTypes DEF LoadInv, PluginsTypeOK

LEMMA CheckLoadStep ==
    ASSUME LoadInv, NEW w \in Workers, CheckLoad(w)
    PROVE  Conduct' /\ worker' \in [Workers -> Jobs] /\ overlapped' \subseteq Plugins
  <1>1. worker[w].at = "checkLoad" /\ Of(w) \in Plugins
    BY DEF CheckLoad, At, LoadInv, Named
  <1>2. UNCHANGED <<started, enabled, failed>>
    BY DEF CheckLoad, managerVars
  <1>3. CASE Of(w) \in enabled
    <2>1. Move(w, "done") /\ UNCHANGED overlapped
      BY <1>3 DEF CheckLoad
    <2> QED
      BY <1>1, <1>2, <2>1, GoOutside DEF OutsidePlaces, LoadInv, PluginsTypeOK
  <1>4. CASE Of(w) \notin enabled
    <2>1. Move(w, "load")
      BY <1>4 DEF CheckLoad
    <2>2. /\ worker' \in [Workers -> Jobs]
          /\ worker'[w].at = "load"
          /\ worker'[w].plugin = Of(w)
          /\ \A v \in Workers \ {w} : worker'[v] = worker[v]
      BY <2>1, Inward DEF AllPlaces, OutsidePlaces
    <2>3. /\ overlapped \subseteq overlapped' /\ overlapped' \subseteq overlapped \cup {Of(w)}
          /\ \A v \in Workers \ {w} : Of(v) = Of(w) /\ Unloading(v) => Of(w) \in overlapped'
      BY <1>4 DEF CheckLoad, Others
    <2>4. Named'
      BY <1>1, <2>2 DEF LoadInv, Named, Of
    <2>5. Alone'
      <3>1. \A v \in Workers \ {w} : Unloading(v)' = Unloading(v) /\ Inside(v)' = Inside(v) /\ Of(v)' = Of(v)
        BY <2>2 DEF Unloading, Inside, Loading, Of
      <3>2. ~Unloading(w)' /\ Of(w)' = Of(w)
        BY <2>2 DEF Unloading, Of
      <3> QED
        BY <2>3, <3>1, <3>2 DEF LoadInv, Alone
    <2>6. Places'
      BY <1>2, <2>2, <2>3 DEF LoadInv, Places, At, Of, Inside, Loading, Unloading
    <2>7. Single'
      BY <2>2, <2>3 DEF LoadInv, Single, At, Of
    <2>8. LoadedIsStarted'
      <3>1. \A v \in Workers : worker[v].at \in {"store", "clear"} => worker'[v] = worker[v]
        BY <1>1, <2>2
      <3> QED
        BY <1>2, <2>3, <3>1 DEF LoadInv, LoadedIsStarted, At, Of
    <2> QED
      BY <1>1, <2>2, <2>3, <2>4, <2>5, <2>6, <2>7, <2>8 DEF Conduct, LoadInv, PluginsTypeOK
  <1> QED
    BY <1>3, <1>4

LEMMA LoadStep ==
    ASSUME LoadInv, NEW w \in Workers, NEW ok \in BOOLEAN, Load(w, ok)
    PROVE  Conduct' /\ worker' \in [Workers -> Jobs] /\ started' \subseteq Plugins /\ failed' \subseteq Plugins
  <1>1. worker[w].at = "load" /\ Of(w) \in Plugins
    BY DEF Load, At, LoadInv, Named
  <1>2. UNCHANGED <<enabled, overlapped>> /\ started' = started \cup {Of(w)} /\ failed \subseteq failed'
        /\ started' \subseteq Plugins /\ failed' \subseteq Plugins
    BY <1>1 DEF Load, LoadInv, PluginsTypeOK
  <1>3. CASE Of(w) \in started
    <2>1. Move(w, "done") /\ started' = started
      BY <1>2, <1>3 DEF Load
    <2> QED
      BY <1>1, <1>2, <2>1, GoOutside DEF OutsidePlaces
  <1>4. CASE Of(w) \notin started /\ ok = TRUE
    <2>1. Move(w, "store")
      BY <1>4 DEF Load
    <2>2. /\ worker' \in [Workers -> Jobs]
          /\ worker'[w].at = "store"
          /\ worker'[w].plugin = Of(w)
          /\ \A v \in Workers \ {w} : worker'[v] = worker[v]
      BY <2>1, Inward DEF AllPlaces, OutsidePlaces
    <2>3. \A v \in Workers \ {w} : Of(v) = Of(w) /\ Unloading(v) => Of(w) \in overlapped
      BY <1>1 DEF LoadInv, Alone, Inside, Loading
    <2>4. Of(w) \in overlapped \/ Of(w) \notin enabled
      <3>1. ASSUME NEW v \in Workers, Of(v) = Of(w), At(v, "clear") PROVE Of(w) \in overlapped
        BY <1>1, <2>3, <3>1 DEF At, Unloading
      <3> QED
        BY <1>1, <1>4, <3>1 DEF LoadInv, LoadedIsStarted
    <2>5. \A v \in Workers \ {w} : Of(v) = Of(w) /\ At(v, "store") => Of(w) \in overlapped
      BY <1>4 DEF LoadInv, Places, At, Inside, Loading
    <2>6. Named'
      BY <1>1, <2>2 DEF LoadInv, Named, Of
    <2>7. Alone'
      <3>1. \A v \in Workers \ {w} : Unloading(v)' = Unloading(v) /\ Inside(v)' = Inside(v) /\ Of(v)' = Of(v)
        BY <2>2 DEF Unloading, Inside, Loading, Of
      <3>2. ~Unloading(w)' /\ Of(w)' = Of(w)
        BY <2>2 DEF Unloading, Of
      <3> QED
        BY <1>2, <2>3, <3>1, <3>2 DEF LoadInv, Alone
    <2>8. Places'
      <3>1. ASSUME NEW v \in Workers, v # w, Inside(v)', Of(v)' \notin overlapped'
            PROVE  /\ At(v, "store")' => Of(v)' \in started' \ enabled'
                   /\ At(v, "add")' => Of(v)' \in started' \cap enabled'
                   /\ At(v, "unload")' => Of(v)' \in enabled'
                   /\ At(v, "clear")' => Of(v)' \in enabled' \ started'
                   /\ At(v, "release")' => Of(v)' \notin enabled'
        <4>1. Inside(v) /\ Of(v)' = Of(v) /\ worker'[v] = worker[v] /\ Of(v) \notin overlapped
          BY <1>2, <2>2, <3>1 DEF Inside, Loading, Unloading, Of
        <4>2. At(v, "clear") => Of(v) # Of(w)
          BY <1>2, <2>3, <3>1, <4>1 DEF At, Unloading
        <4> QED
          BY <1>2, <4>1, <4>2 DEF LoadInv, Places, At
      <3>2. Of(w)' = Of(w) /\ (Of(w) \notin overlapped => Of(w) \in started' \ enabled')
        BY <1>2, <2>2, <2>4 DEF Of
      <3>3. worker'[w].at = "store"
        BY <2>2
      <3> QED
        BY <1>2, <3>1, <3>2, <3>3 DEF Places, At
    <2>9. Single'
      BY <1>2, <2>2, <2>5 DEF LoadInv, Single, At, Of
    <2>10. LoadedIsStarted'
      <3>1. \A v \in Workers : worker[v].at \in {"store", "clear"} => worker'[v] = worker[v]
        BY <1>1, <2>2
      <3> QED
        BY <1>2, <2>2, <3>1 DEF LoadInv, LoadedIsStarted, At, Of
    <2> QED
      BY <1>2, <2>2, <2>6, <2>7, <2>8, <2>9, <2>10 DEF Conduct
  <1>5. CASE Of(w) \notin started /\ ok = FALSE
    <2>1. Move(w, "done") /\ Of(w) \in failed'
      BY <1>5 DEF Load
    <2>2. \E job \in Jobs : worker' = [worker EXCEPT ![w] = job] /\ job.at = "done"
      BY <2>1, MoveJob DEF AllPlaces, OutsidePlaces
    <2>3. PICK job \in Jobs : worker' = [worker EXCEPT ![w] = job] /\ job.at = "done"
      BY <2>2
    <2>4. /\ \A v \in Workers \ {w} : worker'[v] = worker[v]
          /\ worker'[w].at = "done"
          /\ worker' \in [Workers -> Jobs]
      BY <2>3, JobTypes DEF LoadInv, PluginsTypeOK
    <2>5. \A v \in Workers \ {w} : Of(v) = Of(w) /\ Unloading(v) => Of(w) \in overlapped
      BY <1>1 DEF LoadInv, Alone, Inside, Loading
    <2>6. Named'
      BY <2>4 DEF LoadInv, Named, Of
    <2>7. /\ \A v \in Workers \ {w} : Unloading(v)' = Unloading(v) /\ Inside(v)' = Inside(v) /\ Of(v)' = Of(v)
          /\ ~Inside(w)' /\ ~Unloading(w)'
      BY <2>4 DEF Unloading, Inside, Loading, Of
    <2>8. Alone'
      BY <1>2, <2>7 DEF LoadInv, Alone
    <2>9. Places'
      <3>1. ASSUME NEW v \in Workers, Inside(v)', Of(v)' \notin overlapped'
            PROVE  /\ At(v, "store")' => Of(v)' \in started' \ enabled'
                   /\ At(v, "add")' => Of(v)' \in started' \cap enabled'
                   /\ At(v, "unload")' => Of(v)' \in enabled'
                   /\ At(v, "clear")' => Of(v)' \in enabled' \ started'
                   /\ At(v, "release")' => Of(v)' \notin enabled'
        <4>1. v # w /\ Inside(v) /\ Of(v)' = Of(v) /\ worker'[v] = worker[v] /\ Of(v) \notin overlapped
          BY <1>2, <2>4, <2>7, <3>1
        <4>2. At(v, "clear") => Of(v) # Of(w)
          BY <1>2, <2>5, <3>1, <4>1 DEF At, Unloading
        <4> QED
          BY <1>2, <4>1, <4>2 DEF LoadInv, Places, At
      <3> QED
        BY <3>1 DEF Places
    <2>10. Single'
      BY <1>2, <2>4, <2>7 DEF LoadInv, Single, At
    <2>11. LoadedIsStarted'
      <3>1. \A v \in Workers : worker[v].at \in {"store", "clear"} => worker'[v] = worker[v]
        BY <1>1, <2>4
      <3> QED
        BY <1>2, <2>1, <3>1 DEF LoadInv, LoadedIsStarted, At, Of
    <2> QED
      BY <1>2, <2>4, <2>6, <2>8, <2>9, <2>10, <2>11 DEF Conduct
  <1> QED
    BY <1>3, <1>4, <1>5

LEMMA StoreLoadedStep ==
    ASSUME LoadInv, NEW w \in Workers, StoreLoaded(w)
    PROVE  Conduct' /\ worker' \in [Workers -> Jobs] /\ enabled' \subseteq Plugins
  <1>1. worker[w].at = "store" /\ Of(w) \in Plugins
    BY DEF StoreLoaded, At, LoadInv, Named
  <1>2. UNCHANGED <<started, overlapped, failed>> /\ enabled' = enabled \cup {Of(w)}
    BY DEF StoreLoaded
  <1>3. Move(w, "add")
    BY DEF StoreLoaded
  <1>4. /\ worker' \in [Workers -> Jobs]
        /\ worker'[w].at = "add"
        /\ worker'[w].plugin = Of(w)
        /\ \A v \in Workers \ {w} : worker'[v] = worker[v]
    BY <1>3, Inward DEF AllPlaces, OutsidePlaces
  <1>5. /\ \A v \in Workers \ {w} : Of(v) = Of(w) /\ Unloading(v) => Of(w) \in overlapped
        /\ \A v \in Workers \ {w} : Of(v) = Of(w) /\ At(v, "store") => Of(w) \in overlapped
        /\ Of(w) \in overlapped \/ Of(w) \in started
    BY <1>1 DEF LoadInv, Alone, Single, Places, Inside, Loading, At
  <1>6. Named'
    BY <1>1, <1>4 DEF LoadInv, Named, Of
  <1>7. /\ \A v \in Workers \ {w} : Unloading(v)' = Unloading(v) /\ Inside(v)' = Inside(v) /\ Of(v)' = Of(v)
        /\ ~Unloading(w)' /\ Of(w)' = Of(w)
    BY <1>4 DEF Unloading, Inside, Loading, Of
  <1>8. Alone'
    BY <1>2, <1>5, <1>7 DEF LoadInv, Alone
  <1>9. Places'
    <2>1. ASSUME NEW v \in Workers, v # w, Inside(v)', Of(v)' \notin overlapped'
          PROVE  /\ At(v, "store")' => Of(v)' \in started' \ enabled'
                 /\ At(v, "add")' => Of(v)' \in started' \cap enabled'
                 /\ At(v, "unload")' => Of(v)' \in enabled'
                 /\ At(v, "clear")' => Of(v)' \in enabled' \ started'
                 /\ At(v, "release")' => Of(v)' \notin enabled'
      <3>1. Inside(v) /\ Of(v)' = Of(v) /\ worker'[v] = worker[v] /\ Of(v) \notin overlapped
        BY <1>2, <1>4, <1>7, <2>1
      <3>2. At(v, "store") \/ At(v, "release") => Of(v) # Of(w)
        BY <1>5, <2>1, <3>1 DEF At, Unloading
      <3> QED
        BY <1>2, <3>1, <3>2 DEF LoadInv, Places, At
    <2> QED
      BY <1>2, <1>4, <1>5, <1>7, <2>1 DEF Places, At
  <1>10. Single'
    BY <1>2, <1>4 DEF LoadInv, Single, At, Of
  <1>11. LoadedIsStarted'
    <2>1. \A v \in Workers : worker[v].at = "clear" => worker'[v] = worker[v]
      BY <1>1, <1>4
    <2>2. \A v \in Workers : worker[v].at = "store" => worker'[v] = worker[v] \/ Of(v) = Of(w)
      BY <1>4
    <2> QED
      BY <1>2, <1>5, <2>1, <2>2 DEF LoadInv, LoadedIsStarted, At, Of
  <1> QED
    BY <1>1, <1>2, <1>4, <1>6, <1>8, <1>9, <1>10, <1>11 DEF Conduct, LoadInv, PluginsTypeOK

LEMMA AddStep ==
    ASSUME LoadInv, NEW w \in Workers, Add(w)
    PROVE  Conduct' /\ worker' \in [Workers -> Jobs]
  <1>1. worker[w].at = "add" /\ (Move(w, "done") \/ Move(w, "saveOn"))
        /\ UNCHANGED <<started, enabled, overlapped, failed>>
    BY DEF Add, At, history
  <1> QED
    BY <1>1, GoOutside DEF OutsidePlaces

LEMMA CheckUnloadStep ==
    ASSUME LoadInv, NEW w \in Workers, CheckUnload(w)
    PROVE  /\ Conduct' /\ worker' \in [Workers -> Jobs]
           /\ overlapped' \subseteq Plugins /\ doubled' \subseteq Plugins
  <1>1. worker[w].at = "checkUnload" /\ Of(w) \in Plugins
    BY DEF CheckUnload, At, LoadInv, Named
  <1>2. UNCHANGED <<started, enabled, failed>> /\ doubled' \subseteq Plugins
    BY <1>1 DEF CheckUnload, managerVars, LoadInv, PluginsTypeOK
  <1>3. CASE Of(w) \notin enabled
    <2>1. (Move(w, "done") \/ Move(w, "range")) /\ UNCHANGED overlapped
      BY <1>3 DEF CheckUnload
    <2>2. Conduct' /\ worker' \in [Workers -> Jobs]
      BY <1>1, <1>2, <2>1, GoOutside DEF OutsidePlaces
    <2> QED
      BY <1>2, <2>1, <2>2 DEF LoadInv, PluginsTypeOK
  <1>4. CASE Of(w) \in enabled
    <2>1. Move(w, "unload")
      BY <1>4 DEF CheckUnload
    <2>2. /\ worker' \in [Workers -> Jobs]
          /\ worker'[w].at = "unload"
          /\ worker'[w].plugin = Of(w)
          /\ \A v \in Workers \ {w} : worker'[v] = worker[v]
      BY <2>1, Inward DEF AllPlaces, OutsidePlaces
    <2>3. /\ overlapped \subseteq overlapped' /\ overlapped' \subseteq overlapped \cup {Of(w)}
          /\ \A v \in Workers \ {w} : Of(v) = Of(w) /\ Inside(v) => Of(w) \in overlapped'
      BY <1>4 DEF CheckUnload, Others, Inside
    <2>4. Named'
      BY <1>1, <2>2 DEF LoadInv, Named, Of
    <2>5. Alone'
      <3>1. \A v \in Workers \ {w} : Unloading(v)' = Unloading(v) /\ Inside(v)' = Inside(v) /\ Of(v)' = Of(v)
        BY <2>2 DEF Unloading, Inside, Loading, Of
      <3>2. Of(w)' = Of(w) /\ \A v \in Workers : Unloading(v) => Inside(v)
        BY <2>2 DEF Of, Inside
      <3> QED
        BY <2>3, <3>1, <3>2 DEF LoadInv, Alone
    <2>6. Places'
      BY <1>2, <1>4, <2>2, <2>3 DEF LoadInv, Places, At, Of, Inside, Loading, Unloading
    <2>7. Single'
      BY <2>2, <2>3 DEF LoadInv, Single, At, Of
    <2>8. LoadedIsStarted'
      <3>1. \A v \in Workers : worker[v].at \in {"store", "clear"} => worker'[v] = worker[v]
        BY <1>1, <2>2
      <3> QED
        BY <1>2, <2>3, <3>1 DEF LoadInv, LoadedIsStarted, At, Of
    <2> QED
      BY <1>1, <1>2, <2>2, <2>3, <2>4, <2>5, <2>6, <2>7, <2>8 DEF Conduct, LoadInv, PluginsTypeOK
  <1> QED
    BY <1>3, <1>4

LEMMA UnloadStep ==
    ASSUME LoadInv, NEW w \in Workers, Unload(w)
    PROVE  Conduct' /\ worker' \in [Workers -> Jobs] /\ started' \subseteq Plugins
  <1>1. worker[w].at = "unload" /\ Of(w) \in Plugins
    BY DEF Unload, At, LoadInv, Named
  <1>2. UNCHANGED <<enabled, overlapped, failed>> /\ started' = started \ {Of(w)}
    BY DEF Unload, history
  <1>3. Move(w, "clear")
    BY DEF Unload
  <1>4. /\ worker' \in [Workers -> Jobs]
        /\ worker'[w].at = "clear"
        /\ worker'[w].plugin = Of(w)
        /\ \A v \in Workers \ {w} : worker'[v] = worker[v]
    BY <1>3, Inward DEF AllPlaces, OutsidePlaces
  <1>5. /\ \A v \in Workers \ {w} : Of(v) = Of(w) /\ Inside(v) => Of(w) \in overlapped
        /\ Of(w) \in overlapped \/ Of(w) \in enabled
    BY <1>1 DEF LoadInv, Alone, Places, Inside, Unloading, At
  <1>6. Named'
    BY <1>1, <1>4 DEF LoadInv, Named, Of
  <1>7. /\ \A v \in Workers \ {w} : Unloading(v)' = Unloading(v) /\ Inside(v)' = Inside(v) /\ Of(v)' = Of(v)
        /\ Of(w)' = Of(w)
        /\ \A v \in Workers : Unloading(v) => Inside(v)
    BY <1>4 DEF Unloading, Inside, Loading, Of
  <1>8. Alone'
    BY <1>2, <1>5, <1>7 DEF LoadInv, Alone
  <1>9. Places'
    <2>1. ASSUME NEW v \in Workers, v # w, Inside(v)', Of(v)' \notin overlapped'
          PROVE  /\ At(v, "store")' => Of(v)' \in started' \ enabled'
                 /\ At(v, "add")' => Of(v)' \in started' \cap enabled'
                 /\ At(v, "unload")' => Of(v)' \in enabled'
                 /\ At(v, "clear")' => Of(v)' \in enabled' \ started'
                 /\ At(v, "release")' => Of(v)' \notin enabled'
      <3>1. Inside(v) /\ Of(v)' = Of(v) /\ worker'[v] = worker[v] /\ Of(v) \notin overlapped
        BY <1>2, <1>4, <1>7, <2>1
      <3>2. Of(v) # Of(w)
        BY <1>5, <2>1, <3>1
      <3> QED
        BY <1>2, <3>1, <3>2 DEF LoadInv, Places, At
    <2> QED
      BY <1>2, <1>4, <1>5, <1>7, <2>1 DEF Places, At
  <1>10. Single'
    BY <1>2, <1>4 DEF LoadInv, Single, At, Of
  <1>11. LoadedIsStarted'
    <2>1. \A v \in Workers : worker[v].at \in {"store", "clear"} => worker'[v] = worker[v]
      BY <1>1, <1>4
    <2>2. Of(w)' = Of(w) /\ At(w, "clear")'
      BY <1>4 DEF Of, At
    <2> QED
      BY <1>2, <2>1, <2>2 DEF LoadInv, LoadedIsStarted, At, Of
  <1> QED
    BY <1>2, <1>4, <1>6, <1>8, <1>9, <1>10, <1>11 DEF Conduct, LoadInv, PluginsTypeOK

LEMMA StoreUnloadedStep ==
    ASSUME LoadInv, NEW w \in Workers, StoreUnloaded(w)
    PROVE  Conduct' /\ worker' \in [Workers -> Jobs] /\ enabled' \subseteq Plugins
  <1>1. worker[w].at = "clear" /\ Of(w) \in Plugins
    BY DEF StoreUnloaded, At, LoadInv, Named
  <1>2. UNCHANGED <<started, overlapped, failed>> /\ enabled' = enabled \ {Of(w)}
    BY DEF StoreUnloaded, history
  <1>3. Move(w, "release")
    BY DEF StoreUnloaded
  <1>4. /\ worker' \in [Workers -> Jobs]
        /\ worker'[w].at = "release"
        /\ worker'[w].plugin = Of(w)
        /\ \A v \in Workers \ {w} : worker'[v] = worker[v]
    BY <1>3, Inward DEF AllPlaces, OutsidePlaces
  <1>5. /\ \A v \in Workers \ {w} : Of(v) = Of(w) /\ Inside(v) => Of(w) \in overlapped
        /\ Of(w) \in overlapped \/ Of(w) \notin started
    BY <1>1 DEF LoadInv, Alone, Places, Inside, Unloading, At
  <1>6. Named'
    BY <1>1, <1>4 DEF LoadInv, Named, Of
  <1>7. /\ \A v \in Workers \ {w} : Unloading(v)' = Unloading(v) /\ Inside(v)' = Inside(v) /\ Of(v)' = Of(v)
        /\ Of(w)' = Of(w)
        /\ \A v \in Workers : Unloading(v) => Inside(v)
    BY <1>4 DEF Unloading, Inside, Loading, Of
  <1>8. Alone'
    BY <1>2, <1>5, <1>7 DEF LoadInv, Alone
  <1>9. Places'
    <2>1. ASSUME NEW v \in Workers, v # w, Inside(v)', Of(v)' \notin overlapped'
          PROVE  /\ At(v, "store")' => Of(v)' \in started' \ enabled'
                 /\ At(v, "add")' => Of(v)' \in started' \cap enabled'
                 /\ At(v, "unload")' => Of(v)' \in enabled'
                 /\ At(v, "clear")' => Of(v)' \in enabled' \ started'
                 /\ At(v, "release")' => Of(v)' \notin enabled'
      <3>1. Inside(v) /\ Of(v)' = Of(v) /\ worker'[v] = worker[v] /\ Of(v) \notin overlapped
        BY <1>2, <1>4, <1>7, <2>1
      <3>2. Of(v) # Of(w)
        BY <1>5, <2>1, <3>1
      <3> QED
        BY <1>2, <3>1, <3>2 DEF LoadInv, Places, At
    <2> QED
      BY <1>2, <1>4, <1>5, <1>7, <2>1 DEF Places, At
  <1>10. Single'
    BY <1>2, <1>4 DEF LoadInv, Single, At, Of
  <1>11. LoadedIsStarted'
    <2>1. \A v \in Workers : worker[v].at = "store" => worker'[v] = worker[v]
      BY <1>1, <1>4
    <2>2. \A v \in Workers : worker[v].at = "clear" => worker'[v] = worker[v] \/ Of(v) = Of(w)
      BY <1>4
    <2> QED
      BY <1>2, <1>5, <2>1, <2>2 DEF LoadInv, LoadedIsStarted, At, Of
  <1> QED
    BY <1>2, <1>4, <1>6, <1>8, <1>9, <1>10, <1>11 DEF Conduct, LoadInv, PluginsTypeOK

LEMMA DoneStep ==
    ASSUME LoadInv, NEW w \in Workers, Done(w)
    PROVE  Conduct' /\ worker' \in [Workers -> Jobs]
  <1>1. worker[w].at = "release" /\ (Move(w, "done") \/ Move(w, "range") \/ Move(w, "readOff"))
        /\ UNCHANGED <<started, enabled, overlapped, failed>>
    BY DEF Done, At, history
  <1> QED
    BY <1>1, GoOutside DEF OutsidePlaces

-----------------------------------------------------------------------------
(* The other steps, all outside.                                            *)

LEMMA BeginStep ==
    ASSUME LoadInv, NEW w \in Workers, NEW call \in {"enable", "disable", "settings"},
           NEW p \in Plugins, Begin(w, call, p)
    PROVE  Conduct' /\ worker' \in [Workers -> Jobs]
  <1> DEFINE place == CASE call = "enable" -> "readOn"
                        [] call = "disable" -> "checkUnload"
                        [] call = "settings" -> "readSettings"
             job == [Idle EXCEPT !.call = call, !.plugin = p, !.at = place]
  <1>1. worker' = [worker EXCEPT ![w] = job]
    BY DEF Begin
  <1>2. place \in OutsidePlaces
    BY DEF OutsidePlaces
  <1>3. job \in Jobs /\ job.at = place /\ job.plugin = p
    BY <1>2, PluginsAssumption DEF Idle, Jobs, Rows, Calling
  <1>4. worker[w].at = "idle" /\ UNCHANGED <<started, enabled, overlapped, failed>>
    BY DEF Begin, At, managerVars, history
  <1> HIDE DEF job, place
  <1> QED
    BY <1>1, <1>2, <1>3, <1>4, Outside, JobTypes

LEMMA RowStep ==
    ASSUME LoadInv, NEW w \in Workers,
           \/ ReadOn(w) \/ ReadOff(w) \/ CheckReload(w)
           \/ \E ok \in BOOLEAN : SaveOn(w, ok) \/ SaveOff(w, ok) \/ SaveSettings(w, ok)
           \/ \E s \in Settings : ReadSettings(w, s)
    PROVE  /\ Conduct' /\ worker' \in [Workers -> Jobs] /\ row' \in [Plugins -> Rows]
           /\ UNCHANGED <<manager, started, enabled, waiting, unvisited, history>>
  <1>1. /\ worker[w] \in Jobs /\ worker[w].copy \in Rows /\ row \in [Plugins -> Rows]
        /\ Of(w) \in Plugins => row[Of(w)] \in Rows
    BY DEF LoadInv, PluginsTypeOK, Jobs, OutsidePlaces, Calling
  <1>2. ASSUME NEW r \in Rows, NEW ok \in BOOLEAN, Save(w, r, ok)
        PROVE  /\ row' \in [Plugins -> Rows]
               /\ UNCHANGED <<manager, started, enabled, waiting, unvisited, history>>
    BY <1>1, <1>2 DEF Save
  <1>3. CASE ReadOn(w)
    <2>1. worker[w].at = "readOn" /\ Of(w) \in Plugins
      BY <1>3 DEF ReadOn, At, LoadInv, Named
    <2>2. \E r \in Rows : Copy(w, "checkLoad", r)
      BY <1>1, <1>3, <2>1 DEF ReadOn
    <2>3. UNCHANGED <<managerVars, history>>
      BY <1>3 DEF ReadOn
    <2> QED
      BY <1>1, <2>1, <2>2, <2>3, GoOutside DEF OutsidePlaces, managerVars, history
  <1>4. CASE ReadOff(w)
    <2>1. worker[w].at = "readOff" /\ Of(w) \in Plugins
      BY <1>4 DEF ReadOff, At, LoadInv, Named
    <2>2. \E r \in Rows : Copy(w, "saveOff", r)
      BY <1>1, <1>4, <2>1 DEF ReadOff
    <2>3. UNCHANGED <<managerVars, history>>
      BY <1>4 DEF ReadOff
    <2> QED
      BY <1>1, <2>1, <2>2, <2>3, GoOutside DEF OutsidePlaces, managerVars, history
  <1>5. CASE CheckReload(w)
    <2>1. worker[w].at = "checkReload" /\ (Move(w, "checkUnload") \/ Move(w, "done"))
      BY <1>5 DEF CheckReload, At
    <2>2. UNCHANGED <<managerVars, history>>
      BY <1>5 DEF CheckReload
    <2> QED
      BY <1>1, <2>1, <2>2, GoOutside DEF OutsidePlaces, managerVars, history
  <1>6. ASSUME NEW s \in Settings, ReadSettings(w, s) 
        PROVE  /\ Conduct' /\ worker' \in [Workers -> Jobs] /\ row' \in [Plugins -> Rows]
               /\ UNCHANGED <<manager, started, enabled, waiting, unvisited, history>>
    <2>1. worker[w].at = "readSettings" /\ Of(w) \in Plugins
      BY <1>6 DEF ReadSettings, At, LoadInv, Named
    <2>2. [row[Of(w)] EXCEPT !.settings = s] \in Rows
      BY <1>1, <2>1 DEF Rows
    <2>3. \E r \in Rows : Copy(w, "saveSettings", r)
      BY <1>6, <2>2 DEF ReadSettings
    <2>4. UNCHANGED <<managerVars, history>>
      BY <1>6 DEF ReadSettings
    <2> QED
      BY <1>1, <2>1, <2>3, <2>4, GoOutside DEF OutsidePlaces, managerVars, history
  <1>7. ASSUME NEW ok \in BOOLEAN, SaveOn(w, ok) \/ SaveOff(w, ok) \/ SaveSettings(w, ok)
        PROVE  /\ Conduct' /\ worker' \in [Workers -> Jobs] /\ row' \in [Plugins -> Rows]
               /\ UNCHANGED <<manager, started, enabled, waiting, unvisited, history>>
    <2>1. worker[w].at \in {"saveOn", "saveOff", "saveSettings"}
      BY <1>7 DEF SaveOn, SaveOff, SaveSettings, At
    <2>2. \E r \in Rows : Save(w, r, ok)
      <3>1. [worker[w].copy EXCEPT !.enabled = TRUE] \in Rows /\ [worker[w].copy EXCEPT !.enabled = FALSE] \in Rows
        BY <1>1 DEF Rows
      <3> QED
        BY <1>1, <1>7, <3>1 DEF SaveOn, SaveOff, SaveSettings
    <2>3. Move(w, "done") \/ Move(w, "readOn") \/ Move(w, "checkReload")
      BY <1>7 DEF SaveOn, SaveOff, SaveSettings
    <2>4. /\ row' \in [Plugins -> Rows]
          /\ UNCHANGED <<manager, started, enabled, waiting, unvisited, history>>
      BY <1>2, <2>2
    <2> QED
      BY <2>1, <2>3, <2>4, GoOutside DEF OutsidePlaces, history
  <1> QED
    BY <1>3, <1>4, <1>5, <1>6, <1>7

LEMMA StartStep ==
    ASSUME LoadInv, Start
    PROVE  Conduct' /\ worker' \in [Workers -> Jobs]
  <1>1. /\ \A w \in Workers : worker[w].at = "idle"
        /\ UNCHANGED <<started, enabled, overlapped, failed>>
    BY DEF Start, LoadInv, Fresh, At, history
  <1> DEFINE boot(w) == [Idle EXCEPT !.call = "boot", !.at = "checkLoad", !.plugin = w]
  <1>2. ASSUME NEW w \in Plugins
        PROVE  boot(w) \in Jobs /\ boot(w).at = "checkLoad" /\ boot(w).plugin = w
    BY PluginsAssumption DEF Idle, Jobs, Rows, OutsidePlaces, Calling
  <1>3. worker' = [w \in Workers |-> IF w \in Plugins /\ row[w].enabled THEN boot(w) ELSE worker[w]]
    BY DEF Start
  <1> HIDE DEF boot
  <1>4. \A w \in Workers : worker[w] \in Jobs
    BY DEF LoadInv, PluginsTypeOK, Jobs, OutsidePlaces, Calling
  <1>5. worker' \in [Workers -> Jobs]
    BY <1>2, <1>3, <1>4
  <1>6. \A w \in Workers : \/ worker'[w].at = "idle"
                           \/ worker'[w].at = "checkLoad" /\ worker'[w].plugin \in Plugins
    BY <1>1, <1>2, <1>3
  <1>7. /\ \A w \in Workers : ~Inside(w)' /\ ~Unloading(w)'
        /\ \A w \in Workers : worker[w].at \notin {"store", "clear"}
    BY <1>1, <1>6 DEF Inside, Loading, Unloading
  <1>8. Named' /\ Alone' /\ Places' /\ Single'
    BY <1>6, <1>7 DEF Named, Alone, Places, Single, Of, At
  <1>9. LoadedIsStarted'
    BY <1>1, <1>7 DEF LoadInv, LoadedIsStarted, At
  <1> QED
    BY <1>5, <1>8, <1>9 DEF Conduct

\* What Shutdown and its Range do with their worker.
LEMMA StopperStep ==
    ASSUME LoadInv, ShutdownStart \/ Stop
    PROVE  /\ Conduct' /\ worker' \in [Workers -> Jobs] /\ unvisited' \subseteq Plugins
           /\ manager' \in {"stopping", "stopped", "crashed"}
           /\ UNCHANGED <<row, started, enabled, waiting, history>>
  <1>1. /\ Stopper \in Workers
        /\ worker \in [Workers -> Jobs]
        /\ UNCHANGED <<row, started, enabled, waiting, history>>
    BY DEF ShutdownStart, Stop, Visit, Waited, Workers, LoadInv, PluginsTypeOK, Jobs, OutsidePlaces, Calling
  <1>2. CASE ShutdownStart
    <2>1. PICK job \in Jobs : worker' = [worker EXCEPT ![Stopper] = job] /\ job.at = "range"
      <3>1. [Idle EXCEPT !.call = "shutdown", !.at = "range"] \in Jobs
        BY PluginsAssumption DEF Idle, Jobs, Rows, OutsidePlaces, Calling
      <3>2. [Idle EXCEPT !.call = "shutdown", !.at = "range"].at = "range"
        BY DEF Idle
      <3> QED
        BY <1>2, <3>1, <3>2 DEF ShutdownStart
    <2>2. worker[Stopper].at = "idle"
      BY <1>2 DEF ShutdownStart, LoadInv, Fresh, At
    <2>3. Conduct' /\ worker' \in [Workers -> Jobs]
      BY <1>1, <2>1, <2>2, Outside, JobTypes DEF OutsidePlaces, history
    <2> QED
      BY <1>1, <1>2, <2>3 DEF ShutdownStart
  <1>3. ASSUME NEW p \in Plugins, Visit(p), manager # "crashed"
        PROVE  /\ Conduct' /\ worker' \in [Workers -> Jobs] /\ unvisited' \subseteq Plugins
               /\ manager' \in {"stopping", "stopped", "crashed"}
    <2>1. worker[Stopper].at = "range"
      BY <1>3 DEF Visit, At
    <2> DEFINE place == IF p \in enabled THEN "checkUnload" ELSE "range"
               job == [worker[Stopper] EXCEPT !.plugin = p, !.at = place]
    <2>2. worker' = [worker EXCEPT ![Stopper] = job]
      BY <1>3 DEF Visit
    <2>3. place \in OutsidePlaces
      BY DEF OutsidePlaces
    <2>4. job \in Jobs /\ job.at = place /\ job.plugin = p
      BY <1>1, <2>3 DEF Jobs
    <2> HIDE DEF job, place
    <2>5. Conduct' /\ worker' \in [Workers -> Jobs]
      BY <1>1, <2>1, <2>2, <2>3, <2>4, Outside, JobTypes DEF history
    <2>6. manager' \in {"stopping", "stopped", "crashed"} /\ unvisited' \subseteq Plugins
      BY <1>1, <1>3, <2>1 DEF Visit, LoadInv, Fresh, At, PluginsTypeOK
    <2> QED
      BY <2>5, <2>6
  <1>4. CASE Waited
    <2>1. worker[Stopper].at = "range" /\ Move(Stopper, "done")
      BY <1>4 DEF Waited, At
    <2>2. Conduct' /\ worker' \in [Workers -> Jobs]
      BY <1>1, <2>1, GoOutside DEF OutsidePlaces, history
    <2> QED
      BY <1>4, <2>2 DEF Waited, LoadInv, PluginsTypeOK
  <1> QED
    BY <1>1, <1>2, <1>3, <1>4 DEF Stop, ShutdownStart

LEMMA StepConduct ==
    ASSUME LoadInv, NEW w \in Workers, Step(w)
    PROVE  PluginsTypeOK' /\ Conduct'
  <1>1. /\ PluginsTypeOK /\ worker[w] \in Jobs
        /\ LoadInv => PluginsTypeOK
    BY DEF LoadInv, PluginsTypeOK, Jobs, OutsidePlaces, Calling
  <1>2. CASE CheckLoad(w)
    BY <1>1, <1>2, CheckLoadStep, JobTyped DEF CheckLoad, managerVars, PluginsTypeOK
  <1>3. ASSUME NEW ok \in BOOLEAN, Load(w, ok) PROVE PluginsTypeOK' /\ Conduct'
    BY <1>1, <1>3, LoadStep, JobTyped DEF Load, PluginsTypeOK
  <1>4. CASE StoreLoaded(w)
    <2>1. Of(w) \in Plugins
      BY <1>4 DEF StoreLoaded, LoadInv, Named, At
    <2>2. late' \subseteq Plugins
      BY <1>1, <1>4, <2>1 DEF StoreLoaded, PluginsTypeOK
    <2> QED
      BY <1>1, <1>4, <2>2, StoreLoadedStep, JobTyped DEF StoreLoaded, PluginsTypeOK
  <1>5. CASE Add(w)
    <2>1. waiting' \in Int
      BY <1>1, <1>5 DEF Add, PluginsTypeOK
    <2> QED
      BY <1>1, <1>5, <2>1, AddStep, JobTyped DEF Add, history, PluginsTypeOK
  <1>6. CASE CheckUnload(w)
    BY <1>1, <1>6, CheckUnloadStep, JobTyped DEF CheckUnload, managerVars, PluginsTypeOK
  <1>7. CASE Unload(w)
    BY <1>1, <1>7, UnloadStep, JobTyped DEF Unload, history, PluginsTypeOK
  <1>8. CASE StoreUnloaded(w)
    BY <1>1, <1>8, StoreUnloadedStep, JobTyped DEF StoreUnloaded, history, PluginsTypeOK
  <1>9. CASE Done(w)
    <2>1. waiting' \in Int /\ manager' \in {"new", "started", "stopping", "stopped", "crashed"}
      BY <1>1, <1>9 DEF Done, PluginsTypeOK
    <2> QED
      BY <1>1, <1>9, <2>1, DoneStep, JobTyped DEF Done, history, PluginsTypeOK
  <1>10. CASE \/ ReadOn(w) \/ ReadOff(w) \/ CheckReload(w)
              \/ \E ok \in BOOLEAN : SaveOn(w, ok) \/ SaveOff(w, ok) \/ SaveSettings(w, ok)
              \/ \E s \in Settings : ReadSettings(w, s)
    BY <1>1, <1>10, RowStep, JobTyped DEF history, PluginsTypeOK
  <1> QED
    BY <1>2, <1>3, <1>4, <1>5, <1>6, <1>7, <1>8, <1>9, <1>10 DEF Step

\* Only a step of its own, or Shutdown's, moves a worker.
LEMMA StepFrame ==
    ASSUME LoadInv, NEW w \in Workers, Step(w)
    PROVE  /\ worker[w].at # "idle" /\ manager' \in {manager, "crashed"}
           /\ \A v \in Workers \ {w} : worker'[v] = worker[v]
  <1> USE DEF LoadInv, PluginsTypeOK, Move, Copy, At
  <1>1. CASE CheckLoad(w) \/ StoreLoaded(w) \/ Add(w)
    BY <1>1 DEF CheckLoad, StoreLoaded, Add, managerVars
  <1>2. CASE CheckUnload(w) \/ Unload(w) \/ StoreUnloaded(w)
    BY <1>2 DEF CheckUnload, Unload, StoreUnloaded, managerVars
  <1>3. CASE Done(w)
    BY <1>3 DEF Done
  <1>4. CASE ReadOn(w) \/ ReadOff(w) \/ CheckReload(w)
    BY <1>4 DEF ReadOn, ReadOff, CheckReload, managerVars
  <1>5. ASSUME NEW ok \in BOOLEAN, Load(w, ok) \/ SaveOn(w, ok) \/ SaveOff(w, ok) \/ SaveSettings(w, ok)
        PROVE  /\ worker[w].at # "idle" /\ manager' \in {manager, "crashed"}
               /\ \A v \in Workers \ {w} : worker'[v] = worker[v]
    BY <1>5 DEF Load, SaveOn, SaveOff, SaveSettings, Save
  <1>6. ASSUME NEW s \in Settings, ReadSettings(w, s)
        PROVE  /\ worker[w].at # "idle" /\ manager' \in {manager, "crashed"}
               /\ \A v \in Workers \ {w} : worker'[v] = worker[v]
    BY <1>6 DEF ReadSettings, managerVars
  <1> QED
    BY <1>1, <1>2, <1>3, <1>4, <1>5, <1>6 DEF Step

LEMMA StepFresh ==
    ASSUME LoadInv, NEW w \in Workers, Step(w)
    PROVE  Fresh'
  <1>1. worker[w].at # "idle" /\ manager' \in {manager, "crashed"}
        /\ \A v \in Workers \ {w} : worker'[v] = worker[v]
    BY StepFrame
  <1>2. manager # "new"
    BY <1>1 DEF LoadInv, Fresh, At
  <1>3. Stopper \in Workers /\ (w = Stopper => manager # "started")
    BY <1>1 DEF LoadInv, Fresh, At, Workers
  <1> QED
    BY <1>1, <1>2, <1>3 DEF LoadInv, Fresh, At

LEMMA Inductive == LoadInv /\ [PluginsNext]_pluginVars => LoadInv'
  <1> SUFFICES ASSUME LoadInv, [PluginsNext]_pluginVars PROVE LoadInv'
    OBVIOUS
  <1>1. PluginsTypeOK /\ Stopper \in Workers
    BY DEF LoadInv, Workers
  <1>2. ASSUME NEW w \in Workers, Step(w) PROVE LoadInv'
    BY <1>2, StepConduct, StepFresh DEF LoadInv, Conduct
  <1>3. ASSUME NEW w \in Calls, Ask(w) PROVE LoadInv'
    <2>1. PICK call \in {"enable", "disable", "settings"}, p \in Plugins : Begin(w, call, p)
      BY <1>3 DEF Ask
    <2>2. w \in Workers /\ w # Stopper
      BY PluginsAssumption DEF Workers
    <2>3. Conduct' /\ worker' \in [Workers -> Jobs]
      BY <2>1, <2>2, BeginStep
    <2>4. PluginsTypeOK'
      BY <1>1, <2>1, <2>3, JobTyped DEF Begin, managerVars, history, PluginsTypeOK
    <2>5. Fresh'
      BY <1>1, <2>1, <2>2 DEF Begin, managerVars, LoadInv, Fresh, At, PluginsTypeOK
    <2> QED
      BY <2>3, <2>4, <2>5 DEF LoadInv, Conduct
  <1>4. CASE Start
    <2>1. Conduct' /\ worker' \in [Workers -> Jobs]
      BY <1>4, StartStep
    <2>2. PluginsTypeOK'
      BY <1>1, <1>4, <2>1, JobTyped DEF Start, history, PluginsTypeOK
    <2>3. Fresh'
      <3>1. Stopper \notin Plugins
        BY PluginsAssumption
      <3> QED
        BY <1>1, <1>4, <3>1 DEF Start, LoadInv, Fresh, At
    <2> QED
      BY <2>1, <2>2, <2>3 DEF LoadInv, Conduct
  <1>5. CASE ShutdownStart \/ Stop
    <2>1. /\ Conduct' /\ worker' \in [Workers -> Jobs] /\ unvisited' \subseteq Plugins
          /\ manager' \in {"stopping", "stopped", "crashed"}
          /\ UNCHANGED <<row, started, enabled, waiting, history>>
      BY <1>5, StopperStep
    <2>2. PluginsTypeOK'
      BY <1>1, <2>1, JobTyped DEF history, PluginsTypeOK
    <2>3. Fresh'
      BY <2>1 DEF Fresh
    <2> QED
      BY <2>1, <2>2, <2>3 DEF LoadInv, Conduct
  <1>6. CASE UNCHANGED pluginVars
    BY <1>6 DEF pluginVars, managerVars, history, LoadInv, PluginsTypeOK, Named, Alone, Places, Single,
                LoadedIsStarted, Fresh, Inside, Loading, Unloading, At, Of
  <1> QED
    BY <1>2, <1>3, <1>4, <1>5, <1>6 DEF PluginsNext

THEOREM Invariant == PluginsSpec => []LoadInv
  BY Initial, Inductive, PTL DEF PluginsSpec

\* Type correctness of the plugin manager.
THEOREM ManagerTypeCorrect == PluginsSpec => []PluginsTypeOK
  <1>1. LoadInv => PluginsTypeOK
    BY DEF LoadInv
  <1> QED
    BY <1>1, Invariant, PTL

\* For any number of plugins and requests, what is loaded was started and
\* what is started is loaded, but for the cases LoadedIsStarted names.
THEOREM LoadedStarted == PluginsSpec => []LoadedIsStarted
  <1>1. LoadInv => LoadedIsStarted
    BY DEF LoadInv
  <1> QED
    BY <1>1, Invariant, PTL

-----------------------------------------------------------------------------
(* The counter of the wait group.  While no unload overlaps another call   *)
(* for its plugin it is the number of loaded plugins, less the calls that  *)
(* have yet to Add, and the calls that have yet to call Done (Counted).    *)
(* As long as no plugin is unloaded twice at once, or before the Add of    *)
(* its load, each loaded plugin that nobody adds or unloads, and each      *)
(* unload under way, has a unit of its own (Backed): Done finds one.       *)

Adders == {w \in Workers : At(w, "add")}
Releasers == {w \in Workers : At(w, "release")}

Counted ==
    overlapped = {} =>
        waiting = Cardinality(enabled) - Cardinality(Adders) + Cardinality(Releasers)

\* The plugins that are loaded, counted, and not being unloaded; the calls
\* that unload and have not called Done.  One unit of the counter is each's.
Settled == {p \in enabled : \A w \in Workers : Of(w) = p => worker[w].at \notin {"add", "unload", "clear"}}
Unloaders == {w \in Workers : Unloading(w)}

Backed == doubled = {} => Cardinality(Settled) + Cardinality(Unloaders) <= waiting

CountInv == LoadInv /\ Counted /\ Backed

LEMMA FiniteWorkers == IsFiniteSet(Workers)
  BY PluginsAssumption, FS_Union, FS_Singleton DEF Workers

\* All that is counted is finite.
LEMMA Finite ==
    ASSUME PluginsTypeOK
    PROVE  /\ IsFiniteSet(enabled) /\ Cardinality(enabled) \in Nat
           /\ IsFiniteSet(Adders) /\ Cardinality(Adders) \in Nat
           /\ IsFiniteSet(Releasers) /\ Cardinality(Releasers) \in Nat
           /\ IsFiniteSet(Settled) /\ Cardinality(Settled) \in Nat
           /\ IsFiniteSet(Unloaders) /\ Cardinality(Unloaders) \in Nat
  <1>1. Settled \subseteq Plugins /\ enabled \subseteq Plugins
    BY DEF PluginsTypeOK, Settled
  <1>2. Adders \subseteq Workers /\ Releasers \subseteq Workers /\ Unloaders \subseteq Workers
    BY DEF Adders, Releasers, Unloaders
  <1> QED
    BY <1>1, <1>2, PluginsAssumption, FiniteWorkers, FS_Subset, FS_CardinalityType

\* A set that grows or shrinks by one element.
LEMMA Plus ==
    ASSUME NEW S, NEW x, IsFiniteSet(S), x \notin S
    PROVE  Cardinality(S \cup {x}) = Cardinality(S) + 1
  BY FS_AddElement

LEMMA Minus ==
    ASSUME NEW S, NEW x, IsFiniteSet(S), x \in S
    PROVE  Cardinality(S \ {x}) = Cardinality(S) - 1
  BY FS_RemoveElement

CountedPlaces == {"add", "unload", "clear", "release"}

\* Where nobody comes to a place that is counted, or leaves one, nothing
\* changes.
LEMMA SameCount ==
    ASSUME CountInv, UNCHANGED <<enabled, waiting>>,
           overlapped \subseteq overlapped', doubled \subseteq doubled',
           \A v \in Workers : worker'[v] = worker[v] \/ {worker[v].at, worker'[v].at} \cap CountedPlaces = {}
    PROVE  Counted' /\ Backed'
  <1>1. \A v \in Workers : \/ worker'[v] = worker[v]
                           \/ worker[v].at \notin CountedPlaces /\ worker'[v].at \notin CountedPlaces
    OBVIOUS
  <1>2. Adders' = Adders /\ Releasers' = Releasers
    BY <1>1 DEF Adders, Releasers, At, CountedPlaces
  <1>3. Unloaders' = Unloaders
    BY <1>1 DEF Unloaders, Unloading, CountedPlaces
  <1>4. Settled' = Settled
    BY <1>1 DEF Settled, Of, CountedPlaces
  <1> QED
    BY <1>2, <1>3, <1>4 DEF CountInv, Counted, Backed

\* Where a worker goes, and with which plugin.
LEMMA Goes ==
    ASSUME LoadInv, NEW w \in Workers, NEW place \in AllPlaces,
           Move(w, place) \/ \E r \in Rows : Copy(w, place, r)
    PROVE  /\ worker'[w].at = place
           /\ place # "done" => worker'[w].plugin = Of(w)
           /\ \A v \in Workers \ {w} : worker'[v] = worker[v]
  BY MoveJob, CopyJob DEF LoadInv, PluginsTypeOK

LEMMA StoreLoadedCount ==
    ASSUME CountInv, NEW w \in Workers, StoreLoaded(w)
    PROVE  Counted' /\ Backed'
  <1>1. /\ worker[w].at = "store" /\ worker'[w].at = "add" /\ worker'[w].plugin = Of(w)
        /\ \A v \in Workers \ {w} : worker'[v] = worker[v]
        /\ UNCHANGED <<waiting, overlapped, doubled>> /\ enabled' = enabled \cup {Of(w)}
    BY Goes DEF StoreLoaded, CountInv, AllPlaces, At
  <1>2. Adders' = Adders \cup {w} /\ w \notin Adders /\ Releasers' = Releasers
    BY <1>1 DEF Adders, Releasers, At
  <1>3. Counted'
    <2>1. overlapped = {} => Of(w) \notin enabled
      BY <1>1 DEF CountInv, LoadInv, Places, At, Inside, Loading
    <2>2. PluginsTypeOK
      BY DEF CountInv, LoadInv
    <2>3. Cardinality(Adders') = Cardinality(Adders) + 1
      BY <1>2, <2>2, Finite, Plus
    <2>4. overlapped = {} => Cardinality(enabled') = Cardinality(enabled) + 1
      BY <1>1, <2>1, <2>2, Finite, Plus
    <2> QED
      BY <1>1, <1>2, <2>2, <2>3, <2>4, Finite DEF CountInv, Counted
  <1>4. Backed'
    <2>1. Unloaders' = Unloaders
      BY <1>1 DEF Unloaders, Unloading
    <2>2. Settled' \subseteq Settled
      BY <1>1 DEF Settled, Of
    <2>3. Cardinality(Settled') <= Cardinality(Settled) /\ Cardinality(Settled') \in Nat
      BY <2>2, Finite, FS_Subset, FS_CardinalityType DEF CountInv, LoadInv
    <2> QED
      BY <1>1, <2>1, <2>3, Finite DEF CountInv, LoadInv, Backed, PluginsTypeOK
  <1> QED
    BY <1>3, <1>4

LEMMA AddCount ==
    ASSUME CountInv, NEW w \in Workers, Add(w)
    PROVE  Counted' /\ Backed'
  <1>1. /\ worker[w].at = "add" /\ worker'[w].at \in {"done", "saveOn"}
        /\ \A v \in Workers \ {w} : worker'[v] = worker[v]
        /\ UNCHANGED <<enabled, overlapped, doubled>> /\ waiting' = waiting + 1
    BY Goes DEF Add, CountInv, AllPlaces, OutsidePlaces, At, history
  <1>2. Adders' = Adders \ {w} /\ w \in Adders /\ Releasers' = Releasers
    BY <1>1 DEF Adders, Releasers, At
  <1>3. Counted'
    <2>1. PluginsTypeOK
      BY DEF CountInv, LoadInv
    <2>2. Cardinality(Adders') = Cardinality(Adders) - 1
      BY <1>2, <2>1, Finite, Minus
    <2> QED
      BY <1>1, <1>2, <2>1, <2>2, Finite DEF CountInv, Counted, PluginsTypeOK
  <1>4. Backed'
    <2>1. Unloaders' = Unloaders
      BY <1>1 DEF Unloaders, Unloading
    <2>2. Settled' \subseteq Settled \cup {Of(w)}
      BY <1>1 DEF Settled, Of
    <2>3. Cardinality(Settled') <= Cardinality(Settled) + 1 /\ Cardinality(Settled') \in Nat
      <3>1. IsFiniteSet(Settled) /\ Cardinality(Settled) \in Nat
        BY Finite DEF CountInv, LoadInv
      <3>2. /\ IsFiniteSet(Settled \cup {Of(w)})
            /\ Cardinality(Settled \cup {Of(w)}) <= Cardinality(Settled) + 1
            /\ Cardinality(Settled \cup {Of(w)}) \in Nat
        BY <3>1, FS_AddElement
      <3>3. /\ Cardinality(Settled') <= Cardinality(Settled \cup {Of(w)})
            /\ IsFiniteSet(Settled')
        BY <2>2, <3>2, FS_Subset
      <3>4. Cardinality(Settled') \in Nat
        BY <3>3, FS_CardinalityType
      <3> QED
        BY <3>1, <3>2, <3>3, <3>4
    <2> QED
      BY <1>1, <2>1, <2>3, Finite DEF CountInv, LoadInv, Backed, PluginsTypeOK
  <1> QED
    BY <1>3, <1>4

\* An unload that begins takes over its plugin's unit of the counter.
LEMMA CheckUnloadCount ==
    ASSUME CountInv, NEW w \in Workers, CheckUnload(w)
    PROVE  Counted' /\ Backed'
  <1>1. /\ worker[w].at = "checkUnload" /\ UNCHANGED <<enabled, waiting>>
        /\ overlapped \subseteq overlapped' /\ doubled \subseteq doubled'
    BY DEF CheckUnload, At, managerVars
  <1>2. CASE Of(w) \notin enabled
    <2>1. /\ worker'[w].at \in {"range", "done"}
          /\ \A v \in Workers \ {w} : worker'[v] = worker[v]
      BY <1>2, Goes DEF CheckUnload, CountInv, AllPlaces, OutsidePlaces
    <2> QED
      BY <1>1, <2>1, SameCount DEF CountedPlaces
  <1>3. CASE Of(w) \in enabled
    <2>1. /\ worker'[w].at = "unload" /\ worker'[w].plugin = Of(w)
          /\ \A v \in Workers \ {w} : worker'[v] = worker[v]
      BY <1>3, Goes DEF CheckUnload, CountInv, AllPlaces
    <2>2. Adders' = Adders /\ Releasers' = Releasers
      BY <1>1, <2>1 DEF Adders, Releasers, At
    <2>3. Counted'
      BY <1>1, <2>2 DEF CountInv, Counted
    <2>4. ASSUME doubled' = {} PROVE Cardinality(Settled') + Cardinality(Unloaders') <= waiting'
      <3>1. \A v \in Others(w) : ~Unloading(v) /\ ~At(v, "add")
        BY <1>3, <2>4 DEF CheckUnload
      <3>2. Of(w) \in Settled
        BY <1>1, <1>3, <3>1 DEF Settled, Others, Unloading, At
      <3>3. Settled' = Settled \ {Of(w)}
        BY <1>1, <2>1 DEF Settled, Of
      <3>4. Unloaders' = Unloaders \cup {w} /\ w \notin Unloaders
        BY <1>1, <2>1 DEF Unloaders, Unloading
      <3>5. doubled = {}
        BY <1>1, <2>4
      <3>6. PluginsTypeOK
        BY DEF CountInv, LoadInv
      <3>7. /\ Cardinality(Settled') = Cardinality(Settled) - 1
            /\ Cardinality(Unloaders') = Cardinality(Unloaders) + 1
        BY <3>2, <3>3, <3>4, <3>6, Finite, Plus, Minus
      <3> QED
        BY <1>1, <3>5, <3>6, <3>7, Finite DEF CountInv, Backed, PluginsTypeOK
    <2> QED
      BY <2>3, <2>4 DEF Backed
  <1> QED
    BY <1>2, <1>3

\* It keeps it while it goes on,
LEMMA UnloadCount ==
    ASSUME CountInv, NEW w \in Workers, Unload(w) \/ StoreUnloaded(w)
    PROVE  Counted' /\ Backed'
  <1>1. /\ worker'[w].plugin = Of(w)
        /\ \A v \in Workers \ {w} : worker'[v] = worker[v]
        /\ UNCHANGED <<waiting, overlapped, doubled>>
    BY Goes DEF Unload, StoreUnloaded, CountInv, AllPlaces, history
  <1>2. CASE Unload(w)
    <2>1. worker[w].at = "unload" /\ worker'[w].at = "clear" /\ enabled' = enabled
      BY <1>2, Goes DEF Unload, At, CountInv, AllPlaces
    <2>2. Adders' = Adders /\ Releasers' = Releasers /\ Unloaders' = Unloaders
      BY <1>1, <2>1 DEF Adders, Releasers, Unloaders, Unloading, At
    <2>3. Settled' = Settled
      BY <1>1, <2>1 DEF Settled, Of
    <2> QED
      BY <1>1, <2>1, <2>2, <2>3 DEF CountInv, Counted, Backed
  <1>3. CASE StoreUnloaded(w)
    <2>1. worker[w].at = "clear" /\ worker'[w].at = "release" /\ enabled' = enabled \ {Of(w)}
      BY <1>3, Goes DEF StoreUnloaded, At, CountInv, AllPlaces
    <2>2. Adders' = Adders /\ Unloaders' = Unloaders
      BY <1>1, <2>1 DEF Adders, Unloaders, Unloading, At
    <2>3. Releasers' = Releasers \cup {w} /\ w \notin Releasers
      BY <1>1, <2>1 DEF Releasers, At
    <2>4. overlapped = {} => Of(w) \in enabled
      BY <2>1 DEF CountInv, LoadInv, Places, At, Inside, Unloading
    <2>5. Counted'
      <3>1. PluginsTypeOK
        BY DEF CountInv, LoadInv
      <3>2. Cardinality(Releasers') = Cardinality(Releasers) + 1
        BY <2>3, <3>1, Finite, Plus
      <3>3. overlapped = {} => Cardinality(enabled') = Cardinality(enabled) - 1
        BY <2>1, <2>4, <3>1, Finite, Minus
      <3> QED
        BY <1>1, <2>2, <3>1, <3>2, <3>3, Finite DEF CountInv, Counted
    <2>6. Settled' = Settled
      BY <1>1, <2>1 DEF Settled, Of
    <2> QED
      BY <1>1, <2>2, <2>5, <2>6 DEF CountInv, Backed
  <1> QED
    BY <1>2, <1>3

\* and gives it back at the end.
LEMMA DoneCount ==
    ASSUME CountInv, NEW w \in Workers, Done(w)
    PROVE  Counted' /\ Backed'
  <1>1. /\ worker[w].at = "release" /\ worker'[w].at \in {"done", "range", "readOff"}
        /\ \A v \in Workers \ {w} : worker'[v] = worker[v]
        /\ UNCHANGED <<enabled, overlapped, doubled>> /\ waiting' = waiting - 1
    BY Goes DEF Done, CountInv, AllPlaces, OutsidePlaces, At, history
  <1>2. Adders' = Adders
    BY <1>1 DEF Adders, At
  <1>3. Releasers' = Releasers \ {w} /\ w \in Releasers
    BY <1>1 DEF Releasers, At
  <1>4. Unloaders' = Unloaders \ {w} /\ w \in Unloaders
    BY <1>1 DEF Unloaders, Unloading
  <1>5. Settled' = Settled
    BY <1>1 DEF Settled, Of
  <1>6. PluginsTypeOK
    BY DEF CountInv, LoadInv
  <1>7. /\ Cardinality(Releasers') = Cardinality(Releasers) - 1
        /\ Cardinality(Unloaders') = Cardinality(Unloaders) - 1
    BY <1>3, <1>4, <1>6, Finite, Minus
  <1>8. Counted'
    BY <1>1, <1>2, <1>6, <1>7, Finite DEF CountInv, Counted, PluginsTypeOK
  <1>9. Backed'
    BY <1>1, <1>5, <1>6, <1>7, Finite DEF CountInv, Backed, PluginsTypeOK
  <1> QED
    BY <1>8, <1>9

\* The steps that only read and write rows, and those before a load is
\* stored, count nothing.
LEMMA StepCount ==
    ASSUME CountInv, NEW w \in Workers, Step(w)
    PROVE  Counted' /\ Backed'
  <1>1. LoadInv /\ \A v \in Workers \ {w} : worker'[v] = worker[v]
    BY StepFrame DEF CountInv
  <1>2. CASE CheckLoad(w) \/ \E ok \in BOOLEAN : Load(w, ok)
    <2>1. worker[w].at \in {"checkLoad", "load"} /\ worker'[w].at \in {"done", "load", "store"}
      BY <1>1, <1>2, Goes DEF CheckLoad, Load, At, AllPlaces, OutsidePlaces
    <2>2. UNCHANGED <<enabled, waiting, doubled>> /\ overlapped \subseteq overlapped'
      BY <1>2 DEF CheckLoad, Load, managerVars
    <2> QED
      BY <1>1, <2>1, <2>2, SameCount DEF CountedPlaces
  <1>3. CASE \/ ReadOn(w) \/ ReadOff(w) \/ CheckReload(w)
             \/ \E ok \in BOOLEAN : SaveOn(w, ok) \/ SaveOff(w, ok) \/ SaveSettings(w, ok)
             \/ \E s \in Settings : ReadSettings(w, s)
    <2>1. UNCHANGED <<enabled, waiting, history>>
      BY <1>1, <1>3, RowStep
    <2>2. worker[w].at \notin CountedPlaces
      BY <1>3 DEF ReadOn, ReadOff, CheckReload, SaveOn, SaveOff, SaveSettings, ReadSettings, At, CountedPlaces
    <2>3. worker'[w].at \notin CountedPlaces
      BY <1>1, <1>3 DEF ReadOn, ReadOff, CheckReload, SaveOn, SaveOff, SaveSettings, ReadSettings,
         Move, Copy, Idle, CountedPlaces, LoadInv, PluginsTypeOK
    <2> QED
      BY <1>1, <2>1, <2>2, <2>3, SameCount DEF history
  <1> QED
    BY <1>2, <1>3, StoreLoadedCount, AddCount, CheckUnloadCount, UnloadCount, DoneCount DEF Step

LEMMA NextCount == CountInv /\ [PluginsNext]_pluginVars => CountInv'
  <1> SUFFICES ASSUME CountInv, [PluginsNext]_pluginVars PROVE Counted' /\ Backed'
    BY Inductive DEF CountInv
  <1>1. LoadInv /\ worker \in [Workers -> Jobs] /\ Stopper \in Workers /\ Calls \subseteq Workers
    BY DEF CountInv, LoadInv, PluginsTypeOK, Jobs, OutsidePlaces, Calling, Workers
  <1>2. ASSUME NEW w \in Calls, Ask(w) PROVE Counted' /\ Backed'
    <2>1. PICK call \in {"enable", "disable", "settings"}, p \in Plugins : Begin(w, call, p)
      BY <1>2 DEF Ask
    <2>2. worker[w].at = "idle" /\ UNCHANGED <<managerVars, history>>
      BY <2>1 DEF Begin, At
    <2>3. worker'[w].at \in {"readOn", "checkUnload", "readSettings"}
      BY <1>1, <2>1 DEF Begin, Idle
    <2>4. \A v \in Workers \ {w} : worker'[v] = worker[v]
      BY <1>1, <2>1 DEF Begin
    <2> QED
      BY <2>2, <2>3, <2>4, SameCount DEF CountedPlaces, managerVars, history
  <1>3. CASE Start
    <2>1. \A v \in Workers : worker[v].at = "idle"
      BY <1>1, <1>3 DEF Start, LoadInv, Fresh, At
    <2>2. \A v \in Workers : worker'[v].at \in {"idle", "checkLoad"}
      BY <2>1, <1>3 DEF Start, Idle
    <2> QED
      BY <1>3, <2>1, <2>2, SameCount DEF Start, CountedPlaces, history
  <1>4. CASE ShutdownStart
    <2>1. worker[Stopper].at = "idle"
      BY <1>1, <1>4 DEF ShutdownStart, LoadInv, Fresh, At
    <2>2. worker'[Stopper].at = "range" /\ \A v \in Workers \ {Stopper} : worker'[v] = worker[v]
      BY <1>1, <1>4 DEF ShutdownStart, Idle
    <2> QED
      BY <1>4, <2>1, <2>2, SameCount DEF ShutdownStart, CountedPlaces, history
  <1>5. CASE Stop
    <2>1. worker[Stopper].at = "range" /\ UNCHANGED <<enabled, waiting, history>>
      BY <1>5 DEF Stop, Visit, Waited, At
    <2>2. /\ worker'[Stopper].at \in {"checkUnload", "range", "done"}
          /\ \A v \in Workers \ {Stopper} : worker'[v] = worker[v]
      <3>1. ASSUME NEW p \in Plugins, Visit(p)
            PROVE  \E place \in {"checkUnload", "range"} :
                       worker' = [worker EXCEPT ![Stopper].plugin = p, ![Stopper].at = place]
        BY <3>1 DEF Visit
      <3>2. CASE Waited
        BY <1>1, <3>2 DEF Waited, Move, Idle
      <3> QED
        BY <1>1, <1>5, <3>1, <3>2 DEF Stop, Jobs
    <2> QED
      BY <2>1, <2>2, SameCount DEF CountedPlaces, history
  <1>6. CASE UNCHANGED pluginVars
    BY <1>6, SameCount DEF pluginVars, managerVars, history
  <1> QED
    BY <1>2, <1>3, <1>4, <1>5, <1>6, StepCount DEF PluginsNext

LEMMA InitCount == PluginsInit => CountInv
  <1> SUFFICES ASSUME PluginsInit PROVE Counted /\ Backed
    BY Initial DEF CountInv
  <1>1. enabled = {} /\ Adders = {} /\ Releasers = {} /\ Settled = {} /\ Unloaders = {} /\ waiting = 0
    BY DEF PluginsInit, Adders, Releasers, Settled, Unloaders, Unloading, At, Idle
  <1> QED
    BY <1>1, FS_EmptySet DEF Counted, Backed

\* For any number of plugins and requests the wait group counts the plugins
\* that are loaded.
THEOREM Counts == PluginsSpec => []WaitGroupCovers
  <1>1. CountInv => WaitGroupCovers
    BY DEF CountInv, Counted, Adders, Releasers, WaitGroupCovers
  <1> QED
    BY <1>1, InitCount, NextCount, PTL DEF PluginsSpec

\* Only two unloads at once, or one before the Add of a load, can make Done
\* panic: any other interleaving of loads and unloads leaves it its unit.
THEOREM PanicExplained == PluginsSpec => []PanicNeedsTwoUnloads
  <1>1. CountInv => PanicNeedsTwoUnloads
    BY Finite DEF CountInv, LoadInv, Backed, PanicNeedsTwoUnloads, PluginsTypeOK
  <1> QED
    BY <1>1, InitCount, NextCount, PTL DEF PluginsSpec

-----------------------------------------------------------------------------
(* The event loop.  The argument for NoPhantomJob counts the jobs still    *)
(* owed: those not cleared, which are the pending and the aborted ones,    *)
(* and the one clearInterval is about to take off the count.  Every step   *)
(* that lowers this number by one lowers jobCount by at least one; only    *)
(* SetTimeout and SetInterval raise jobCount, and they add a job that was  *)
(* cleared.                                                                *)

Uncleared == {x \in Timers \cup Intervals : ~cancelled[x]}

Owed == Cardinality(Uncleared) + (IF pc = "clearing" THEN 1 ELSE 0)

\* What the argument needs of the variables' types.
TimersTyped ==
    /\ cancelled \in [Timers \cup Intervals -> BOOLEAN]
    /\ jobCount \in Int
    /\ timer \in [Timers -> {"free", "armed", "sending", "done"}]
    /\ interval \in [Intervals -> {"off", "select", "sending"}]

\* A callback is under way only in the steps that run it, and clearInterval
\* does not call itself.
InCallback ==
    /\ back # "clearing"
    /\ cur # None => pc = "callback" \/ (pc = "clearing" /\ back = "callback")

\* A timer or an interval that was never set is cleared.
TimersSettled ==
    /\ \A t \in Timers :
         timer[t] = "free" => cancelled[t]
    /\ \A i \in Intervals : interval[i] = "off" => cancelled[i]

LoopShape == TimersTyped /\ InCallback /\ TimersSettled

LoopInv == LoopShape /\ jobCount <= Owed

\* The jobs not cleared are finitely many, before and after a step.
LEMMA UnclearedFinite ==
    /\ IsFiniteSet(Uncleared) /\ Cardinality(Uncleared) \in Nat
    /\ IsFiniteSet(Uncleared') /\ Cardinality(Uncleared') \in Nat
<1>1. IsFiniteSet(Timers \cup Intervals)
  BY FiniteAssumption, FS_Union
<1>2. Uncleared \subseteq Timers \cup Intervals /\ Uncleared' \subseteq Timers \cup Intervals
  BY DEF Uncleared
<1> QED
  BY <1>1, <1>2, FS_Subset, FS_CardinalityType

\* A job set that was cleared adds one to those that are not.
LEMMA OneMore ==
    ASSUME NEW x \in Timers \cup Intervals, TimersTyped, cancelled[x],
           cancelled' = [cancelled EXCEPT ![x] = FALSE]
    PROVE  Cardinality(Uncleared') = Cardinality(Uncleared) + 1
<1>1. Uncleared' = Uncleared \cup {x} /\ x \notin Uncleared
  BY DEF Uncleared, TimersTyped
<1> QED
  BY <1>1, UnclearedFinite, FS_AddElement

\* A flag set on a job that was not cleared takes one from these.
LEMMA OneLess ==
    ASSUME NEW x \in Timers \cup Intervals, TimersTyped, ~cancelled[x],
           cancelled' = [cancelled EXCEPT ![x] = TRUE]
    PROVE  Cardinality(Uncleared') = Cardinality(Uncleared) - 1
<1>1. Uncleared' = Uncleared \ {x} /\ x \in Uncleared
  BY DEF Uncleared, TimersTyped
<1> QED
  BY <1>1, UnclearedFinite, FS_RemoveElement

\* A flag set changes nothing if it was set.
LEMMA SameUncleared ==
    ASSUME cancelled' = cancelled
    PROVE  Cardinality(Uncleared') = Cardinality(Uncleared)
<1>1. Uncleared' = Uncleared
  BY DEF Uncleared
<1> QED
  BY <1>1

\* Initially nothing is set and nothing is counted.
LEMMA LoopInitially == LoopInit => LoopInv
<1> SUFFICES ASSUME LoopInit PROVE LoopInv
  OBVIOUS
<1>1. TimersTyped
  BY DEF LoopInit, TimersTyped
<1>2. InCallback
  BY DEF LoopInit, InCallback
<1>3. TimersSettled
  BY DEF LoopInit, TimersSettled
<1>4. jobCount = 0 /\ pc # "clearing"
  BY DEF LoopInit
<1> QED
  BY <1>1, <1>2, <1>3, <1>4, UnclearedFinite DEF LoopInv, LoopShape, Owed

\* Every step keeps the shape: the flags, the callback under way and the
\* states of timers and intervals agree.
LEMMA LoopKeepsShape == LoopShape /\ [LoopNext]_engineVars => LoopShape'
<1> SUFFICES ASSUME LoopShape, [LoopNext]_engineVars PROVE LoopShape'
  OBVIOUS
<1> USE NamesAssumption DEF LoopShape, TimersTyped, InCallback, TimersSettled
<1>1. ASSUME NEW t \in Timers, SetTimeout(t) PROVE LoopShape'
  BY <1>1 DEF SetTimeout, loopVars
<1>2. ASSUME NEW t \in Timers, ClearTimeout(t) PROVE LoopShape'
  BY <1>2 DEF ClearTimeout, loopVars
<1>3. ASSUME NEW i \in Intervals, SetInterval(i) PROVE LoopShape'
  BY <1>3 DEF SetInterval, loopVars
<1>4. ASSUME NEW i \in Intervals, ClearInterval(i) PROVE LoopShape'
  BY <1>4 DEF ClearInterval, InScript, timeVars
<1>5. CASE ClearIntervalEnd
  BY <1>5 DEF ClearIntervalEnd
<1>6. ASSUME NEW t \in Timers, Fire(t) PROVE LoopShape'
  BY <1>6 DEF Fire, loopVars
<1>7. ASSUME NEW t \in Timers, DoTimeout(t) PROVE LoopShape'
  BY <1>7 DEF DoTimeout, Do
<1>8. ASSUME NEW i \in Intervals, Tick(i) PROVE LoopShape'
  BY <1>8 DEF Tick, loopVars
<1>9. ASSUME NEW i \in Intervals, TakeTick(i) PROVE LoopShape'
  BY <1>9 DEF TakeTick, loopVars
<1>10. ASSUME NEW i \in Intervals, DoInterval(i) PROVE LoopShape'
  BY <1>10 DEF DoInterval, Do
<1>11. CASE Run \/ AssertFunction
  BY <1>11 DEF Run, AssertFunction, Enter, timeVars
<1>12. CASE Leave
  BY <1>12 DEF Leave, timeVars
<1>13. CASE CheckJobs
  BY <1>13 DEF CheckJobs, timeVars
<1>14. CASE CallbackEnd
  <2>1. UNCHANGED <<back, timer, interval>> /\ pc' = "check" /\ cur' = None
    BY <1>14 DEF CallbackEnd, timeVars
  <2>2. CASE cur \in Timers
    <3>1. cancelled' = [cancelled EXCEPT ![cur] = TRUE] /\ jobCount' = jobCount - 1
      BY <1>14, <2>2 DEF CallbackEnd
    <3>2. TimersTyped'
      BY <2>1, <2>2, <3>1
    <3>3. TimersSettled'
      BY <2>1, <2>2, <3>1
    <3> QED
      BY <2>1, <3>2, <3>3
  <2>3. CASE cur \notin Timers
    <3>1. UNCHANGED <<cancelled, jobCount>>
      BY <1>14, <2>3 DEF CallbackEnd
    <3> QED
      BY <2>1, <2>3, <3>1
  <2> QED
    BY <2>2, <2>3
<1>15. CASE UNCHANGED engineVars
  BY <1>15 DEF engineVars, loopVars, timeVars
<1>16. CASE Panic
  BY <1>16 DEF Panic, InScript, timeVars
<1> QED
  BY <1>1, <1>2, <1>3, <1>4, <1>5, <1>6, <1>7, <1>8, <1>9, <1>10, <1>11, <1>12, <1>13,
     <1>14, <1>15, <1>16 DEF LoopNext, Script

\* Every step keeps jobCount within what is owed.
LEMMA LoopCount == LoopInv /\ [LoopNext]_engineVars => (jobCount <= Owed)'
<1> SUFFICES ASSUME LoopInv, [LoopNext]_engineVars PROVE (jobCount <= Owed)'
  OBVIOUS
<1> USE UnclearedFinite
<1>0. TimersTyped /\ jobCount \in Int /\ jobCount <= Owed
  BY DEF LoopInv, LoopShape, TimersTyped
<1>1. ASSUME NEW t \in Timers, SetTimeout(t) PROVE (jobCount <= Owed)'
  <2>1. cancelled[t]
    BY <1>1 DEF SetTimeout, LoopInv, LoopShape, TimersSettled
  <2>2. Cardinality(Uncleared') = Cardinality(Uncleared) + 1
    BY <1>0, <1>1, <2>1, OneMore DEF SetTimeout
  <2> QED
    BY <1>0, <1>1, <2>2 DEF SetTimeout, loopVars, Owed
<1>2. ASSUME NEW t \in Timers, ClearTimeout(t) PROVE (jobCount <= Owed)'
  <2>1. Cardinality(Uncleared') = Cardinality(Uncleared) - 1
    BY <1>0, <1>2, OneLess DEF ClearTimeout
  <2> QED
    BY <1>0, <1>2, <2>1 DEF ClearTimeout, loopVars, Owed
<1>3. ASSUME NEW i \in Intervals, SetInterval(i) PROVE (jobCount <= Owed)'
  <2>1. cancelled[i]
    BY <1>3 DEF SetInterval, LoopInv, LoopShape, TimersSettled
  <2>2. Cardinality(Uncleared') = Cardinality(Uncleared) + 1
    BY <1>0, <1>3, <2>1, OneMore DEF SetInterval
  <2> QED
    BY <1>0, <1>3, <2>2 DEF SetInterval, loopVars, Owed
<1>4. ASSUME NEW i \in Intervals, ClearInterval(i) PROVE (jobCount <= Owed)'
  <2>1. Cardinality(Uncleared') = Cardinality(Uncleared) - 1
    BY <1>0, <1>4, OneLess DEF ClearInterval
  <2>2. pc # "clearing" /\ pc' = "clearing" /\ jobCount' = jobCount
    BY <1>4 DEF ClearInterval, InScript
  <2> QED
    BY <1>0, <2>1, <2>2 DEF Owed
<1>5. CASE ClearIntervalEnd
  <2>1. Cardinality(Uncleared') = Cardinality(Uncleared)
    BY <1>5, SameUncleared DEF ClearIntervalEnd
  <2>2. pc = "clearing" /\ pc' # "clearing" /\ jobCount' = jobCount - 1
    BY <1>5 DEF ClearIntervalEnd, LoopInv, LoopShape, InCallback
  <2> QED
    BY <1>0, <2>1, <2>2 DEF Owed
<1>6. ASSUME cancelled' = cancelled, jobCount' = jobCount,
             pc' = "clearing" <=> pc = "clearing"
      PROVE  (jobCount <= Owed)'
  <2>1. Cardinality(Uncleared') = Cardinality(Uncleared)
    BY <1>6, SameUncleared
  <2> QED
    BY <1>0, <1>6, <2>1 DEF Owed
<1>7. ASSUME NEW t \in Timers, Fire(t) PROVE (jobCount <= Owed)'
  BY <1>6, <1>7 DEF Fire, loopVars
<1>8. ASSUME NEW t \in Timers, DoTimeout(t) PROVE (jobCount <= Owed)'
  BY <1>6, <1>8 DEF DoTimeout, Do
<1>9. ASSUME NEW i \in Intervals, Tick(i) \/ TakeTick(i) PROVE (jobCount <= Owed)'
  BY <1>6, <1>9 DEF Tick, TakeTick, loopVars
<1>10. ASSUME NEW i \in Intervals, DoInterval(i) PROVE (jobCount <= Owed)'
  BY <1>6, <1>10 DEF DoInterval, Do
<1>11. CASE Run \/ AssertFunction \/ Leave \/ CheckJobs
  BY <1>6, <1>11 DEF Run, AssertFunction, Enter, Leave, CheckJobs
<1>12. CASE CallbackEnd
  <2>1. CASE cur \in Timers
    <3>1. CASE cancelled[cur]
      <4>1. cancelled' = cancelled
        BY <1>0, <1>12, <2>1, <3>1 DEF CallbackEnd, TimersTyped
      <4>2. Cardinality(Uncleared') = Cardinality(Uncleared)
        BY <4>1, SameUncleared
      <4> QED
        BY <1>0, <1>12, <2>1, <4>2 DEF CallbackEnd, Owed
    <3>2. CASE ~cancelled[cur]
      <4>1. Cardinality(Uncleared') = Cardinality(Uncleared) - 1
        BY <1>0, <1>12, <2>1, <3>2, OneLess DEF CallbackEnd
      <4> QED
        BY <1>0, <1>12, <2>1, <4>1 DEF CallbackEnd, Owed
    <3> QED
      BY <3>1, <3>2
  <2>2. CASE cur \notin Timers
    BY <1>6, <1>12, <2>2 DEF CallbackEnd
  <2> QED
    BY <2>1, <2>2
<1>13. CASE UNCHANGED engineVars
  BY <1>6, <1>13 DEF engineVars, loopVars
<1>14. CASE Panic
  BY <1>6, <1>14 DEF Panic, InScript
<1> QED
  BY <1>1, <1>2, <1>3, <1>4, <1>5, <1>7, <1>8, <1>9, <1>10, <1>11, <1>12, <1>13, <1>14
     DEF LoopNext, Script

\* The jobs not cleared are the pending and the aborted ones.
LEMMA Split == Cardinality(Uncleared) = Cardinality(Pending) + Cardinality(Aborted)
<1>1. Uncleared = Pending \cup Aborted
  BY DEF Uncleared, Pending, Aborted
<1>2. Pending \cap Aborted = {}
  BY NamesAssumption DEF Pending, Aborted
<1>3. IsFiniteSet(Pending) /\ IsFiniteSet(Aborted)
  BY <1>1, UnclearedFinite, FS_Subset
<1>4. Cardinality(Pending) \in Nat /\ Cardinality(Aborted) \in Nat
  BY <1>3, FS_CardinalityType
<1>5. Cardinality(Pending \cup Aborted)
          = Cardinality(Pending) + Cardinality(Aborted) - Cardinality(Pending \cap Aborted)
  BY <1>3, FS_Union
<1>6. Cardinality(Pending \cap Aborted) = 0
  BY <1>2, FS_EmptySet
<1> QED
  BY <1>1, <1>4, <1>5, <1>6

\* Whatever the script sets and clears, in whichever order time serves it and
\* wherever a panic ends it, run waits in vain for no more jobs than panics
\* have aborted (EventLoop.run, doTimeout).
THEOREM NoWaitForNothing == LoopSpec => []NoPhantomJob
<1>1. LoopInv /\ [LoopNext]_engineVars => LoopInv'
  BY LoopKeepsShape, LoopCount DEF LoopInv
<1>2. LoopInv => NoPhantomJob
  BY Split DEF LoopInv, Owed, NoPhantomJob
<1> QED
  BY LoopInitially, <1>1, <1>2, PTL DEF LoopSpec

-----------------------------------------------------------------------------
(* The time trigger.  Unsubscribe removes an entry by its id, so the       *)
(* argument needs that ids are never shared (Unique), and that a           *)
(* subscriber in the table is in the list of its schedule and switched on  *)
(* (Placed).                                                               *)

\* No two subscribers share an entry, nor does one with a trigger whose
\* Subscribe is under way; ids in use were given out.
Unique ==
    /\ \A s1, s2 \in Schedules :
         \A x \in subscribers[s1], y \in subscribers[s2] : x.entry = y.entry => s1 = s2 /\ x = y
    /\ \A h \in Handlers : state[h] = "adding" =>
         /\ entry[h] >= 1
         /\ \A s \in Schedules : \A x \in subscribers[s] : x.entry # entry[h]
         /\ \A g \in Handlers : state[g] = "adding" /\ entry[g] = entry[h] => g = h
    /\ \A h \in Handlers : entry[h] <= nextID
    /\ \A s \in Schedules : \A x \in subscribers[s] : x.entry <= nextID

\* A subscriber is switched on and in the list of its schedule.
Placed ==
    \A s \in Schedules : \A x \in subscribers[s] :
        state[x.handler] = "on" /\ schedule[x.handler] = s


\* TableMatchesScheduler, entry by entry.
Agree ==
    /\ \A e \in entries :
         \/ \E s \in Schedules : \E x \in subscribers[s] : e.id = x.entry /\ e.handler = x.handler
         \/ \E h \in Handlers : state[h] = "adding" /\ e.id = entry[h] /\ e.handler = h
    /\ \A s \in Schedules : \A x \in subscribers[s] :
         [id |-> x.entry, handler |-> x.handler] \in entries
    /\ \A h \in Handlers : state[h] = "adding" => [id |-> entry[h], handler |-> h] \in entries

\* A trigger whose Unsubscribe came after its Subscribe is switched off.
Off == \A h \in Handlers : left[h] = "done" => state[h] = "off"

CronInv == TypeOK /\ Unique /\ Placed /\ Agree /\ Off

\* Nothing is subscribed at the start.
LEMMA CronInitially == Init => CronInv
<1> SUFFICES ASSUME Init PROVE CronInv
  OBVIOUS
<1> USE DEF Init
<1>1. TypeOK
  BY MaxEntriesAssumption DEF TypeOK
<1>2. Unique
  BY DEF Unique
<1>3. Placed
  BY DEF Placed
<1>4. Agree
  BY DEF Agree
<1>5. Off
  BY DEF Off
<1> QED
  BY <1>1, <1>2, <1>3, <1>4, <1>5 DEF CronInv

\* Every step keeps the table, the scheduler and the ids in agreement.
LEMMA CronNext == CronInv /\ [Next]_vars => CronInv'
<1> SUFFICES ASSUME CronInv, [Next]_vars PROVE CronInv'
  OBVIOUS
<1>0. TypeOK /\ Unique /\ Placed /\ Agree /\ Off
  BY DEF CronInv
<1>1. ASSUME NEW h \in Handlers, AddFunc(h) PROVE CronInv'
  <2> USE <1>0, <1>1, MaxEntriesAssumption DEF AddFunc
  <2>1. /\ nextID' = nextID + 1 /\ nextID' \in 1..MaxEntries
        /\ entry' = [entry EXCEPT ![h] = nextID + 1]
        /\ state' = [state EXCEPT ![h] = "adding"]
        /\ entries' = entries \cup {[id |-> nextID + 1, handler |-> h]}
        /\ left[h] # "done"
        /\ UNCHANGED <<schedule, left, subscribers>>
    BY DEF TypeOK
  <2>2. TypeOK'
    BY <2>1 DEF TypeOK
  <2>3. Unique'
    <3>1. \A s \in Schedules : \A x \in subscribers'[s] : x.entry # nextID + 1
      BY <2>1 DEF Unique, TypeOK
    <3>2. \A g \in Handlers : entry[g] # nextID + 1
      BY <2>1 DEF Unique, TypeOK
    <3> QED
      BY <2>1, <3>1, <3>2 DEF Unique, TypeOK
  <2>4. Placed'
    BY <2>1 DEF Placed, TypeOK
  <2>5. Agree'
    BY <2>1 DEF Agree, TypeOK
  <2>6. Off'
    BY <2>1 DEF Off, TypeOK
  <2> QED
    BY <2>2, <2>3, <2>4, <2>5, <2>6 DEF CronInv
<1>2. ASSUME NEW h \in Handlers, Subscribe(h) PROVE CronInv'
  <2> DEFINE new == [handler |-> h, entry |-> entry[h]]
  <2>1. /\ subscribers' = [subscribers EXCEPT ![schedule[h]] = @ \cup {new}]
        /\ state[h] = "adding" /\ state' = [state EXCEPT ![h] = "on"]
        /\ UNCHANGED <<schedule, left, entry, entries, nextID>>
    BY <1>2 DEF Subscribe
  <2>2. schedule[h] \in Schedules /\ entry[h] \in 1..MaxEntries
    BY <1>0, <2>1, MaxEntriesAssumption DEF TypeOK, Unique
  <2>3. new.handler = h /\ new.entry = entry[h]
    OBVIOUS
  <2>4. \A s \in Schedules : \A x \in subscribers'[s] :
          x \in subscribers[s] \/ (x = new /\ s = schedule[h])
    BY <1>0, <2>1, <2>2 DEF TypeOK
  <2>5. \A s \in Schedules : subscribers[s] \subseteq subscribers'[s]
    BY <1>0, <2>1, <2>2 DEF TypeOK
  <2>6. new \in subscribers'[schedule[h]]
    BY <1>0, <2>1, <2>2 DEF TypeOK
  <2> HIDE DEF new
  <2>7. TypeOK'
    <3>1. new \in [handler : Handlers, entry : 1..MaxEntries]
      BY <2>2 DEF new
    <3> QED
      BY <1>0, <2>1, <2>2, <3>1 DEF TypeOK
  <2>8. Unique'
    BY <1>0, <2>1, <2>2, <2>3, <2>4 DEF Unique, TypeOK
  <2>9. Placed'
    BY <1>0, <2>1, <2>2, <2>3, <2>4 DEF Placed, TypeOK
  <2>10. Agree'
    <3>1. \A g \in Handlers : state'[g] = "adding" <=> (g # h /\ state[g] = "adding")
      BY <1>0, <2>1 DEF TypeOK
    <3>2. ASSUME NEW e \in entries'
          PROVE  \/ \E s \in Schedules : \E x \in subscribers'[s] :
                      e.id = x.entry /\ e.handler = x.handler
                 \/ \E g \in Handlers : state'[g] = "adding" /\ e.id = entry'[g] /\ e.handler = g
      <4>1. CASE \E s \in Schedules : \E x \in subscribers[s] : e.id = x.entry /\ e.handler = x.handler
        BY <2>5, <4>1
      <4>2. CASE e.id = entry[h] /\ e.handler = h
        BY <2>2, <2>3, <2>6, <4>2
      <4>3. CASE \E g \in Handlers : g # h /\ state[g] = "adding" /\ e.id = entry[g] /\ e.handler = g
        BY <2>1, <3>1, <4>3
      <4> QED
        BY <1>0, <2>1, <4>1, <4>2, <4>3 DEF Agree
    <3>3. ASSUME NEW s \in Schedules, NEW x \in subscribers'[s]
          PROVE  [id |-> x.entry, handler |-> x.handler] \in entries'
      BY <1>0, <2>1, <2>3, <2>4 DEF Agree
    <3> QED
      BY <1>0, <2>1, <3>1, <3>2, <3>3 DEF Agree
  <2>11. Off'
    BY <1>0, <2>1 DEF Off, TypeOK
  <2> QED
    BY <2>7, <2>8, <2>9, <2>10, <2>11 DEF CronInv
<1>3. ASSUME NEW h \in Handlers, NEW s \in Schedules, Reload(h, s) PROVE CronInv'
  <2> USE <1>0, <1>3 DEF Reload
  <2>1. TypeOK'
    BY DEF TypeOK
  <2>2. Unique'
    BY DEF Unique
  <2>3. Placed'
    BY DEF Placed, TypeOK, Off
  <2>4. Agree'
    BY DEF Agree
  <2>5. Off'
    BY DEF Off, TypeOK
  <2> QED
    BY <2>1, <2>2, <2>3, <2>4, <2>5 DEF CronInv
<1>4. ASSUME NEW h \in Handlers, Unsubscribe(h) PROVE CronInv'
  <2> DEFINE s0 == schedule[h]
  <2>1. /\ state' = [state EXCEPT ![h] = IF state[h] = "on" THEN "off" ELSE state[h]]
        /\ left' = [left EXCEPT ![h] = IF state[h] = "on" THEN "done" ELSE "early"]
        /\ UNCHANGED <<schedule, entry, nextID>>
        /\ entries' \subseteq entries
    BY <1>4 DEF Unsubscribe, Leaves
  <2>2. s0 \in Schedules
    BY <1>0 DEF TypeOK
  <2>3. Matching(h) = subscribers[s0]
    BY DEF Matching, Pointer
  <2>4. subscribers' = [subscribers EXCEPT ![s0] = {}]
    BY <1>4, <2>3 DEF Unsubscribe
  <2>5. \A e \in entries : e \in entries' <=> \A x \in subscribers[s0] : x.entry # e.id
    BY <1>4, <2>3 DEF Unsubscribe
  <2> HIDE DEF s0
  <2>6. \A s \in Schedules : s # s0 => subscribers'[s] = subscribers[s]
    BY <1>0, <2>2, <2>4 DEF TypeOK
  <2>7. subscribers'[s0] = {}
    BY <1>0, <2>2, <2>4 DEF TypeOK
  <2>8. TypeOK'
    BY <1>0, <2>1, <2>2, <2>4 DEF TypeOK
  <2>9. Unique'
    BY <1>0, <2>1, <2>6, <2>7 DEF Unique, TypeOK
  <2>10. Placed'
    BY <1>0, <2>1, <2>6, <2>7 DEF Placed, TypeOK, s0
  <2>11. Agree'
    <3>1. \A g \in Handlers : state'[g] = "adding" <=> state[g] = "adding"
      BY <1>0, <2>1 DEF TypeOK
    <3>2. ASSUME NEW e \in entries'
          PROVE  \/ \E s \in Schedules : \E x \in subscribers'[s] :
                      e.id = x.entry /\ e.handler = x.handler
                 \/ \E g \in Handlers : state'[g] = "adding" /\ e.id = entry'[g] /\ e.handler = g
      <4>1. e \in entries /\ \A x \in subscribers[s0] : x.entry # e.id
        BY <2>1, <2>5
      <4> QED
        BY <1>0, <2>1, <2>6, <3>1, <4>1 DEF Agree
    <3>3. ASSUME NEW s \in Schedules, NEW x \in subscribers'[s]
          PROVE  [id |-> x.entry, handler |-> x.handler] \in entries'
      <4>1. s # s0 /\ x \in subscribers[s]
        BY <2>6, <2>7
      <4>2. \A y \in subscribers[s0] : y.entry # x.entry
        BY <1>0, <2>2, <4>1 DEF Unique
      <4> QED
        BY <1>0, <2>5, <4>1, <4>2 DEF Agree
    <3>4. ASSUME NEW g \in Handlers, state'[g] = "adding"
          PROVE  [id |-> entry'[g], handler |-> g] \in entries'
      <4>1. \A y \in subscribers[s0] : y.entry # entry[g]
        BY <1>0, <2>2, <3>1, <3>4 DEF Unique
      <4> QED
        BY <1>0, <2>1, <2>5, <3>1, <3>4, <4>1 DEF Agree
    <3> QED
      BY <3>2, <3>3, <3>4 DEF Agree
  <2>12. Off'
    BY <1>0, <2>1 DEF Off, TypeOK
  <2> QED
    BY <2>8, <2>9, <2>10, <2>11, <2>12 DEF CronInv
<1>5. CASE UNCHANGED vars
  BY <1>0, <1>5 DEF vars, CronInv, TypeOK, Unique, Placed, Agree, Off
<1> QED
  BY <1>1, <1>2, <1>3, <1>4, <1>5 DEF Next

\* Every variable of the trigger and the scheduler keeps its type.
THEOREM TriggerTypeCorrect == Spec => []TypeOK
<1>1. CronInv => TypeOK
  BY DEF CronInv
<1> QED
  BY CronInitially, CronNext, <1>1, PTL DEF Spec

\* The scheduler holds exactly the entries of the table and of the Subscribe
\* calls under way (Subscribe, Unsubscribe).
THEOREM Agreement == Spec => []TableMatchesScheduler
<1>1. ASSUME CronInv PROVE TableMatchesScheduler
  <2> USE <1>1 DEF CronInv
  <2>1. ASSUME NEW e \in entries
        PROVE  e = [id |-> e.id, handler |-> e.handler]
    BY DEF TypeOK
  <2> QED
    BY <2>1 DEF Agree, TableMatchesScheduler
<1> QED
  BY CronInitially, CronNext, <1>1, PTL DEF Spec

\* A trigger whose Unsubscribe came after its Subscribe has no entry left,
\* whatever the calls of other triggers do (Unsubscribe).
THEOREM Silence == Spec => []UnsubscribedIsSilent
<1>1. CronInv => UnsubscribedIsSilent
  BY DEF CronInv, Agree, Placed, Off, UnsubscribedIsSilent
<1> QED
  BY CronInitially, CronNext, <1>1, PTL DEF Spec
=============================================================================
