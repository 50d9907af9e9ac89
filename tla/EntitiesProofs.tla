--------------------------- MODULE EntitiesProofs ---------------------------
(***************************************************************************)
(* Proofs about Entities, for any number of jobs, actors and versions, and *)
(* about Dashboard, for any number of tabs, cards, items and operations.   *)
(*                                                                         *)
(* Entities: type correctness; updates never lose the entity; the map      *)
(* holds a destroyed actor only while its removal is under way; and, as    *)
(* long as no two jobs for the entity overlapped, the actor in the map is  *)
(* made from the row as it is, and the supervisor watches it.  The last    *)
(* two need what each job has read and made at each of its steps: one job  *)
(* at a time is away from rest (Alone), it knows the version it fetched    *)
(* (Fetching) and the actor it made from it (MadeFrom), and once no event  *)
(* is pending that version is the row's (Current, InStep).                 *)
(*                                                                         *)
(* Dashboard: the selection is one card, and a page that waits for nothing *)
(* shows the rows.  Both rest on PageInv: an answer that is still to be    *)
(* applied brings ids nobody else refers to (Known, Unseen), so what it    *)
(* appends is in no list yet, and no card or item is in two lists (Places).*)
(* The selection also needs that an index that is set is one of the list   *)
(* (InRange).  The page follows the rows up to what is on its way: a row   *)
(* that the page lacks is brought by an answer, one that it still shows is *)
(* being taken away by one (CardsFollow, ItemsFollow), for which an answer *)
(* says what the server has stored for it, however many requests were      *)
(* served since (Served).  A load makes the page anew from what the rows   *)
(* were (Snapshot); if it met no request they still are that (UpToDate),   *)
(* and all of this holds again (ReloadFollows).                            *)
(***************************************************************************)
EXTENDS Entities, Dashboard, SequenceTheorems, FiniteSetTheorems, TLAPS

-----------------------------------------------------------------------------
(* Type correctness.                                                        *)

LEMMA RestFits ==
    /\ Rest \in JobState /\ None \notin Actors
    /\ Rest.at = "idle" /\ Rest.op = "add" /\ Rest.new = None /\ Rest.old = None
BY ConstantsAssumption DEF Rest, JobState, Steps

LEMMA JobType ==
    ASSUME TypeOK, NEW j \in Jobs
    PROVE  /\ job[j] \in JobState
           /\ job[j].at \in Steps
           /\ job[j].op \in {"add", "unload", "unplug"}
           /\ job[j].new \in Actors \cup {None}
           /\ job[j].old \in Actors \cup {None}
           /\ JobFits(j)
BY DEF TypeOK, JobState

LEMMA TypeInit == Init => TypeOK
<1> SUFFICES ASSUME Init PROVE TypeOK
  OBVIOUS
<1>1. job \in [Jobs -> JobState] /\ \A j \in Jobs : JobFits(j)
  <2>1. job = [j \in Jobs |-> Rest]
    BY DEF Init
  <2>2. QED BY <2>1, RestFits DEF JobFits
<1>2. /\ row \in [version : 0..MaxVersion, auto : BOOLEAN]
      /\ written \in 0..MaxVersion
  <2>1. 0 \in 0..MaxVersion /\ 1 \in 0..MaxVersion
    BY ConstantsAssumption
  <2>2. CASE row = NoRow
    BY <2>1, <2>2 DEF Init, NoRow
  <2>3. CASE row = [version |-> 1, auto |-> TRUE]
    BY <2>1, <2>3 DEF Init
  <2>4. QED BY <2>2, <2>3 DEF Init
<1>3. made \in [Actors -> 0..MaxVersion]
  BY ConstantsAssumption DEF Init
<1>4. watches \in 0..MaxPending /\ forgets \in 0..MaxPending
  BY ConstantsAssumption DEF Init
<1>5. /\ enabled \in BOOLEAN /\ actor \in Actors \cup {None} /\ live \subseteq Actors
      /\ watched \in BOOLEAN /\ kept \in BOOLEAN /\ calm \in BOOLEAN /\ inTurn \in BOOLEAN
  BY DEF Init
<1>6. QED BY <1>1, <1>2, <1>3, <1>4, <1>5 DEF TypeOK

LEMMA TypeStart ==
    ASSUME TypeOK, NEW op \in {"add", "unload"}, Start(op)
    PROVE  /\ job' \in [Jobs -> JobState]
           /\ \A j \in Jobs : JobFits(j)'
           /\ kept' \in BOOLEAN
<1>1. PICK i \in Jobs :
        /\ job[i] = Rest
        /\ job' = [job EXCEPT ![i].at = IF op = "add" THEN "fetch" ELSE "plugin", ![i].op = op]
  BY DEF Start
<1>0. job[i] \in JobState
  BY JobType
<1>2. job' \in [Jobs -> JobState]
  <2>1. job' = [job EXCEPT ![i] =
           [@ EXCEPT !.at = IF op = "add" THEN "fetch" ELSE "plugin", !.op = op]]
    BY <1>1
  <2>2. [job[i] EXCEPT !.at = IF op = "add" THEN "fetch" ELSE "plugin", !.op = op] \in JobState
    BY <1>0 DEF JobState, Steps
  <2>3. QED BY <2>1, <2>2 DEF TypeOK
<1>3. ASSUME NEW j \in Jobs PROVE JobFits(j)'
  <2>1. CASE j = i
    <3>1. /\ job'[i].at \in {"fetch", "plugin"}
          /\ job'[i].new = None /\ job'[i].old = None
      BY <1>1, RestFits, JobType DEF TypeOK, JobState
    <3>2. QED BY <2>1, <3>1, RestFits DEF JobFits
  <2>2. CASE j # i
    BY <2>2, <1>1, JobType DEF TypeOK, JobFits
  <2>3. QED BY <2>1, <2>2
<1>4. QED BY <1>2, <1>3 DEF Start, TypeOK

LEMMA TypeWrite ==
    ASSUME TypeOK, NEW auto \in BOOLEAN, Write(auto)
    PROVE  /\ row' \in [version : 0..MaxVersion, auto : BOOLEAN]
           /\ written' \in 0..MaxVersion
           /\ calm' \in BOOLEAN
BY ConstantsAssumption DEF TypeOK, Write, AllIdle

LEMMA TypeEvent == ASSUME TypeOK, Event PROVE TypeOK'
<1>1. CASE \E auto \in BOOLEAN : Create(auto) \/ Update(auto)
  <2>1. PICK auto \in BOOLEAN : Write(auto) /\ Start("add")
    BY <1>1 DEF Create, Update
  <2>2. QED BY <2>1, TypeWrite, TypeStart DEF TypeOK, Event, mapVars, watchVars, JobFits
<1>2. CASE Enable
  BY <1>2, TypeStart DEF TypeOK, Event, Enable, mapVars, watchVars, AllIdle, JobFits
<1>3. CASE Disable
  BY <1>3, TypeStart DEF TypeOK, Event, Disable, mapVars, watchVars, AllIdle, JobFits
<1>4. CASE Delete
  BY <1>4, TypeStart, ConstantsAssumption
  DEF TypeOK, Event, Delete, mapVars, watchVars, AllIdle, JobFits, NoRow
<1>5. CASE \E op \in {"add", "unload"} : Command(op) \/ ScriptEvent(op)
  <2>1. PICK op \in {"add", "unload"} : Command(op)
    BY <1>5 DEF ScriptEvent
  <2>2. QED
    BY <2>1, TypeStart DEF TypeOK, Event, Command, mapVars, watchVars, AllIdle, rowVars, JobFits
<1>6. QED BY <1>1, <1>2, <1>3, <1>4, <1>5 DEF Event

LEMMA TypePlugin == ASSUME TypeOK, PluginLoad \/ PluginUnload PROVE TypeOK'
<1>1. CASE PluginLoad
  BY <1>1, TypeStart DEF TypeOK, PluginLoad, Command, mapVars, watchVars, AllIdle, rowVars, JobFits
<1>2. CASE PluginUnload
  <2>1. PICK i \in Jobs :
          job[i] = Rest /\ job' = [job EXCEPT ![i].at = "remove", ![i].op = "unplug"]
    BY <1>2 DEF PluginUnload
  <2>0. job[i] \in JobState
    BY JobType
  <2>2. job' \in [Jobs -> JobState]
    <3>1. job' = [job EXCEPT ![i] = [@ EXCEPT !.at = "remove", !.op = "unplug"]]
      BY <2>1
    <3>2. [job[i] EXCEPT !.at = "remove", !.op = "unplug"] \in JobState
      BY <2>0 DEF JobState, Steps
    <3>3. QED BY <3>1, <3>2 DEF TypeOK
  <2>3. ASSUME NEW j \in Jobs PROVE JobFits(j)'
    <3>1. CASE j = i
      <4>1. /\ job'[i].at = "remove" /\ job'[i].op = "unplug"
            /\ job'[i].new = None /\ job'[i].old = None
        BY <2>1, RestFits, JobType DEF TypeOK, JobState
      <4>2. QED BY <3>1, <4>1, RestFits DEF JobFits
    <3>2. CASE j # i
      BY <3>2, <2>1, JobType DEF TypeOK, JobFits
    <3>3. QED BY <3>1, <3>2
  <2>4. QED
    BY <1>2, <2>2, <2>3 DEF TypeOK, PluginUnload, mapVars, watchVars, AllIdle, rowVars
<1>3. QED BY <1>1, <1>2

LEMMA TypeEnd ==
    ASSUME TypeOK, NEW i \in Jobs, job' = [job EXCEPT ![i] = Rest]
    PROVE  job' \in [Jobs -> JobState] /\ \A j \in Jobs : JobFits(j)'
<1>1. job' \in [Jobs -> JobState]
  BY RestFits DEF TypeOK
<1>2. ASSUME NEW j \in Jobs PROVE JobFits(j)'
  BY RestFits DEF TypeOK, JobFits, Rest
<1>3. QED BY <1>1, <1>2

LEMMA TypeGoto ==
    ASSUME TypeOK, NEW i \in Jobs, NEW step, Goto(i, step),
           \/ job[i].at = "look" /\ step \in {"store", "remove"}
           \/ job[i].at = "plugin" /\ step = "remove" /\ job[i].op = "unload"
           \/ job[i].at = "stop" /\ step = "delete"
           \/ job[i].at = "store" /\ step = "loaded"
           \/ job[i].at = "loaded" /\ step = "check"
    PROVE  job' \in [Jobs -> JobState] /\ \A j \in Jobs : JobFits(j)'
<1>1. job' \in [Jobs -> JobState]
  BY DEF TypeOK, Goto, JobState, Steps
<1>2. ASSUME NEW j \in Jobs PROVE JobFits(j)'
  BY RestFits DEF TypeOK, JobFits, Rest, Goto, JobState, Steps
<1>3. QED BY <1>1, <1>2

LEMMA RemovedJob ==
    ASSUME TypeOK, NEW i \in Jobs, job[i].at \in {"remove", "delete"}
    PROVE  /\ Removed(i).at \in {"idle", "store", "unplug"}
           /\ Removed(i).at = "store" <=> job[i].op = "add"
           /\ Removed(i).old = None
           /\ job[i].op = "add" => Removed(i).op = "add" /\ Removed(i).new = job[i].new
           /\ job[i].op # "add" => Removed(i).new = None
           /\ job[i].op # "unload" =>
                Removed(i).op = job[i].op /\ Removed(i).at \in {"store", "unplug"}
<1>1. job[i] \in JobState /\ JobFits(i)
  BY JobType
<1>2. CASE job[i].op = "unload"
  BY <1>2, RestFits DEF Removed
<1>3. CASE job[i].op = "add"
  <2>1. Removed(i) = [job[i] EXCEPT !.at = "store", !.old = None]
    BY <1>3 DEF Removed
  <2>2. QED BY <1>1, <1>3, <2>1 DEF JobState
<1>4. CASE job[i].op = "unplug"
  <2>1. Removed(i) = [job[i] EXCEPT !.at = "unplug", !.old = None]
    BY <1>4 DEF Removed
  <2>2. job[i].new = None
    BY <1>1, <1>4 DEF JobFits, JobState
  <2>3. QED BY <1>1, <1>4, <2>1, <2>2 DEF JobState
<1>5. QED BY <1>1, <1>2, <1>3, <1>4 DEF JobState

LEMMA TypeRemoved ==
    ASSUME TypeOK, NEW i \in Jobs, job[i].at \in {"remove", "delete"},
           job' = [job EXCEPT ![i] = Removed(i)]
    PROVE  job' \in [Jobs -> JobState] /\ \A j \in Jobs : JobFits(j)'
<1>0. job[i] \in JobState
  BY JobType
<1>1. CASE job[i].op = "unload"
  BY <1>1, TypeEnd DEF Removed
<1>2. CASE job[i].op # "unload"
  <2>1. job' = [job EXCEPT ![i] = [job[i] EXCEPT
           !.at = IF job[i].op = "add" THEN "store" ELSE "unplug", !.old = None]]
    BY <1>2 DEF Removed
  <2>2. job' \in [Jobs -> JobState]
    <3>1. [job[i] EXCEPT !.at = IF job[i].op = "add" THEN "store" ELSE "unplug", !.old = None]
             \in JobState
      BY <1>0 DEF JobState, Steps
    <3>2. QED BY <2>1, <3>1 DEF TypeOK
  <2>3. ASSUME NEW j \in Jobs PROVE JobFits(j)'
    <3>1. CASE j = i
      <4>1. job'[i] = Removed(i)
        BY DEF TypeOK
      <4>2. job[i].new \in Actors <=> job[i].op = "add"
        BY JobType DEF JobFits
      <4>3. QED BY <1>2, <3>1, <4>1, <4>2, RemovedJob, RestFits DEF JobFits
    <3>2. CASE j # i
      BY <3>2, <2>1, JobType DEF TypeOK, JobFits
    <3>3. QED BY <3>1, <3>2
  <2>4. QED BY <2>2, <2>3
<1>3. QED BY <1>1, <1>2

\* Every step of a job keeps the types.
LEMMA TypeStep == ASSUME TypeOK, NEW i \in Jobs, Step(i) PROVE TypeOK'
<1> USE DEF rowVars, mapVars, watchVars, history
<1>0. /\ job[i] \in JobState /\ JobFits(i)
      /\ UNCHANGED <<row, written>> => row' \in [version : 0..MaxVersion, auto : BOOLEAN]
  BY JobType DEF TypeOK
<1>1. CASE Fetch(i)
  <2>1. CASE Exists /\ row.auto
    <3>1. job' = [job EXCEPT ![i] = [@ EXCEPT !.at = "plugin", !.version = row.version]]
      BY <1>1, <2>1 DEF Fetch
    <3>2. row.version \in 0..MaxVersion
      BY DEF TypeOK
    <3>3. job' \in [Jobs -> JobState]
      <4>1. [job[i] EXCEPT !.at = "plugin", !.version = row.version] \in JobState
        BY <1>0, <3>2 DEF JobState, Steps
      <4>2. QED BY <3>1, <4>1 DEF TypeOK
    <3>4. ASSUME NEW j \in Jobs PROVE JobFits(j)'
      <4>1. CASE j = i
        <5>1. job'[i] = [job[i] EXCEPT !.at = "plugin", !.version = row.version]
          BY <3>1 DEF TypeOK
        <5>2. /\ job'[i].at = "plugin" /\ job'[i].op = job[i].op
              /\ job'[i].new = job[i].new /\ job'[i].old = job[i].old
          BY <1>0, <5>1 DEF JobState
        <5>3. job[i].at = "fetch"
          BY <1>1 DEF Fetch
        <5>4. QED BY <4>1, <5>2, <5>3, <1>0 DEF JobFits
      <4>2. CASE j # i
        BY <4>2, <3>1, JobType DEF TypeOK, JobFits
      <4>3. QED BY <4>1, <4>2
    <3>5. QED BY <1>1, <3>3, <3>4 DEF Fetch, TypeOK
  <2>2. CASE ~(Exists /\ row.auto)
    BY <1>1, <2>2, TypeEnd DEF Fetch, End, TypeOK, JobFits
  <2>3. QED BY <2>1, <2>2
<1>2. CASE PluginMissing(i)
  BY <1>2, TypeEnd DEF PluginMissing, End, TypeOK, JobFits
<1>3. CASE Construct(i)
  <2>1. CASE End(i) /\ calm' = FALSE /\ UNCHANGED <<live, made>>
    BY <1>3, <2>1, TypeEnd DEF Construct, End, TypeOK, JobFits
  <2>2. CASE \E o \in Actors :
               /\ Garbage(o)
               /\ live' = live \cup {o}
               /\ made' = [made EXCEPT ![o] = job[i].version]
               /\ job' = [job EXCEPT ![i].at = "look", ![i].new = o]
               /\ UNCHANGED calm
    <3>0. PICK o \in Actors :
            /\ live' = live \cup {o}
            /\ made' = [made EXCEPT ![o] = job[i].version]
            /\ job' = [job EXCEPT ![i].at = "look", ![i].new = o]
            /\ UNCHANGED calm
      BY <2>2
    <3>1. job' = [job EXCEPT ![i] = [@ EXCEPT !.at = "look", !.new = o]]
      BY <3>0
    <3>2. live' \subseteq Actors /\ made' \in [Actors -> 0..MaxVersion]
      <4>1. job[i].version \in 0..MaxVersion
        BY <1>0 DEF JobState
      <4>2. live \subseteq Actors /\ made \in [Actors -> 0..MaxVersion]
        BY DEF TypeOK
      <4>3. QED BY <3>0, <4>1, <4>2
    <3>3. job' \in [Jobs -> JobState]
      <4>1. [job[i] EXCEPT !.at = "look", !.new = o] \in JobState
        BY <1>0 DEF JobState, Steps
      <4>2. QED BY <3>1, <4>1 DEF TypeOK
    <3>4. ASSUME NEW j \in Jobs PROVE JobFits(j)'
      <4>1. CASE j = i
        <5>1. job'[i] = [job[i] EXCEPT !.at = "look", !.new = o]
          BY <3>1 DEF TypeOK
        <5>2. /\ job'[i].at = "look" /\ job'[i].op = job[i].op
              /\ job'[i].new = o /\ job'[i].old = job[i].old
          BY <1>0, <5>1 DEF JobState
        <5>3. job[i].at = "plugin" /\ job[i].op = "add"
          BY <1>3 DEF Construct
        <5>4. QED BY <4>1, <5>2, <5>3, <1>0 DEF JobFits
      <4>2. CASE j # i
        BY <4>2, <3>1, JobType DEF TypeOK, JobFits
      <4>3. QED BY <4>1, <4>2
    <3>5. QED BY <1>3, <3>0, <3>2, <3>3, <3>4 DEF Construct, TypeOK
  <2>3. QED BY <1>3, <2>1, <2>2 DEF Construct
<1>4. CASE Look(i)
  BY <1>4, TypeGoto DEF Look, TypeOK, JobFits
<1>5. CASE Store(i)
  <2>1. job' \in [Jobs -> JobState] /\ \A j \in Jobs : JobFits(j)'
    BY <1>5, TypeGoto DEF Store, StoreActor, Goto
  <2>2. job[i].new \in Actors
    BY <1>0, <1>5 DEF Store, JobFits
  <2>3. QED BY <1>5, <2>1, <2>2 DEF Store, StoreActor, TypeOK
<1>6. CASE Loaded(i)
  <2>1. watches' \in 0..MaxPending
    BY <1>6, ConstantsAssumption DEF Loaded, TypeOK
  <2>2. job' \in [Jobs -> JobState] /\ \A j \in Jobs : JobFits(j)'
    BY <1>6, TypeGoto DEF Loaded
  <2>3. QED BY <1>6, <2>1, <2>2 DEF Loaded, Published, TypeOK
<1>7. CASE CheckRow(i)
  <2>1. row' \in [version : 0..MaxVersion, auto : BOOLEAN]
    BY <1>7, <1>0 DEF CheckRow, TypeOK, JobState
  <2>2. QED BY <1>7, <2>1, TypeEnd DEF CheckRow, End, TypeOK, JobFits
<1>8. CASE StartUnload(i)
  BY <1>8, TypeGoto DEF StartUnload, TypeOK, JobFits
<1>9. CASE Remove(i)
  <2>1. CASE actor = None
    BY <1>9, <2>1, TypeRemoved DEF Remove, TypeOK, JobFits
  <2>2. CASE actor # None
    <3>1. job' = [job EXCEPT ![i] = [@ EXCEPT !.at = "stop", !.old = actor]]
      BY <1>9, <2>2 DEF Remove
    <3>2. job' \in [Jobs -> JobState]
      <4>1. [job[i] EXCEPT !.at = "stop", !.old = actor] \in JobState
        BY <1>0 DEF TypeOK, JobState, Steps
      <4>2. QED BY <3>1, <4>1 DEF TypeOK
    <3>3. ASSUME NEW j \in Jobs PROVE JobFits(j)'
      <4>1. CASE j = i
        <5>1. job'[i] = [job[i] EXCEPT !.at = "stop", !.old = actor]
          BY <3>1 DEF TypeOK
        <5>2. /\ job'[i].at = "stop" /\ job'[i].op = job[i].op
              /\ job'[i].new = job[i].new /\ job'[i].old = actor
          BY <1>0, <5>1 DEF JobState
        <5>3. job[i].at = "remove" /\ actor \in Actors
          BY <1>9, <2>2 DEF Remove, TypeOK
        <5>4. QED BY <4>1, <5>2, <5>3, <1>0 DEF JobFits
      <4>2. CASE j # i
        BY <4>2, <3>1, JobType DEF TypeOK, JobFits
      <4>3. QED BY <4>1, <4>2
    <3>4. QED BY <1>9, <3>2, <3>3 DEF Remove, TypeOK
  <2>3. QED BY <2>1, <2>2
<1>10. CASE Stop(i)
  <2>1. job' \in [Jobs -> JobState] /\ \A j \in Jobs : JobFits(j)'
    BY <1>10, TypeGoto DEF Stop
  <2>2. live' \subseteq Actors
    BY <1>10 DEF Stop, TypeOK
  <2>3. QED BY <1>10, <2>1, <2>2 DEF Stop, TypeOK
<1>11. CASE DeleteActor(i)
  <2>1. forgets' \in 0..MaxPending
    BY <1>11, ConstantsAssumption DEF DeleteActor, TypeOK
  <2>2. job' \in [Jobs -> JobState] /\ \A j \in Jobs : JobFits(j)'
    BY <1>11, TypeRemoved DEF DeleteActor
  <2>3. QED BY <1>11, <2>1, <2>2 DEF DeleteActor, Published, TypeOK
<1>12. CASE Unplug(i)
  BY <1>12, TypeEnd DEF Unplug, End, TypeOK, JobFits
<1>13. QED
  BY <1>1, <1>2, <1>3, <1>4, <1>5, <1>6, <1>7, <1>8, <1>9, <1>10, <1>11, <1>12 DEF Step

LEMMA TypeNext == ASSUME TypeOK, [Next]_vars PROVE TypeOK'
<1>1. CASE Event
  BY <1>1, TypeEvent
<1>2. CASE PluginLoad \/ PluginUnload
  BY <1>2, TypePlugin
<1>3. CASE \E j \in Jobs : Step(j)
  BY <1>3, TypeStep
<1>4. CASE Watch \/ Forget
  <2>1. watches' \in 0..MaxPending /\ forgets' \in 0..MaxPending
    BY <1>4, ConstantsAssumption DEF Watch, Forget, TypeOK
  <2>2. watched' \in BOOLEAN
    BY <1>4 DEF Watch, Forget
  <2>3. UNCHANGED <<rowVars, enabled, mapVars, job, history>>
    BY <1>4 DEF Watch, Forget
  <2>4. QED BY <2>1, <2>2, <2>3 DEF TypeOK, JobFits, rowVars, mapVars, history
<1>5. CASE UNCHANGED vars
  BY <1>5 DEF vars, rowVars, mapVars, watchVars, history, TypeOK, JobFits
<1>6. QED BY <1>1, <1>2, <1>3, <1>4, <1>5 DEF Next

\* Every variable of the entity's state keeps its type, and every job holds
\* the actors its step needs: an update the one its constructor made, a
\* removal the one it found in the map.
THEOREM TypeCorrect == Spec => []TypeOK
<1>1. Init => TypeOK
  BY TypeInit
<1>2. TypeOK /\ [Next]_vars => TypeOK'
  BY TypeNext
<1>3. QED BY <1>1, <1>2, PTL DEF Spec

-----------------------------------------------------------------------------
(* What a step does to the jobs.                                            *)

\* An event or a plugin that is loaded starts one job, which holds no actor.
LEMMA Started ==
    ASSUME TypeOK, NEW op \in {"add", "unload"}, Start(op)
    PROVE  \E i \in Jobs :
             /\ job[i] = Rest
             /\ job'[i].at \in {"fetch", "plugin"}
             /\ job'[i].op = op
             /\ op = "add" <=> job'[i].at = "fetch"
             /\ job'[i].new = None /\ job'[i].old = None
             /\ \A j \in Jobs : j # i => job'[j] = job[j]
<1>1. PICK i \in Jobs :
        /\ job[i] = Rest
        /\ job' = [job EXCEPT ![i].at = IF op = "add" THEN "fetch" ELSE "plugin", ![i].op = op]
  BY DEF Start
<1>2. job[i] \in JobState
  BY JobType
<1>3. /\ job'[i].at \in {"fetch", "plugin"}
      /\ job'[i].op = op
      /\ op = "add" <=> job'[i].at = "fetch"
      /\ job'[i].new = None /\ job'[i].old = None
  BY <1>1, <1>2, RestFits DEF TypeOK, JobState
<1>4. \A j \in Jobs : j # i => job'[j] = job[j]
  BY <1>1 DEF TypeOK
<1>5. QED BY <1>1, <1>3, <1>4

\* Every event and PluginLoad is a Start that leaves the map alone.
LEMMA EventStarts ==
    ASSUME Event \/ PluginLoad
    PROVE  (\E op \in {"add", "unload"} : Start(op)) /\ UNCHANGED mapVars
BY DEF Event, PluginLoad, Create, Update, Enable, Disable, Delete, Command, ScriptEvent

LEMMA Unplugging ==
    ASSUME TypeOK, PluginUnload
    PROVE  \E i \in Jobs :
             /\ job[i] = Rest
             /\ job'[i].at = "remove" /\ job'[i].op = "unplug"
             /\ job'[i].new = None /\ job'[i].old = None
             /\ \A j \in Jobs : j # i => job'[j] = job[j]
<1>1. PICK i \in Jobs :
        job[i] = Rest /\ job' = [job EXCEPT ![i].at = "remove", ![i].op = "unplug"]
  BY DEF PluginUnload
<1>2. job[i] \in JobState
  BY JobType
<1>3. /\ job'[i].at = "remove" /\ job'[i].op = "unplug"
      /\ job'[i].new = None /\ job'[i].old = None
  BY <1>1, <1>2, RestFits DEF TypeOK, JobState
<1>4. \A j \in Jobs : j # i => job'[j] = job[j]
  BY <1>1 DEF TypeOK
<1>5. QED BY <1>1, <1>3, <1>4

\* A step of a job leaves the other jobs alone, and takes its own from step
\* to step with its operation and its actors.
LEMMA Stepped ==
    ASSUME TypeOK, NEW i \in Jobs, Step(i)
    PROVE  /\ \A j \in Jobs : j # i => job'[j] = job[j]
           /\ job'[i].at = "idle" \/ job'[i].op = job[i].op
           /\ job'[i].new \in {None, job[i].new} \/ (job[i].at = "plugin" /\ job'[i].at = "look")
           /\ job'[i].old \in {None, job[i].old} \/ (job[i].at = "remove" /\ job'[i].old = actor)
<1>0. job[i] \in JobState /\ JobFits(i) /\ job \in [Jobs -> JobState]
  BY JobType DEF TypeOK
<1>1. CASE job' = [job EXCEPT ![i] = Rest]
  BY <1>0, <1>1, RestFits
<1>2. CASE \E step : Goto(i, step)
  BY <1>0, <1>2 DEF Goto, JobState
<1>3. CASE job' = [job EXCEPT ![i] = Removed(i)] /\ job[i].at \in {"remove", "delete"}
  <2>1. job'[i] = Removed(i) /\ \A j \in Jobs : j # i => job'[j] = job[j]
    BY <1>0, <1>3
  <2>2. Removed(i).at = "idle" \/ Removed(i).op = job[i].op
    BY <1>0, RestFits DEF Removed, JobState
  <2>3. QED BY <1>0, <1>3, <2>1, <2>2, RemovedJob
<1>4. CASE job' = [job EXCEPT ![i].at = "plugin", ![i].version = row.version]
  BY <1>0, <1>4 DEF JobState
<1>5. CASE job[i].at = "plugin" /\ \E o \in Actors : job' = [job EXCEPT ![i].at = "look", ![i].new = o]
  BY <1>0, <1>5 DEF JobState
<1>6. CASE job[i].at = "remove" /\ job' = [job EXCEPT ![i] = [@ EXCEPT !.at = "stop", !.old = actor]]
  BY <1>0, <1>6 DEF JobState
<1>7. QED
  BY <1>1, <1>2, <1>3, <1>4, <1>5, <1>6
  DEF Step, Fetch, PluginMissing, Construct, Look, Store, StoreActor, Loaded, CheckRow,
      StartUnload, Remove, Stop, DeleteActor, Unplug, End, Goto

-----------------------------------------------------------------------------
(* Updates never lose the entity.                                           *)

KeepsInv == TypeOK /\ NoRemoval /\ KeepsLoaded

LEMMA KeepsStep ==
    ASSUME KeepsInv, NEW i \in Jobs, Step(i)
    PROVE  NoRemoval' /\ KeepsLoaded'
<1> USE DEF KeepsInv
<1>0. job[i] \in JobState /\ JobFits(i) /\ job \in [Jobs -> JobState]
  BY JobType DEF TypeOK
<1>1. CASE Store(i)
  <2>1. \A j \in Jobs : Removing(j)' => Removing(j)
    BY <1>0, <1>1, Stepped DEF Removing, Store, StoreActor
  <2>2. job[i].new \in Actors
    BY <1>0, <1>1 DEF Store, JobFits
  <2>3. actor' # None
    BY <1>1, <2>2, RestFits DEF Store, StoreActor
  <2>4. QED BY <1>1, <2>1, <2>3 DEF NoRemoval, KeepsLoaded, Store, StoreActor
<1>2. CASE DeleteActor(i)
  <2>1. kept' = kept
    BY <1>2 DEF DeleteActor
  <2>2. CASE kept
    <3>1. job[i].op = "add"
      BY <1>0, <1>2, <2>2 DEF NoRemoval, Removing, DeleteActor, JobState
    <3>2. job'[i] = Removed(i)
      BY <1>0, <1>2 DEF DeleteActor
    <3>3. job'[i].at = "store" /\ job'[i].op = "add"
      BY <1>2, <3>1, <3>2, RemovedJob DEF DeleteActor
    <3>4. QED BY <2>2, <3>3, Stepped DEF NoRemoval, KeepsLoaded, Removing
  <2>3. QED BY <2>1, <2>2 DEF NoRemoval, KeepsLoaded
<1>3. CASE ~Store(i) /\ ~DeleteActor(i)
  <2>1. kept' = kept /\ actor' = actor
    BY <1>3 DEF Step, Fetch, PluginMissing, Construct, Look, Loaded, CheckRow, StartUnload,
                Remove, Stop, Unplug, mapVars, history
  <2>2. job[i].at \notin {"idle", "store"}
    BY <1>3 DEF Step, Fetch, PluginMissing, Construct, Look, Loaded, CheckRow, StartUnload,
                Remove, Stop, Unplug
  <2>3. \A j \in Jobs : Removing(j)' => Removing(j)
    BY <2>2, Stepped DEF Removing
  <2>4. QED BY <2>1, <2>2, <2>3, Stepped DEF NoRemoval, KeepsLoaded
<1>4. QED BY <1>1, <1>2, <1>3

LEMMA KeepsNext == ASSUME KeepsInv, [Next]_vars PROVE KeepsInv'
<1>0. TypeOK'
  BY TypeNext DEF KeepsInv
<1>1. CASE Event \/ PluginLoad
  <2>1. PICK op \in {"add", "unload"} : Start(op)
    BY <1>1, EventStarts
  <2>2. PICK i \in Jobs :
          /\ job[i] = Rest
          /\ job'[i].at \in {"fetch", "plugin"}
          /\ job'[i].op = op
          /\ \A j \in Jobs : j # i => job'[j] = job[j]
    BY <2>1, Started DEF KeepsInv
  <2>3. actor' = actor
    BY <1>1, EventStarts DEF mapVars
  <2>4. kept' => kept /\ op = "add"
    BY <2>1 DEF Start
  <2>5. QED
    BY <1>0, <2>2, <2>3, <2>4, RestFits DEF KeepsInv, NoRemoval, KeepsLoaded, Removing
<1>2. CASE PluginUnload
  BY <1>0, <1>2 DEF PluginUnload, KeepsInv, NoRemoval, KeepsLoaded
<1>3. CASE \E j \in Jobs : Step(j)
  BY <1>0, <1>3, KeepsStep DEF KeepsInv
<1>4. CASE Watch \/ Forget
  BY <1>0, <1>4 DEF Watch, Forget, KeepsInv, NoRemoval, KeepsLoaded, Removing, mapVars, history
<1>5. CASE UNCHANGED vars
  BY <1>0, <1>5 DEF vars, KeepsInv, NoRemoval, KeepsLoaded, Removing, mapVars, history
<1>6. QED BY <1>1, <1>2, <1>3, <1>4, <1>5 DEF Next

\* However the updates of an entity interleave, each deleting by id whatever
\* actor the map holds, the entity is in the map or about to be stored again,
\* until something that unloads it is started.
THEOREM UpdatesKeepLoaded == Spec => []KeepsLoaded
<1>1. Init => KeepsInv
  BY TypeInit DEF Init, KeepsInv, NoRemoval, KeepsLoaded
<1>2. KeepsInv /\ [Next]_vars => KeepsInv'
  BY KeepsNext
<1>3. KeepsInv => KeepsLoaded
  BY DEF KeepsInv
<1>4. QED BY <1>1, <1>2, <1>3, PTL DEF Spec

-----------------------------------------------------------------------------
(* The map and the actors that are live.                                    *)

LeavingInv == TypeOK /\ Unstored /\ DeadIsLeaving

\* A step that only moves jobs that hold no actor keeps the invariant.
LEMMA LeavingStart ==
    ASSUME LeavingInv, UNCHANGED mapVars, NEW i \in Jobs, job[i] = Rest,
           job'[i].new = None, job'[i].old = None, ~MadeNotStored(i)',
           \A j \in Jobs : j # i => job'[j] = job[j]
    PROVE  Unstored' /\ DeadIsLeaving'
<1> USE DEF LeavingInv
<1>1. ASSUME NEW j \in Jobs, MadeNotStored(j)'
      PROVE  /\ job'[j].new \in live' \ {actor'}
             /\ \A k \in Jobs : /\ job'[k].old # job'[j].new
                                /\ k # j => job'[k].new # job'[j].new
  <2>1. j # i /\ job'[j] = job[j]
    BY <1>1
  <2>2. MadeNotStored(j)
    BY <1>1, <2>1 DEF MadeNotStored
  <2>3. job[j].new \in live \ {actor} /\ job[j].new \in Actors
    BY <2>2 DEF Unstored, TypeOK
  <2>4. live' = live /\ actor' = actor
    BY DEF mapVars
  <2>5. QED BY <2>1, <2>2, <2>3, <2>4, RestFits DEF Unstored
<1>2. DeadIsLeaving'
  BY RestFits DEF DeadIsLeaving, mapVars
<1>3. QED BY <1>1, <1>2 DEF Unstored


\* What a step of a job does to the actors.
LEMMA MapStep ==
    ASSUME NEW i \in Jobs, Step(i)
    PROVE  /\ \A o \in live : o \in live' \/ o = job[i].old
           /\ actor' \in {actor, None} \/ (Store(i) /\ actor' = job[i].new)
BY DEF Step, Fetch, PluginMissing, Construct, Look, Store, StoreActor, Loaded, CheckRow,
       StartUnload, Remove, Stop, DeleteActor, Unplug, mapVars

\* A job's actor is one nobody referred to.
LEMMA Constructed ==
    ASSUME TypeOK, NEW i \in Jobs, Step(i), job[i].at = "plugin", job'[i].at = "look"
    PROVE  /\ Garbage(job'[i].new)
           /\ job'[i].new \in Actors \cap live'
           /\ actor' = actor
           /\ job'[i].old = job[i].old
<1>2. job[i] \in JobState /\ job \in [Jobs -> JobState]
  BY JobType DEF TypeOK
<1>1. Construct(i)
  <2>1. Construct(i) \/ PluginMissing(i) \/ StartUnload(i)
    BY DEF Step, Fetch, Look, Store, StoreActor, Loaded, CheckRow, Remove, Stop,
           DeleteActor, Unplug
  <2>2. ~PluginMissing(i)
    BY <1>2, RestFits DEF PluginMissing, End
  <2>3. ~StartUnload(i)
    BY <1>2 DEF StartUnload, Goto, JobState
  <2>4. QED BY <2>1, <2>2, <2>3
<1>3. ~End(i)
  BY <1>2, RestFits DEF End
<1>4. PICK o \in Actors :
        /\ Garbage(o)
        /\ live' = live \cup {o}
        /\ job' = [job EXCEPT ![i].at = "look", ![i].new = o]
  BY <1>1, <1>3 DEF Construct, End
<1>5. job'[i].new = o /\ job'[i].old = job[i].old
  BY <1>2, <1>4 DEF JobState
<1>6. QED BY <1>1, <1>4, <1>5 DEF Construct

LEMMA UnstoredStep ==
    ASSUME LeavingInv, NEW i \in Jobs, Step(i)
    PROVE  Unstored'
<1> USE DEF LeavingInv
<1>0. TypeOK /\ Unstored /\ job[i] \in JobState /\ JobFits(i)
  BY JobType
<1> SUFFICES ASSUME NEW j \in Jobs, MadeNotStored(j)'
             PROVE  /\ job'[j].new \in live' \ {actor'}
                    /\ \A k \in Jobs : /\ job'[k].old # job'[j].new
                                       /\ k # j => job'[k].new # job'[j].new
  BY DEF Unstored
<1>1. CASE job[i].at = "plugin" /\ job'[i].at = "look"
  <2>1. /\ Garbage(job'[i].new) /\ job'[i].new \in Actors \cap live'
        /\ actor' = actor /\ job'[i].old = job[i].old
    BY <1>0, <1>1, Constructed
  <2>2. \A k \in Jobs : k # i => job'[k] = job[k]
    BY <1>0, Stepped
  <2>3. CASE j = i
    BY <2>1, <2>2, <2>3, RestFits DEF Garbage
  <2>4. CASE j # i
    <3>1. job'[j] = job[j] /\ MadeNotStored(j)
      BY <2>2, <2>4 DEF MadeNotStored
    <3>2. job[j].new \in live \ {actor} /\ job[j].new # job'[i].new
      BY <2>1, <3>1 DEF Unstored, Garbage
    <3>3. job[j].new \in live'
      BY <3>1, <3>2, MapStep DEF Unstored
    <3>4. QED BY <2>1, <2>2, <3>1, <3>2, <3>3 DEF Unstored
  <2>5. QED BY <2>3, <2>4
<1>2. CASE ~(job[i].at = "plugin" /\ job'[i].at = "look")
  <2>1. /\ \A k \in Jobs : k # i => job'[k] = job[k]
        /\ job'[i].at = "idle" \/ job'[i].op = job[i].op
        /\ job'[i].new \in {None, job[i].new}
        /\ job'[i].old \in {None, job[i].old} \/ job'[i].old = actor
    BY <1>0, <1>2, Stepped
  <2>2. TypeOK'
    BY <1>0, TypeStep
  <2>3. job'[j].new \in Actors
    BY <2>2 DEF TypeOK, MadeNotStored, JobFits
  <2>4. job'[j].new = job[j].new
    BY <2>1, <2>3, RestFits
  <2>5. MadeNotStored(j) /\ (j = i => ~Store(i))
    <3>1. CASE j # i
      BY <2>1, <3>1 DEF MadeNotStored
    <3>2. CASE j = i
      <4>1. job[i].op = "add" /\ job[i].new \in Actors
        BY <2>1, <2>3, <2>4, <3>2 DEF MadeNotStored
      <4>2. job[i].at \in {"look", "remove", "stop", "delete", "store", "loaded", "check",
                        "unplug"}
        BY <1>0, <4>1 DEF JobFits, JobState, Steps
      <4>3. job[i].at \notin {"store", "loaded", "check", "unplug"}
        <5>1. job \in [Jobs -> JobState]
          BY DEF TypeOK
        <5>2. job[i].at = "store" => job'[i].at = "loaded"
          <6>1. SUFFICES ASSUME job[i].at = "store" PROVE job'[i].at = "loaded"
            OBVIOUS
          <6>2. StoreActor(i)
            BY <6>1 DEF Step, Fetch, PluginMissing, Construct, Look, Store,
               Loaded, CheckRow, StartUnload, Remove, Stop, DeleteActor, Unplug
          <6>3. QED BY <5>1, <1>0, <6>2 DEF StoreActor, JobState
        <5>3. job[i].at = "loaded" => job'[i].at = "check"
          BY <5>1, <1>0 DEF Step, Fetch, PluginMissing, Construct, Look, Store, StoreActor,
             Loaded, CheckRow, StartUnload, Remove, Stop, DeleteActor, Unplug, Goto, JobState
        <5>4. job[i].at \in {"check", "unplug"} => job'[i].at = "idle"
          BY <5>1, <1>0, RestFits
             DEF Step, Fetch, PluginMissing, Construct, Look, Store, StoreActor,
             Loaded, CheckRow, StartUnload, Remove, Stop, DeleteActor, Unplug, End
        <5>5. QED BY <5>2, <5>3, <5>4, <3>2 DEF MadeNotStored
      <4>4. QED BY <4>1, <4>2, <4>3, <3>2 DEF MadeNotStored, Store
    <3>3. QED BY <3>1, <3>2
  <2>6. /\ job[j].new \in live \ {actor}
        /\ \A k \in Jobs : /\ job[k].old # job[j].new
                           /\ k # j => job[k].new # job[j].new
    BY <2>5 DEF Unstored
  <2>7. job[j].new \in live' \ {actor'}
    BY <2>3, <2>4, <2>5, <2>6, MapStep, RestFits
  <2>8. QED BY <2>1, <2>3, <2>4, <2>6, <2>7, RestFits
<1>3. QED BY <1>1, <1>2

LEMMA DeadStep ==
    ASSUME LeavingInv, NEW i \in Jobs, Step(i)
    PROVE  DeadIsLeaving'
<1> USE DEF LeavingInv
<1>0. TypeOK /\ job[i] \in JobState /\ JobFits(i) /\ job \in [Jobs -> JobState]
  BY JobType DEF TypeOK
<1>1. CASE Store(i)
  <2>1. MadeNotStored(i)
    BY <1>0, <1>1 DEF Store, JobFits, MadeNotStored
  <2>2. actor' \in live'
    BY <1>1, <2>1 DEF Store, StoreActor, Unstored
  <2>3. QED BY <2>2 DEF DeadIsLeaving
<1>2. CASE DeleteActor(i)
  BY <1>2, RestFits DEF DeleteActor, DeadIsLeaving
<1>3. CASE Stop(i)
  <2>1. job'[i].at = "delete" /\ job'[i].old = job[i].old
    BY <1>0, <1>3 DEF Stop, Goto, JobState
  <2>2. live' = live \ {job[i].old} /\ actor' = actor /\ job[i].at = "stop"
    BY <1>3 DEF Stop
  <2>3. QED BY <1>0, <2>1, <2>2, Stepped DEF DeadIsLeaving
<1>4. CASE ~Store(i) /\ ~DeleteActor(i) /\ ~Stop(i)
  <2>1. live \subseteq live' /\ actor' = actor /\ job[i].at # "delete"
    BY <1>4 DEF Step, Fetch, PluginMissing, Construct, Look, Loaded, CheckRow, StartUnload,
                Remove, Unplug, mapVars
  <2>2. QED BY <1>0, <2>1, Stepped DEF DeadIsLeaving
<1>5. QED BY <1>1, <1>2, <1>3, <1>4

LEMMA LeavingNext == ASSUME LeavingInv, [Next]_vars PROVE LeavingInv'
<1>0. TypeOK /\ TypeOK'
  BY TypeNext DEF LeavingInv
<1>1. CASE Event \/ PluginLoad
  <2>1. PICK op \in {"add", "unload"} : Start(op)
    BY <1>1, EventStarts
  <2>2. PICK i \in Jobs :
          /\ job[i] = Rest
          /\ job'[i].at \in {"fetch", "plugin"}
          /\ job'[i].new = None /\ job'[i].old = None
          /\ \A j \in Jobs : j # i => job'[j] = job[j]
    BY <1>0, <2>1, Started
  <2>3. ~MadeNotStored(i)'
    BY <2>2 DEF MadeNotStored
  <2>4. QED BY <1>0, <1>1, <2>2, <2>3, EventStarts, LeavingStart DEF LeavingInv
<1>2. CASE PluginUnload
  <2>1. PICK i \in Jobs :
          /\ job[i] = Rest
          /\ job'[i].at = "remove" /\ job'[i].op = "unplug"
          /\ job'[i].new = None /\ job'[i].old = None
          /\ \A j \in Jobs : j # i => job'[j] = job[j]
    BY <1>0, <1>2, Unplugging
  <2>2. ~MadeNotStored(i)'
    BY <2>1 DEF MadeNotStored
  <2>3. UNCHANGED mapVars
    BY <1>2 DEF PluginUnload
  <2>4. QED BY <1>0, <2>1, <2>2, <2>3, LeavingStart DEF LeavingInv
<1>3. CASE \E j \in Jobs : Step(j)
  BY <1>0, <1>3, UnstoredStep, DeadStep DEF LeavingInv
<1>4. CASE Watch \/ Forget
  BY <1>0, <1>4
  DEF Watch, Forget, LeavingInv, Unstored, DeadIsLeaving, MadeNotStored, mapVars
<1>5. CASE UNCHANGED vars
  BY <1>0, <1>5 DEF vars, LeavingInv, Unstored, DeadIsLeaving, MadeNotStored, mapVars
<1>6. QED BY <1>1, <1>2, <1>3, <1>4, <1>5 DEF Next

LEMMA LeavingInit == Init => LeavingInv
<1> SUFFICES ASSUME Init PROVE LeavingInv
  OBVIOUS
<1>1. TypeOK
  BY TypeInit
<1>2. Unstored
  BY RestFits DEF Init, Unstored, MadeNotStored
<1>3. DeadIsLeaving
  BY RestFits DEF Init, DeadIsLeaving
<1>4. QED BY <1>1, <1>2, <1>3 DEF LeavingInv

\* The map of actors never holds one that was destroyed, but while the job
\* that destroyed it is about to delete its entry.
THEOREM DeadActorsLeave == Spec => []DeadIsLeaving
<1>1. Init => LeavingInv
  BY LeavingInit
<1>2. LeavingInv /\ [Next]_vars => LeavingInv'
  BY LeavingNext
<1>3. LeavingInv => DeadIsLeaving
  BY DEF LeavingInv
<1>4. QED BY <1>1, <1>2, <1>3, PTL DEF Spec

-----------------------------------------------------------------------------
(* Jobs that come one at a time.                                            *)

Busy(j) == job[j].at # "idle"

\* While calm, one job is under way.
Alone == calm => \A i, j \in Jobs : Busy(i) /\ Busy(j) => i = j

\* Only updates read the row.
Fetching == \A j \in Jobs : job[j].at = "fetch" => job[j].op = "add"

\* An actor a job holds was made from the job's model.
MadeFrom == \A j \in Jobs : job[j].new # None => made[job[j].new] = job[j].version

\* While calm, the job under way works on the row there is, and what it
\* stored stays.
Updates(j) == job[j].op = "add" /\ job[j].at \notin {"idle", "fetch"}
Stored(j) == job[j].at \in {"loaded", "check"}

Current ==
    calm => \A j \in Jobs : Updates(j) =>
        /\ Exists /\ row.auto /\ job[j].version = row.version
        /\ Stored(j) => actor = job[j].new /\ actor \in live

\* What is watched once the handlers under way are done agrees with the map.
Told ==
    /\ forgets > 0 => actor = None
    /\ watches > 0 => actor # None
    /\ watches = 0 /\ forgets = 0 => (watched <=> actor # None)

\* A job that did not touch the map yet, or published what it did.
Rests(j) ==
    \/ job[j].at \in {"idle", "check"}
    \/ job[j].op = "unload" /\ job[j].at \in {"plugin", "remove"}

Loadable == Exists /\ row.auto /\ enabled

InStep == calm /\ inTurn /\ Loadable /\ (\A j \in Jobs : Rests(j)) => Told

FreshInv == LeavingInv /\ Alone /\ Fetching /\ MadeFrom /\ Current /\ LoadedIsFresh /\ InStep

LEMMA FreshInit == Init => FreshInv
<1> SUFFICES ASSUME Init PROVE FreshInv
  OBVIOUS
<1>1. calm = FALSE /\ \A j \in Jobs : job[j].new = None
  BY RestFits DEF Init
<1>2. LeavingInv
  BY LeavingInit
<1>3. QED
  BY <1>1, <1>2, RestFits
     DEF Init, FreshInv, Alone, Fetching, MadeFrom, Current, LoadedIsFresh, InStep

\* A step that starts a job, after all others if calm goes on.
LEMMA FreshStart ==
    ASSUME FreshInv, UNCHANGED <<mapVars, watchVars, inTurn>>, calm' => AllIdle,
           NEW i \in Jobs, job[i] = Rest,
           job'[i].at \in {"fetch", "plugin", "remove"},
           job'[i].op = "add" <=> job'[i].at = "fetch",
           job'[i].new = None,
           \A j \in Jobs : j # i => job'[j] = job[j],
           job'[i].op = "unload" /\ Loadable' => Loadable /\ (calm' => calm)
    PROVE  Alone' /\ Fetching' /\ MadeFrom' /\ Current' /\ LoadedIsFresh' /\ InStep'
<1>1. Alone' /\ Fetching'
  BY DEF Alone, Busy, AllIdle, Fetching, FreshInv
<1>2. MadeFrom'
  BY DEF MadeFrom, FreshInv, mapVars
<1>3. Current'
  BY DEF Current, Updates, AllIdle
<1>4. LoadedIsFresh'
  BY DEF LoadedIsFresh, AllIdle
<1>5. InStep'
  <2> SUFFICES ASSUME calm', inTurn', Loadable', \A j \in Jobs : Rests(j)' PROVE Told'
    BY DEF InStep
  <2>1. job'[i].op = "unload" /\ job'[i].at # "fetch"
    BY DEF Rests
  <2>2. calm /\ inTurn /\ Loadable /\ AllIdle
    BY <2>1
  <2>3. Told
    BY <2>2 DEF FreshInv, InStep, Rests, AllIdle
  <2>4. QED BY <2>3 DEF Told, mapVars, watchVars
<1>6. QED BY <1>1, <1>2, <1>3, <1>4, <1>5

LEMMA FreshEvents ==
    ASSUME FreshInv, Event \/ PluginLoad
    PROVE  Alone' /\ Fetching' /\ MadeFrom' /\ Current' /\ LoadedIsFresh' /\ InStep'
<1>0. TypeOK
  BY DEF FreshInv, LeavingInv
<1>1. UNCHANGED <<mapVars, watchVars, inTurn>> /\ (calm' => AllIdle)
  <2>1. UNCHANGED <<mapVars, watchVars, inTurn>>
    BY DEF Event, PluginLoad
  <2>2. calm' => AllIdle
    <3>1. ASSUME NEW auto, Create(auto) \/ Update(auto) PROVE calm' => AllIdle
      BY <3>1, Zenon DEF Create, Update, Write
    <3>2. ASSUME NEW op, Command(op) PROVE calm' => AllIdle
      BY <3>2, Zenon DEF Command
    <3>3. CASE Enable \/ Disable \/ Delete
      BY <3>3, Zenon DEF Enable, Disable, Delete
    <3>4. QED BY <3>1, <3>2, <3>3 DEF Event, PluginLoad, ScriptEvent
  <2>3. QED BY <2>1, <2>2
<1>2. ASSUME NEW op \in {"add", "unload"}, Start(op),
             op = "unload" /\ Loadable' => Loadable /\ (calm' => calm)
      PROVE  Alone' /\ Fetching' /\ MadeFrom' /\ Current' /\ LoadedIsFresh' /\ InStep'
  <2>1. PICK i \in Jobs :
          /\ job[i] = Rest
          /\ job'[i].at \in {"fetch", "plugin"}
          /\ job'[i].op = op
          /\ op = "add" <=> job'[i].at = "fetch"
          /\ job'[i].new = None /\ job'[i].old = None
          /\ \A j \in Jobs : j # i => job'[j] = job[j]
    BY <1>0, <1>2, Started
  <2>2. QED BY <1>1, <1>2, <2>1, FreshStart
<1>3. CASE PluginLoad \/ \E auto \in BOOLEAN : Create(auto) \/ Update(auto)
  BY <1>2, <1>3 DEF PluginLoad, Command, Create, Update
<1>4. CASE Enable
  BY <1>2, <1>4 DEF Enable
<1>5. CASE Disable
  <2>1. row'.auto = FALSE
    BY <1>0, <1>5 DEF Disable, TypeOK
  <2>2. QED BY <1>2, <1>5, <2>1 DEF Disable, Loadable
<1>6. CASE Delete
  <2>1. ~Exists'
    BY <1>6 DEF Delete, NoRow, Exists
  <2>2. QED BY <1>2, <1>6, <2>1 DEF Delete, Loadable
<1>7. ASSUME Event, NEW op \in {"add", "unload"}, Command(op)
      PROVE  Alone' /\ Fetching' /\ MadeFrom' /\ Current' /\ LoadedIsFresh' /\ InStep'
  <2>1. Loadable' = Loadable
    BY <1>7 DEF Event, Command, rowVars, Loadable, Exists
  <2>2. calm' => calm
    BY <1>7 DEF Command
  <2>3. QED BY <1>2, <1>7, <2>1, <2>2 DEF Command
<1>8. QED BY <1>3, <1>4, <1>5, <1>6, <1>7 DEF Event, ScriptEvent

\* While calm, a step of a job is one of the only job.
LEMMA Solo ==
    ASSUME TypeOK, Alone, calm, NEW i \in Jobs, Step(i)
    PROVE  \A j \in Jobs : j # i => job[j].at = "idle" /\ job'[j] = job[j]
<1>1. job[i].at # "idle"
  BY DEF Step, Fetch, PluginMissing, Construct, Look, Store, Loaded, CheckRow, StartUnload,
         Remove, Stop, DeleteActor, Unplug
<1>2. QED BY <1>1, Stepped DEF Alone, Busy

\* What a step of a job leaves.
LEMMA StepQuiet ==
    ASSUME NEW i \in Jobs, Step(i)
    PROVE  /\ calm' => calm
           /\ inTurn' => inTurn
           /\ enabled' => enabled
           /\ CheckRow(i) \/ row' = row
           /\ Construct(i) \/ made' = made
           /\ Store(i) \/ DeleteActor(i) \/ actor' = actor
           /\ Stop(i) \/ live \subseteq live'
           /\ UNCHANGED watched
<1>1. CASE DeleteActor(i) \/ Loaded(i)
  <2>1. inTurn' = (inTurn /\ watches = 0 /\ forgets = 0)
    BY <1>1, Zenon DEF DeleteActor, Loaded, Published
  <2>2. inTurn' => inTurn
    BY <2>1, Zenon
  <2>3. QED BY <1>1, <2>2 DEF DeleteActor, Loaded, mapVars, rowVars
<1>2. CASE ~DeleteActor(i) /\ ~Loaded(i)
  BY <1>2 DEF Step, Fetch, PluginMissing, Construct, Look, Store, StoreActor, CheckRow,
       StartUnload, Remove, Stop, Unplug, mapVars, rowVars, watchVars, history
<1>3. QED BY <1>1, <1>2

LEMMA AloneStep ==
    ASSUME TypeOK, Alone, NEW i \in Jobs, Step(i)
    PROVE  Alone'
BY Solo, StepQuiet DEF Alone, Busy

\* Only Fetch leads to the step it leads to, and no step to Fetch.
LEMMA NotBack ==
    ASSUME TypeOK, NEW i \in Jobs, Step(i)
    PROVE  /\ job'[i].at # "fetch"
           /\ job'[i].at = "plugin" => Fetch(i)
<1>0. job[i] \in JobState /\ job \in [Jobs -> JobState]
  BY JobType DEF TypeOK
<1>1. CASE Remove(i) \/ DeleteActor(i)
  <2>1. job[i].at \in {"remove", "delete"}
    BY <1>1 DEF Remove, DeleteActor
  <2>2. job'[i] = Removed(i) \/ job'[i] = [job[i] EXCEPT !.at = "stop", !.old = actor]
    BY <1>0, <1>1 DEF Remove, DeleteActor
  <2>3. QED BY <1>0, <2>1, <2>2, RemovedJob DEF JobState
<1>2. CASE job' = [job EXCEPT ![i] = Rest]
  BY <1>0, <1>2, RestFits
<1>3. CASE Construct(i) /\ ~End(i)
  BY <1>0, <1>3 DEF Construct, JobState
<1>4. CASE Fetch(i) /\ ~End(i)
  <2>1. job' = [job EXCEPT ![i].at = "plugin", ![i].version = row.version]
    BY <1>4 DEF Fetch
  <2>2. QED BY <1>0, <1>4, <2>1 DEF JobState
<1>5. CASE Look(i) \/ Store(i) \/ Loaded(i) \/ StartUnload(i) \/ Stop(i)
  BY <1>0, <1>5 DEF Look, Store, StoreActor, Loaded, StartUnload, Stop, Goto, JobState
<1>6. QED
  BY <1>1, <1>2, <1>3, <1>4, <1>5 DEF Step, PluginMissing, CheckRow, Unplug, End

\* A job keeps its version as long as it has its actor.
LEMMA VersionStep ==
    ASSUME TypeOK, NEW i \in Jobs, Step(i), job'[i].new # None
    PROVE  job'[i].version = job[i].version
<1>0. job[i] \in JobState /\ JobFits(i) /\ job \in [Jobs -> JobState]
  BY JobType DEF TypeOK
<1>1. CASE job' = [job EXCEPT ![i] = Rest]
  BY <1>0, <1>1, RestFits
<1>2. CASE \E step : Goto(i, step)
  BY <1>0, <1>2 DEF Goto, JobState
<1>3. CASE job' = [job EXCEPT ![i] = Removed(i)]
  <2>1. job'[i] = Removed(i)
    BY <1>0, <1>3
  <2>2. job[i].op # "unload"
    BY <2>1, RestFits DEF Removed
  <2>3. job'[i] = [job[i] EXCEPT !.at = IF job[i].op = "add" THEN "store" ELSE "unplug", !.old = None]
    BY <2>1, <2>2 DEF Removed
  <2>4. QED BY <1>0, <2>3 DEF JobState
<1>4. CASE Fetch(i)
  <2>1. job[i].new = None
    BY <1>0, <1>4, RestFits DEF Fetch, JobFits, JobState
  <2>2. CASE Exists /\ row.auto
    <3>1. job' = [job EXCEPT ![i] = [@ EXCEPT !.at = "plugin", !.version = row.version]]
      BY <1>4, <2>2 DEF Fetch
    <3>2. job'[i] = [job[i] EXCEPT !.at = "plugin", !.version = row.version]
      BY <1>0, <3>1
    <3>3. QED BY <1>0, <2>1, <3>2 DEF JobState
  <2>3. CASE ~(Exists /\ row.auto)
    BY <1>1, <1>4, <2>3 DEF Fetch, End
  <2>4. QED BY <2>2, <2>3
<1>5. CASE job[i].at = "plugin" /\ \E o \in Actors : job' = [job EXCEPT ![i].at = "look", ![i].new = o]
  BY <1>0, <1>5 DEF JobState
<1>6. CASE job[i].at = "remove" /\ job' = [job EXCEPT ![i] = [@ EXCEPT !.at = "stop", !.old = actor]]
  BY <1>0, <1>6 DEF JobState
<1>7. QED
  BY <1>1, <1>2, <1>3, <1>4, <1>5, <1>6
  DEF Step, PluginMissing, Construct, Look, Store, StoreActor, Loaded, CheckRow,
      StartUnload, Remove, Stop, DeleteActor, Unplug, End, Goto

LEMMA MadeFromStep ==
    ASSUME TypeOK, MadeFrom, NEW i \in Jobs, Step(i)
    PROVE  MadeFrom'
<1>0. /\ job[i] \in JobState /\ JobFits(i) /\ job \in [Jobs -> JobState]
      /\ \A j \in Jobs : j # i => job'[j] = job[j]
  BY JobType, Stepped DEF TypeOK
<1>1. CASE Construct(i) /\ job'[i].new # None
  <2>1. ~End(i)
    BY <1>0, <1>1, RestFits DEF End
  <2>2. PICK o \in Actors :
          /\ Garbage(o)
          /\ made' = [made EXCEPT ![o] = job[i].version]
          /\ job' = [job EXCEPT ![i].at = "look", ![i].new = o]
    BY <1>1, <2>1 DEF Construct
  <2>3. job'[i].new = o /\ job'[i].version = job[i].version /\ made'[o] = job[i].version
    BY <1>0, <2>2 DEF TypeOK, JobState
  <2>4. \A j \in Jobs : job[j].new # o
    BY <2>2 DEF Garbage
  <2>5. ASSUME NEW j \in Jobs, j # i, job[j].new # None PROVE made'[job[j].new] = job[j].version
    BY <2>2, <2>4, <2>5, JobType DEF MadeFrom, TypeOK
  <2>6. QED BY <1>0, <2>3, <2>5 DEF MadeFrom
<1>2. CASE Construct(i) /\ job'[i].new = None
  <2>1. ~\E o \in Actors : job' = [job EXCEPT ![i].at = "look", ![i].new = o]
    BY <1>0, <1>2, RestFits DEF JobState
  <2>2. made' = made
    BY <1>2, <2>1 DEF Construct
  <2>3. QED BY <1>0, <1>2, <2>2 DEF MadeFrom
<1>3. CASE ~Construct(i)
  <2>1. made' = made
    BY <1>3, StepQuiet
  <2>2. job'[i].new \in {None, job[i].new}
    <3>1. ~(job[i].at = "plugin" /\ job'[i].at = "look")
      BY <1>0, <1>3, RestFits
      DEF Step, Fetch, PluginMissing, Look, Store, Loaded, CheckRow, StartUnload, Remove, Stop,
          DeleteActor, Unplug, End, Goto, JobState
    <3>2. QED BY <3>1, Stepped
  <2>3. QED BY <1>0, <2>1, <2>2, VersionStep DEF MadeFrom
<1>4. QED BY <1>1, <1>2, <1>3

\* Where a step takes the job: the last step of an update is CheckRow, and
\* only Store leads to what is stored.
LEMMA WhereTo ==
    ASSUME TypeOK, NEW i \in Jobs, Step(i)
    PROVE  /\ Store(i) => job'[i].at = "loaded" /\ job'[i].new = job[i].new
           /\ Loaded(i) => job'[i].at = "check" /\ job'[i].new = job[i].new
           /\ Stored(i)' => Store(i) \/ Loaded(i)
           /\ job'[i].at \in {"look", "stop", "delete"} => ~Rests(i)'
<1>0. job[i] \in JobState /\ JobFits(i) /\ job \in [Jobs -> JobState]
  BY JobType DEF TypeOK
<1>1. Store(i) => job'[i].at = "loaded" /\ job'[i].new = job[i].new
  BY <1>0 DEF Store, StoreActor, JobState
<1>2. Loaded(i) => job'[i].at = "check" /\ job'[i].new = job[i].new
  BY <1>0 DEF Loaded, Goto, JobState
<1>3. ASSUME Stored(i)', ~Store(i), ~Loaded(i) PROVE FALSE
  <2>1. CASE Remove(i) \/ DeleteActor(i)
    <3>1. job[i].at \in {"remove", "delete"}
      BY <2>1 DEF Remove, DeleteActor
    <3>2. job'[i] = Removed(i) \/ job'[i] = [job[i] EXCEPT !.at = "stop", !.old = actor]
      BY <1>0, <2>1 DEF Remove, DeleteActor
    <3>3. job'[i].at \in {"idle", "store", "unplug", "stop"}
      BY <1>0, <3>1, <3>2, RemovedJob DEF JobState
    <3>4. QED BY <1>3, <3>3 DEF Stored
  <2>2. CASE ~(Remove(i) \/ DeleteActor(i))
    BY <1>0, <1>3, <2>2, RestFits
    DEF Stored, Step, Fetch, PluginMissing, Construct, Look, CheckRow, StartUnload, Stop, Unplug,
        End, Goto, JobState
  <2>3. QED BY <2>1, <2>2
<1>4. QED BY <1>1, <1>2, <1>3 DEF Rests

LEMMA CurrentStep ==
    ASSUME FreshInv, NEW i \in Jobs, Step(i)
    PROVE  Current'
<1> SUFFICES ASSUME calm', NEW j \in Jobs, Updates(j)'
             PROVE  /\ Exists' /\ row'.auto /\ job'[j].version = row'.version
                    /\ Stored(j)' => actor' = job'[j].new /\ actor' \in live'
  BY DEF Current
<1>0. /\ TypeOK /\ Alone /\ Current /\ Unstored
      /\ job[i] \in JobState /\ JobFits(i) /\ job \in [Jobs -> JobState]
  BY JobType DEF FreshInv, LeavingInv, TypeOK
<1>1. calm /\ j = i
  <2>1. calm
    BY StepQuiet
  <2>2. j # i => job[j].at = "idle" /\ job'[j] = job[j]
    BY <1>0, <2>1, Solo
  <2>3. QED BY <2>1, <2>2 DEF Updates
<1>2. CASE Fetch(i)
  <2>1. Exists /\ row.auto
    BY <1>0, <1>1, <1>2, RestFits DEF Fetch, End, Updates
  <2>2. job' = [job EXCEPT ![i].at = "plugin", ![i].version = row.version] /\ row' = row
    BY <1>2, <2>1 DEF Fetch, rowVars
  <2>3. job'[i].version = row.version /\ job'[i].at = "plugin"
    BY <1>0, <2>2 DEF JobState
  <2>4. QED BY <1>1, <2>1, <2>2, <2>3 DEF Exists, Stored
<1>3. CASE ~Fetch(i)
  <2>1. job'[i].at # "idle" /\ job'[i].op = job[i].op
    BY <1>1, Stepped, <1>0 DEF Updates
  <2>2. Updates(i)
    BY <1>0, <1>1, <1>3, <2>1
    DEF Updates, Step, PluginMissing, Construct, Look, Store, Loaded, CheckRow, StartUnload,
        Remove, Stop, DeleteActor, Unplug
  <2>3. Exists /\ row.auto /\ job[i].version = row.version
    BY <1>0, <1>1, <2>2 DEF Current
  <2>4. row' = row
    BY <2>3, StepQuiet DEF CheckRow
  <2>5. job'[i].version = job[i].version
    <3>1. TypeOK'
      BY <1>0, TypeStep
    <3>2. job'[i].new \in Actors \/ job'[i].at = "plugin"
      BY <1>1, <3>1, JobType DEF Updates, TypeOK, JobFits
    <3>3. job'[i].at # "plugin"
      BY <1>0, <1>3, NotBack
    <3>4. QED BY <1>0, <3>2, <3>3, VersionStep, RestFits
  <2>6. ASSUME Stored(i)' PROVE actor' = job'[i].new /\ actor' \in live'
    <3>1. CASE Store(i)
      <4>1. MadeNotStored(i)
        BY <1>0, <3>1 DEF Store, JobFits, MadeNotStored
      <4>2. actor' = job[i].new /\ live' = live
        BY <3>1 DEF Store, StoreActor
      <4>3. QED BY <1>0, <3>1, <4>1, <4>2, WhereTo DEF Unstored
    <3>2. CASE Loaded(i)
      BY <1>0, <1>1, <2>2, <3>2, WhereTo DEF Loaded, mapVars, Current, Stored
    <3>3. QED BY <1>0, <2>6, <3>1, <3>2, WhereTo
  <2>7. QED BY <1>1, <2>3, <2>4, <2>5, <2>6 DEF Exists
<1>4. QED BY <1>2, <1>3

LEMMA EndsFresh ==
    ASSUME FreshInv, NEW i \in Jobs, Step(i)
    PROVE  LoadedIsFresh'
<1> SUFFICES ASSUME calm', AllIdle', Exists', row'.auto, enabled', actor' # None
             PROVE  made'[actor'] = row'.version /\ actor' \in live'
  BY DEF LoadedIsFresh
<1>0. /\ TypeOK /\ Alone /\ Current /\ MadeFrom
      /\ job[i] \in JobState /\ JobFits(i) /\ job \in [Jobs -> JobState]
  BY JobType DEF FreshInv, LeavingInv, TypeOK
<1>1. calm /\ enabled /\ job'[i].at = "idle"
  BY StepQuiet DEF AllIdle
<1>2. CASE CheckRow(i)
  <2>1. Updates(i) /\ Stored(i)
    BY <1>0, <1>2 DEF CheckRow, JobFits, Updates, Stored
  <2>2. /\ Exists /\ job[i].version = row.version /\ actor = job[i].new /\ actor \in live
    BY <1>0, <1>1, <2>1 DEF Current
  <2>3. row' = row /\ UNCHANGED mapVars
    BY <1>2, <2>2 DEF CheckRow
  <2>4. made[actor] = row.version
    BY <1>0, <2>2, <2>3 DEF MadeFrom, mapVars
  <2>5. QED BY <2>2, <2>3, <2>4 DEF mapVars
<1>3. CASE ~CheckRow(i)
  <2>1. ~Fetch(i)
    <3>1. row' = row
      BY <1>3, StepQuiet
    <3>2. Fetch(i) => ~(job' = [job EXCEPT ![i].at = "plugin", ![i].version = row.version])
      BY <1>0, <1>1 DEF JobState
    <3>3. QED BY <3>1, <3>2 DEF Fetch, Exists
  <2>2. ~PluginMissing(i) /\ ~Unplug(i)
    BY <1>1 DEF PluginMissing, Unplug
  <2>3. ~Construct(i)
    BY <1>0, <1>1 DEF Construct, JobState
  <2>4. ~DeleteActor(i)
    BY DEF DeleteActor
  <2>5. ~Remove(i)
    <3>1. CASE actor = None
      BY <3>1 DEF Remove, mapVars
    <3>2. ASSUME actor # None, Remove(i) PROVE FALSE
      <4>1. job'[i] = [job[i] EXCEPT !.at = "stop", !.old = actor]
        BY <1>0, <3>2 DEF Remove
      <4>2. QED BY <1>0, <1>1, <4>1 DEF JobState
    <3>3. QED BY <3>1, <3>2
  <2>6. ~Store(i) /\ ~Loaded(i) /\ ~Look(i) /\ ~StartUnload(i) /\ ~Stop(i)
    BY <1>0, <1>1 DEF Store, StoreActor, Loaded, Look, StartUnload, Stop, Goto, JobState
  <2>7. QED BY <1>3, <2>1, <2>2, <2>3, <2>4, <2>5, <2>6 DEF Step
<1>4. QED BY <1>2, <1>3

LEMMA ToldStep ==
    ASSUME FreshInv, NEW i \in Jobs, Step(i)
    PROVE  InStep'
<1> SUFFICES ASSUME calm', inTurn', Loadable', \A j \in Jobs : Rests(j)'
             PROVE  Told'
  BY DEF InStep
<1>0. /\ TypeOK /\ Alone /\ Current /\ InStep
      /\ job[i] \in JobState /\ JobFits(i) /\ job \in [Jobs -> JobState]
  BY JobType DEF FreshInv, LeavingInv, TypeOK
<1>1. calm /\ inTurn /\ enabled /\ Rests(i)'
  BY StepQuiet DEF Loadable
<1>2. \A j \in Jobs : j # i => Rests(j)
  BY <1>0, <1>1, Solo DEF Rests
<1>3. ASSUME Rests(i), Loadable, UNCHANGED <<actor, watchVars>> PROVE Told'
  <2>1. Told
    BY <1>0, <1>1, <1>2, <1>3 DEF InStep
  <2>2. QED BY <1>3, <2>1 DEF Told, watchVars
<1>4. CASE CheckRow(i)
  <2>1. Updates(i) /\ Rests(i)
    BY <1>0, <1>4 DEF CheckRow, JobFits, Updates, Rests
  <2>2. Loadable
    BY <1>0, <1>1, <2>1 DEF Current, Loadable
  <2>3. QED BY <1>3, <1>4, <2>1, <2>2 DEF CheckRow, mapVars
<1>5. CASE Loaded(i)
  <2>1. inTurn' = (inTurn /\ watches = 0 /\ forgets = 0)
    BY <1>5, Zenon DEF Loaded, Published
  <2>2. watches = 0 /\ forgets = 0
    BY <2>1, Zenon
  <2>3. watches' = 1 /\ forgets' = 0 /\ actor' = actor
    BY <1>5, <2>2 DEF Loaded, mapVars
  <2>4. actor # None
    <3>1. Updates(i) /\ Stored(i)
      BY <1>0, <1>5 DEF Loaded, JobFits, Updates, Stored
    <3>2. actor = job[i].new /\ job[i].new \in Actors
      BY <1>0, <1>1, <1>5, <3>1 DEF Current, Loaded, JobFits
    <3>3. QED BY <3>2, RestFits
  <2>5. QED BY <2>3, <2>4 DEF Told
<1>6. CASE DeleteActor(i)
  <2>1. inTurn' = (inTurn /\ watches = 0 /\ forgets = 0)
    BY <1>6, Zenon DEF DeleteActor, Published
  <2>2. watches = 0 /\ forgets = 0
    BY <2>1, Zenon
  <2>3. watches' = 0 /\ forgets' = 1 /\ actor' = None
    BY <1>6, <2>2 DEF DeleteActor
  <2>4. QED BY <2>3 DEF Told
<1>7. CASE ~CheckRow(i) /\ ~Loaded(i) /\ ~DeleteActor(i)
  <2>1. row' = row /\ Loadable
    BY <1>1, <1>7, StepQuiet DEF Loadable, Exists
  <2>2. UNCHANGED watchVars
    BY <1>7 DEF Step, Fetch, PluginMissing, Construct, Look, Store, CheckRow,
       StartUnload, Remove, Stop, Unplug, watchVars
  <2>3. ~Fetch(i)
    <3>1. job'[i].at = "plugin" /\ job[i].at = "fetch" => job'[i].op = "unload"
      BY <1>1 DEF Rests
    <3>2. ASSUME Fetch(i) PROVE FALSE
      <4>1. job' = [job EXCEPT ![i].at = "plugin", ![i].version = row.version] /\ job[i].at = "fetch"
        BY <2>1, <3>2 DEF Fetch, Loadable
      <4>2. job'[i].at = "plugin" /\ job'[i].op = job[i].op
        BY <1>0, <4>1 DEF JobState
      <4>3. QED BY <3>1, <4>1, <4>2 DEF FreshInv, Fetching
    <3>3. QED BY <3>2
  <2>4. ~PluginMissing(i) /\ ~Unplug(i)
    BY <1>1, <2>1 DEF PluginMissing, Unplug, Loadable
  <2>5. ~Construct(i)
    <3>1. ASSUME Construct(i), calm' PROVE job'[i].at = "look" /\ job'[i].op = "add"
      <4>1. PICK o \in Actors : job' = [job EXCEPT ![i].at = "look", ![i].new = o]
        BY <3>1 DEF Construct
      <4>2. job[i].op = "add"
        BY <3>1 DEF Construct
      <4>3. QED BY <1>0, <4>1, <4>2 DEF JobState
    <3>2. QED BY <1>1, <3>1 DEF Rests
  <2>6. ~Store(i) /\ ~Stop(i)
    <3>1. ASSUME Store(i) PROVE job'[i].at = "loaded"
      BY <1>0, <3>1 DEF Store, StoreActor, JobState
    <3>2. ASSUME Stop(i) PROVE job'[i].at = "delete"
      BY <1>0, <3>2 DEF Stop, Goto, JobState
    <3>3. QED BY <1>1, <3>1, <3>2 DEF Rests
  <2>7. ~Look(i)
    <3>1. ASSUME Look(i) PROVE FALSE
      <4>1. job[i].op = "add" /\ job'[i].op = "add" /\ job'[i].at \in {"store", "remove"}
        BY <1>0, <3>1 DEF Look, Goto, JobState, JobFits
      <4>2. QED BY <1>1, <4>1 DEF Rests
    <3>2. QED BY <3>1
  <2>8. CASE StartUnload(i)
    BY <1>3, <2>1, <2>2, <2>8 DEF StartUnload, Rests, mapVars
  <2>9. CASE Remove(i)
    <3>1. CASE actor # None
      BY <1>0, <1>1, <2>9, <3>1 DEF Remove, JobState, Rests
    <3>2. CASE actor = None
      <4>1. job[i].at = "remove" /\ job'[i] = Removed(i)
        BY <1>0, <2>9, <3>2 DEF Remove
      <4>2. job[i].op = "unload"
        <5>1. CASE job[i].op # "unload"
          BY <1>0, <1>1, <4>1, <5>1, RemovedJob DEF Rests, JobState
        <5>2. QED BY <5>1
      <4>3. QED BY <1>3, <2>1, <2>2, <2>9, <4>1, <4>2 DEF Rests, Remove, mapVars
    <3>3. QED BY <3>1, <3>2
  <2>10. QED BY <1>7, <2>3, <2>4, <2>5, <2>6, <2>7, <2>8, <2>9 DEF Step
<1>8. QED BY <1>4, <1>5, <1>6, <1>7

LEMMA FreshNext == ASSUME FreshInv, [Next]_vars PROVE FreshInv'
<1>0. TypeOK /\ LeavingInv'
  BY LeavingNext DEF FreshInv, LeavingInv
<1>1. CASE Event \/ PluginLoad
  BY <1>0, <1>1, FreshEvents DEF FreshInv
<1>2. CASE PluginUnload
  <2>1. PICK i \in Jobs :
          /\ job[i] = Rest
          /\ job'[i].at = "remove" /\ job'[i].op = "unplug"
          /\ job'[i].new = None /\ job'[i].old = None
          /\ \A j \in Jobs : j # i => job'[j] = job[j]
    BY <1>0, <1>2, Unplugging
  <2>2. UNCHANGED <<mapVars, watchVars, inTurn>> /\ (calm' => AllIdle)
    BY <1>2 DEF PluginUnload
  <2>3. QED BY <1>0, <2>1, <2>2, FreshStart DEF FreshInv
<1>3. ASSUME NEW i \in Jobs, Step(i) PROVE FreshInv'
  <2>1. Fetching'
    BY <1>0, <1>3, NotBack, Stepped DEF FreshInv, Fetching
  <2>2. QED
    BY <1>0, <1>3, <2>1, AloneStep, MadeFromStep, CurrentStep, EndsFresh, ToldStep DEF FreshInv
<1>4. CASE Watch
  <2>1. UNCHANGED <<rowVars, enabled, mapVars, job, forgets, history>>
    BY <1>4 DEF Watch
  <2>2. ASSUME calm', inTurn', Loadable', \A j \in Jobs : Rests(j)' PROVE Told'
    <3>1. Exists /\ Told
      BY <2>1, <2>2 DEF FreshInv, InStep, Loadable, Rests, Exists, rowVars, history
    <3>2. watches > 0 /\ watched' = (watched \/ Exists)
      BY <1>4 DEF Watch
    <3>3. watched'
      BY <3>1, <3>2, Zenon
    <3>4. actor' # None /\ forgets' = forgets /\ ~(forgets > 0)
      BY <2>1, <3>1, <3>2 DEF Told, mapVars
    <3>5. QED BY <3>3, <3>4 DEF Told
  <2>3. QED
    BY <1>0, <2>1, <2>2
    DEF FreshInv, InStep, Alone, Busy, Fetching, MadeFrom, Current, Updates, Stored, LoadedIsFresh, AllIdle,
        Exists, rowVars, mapVars, history
<1>5. CASE Forget
  <2>1. UNCHANGED <<rowVars, enabled, mapVars, job, watches, history>>
    BY <1>5 DEF Forget
  <2>2. InStep'
    BY <1>5, <2>1
    DEF Forget, FreshInv, InStep, Loadable, Told, Rests, Exists, rowVars, mapVars, history
  <2>3. QED
    BY <1>0, <2>1, <2>2
    DEF FreshInv, Alone, Busy, Fetching, MadeFrom, Current, Updates, Stored, LoadedIsFresh, AllIdle,
        Exists, rowVars, mapVars, history
<1>6. CASE UNCHANGED vars
  BY <1>0, <1>6
  DEF vars, FreshInv, Alone, Busy, Fetching, MadeFrom, Current, Updates, Stored, LoadedIsFresh,
      AllIdle, InStep, Loadable, Told, Rests, Exists, rowVars, mapVars, watchVars, history
<1>7. QED BY <1>1, <1>2, <1>3, <1>4, <1>5, <1>6 DEF Next

\* If the jobs about the last version came one at a time, the actor that is
\* loaded in the end was made from the row, and it is live.
THEOREM UpdatesLand == Spec => []LoadedIsFresh
<1>1. FreshInv /\ [Next]_vars => FreshInv'
  BY FreshNext
<1>2. FreshInv => LoadedIsFresh
  BY DEF FreshInv
<1>3. QED BY <1>1, <1>2, FreshInit, PTL DEF Spec

\* If besides each event of the entity was handled before the next, its
\* scripts are watched exactly if it is loaded.
THEOREM WatchesFollow == Spec => []WatchedIfLoaded
<1>1. FreshInv /\ [Next]_vars => FreshInv'
  BY FreshNext
<1>2. FreshInv => WatchedIfLoaded
  BY DEF FreshInv, InStep, WatchedIfLoaded, AllIdle, Rests, Loadable, Told
<1>3. QED BY <1>1, <1>2, FreshInit, PTL DEF Spec

-----------------------------------------------------------------------------
(* The dashboard editor: its lists.                                         *)

LEMMA ElementsOf ==
    ASSUME NEW S, NEW s \in Seq(S)
    PROVE  /\ \A x : x \in Elements(s) <=> \E i \in 1 .. Len(s) : s[i] = x
           /\ Elements(s) \subseteq S
           /\ \A i \in DOMAIN s : s[i] \in S /\ s[i] \in Elements(s)
           /\ DOMAIN s = 1 .. Len(s) /\ Len(s) \in Nat
           /\ Elements(s) = {} <=> s = <<>>
BY DEF Elements, Seqs!ToSet

LEMMA NoElements == Elements(<<>>) = {} /\ Once(<<>>)
BY DEF Elements, Seqs!ToSet, Once

LEMMA OneElement == \A x : Elements(<<x>>) = {x} /\ Once(<<x>>)
BY DEF Elements, Seqs!ToSet, Once

LEMMA Appended ==
    ASSUME NEW S, NEW s \in Seq(S), NEW x \in S
    PROVE  /\ Append(s, x) \in Seq(S)
           /\ Elements(Append(s, x)) = Elements(s) \cup {x}
           /\ Once(s) /\ x \notin Elements(s) => Once(Append(s, x))
<1> DEFINE r == Append(s, x)
<1>1. r \in Seq(S) /\ Len(r) = Len(s) + 1 /\ Len(s) \in Nat
  OBVIOUS
<1>2. \A i \in 1 .. Len(s) : r[i] = s[i]
  OBVIOUS
<1>3. r[Len(s) + 1] = x
  OBVIOUS
<1>7. /\ \A y : y \in Elements(s) <=> \E i \in 1 .. Len(s) : s[i] = y
      /\ \A y : y \in Elements(r) <=> \E i \in 1 .. Len(r) : r[i] = y
      /\ DOMAIN s = 1 .. Len(s) /\ DOMAIN r = 1 .. Len(r)
  BY <1>1, ElementsOf
<1> HIDE DEF r
<1>4. Elements(r) = Elements(s) \cup {x}
  <2>1. \A y : y \in Elements(s) => y \in Elements(r)
    BY <1>1, <1>2, <1>7
  <2>2. x \in Elements(r)
    BY <1>1, <1>3, <1>7
  <2>3. \A y : y \in Elements(r) => y \in Elements(s) \/ y = x
    BY <1>1, <1>2, <1>3, <1>7
  <2>4. QED BY <2>1, <2>2, <2>3
<1>5. Once(s) /\ x \notin Elements(s) => Once(r)
  BY <1>1, <1>2, <1>3, <1>7 DEF Once
<1> USE DEF r
<1>6. QED BY <1>1, <1>4, <1>5

LEMMA Joins ==
    ASSUME NEW S, NEW s \in Seq(S), NEW r \in Seq(S)
    PROVE  s \o r \in Seq(S) /\ Len(s \o r) = Len(s) + Len(r)
OBVIOUS

LEMMA Joined ==
    ASSUME NEW S, NEW s \in Seq(S), NEW r \in Seq(S)
    PROVE  /\ s \o r \in Seq(S)
           /\ Elements(s \o r) = Elements(s) \cup Elements(r)
           /\ Once(s) /\ Once(r) /\ Elements(s) \cap Elements(r) = {} => Once(s \o r)
<1> DEFINE q == s \o r
<1>1. q \in Seq(S) /\ Len(q) = Len(s) + Len(r) /\ Len(s) \in Nat /\ Len(r) \in Nat
  OBVIOUS
<1>2. \A i \in 1 .. Len(s) : q[i] = s[i]
  OBVIOUS
<1>3. \A i \in Len(s) + 1 .. Len(q) : q[i] = r[i - Len(s)] /\ i - Len(s) \in 1 .. Len(r)
  OBVIOUS
<1>6. \A i \in 1 .. Len(r) : i + Len(s) \in Len(s) + 1 .. Len(q) /\ (i + Len(s)) - Len(s) = i
  BY <1>1
<1>7. /\ \A y : y \in Elements(s) <=> \E i \in 1 .. Len(s) : s[i] = y
      /\ \A y : y \in Elements(r) <=> \E i \in 1 .. Len(r) : r[i] = y
      /\ \A y : y \in Elements(q) <=> \E i \in 1 .. Len(q) : q[i] = y
      /\ DOMAIN s = 1 .. Len(s) /\ DOMAIN r = 1 .. Len(r) /\ DOMAIN q = 1 .. Len(q)
  BY <1>1, ElementsOf
<1> HIDE DEF q
<1>4. Elements(q) = Elements(s) \cup Elements(r)
  <2>1. \A x \in Elements(r) : x \in Elements(q)
    <3> SUFFICES ASSUME NEW i \in 1 .. Len(r) PROVE r[i] \in Elements(q)
      BY <1>7
    <3>1. q[i + Len(s)] = r[i] /\ i + Len(s) \in 1 .. Len(q)
      BY <1>1, <1>3, <1>6
    <3>2. QED BY <1>1, <3>1, <1>7
  <2>2. \A x \in Elements(s) : x \in Elements(q)
    BY <1>1, <1>2, <1>7
  <2>3. \A x \in Elements(q) : x \in Elements(s) \/ x \in Elements(r)
    <3> SUFFICES ASSUME NEW i \in 1 .. Len(q) PROVE q[i] \in Elements(s) \/ q[i] \in Elements(r)
      BY <1>7
    <3>1. CASE i <= Len(s)
      BY <1>1, <1>2, <1>7, <3>1
    <3>2. CASE i > Len(s)
      BY <1>1, <1>3, <1>7, <3>2
    <3>3. QED BY <1>1, <3>1, <3>2
  <2>4. QED BY <2>1, <2>2, <2>3
<1>5. ASSUME Once(s), Once(r), Elements(s) \cap Elements(r) = {} PROVE Once(q)
  <2> SUFFICES ASSUME NEW i \in 1 .. Len(q), NEW j \in 1 .. Len(q), q[i] = q[j] PROVE i = j
    BY <1>1, <1>7 DEF Once
  <2>1. CASE i <= Len(s) /\ j <= Len(s)
    BY <1>1, <1>2, <1>5, <2>1, <1>7 DEF Once
  <2>2. CASE i > Len(s) /\ j > Len(s)
    <3>1. i \in Len(s) + 1 .. Len(q) /\ j \in Len(s) + 1 .. Len(q)
      BY <1>1, <2>2
    <3>2. i - Len(s) \in 1 .. Len(r) /\ r[i - Len(s)] = q[i]
      BY <1>3, <3>1
    <3>3. j - Len(s) \in 1 .. Len(r) /\ r[j - Len(s)] = q[j]
      BY <1>3, <3>1
    <3>4. i - Len(s) = j - Len(s)
      BY <1>5, <1>7, <3>2, <3>3 DEF Once
    <3>5. QED BY <1>1, <3>4
  <2>3. \A a \in 1 .. Len(s), b \in Len(s) + 1 .. Len(q) : q[a] # q[b]
    BY <1>1, <1>2, <1>3, <1>5, <1>7
  <2>4. CASE i <= Len(s) /\ j > Len(s)
    <3>1. i \in 1 .. Len(s) /\ j \in Len(s) + 1 .. Len(q)
      BY <1>1, <2>4
    <3>2. QED BY <2>3, <3>1
  <2>5. CASE i > Len(s) /\ j <= Len(s)
    <3>1. j \in 1 .. Len(s) /\ i \in Len(s) + 1 .. Len(q)
      BY <1>1, <2>5
    <3>2. QED BY <2>3, <3>1
  <2>6. QED BY <1>1, <2>1, <2>2, <2>4, <2>5
<1> USE DEF q
<1>8. QED BY <1>1, <1>4, <1>5

LEMMA Spliced ==
    ASSUME NEW S, NEW s \in Seq(S), NEW k \in 1 .. Len(s)
    PROVE  /\ Seqs!RemoveAt(s, k) \in Seq(S)
           /\ Elements(Seqs!RemoveAt(s, k)) \subseteq Elements(s)
           /\ Once(s) => /\ Elements(Seqs!RemoveAt(s, k)) = Elements(s) \ {s[k]}
                         /\ Once(Seqs!RemoveAt(s, k))
<1> DEFINE r == Seqs!RemoveAt(s, k)
<1>0. Len(s) \in Nat /\ k \in Nat
  OBVIOUS
<1>8. PICK a, b : a = SubSeq(s, 1, k - 1) /\ b = SubSeq(s, k + 1, Len(s)) /\ r = a \o b
  BY DEF Seqs!RemoveAt
<1>9. /\ a \in Seq(S) /\ Len(a) = k - 1 /\ \A i \in 1 .. k - 1 : a[i] = s[i]
      /\ b \in Seq(S) /\ Len(b) = Len(s) - k /\ \A i \in 1 .. Len(s) - k : b[i] = s[i + k]
  <2>1. a \in Seq(S) /\ Len(a) = k - 1 /\ \A i \in 1 .. k - 1 : a[i] = s[i]
    BY <1>0, <1>8
  <2>2. b \in Seq(S)
    BY <1>0, <1>8
  <2>3. Len(b) = Len(s) - k
    BY <1>0, <1>8
  <2>4. ASSUME NEW i \in 1 .. Len(s) - k PROVE b[i] = s[i + k]
    BY <1>0, <1>8, <2>3
  <2>5. QED BY <2>1, <2>2, <2>3, <2>4
<1>1. r \in Seq(S) /\ Len(r) = Len(s) - 1 /\ Len(s) \in Nat /\ k \in Nat
  <2>1. a \o b \in Seq(S) /\ Len(a \o b) = Len(a) + Len(b)
    <3>1. a \in Seq(S) /\ b \in Seq(S)
      BY <1>9
    <3>2. QED BY <3>1, Joins
  <2>2. (k - 1) + (Len(s) - k) = Len(s) - 1
    BY <1>0
  <2>3. QED BY <1>0, <1>8, <1>9, <2>1, <2>2
<1>2. \A i \in 1 .. Len(r) : r[i] = IF i < k THEN s[i] ELSE s[i + 1]
  <2> SUFFICES ASSUME NEW i \in 1 .. Len(r) PROVE r[i] = IF i < k THEN s[i] ELSE s[i + 1]
    OBVIOUS
  <2>1. CASE i < k
    <3>1. i \in 1 .. Len(a) /\ i \in 1 .. k - 1
      BY <1>0, <1>1, <1>9, <2>1
    <3>2. r[i] = a[i]
      BY <1>8, <1>9, <3>1
    <3>3. QED BY <1>9, <2>1, <3>1, <3>2
  <2>2. CASE ~(i < k)
    <3>1. i - (k - 1) \in 1 .. Len(s) - k /\ (i - (k - 1)) + k = i + 1 /\ i > Len(a) /\ i <= Len(a) + Len(b)
      BY <1>0, <1>1, <1>9, <2>2
    <3>2. r[i] = b[i - Len(a)]
      <4>1. \A j \in Len(a) + 1 .. Len(a) + Len(b) : (a \o b)[j] = b[j - Len(a)]
        <5>1. a \in Seq(S) /\ b \in Seq(S)
          BY <1>9
        <5>2. QED BY <5>1
      <4>2. i \in Len(a) + 1 .. Len(a) + Len(b)
        BY <1>0, <1>9, <3>1
      <4>3. QED BY <1>8, <4>1, <4>2
    <3>3. b[i - (k - 1)] = s[i + 1]
      BY <1>9, <3>1
    <3>4. QED BY <1>9, <2>2, <3>2, <3>3
  <2>3. QED BY <2>1, <2>2
<1>7. /\ \A y : y \in Elements(s) <=> \E i \in 1 .. Len(s) : s[i] = y
      /\ \A y : y \in Elements(r) <=> \E i \in 1 .. Len(r) : r[i] = y
      /\ DOMAIN s = 1 .. Len(s) /\ DOMAIN r = 1 .. Len(r)
  BY <1>1, ElementsOf
<1> HIDE DEF r
<1>3. Elements(r) \subseteq Elements(s)
  BY <1>1, <1>2, <1>7
<1>4. ASSUME Once(s) PROVE Once(r) /\ s[k] \notin Elements(r)
  <2>0. \A i, j \in 1 .. Len(s) : s[i] = s[j] => i = j
    BY <1>4, <1>7 DEF Once
  <2>1. Once(r)
    <3> SUFFICES ASSUME NEW i \in 1 .. Len(r), NEW j \in 1 .. Len(r), r[i] = r[j] PROVE i = j
      BY <1>7 DEF Once
    <3>1. PICK m \in 1 .. Len(s) : m = (IF i < k THEN i ELSE i + 1) /\ r[i] = s[m]
      BY <1>1, <1>2
    <3>2. PICK n \in 1 .. Len(s) : n = (IF j < k THEN j ELSE j + 1) /\ r[j] = s[n]
      BY <1>1, <1>2
    <3>3. m = n
      BY <2>0, <3>1, <3>2
    <3>4. QED BY <1>1, <3>1, <3>2, <3>3
  <2>2. s[k] \notin Elements(r)
    <3> SUFFICES ASSUME NEW i \in 1 .. Len(r) PROVE r[i] # s[k]
      BY <1>7
    <3>1. PICK m \in 1 .. Len(s) : m = (IF i < k THEN i ELSE i + 1) /\ r[i] = s[m]
      BY <1>1, <1>2
    <3>2. m # k
      BY <1>1, <3>1
    <3>3. QED BY <2>0, <3>1, <3>2
  <2>3. QED BY <2>1, <2>2
<1>5. ASSUME NEW x \in Elements(s), x # s[k] PROVE x \in Elements(r)
  <2>1. PICK i \in 1 .. Len(s) : s[i] = x /\ i # k
    BY <1>5, <1>7
  <2>2. CASE i < k
    BY <1>1, <1>2, <2>1, <2>2, <1>7
  <2>3. CASE i > k
    <3>1. i - 1 \in 1 .. Len(r) /\ r[i - 1] = s[i]
      BY <1>1, <1>2, <2>1, <2>3
    <3>2. QED BY <1>1, <2>1, <3>1, <1>7
  <2>4. QED BY <1>1, <2>1, <2>2, <2>3
<1> USE DEF r
<1>6. QED BY <1>1, <1>3, <1>4, <1>5

LEMMA Left ==
    ASSUME NEW S, NEW s \in Seq(S), NEW i \in Int
    PROVE  /\ Without(s, i) \in Seq(S)
           /\ Elements(Without(s, i)) \subseteq Elements(s)
           /\ Once(s) => Once(Without(s, i))
BY Spliced DEF Without

LEMMA LeftAt ==
    ASSUME NEW S, NEW s \in Seq(S), NEW i \in Int, Once(s), i + 1 \in 1 .. Len(s)
    PROVE  Elements(Without(s, i)) = Elements(s) \ {s[i + 1]}
BY Spliced DEF Without

LEMMA LeftOff ==
    ASSUME NEW S, NEW s \in Seq(S), NEW i \in Int, i + 1 \notin 1 .. Len(s)
    PROVE  Without(s, i) = s
BY DEF Without

\* Where an element that comes once is.
LEMMA Placed ==
    ASSUME NEW S, NEW s \in Seq(S), NEW x \in Elements(s), Once(s)
    PROVE  LET k == Seqs!SelectInSeq(s, LAMBDA y : y = x)
           IN  k \in 1 .. Len(s) /\ s[k] = x
<1>1. PICK i \in 1 .. Len(s) : s[i] = x
  BY ElementsOf
<1>2. {j \in 1 .. Len(s) : s[j] = x} = {i}
  BY <1>1 DEF Once
<1>3. Seqs!Min({i}) = i
  BY <1>1 DEF Seqs!Min
<1>4. Seqs!SelectInSeq(s, LAMBDA y : y = x) = i
  BY <1>2, <1>3 DEF Seqs!SelectInSeq
<1>5. QED BY <1>1, <1>4

LEMMA Dropped ==
    ASSUME NEW S, NEW s \in Seq(S), NEW x, Once(s)
    PROVE  /\ Seqs!RemoveFirst(s, x) \in Seq(S)
           /\ Elements(Seqs!RemoveFirst(s, x)) = Elements(s) \ {x}
           /\ Once(Seqs!RemoveFirst(s, x))
<1>1. CASE x \in Elements(s)
  <2>1. \E i \in 1 .. Len(s) : s[i] = x
    BY <1>1, ElementsOf
  <2>2. PICK k \in 1 .. Len(s) : k = Seqs!SelectInSeq(s, LAMBDA y : y = x) /\ s[k] = x
    BY <1>1, Placed
  <2>3. Seqs!RemoveFirst(s, x) = Seqs!RemoveAt(s, k)
    BY <2>1, <2>2 DEF Seqs!RemoveFirst
  <2>4. /\ Seqs!RemoveAt(s, k) \in Seq(S) /\ Once(Seqs!RemoveAt(s, k))
        /\ Elements(Seqs!RemoveAt(s, k)) = Elements(s) \ {s[k]}
    BY Spliced
  <2>5. QED BY <2>2, <2>3, <2>4
<1>2. CASE x \notin Elements(s)
  <2>1. Seqs!RemoveFirst(s, x) = s
    BY <1>2, ElementsOf DEF Seqs!RemoveFirst
  <2>2. QED BY <1>2, <2>1
<1>3. QED BY <1>1, <1>2

LEMMA Swapped ==
    ASSUME NEW S, NEW s \in Seq(S), NEW i \in 0 .. Len(s) - 2
    PROVE  /\ SwapFrom(s, i) \in Seq(S)
           /\ Elements(SwapFrom(s, i)) = Elements(s)
           /\ Once(s) => Once(SwapFrom(s, i))
           /\ Len(SwapFrom(s, i)) = Len(s)
           /\ \A j \in 1 .. Len(s) : j \notin {i + 1, i + 2} => SwapFrom(s, i)[j] = s[j]
<1> DEFINE r == SwapFrom(s, i)
<1>0. Len(s) \in Nat /\ i + 1 \in 1 .. Len(s) /\ i + 2 \in 1 .. Len(s) /\ s \in [1 .. Len(s) -> S]
  OBVIOUS
<1>1. r \in [1 .. Len(s) -> S]
  BY <1>0 DEF SwapFrom
<1>2. r \in Seq(S) /\ Len(r) = Len(s)
  BY <1>0, <1>1
<1>3. /\ r[i + 1] = s[i + 2] /\ r[i + 2] = s[i + 1]
      /\ \A j \in 1 .. Len(s) : j \notin {i + 1, i + 2} => r[j] = s[j]
  BY <1>0 DEF SwapFrom
<1>7. /\ \A y : y \in Elements(s) <=> \E j \in 1 .. Len(s) : s[j] = y
      /\ \A y : y \in Elements(r) <=> \E j \in 1 .. Len(r) : r[j] = y
      /\ DOMAIN s = 1 .. Len(s) /\ DOMAIN r = 1 .. Len(r)
  BY <1>2, ElementsOf
<1> HIDE DEF r
<1>4. Elements(r) = Elements(s)
  <2>1. ASSUME NEW j \in 1 .. Len(s) PROVE s[j] \in Elements(r) /\ r[j] \in Elements(s)
    BY <1>0, <1>2, <1>3, <1>7
  <2>2. QED BY <1>2, <1>7, <2>1
<1>5. Once(s) => Once(r)
  BY <1>0, <1>1, <1>3, <1>7 DEF Once
<1> USE DEF r
<1>6. QED BY <1>2, <1>3, <1>4, <1>5
-----------------------------------------------------------------------------
(* What a request has and brings, what the page refers to and shows, and    *)
(* how the rows are followed.                                               *)

Ops == {"none", "addTab", "removeTab", "createCard", "importCard", "removeCard",
        "addItem", "removeItem"}
Stages == {"idle", "sent", "done", "twin", "failed", "over"}
CallRecord == [op : Ops, at : Stages, tab : Tabs \cup {Nothing}, card : Cards \cup {Nothing},
               index : Int, ids : Seq(Ids)]

\* What a call has, and what it brings.
CallFits(k) ==
    /\ call[k].at = "sent" => call[k].op # "none"
    /\ call[k].at \in {"idle", "over"} =>
           call[k].tab = Nothing /\ call[k].card = Nothing /\ call[k].ids = <<>>
    /\ call[k].op \in {"removeTab", "createCard", "importCard", "removeCard"} => call[k].tab \in Tabs
    /\ call[k].op \in {"removeCard", "addItem", "removeItem"} => call[k].card \in Cards
    /\ call[k].op = "removeCard" => call[k].ids = <<call[k].card>>
    /\ call[k].op = "removeItem" => call[k].index \in Nat /\ \E i \in Items : call[k].ids = <<i>>
    /\ call[k].op = "removeTab" => call[k].ids = <<>>
    /\ call[k].at \in {"done", "twin"} /\ call[k].op = "addTab" =>
           /\ Len(call[k].ids) > 0 /\ Head(call[k].ids) \in Tabs
           /\ Tail(call[k].ids) \in Seq(Cards) /\ Once(Tail(call[k].ids))
    /\ call[k].at \in {"done", "twin"} /\ call[k].op \in {"createCard", "importCard"} =>
           /\ Len(call[k].ids) > 0 /\ Head(call[k].ids) \in Cards
           /\ Tail(call[k].ids) \in Seq(Items) /\ Once(Tail(call[k].ids))
           /\ call[k].op = "createCard" => Tail(call[k].ids) = <<>>
    /\ call[k].at \in {"done", "twin"} /\ call[k].op = "addItem" =>
           \E i \in Items : call[k].ids = <<i>>

BoardTypeOK ==
    /\ tabs \in Seq(Tabs)
    /\ cardsOf \in [Tabs -> Seq(Cards)]
    /\ itemsOf \in [Cards -> Seq(Items)]
    /\ activeTabIdx \in Int
    /\ activeCard \in Nat \cup {-1}
    /\ currentCardId \in Cards \cup {Nothing}
    /\ savedTabs \subseteq Tabs
    /\ tabOf \in [Cards -> Tabs \cup {Nothing}]
    /\ cardOf \in [Items -> Cards \cup {Nothing}]
    /\ issued \subseteq Ids
    /\ call \in [Calls -> CallRecord]
    /\ \A k \in Calls : CallFits(k)
    /\ strayed \in BOOLEAN
    /\ lost \subseteq Ids

\* The call's answer brings new rows that the page does not show yet.
Brings(k) == call[k].at = "done" /\ call[k].op \in {"addTab", "createCard", "importCard", "addItem"}
New(k) == IF Brings(k) THEN Elements(call[k].ids) ELSE {}

\* The page, or a call, refers to the id.
OnPage(x) ==
    \/ x \in Elements(tabs) \/ x = currentCardId
    \/ \E t \in Tabs : x \in Elements(cardsOf[t])
    \/ \E c \in Cards : x \in Elements(itemsOf[c])
Names(k, x) ==
    call[k].tab = x \/ call[k].card = x \/ (~Brings(k) /\ x \in Elements(call[k].ids))
Referred(x) == OnPage(x) \/ \E k \in Calls : Names(k, x)

Known ==
    /\ \A x \in Ids : Referred(x) \/ (\E k \in Calls : x \in New(k)) => x \in issued
    /\ savedTabs \subseteq issued
    /\ \A c \in Cards : tabOf[c] # Nothing => c \in issued /\ tabOf[c] \in savedTabs
    /\ \A i \in Items : cardOf[i] # Nothing => i \in issued /\ tabOf[cardOf[i]] # Nothing

Unseen ==
    /\ \A k \in Calls : \A x \in New(k) : ~Referred(x)
    /\ \A j, k \in Calls : New(j) \cap New(k) # {} => j = k

Bare == \A c \in Cards : Elements(itemsOf[c]) # {} => c \in issued /\ \A k \in Calls : c \notin New(k)

\* Nothing is shown twice.
Orderly ==
    /\ Once(tabs)
    /\ \A t \in Tabs : Once(cardsOf[t])
    /\ \A c \in Cards : Once(itemsOf[c])
Places ==
    /\ Orderly
    /\ \A t, u \in Tabs : Elements(cardsOf[t]) \cap Elements(cardsOf[u]) # {} => t = u
    /\ \A c, d \in Cards : Elements(itemsOf[c]) \cap Elements(itemsOf[d]) # {} => c = d

PageInv == BoardTypeOK /\ Known /\ Unseen /\ Bare /\ Places

\* What the load under way has read: every id is issued, no card or item is
\* without its parent, and it is what the rows still are unless it is stale.
Reading == {"tabs", "cards", "done"}
LoadTypeOK ==
    /\ reload \in [at : {"idle", "sent"} \cup Reading, tabs : SUBSET Tabs,
                   tabOf : [Cards -> Tabs \cup {Nothing}], cardOf : [Items -> Cards \cup {Nothing}],
                   stale : BOOLEAN]
    /\ orphaned \subseteq Calls
Snapshot ==
    /\ reload.tabs \subseteq issued
    /\ \A c \in Cards : reload.tabOf[c] # Nothing => c \in issued /\ reload.tabOf[c] \in reload.tabs
    /\ \A i \in Items :
           reload.cardOf[i] # Nothing => i \in issued /\ reload.tabOf[reload.cardOf[i]] # Nothing
    /\ reload.at \in {"idle", "sent", "tabs"} => \A c \in Cards : reload.tabOf[c] = Nothing
    /\ reload.at # "done" => \A i \in Items : reload.cardOf[i] = Nothing
UpToDate ==
    ~reload.stale =>
        /\ reload.at \in Reading => reload.tabs = savedTabs
        /\ reload.at \in {"cards", "done"} => reload.tabOf = tabOf
        /\ reload.at = "done" => reload.cardOf = cardOf
LoadInv == LoadTypeOK /\ Snapshot /\ UpToDate

\* activeCard is the index of a card.
InRange == strayed \/ activeCard = -1 \/ FormCard # Nothing
SelectionInv == PageInv /\ OneSelection /\ InRange

TabsStored ==
    /\ Elements(tabs) \subseteq savedTabs
    /\ \A k \in Calls : call[k].op = "removeTab" => call[k].tab \notin Elements(tabs)
    /\ \A k \in Calls : call[k].at = "done" /\ call[k].op = "addTab" => Head(call[k].ids) \in savedTabs

\* What a removal that was served leaves, and what an addition has stored.
Served ==
    \A k \in Calls : call[k].at = "done" =>
        /\ call[k].op = "removeCard" => tabOf[call[k].card] = Nothing
        /\ call[k].op = "removeItem" => \A i \in Elements(call[k].ids) : cardOf[i] = Nothing
        /\ call[k].op = "addTab" =>
               \A c \in Cards : tabOf[c] = Head(call[k].ids) <=> c \in Elements(Tail(call[k].ids))
        /\ call[k].op \in {"createCard", "importCard"} =>
               /\ call[k].tab \in savedTabs => tabOf[Head(call[k].ids)] = call[k].tab
               /\ tabOf[Head(call[k].ids)] \in {call[k].tab, Nothing}
               /\ \A i \in Elements(Tail(call[k].ids)) : 
                      cardOf[i] = IF tabOf[Head(call[k].ids)] = Nothing THEN Nothing ELSE Head(call[k].ids)
        /\ call[k].op = "addItem" =>
               \A i \in Elements(call[k].ids) :
                   cardOf[i] = IF tabOf[call[k].card] = Nothing THEN Nothing ELSE call[k].card

Leaves(k, x) ==
    call[k].at = "done" /\ call[k].op \in {"removeCard", "removeItem"} /\ x \in Elements(call[k].ids)
Leaving(x) == \E k \in Calls : Leaves(k, x)
Coming(x) == \E k \in Calls : x \in New(k)

CardsFollow ==
    \A t \in Elements(tabs) : \A c \in Cards \ lost :
        /\ c \in Elements(cardsOf[t]) => tabOf[c] = t \/ Leaving(c)
        /\ tabOf[c] = t => c \in Elements(cardsOf[t]) \/ Coming(c)

ItemsFollow ==
    \A c \in Cards : tabOf[c] # Nothing => \A i \in Items \ lost :
        /\ i \in Elements(itemsOf[c]) => cardOf[i] = c \/ Leaving(i)
        /\ cardOf[i] = c => i \in Elements(itemsOf[c]) \/ Coming(i)

Followed == PageInv /\ TabsStored /\ Served /\ CardsFollow /\ ItemsFollow

\* What a load met may be anything; the next one makes it good.
ShowsInv == lost = Ids \/ (Followed /\ orphaned = {})

-----------------------------------------------------------------------------
(* Types.                                                                   *)

LEMMA CallType ==
    ASSUME BoardTypeOK, NEW k \in Calls
    PROVE  /\ call[k] \in CallRecord /\ call[k].op \in Ops /\ call[k].at \in Stages
           /\ call[k].tab \in Tabs \cup {Nothing} /\ call[k].card \in Cards \cup {Nothing}
           /\ call[k].index \in Int /\ call[k].ids \in Seq(Ids)
           /\ CallFits(k)
BY DEF BoardTypeOK, CallRecord

LEMMA Selected ==
    ASSUME BoardTypeOK
    PROVE  /\ ActiveTab \in Tabs \cup {Nothing} /\ Nothing \notin Ids
           /\ ActiveTab # Nothing => ActiveTab \in Elements(tabs) /\ ActiveCards = cardsOf[ActiveTab]
           /\ ActiveTab = Nothing => ActiveCards = <<>>
           /\ ActiveCards \in Seq(Cards)
           /\ FormCard \in Cards \cup {Nothing}
           /\ FormCard # Nothing =>
                  /\ activeCard + 1 \in 1 .. Len(ActiveCards)
                  /\ FormCard = ActiveCards[activeCard + 1]
                  /\ FormCard \in Elements(ActiveCards)
           /\ FormCard = Nothing => activeCard + 1 \notin 1 .. Len(ActiveCards)
           /\ \A c \in Elements(ActiveCards) : c \in Cards /\ ActiveTab \in Tabs
<1>0. Nothing \notin Ids /\ Nothing \notin Tabs /\ Nothing \notin Cards /\ Nothing \notin Items
  BY DashboardAssumption DEF Ids
<1>1. /\ ActiveTab \in Tabs \cup {Nothing}
      /\ ActiveTab # Nothing => ActiveTab \in Elements(tabs)
  BY <1>0, ElementsOf DEF ActiveTab, Nth, BoardTypeOK
<1>2. /\ ActiveTab # Nothing => ActiveCards = cardsOf[ActiveTab]
      /\ ActiveTab = Nothing => ActiveCards = <<>>
  BY DEF ActiveCards
<1>3. ActiveCards \in Seq(Cards)
  <2>1. CASE ActiveTab = Nothing
    BY <1>2, <2>1
  <2>2. CASE ActiveTab \in Tabs
    BY <1>0, <1>2, <2>2 DEF BoardTypeOK
  <2>3. QED BY <1>1, <2>1, <2>2
<1>4. DOMAIN ActiveCards = 1 .. Len(ActiveCards) /\ \A i \in 1 .. Len(ActiveCards) :
          ActiveCards[i] \in Cards /\ ActiveCards[i] \in Elements(ActiveCards)
  BY <1>3, ElementsOf
<1>5. /\ FormCard \in Cards \cup {Nothing}
      /\ FormCard # Nothing =>
             /\ activeCard + 1 \in 1 .. Len(ActiveCards)
             /\ FormCard = ActiveCards[activeCard + 1]
             /\ FormCard \in Elements(ActiveCards)
      /\ FormCard = Nothing => activeCard + 1 \notin 1 .. Len(ActiveCards)
  BY <1>0, <1>4 DEF FormCard, Nth
<1>6. \A c \in Elements(ActiveCards) : c \in Cards /\ ActiveTab \in Tabs
  BY <1>1, <1>2, <1>3, ElementsOf, NoElements
<1>7. QED BY <1>0, <1>1, <1>2, <1>3, <1>5, <1>6

\* One call changes.
LEMMA OneCall ==
    ASSUME BoardTypeOK, NEW k \in Calls, NEW r \in CallRecord, call' = [call EXCEPT ![k] = r]
    PROVE  /\ call' \in [Calls -> CallRecord] /\ call'[k] = r
           /\ \A j \in Calls \ {k} : call'[j] = call[j]
           /\ CallFits(k)' => \A j \in Calls : CallFits(j)'
<1>1. /\ call' \in [Calls -> CallRecord] /\ call'[k] = r
      /\ \A j \in Calls \ {k} : call'[j] = call[j]
  BY DEF BoardTypeOK
<1>2. ASSUME NEW j \in Calls, j # k PROVE CallFits(j)'
  <2>1. CallFits(j) /\ call'[j] = call[j]
    BY <1>1, <1>2 DEF BoardTypeOK
  <2>2. QED BY <2>1 DEF CallFits
<1>3. QED BY <1>1, <1>2

\* A call begins,
Apt(o, t, c, n, s) ==
    /\ o \in Ops \ {"none"} /\ t \in Tabs \cup {Nothing} /\ c \in Cards \cup {Nothing}
    /\ n \in Int /\ s \in Seq(Ids)
    /\ o \in {"removeTab", "createCard", "importCard", "removeCard"} => t \in Tabs
    /\ o \in {"removeCard", "addItem", "removeItem"} => c \in Cards
    /\ o = "removeCard" => s = <<c>>
    /\ o = "removeItem" => n \in Nat /\ \E i \in Items : s = <<i>>
    /\ o = "removeTab" => s = <<>>

LEMMA Sends ==
    ASSUME BoardTypeOK, NEW k \in Calls, NEW o, NEW t, NEW c, NEW n, NEW s,
           Send(k, o, t, c, n, s), Apt(o, t, c, n, s)
    PROVE  /\ call' \in [Calls -> CallRecord] /\ call[k].at = "idle"
           /\ call'[k].op = o /\ call'[k].at = "sent" /\ call'[k].tab = t /\ call'[k].card = c
           /\ call'[k].index = n /\ call'[k].ids = s
           /\ \A j \in Calls \ {k} : call'[j] = call[j]
           /\ \A j \in Calls : CallFits(j)'
<1> DEFINE r == [op |-> o, at |-> "sent", tab |-> t, card |-> c, index |-> n, ids |-> s]
<1>1. r \in CallRecord /\ call' = [call EXCEPT ![k] = r] /\ call[k].at = "idle"
  BY DEF Send, CallRecord, Stages, Apt
<1>2. r.op = o /\ r.at = "sent" /\ r.tab = t /\ r.card = c /\ r.index = n /\ r.ids = s
  OBVIOUS
<1> HIDE DEF r
<1>3. /\ call' \in [Calls -> CallRecord] /\ call'[k] = r
      /\ \A j \in Calls \ {k} : call'[j] = call[j]
      /\ CallFits(k)' => \A j \in Calls : CallFits(j)'
  BY <1>1, OneCall
<1>4. CallFits(k)'
  BY <1>2, <1>3 DEF CallFits, Apt
<1>5. QED BY <1>1, <1>2, <1>3, <1>4

\* is served or refused,
LEMMA Serves ==
    ASSUME BoardTypeOK, NEW k \in Calls, NEW stage \in {"done", "failed"}, NEW s \in Seq(Ids),
           call' = [call EXCEPT ![k].at = stage, ![k].ids = s]
    PROVE  /\ call' \in [Calls -> CallRecord]
           /\ call'[k].op = call[k].op /\ call'[k].at = stage /\ call'[k].tab = call[k].tab
           /\ call'[k].card = call[k].card /\ call'[k].index = call[k].index /\ call'[k].ids = s
           /\ \A j \in Calls \ {k} : call'[j] = call[j]
           /\ CallFits(k)' => \A j \in Calls : CallFits(j)'
<1> DEFINE r == [call[k] EXCEPT !.at = stage, !.ids = s]
<1>0. call[k] \in CallRecord
  BY CallType
<1>1. r \in CallRecord /\ call' = [call EXCEPT ![k] = r]
  BY <1>0 DEF CallRecord, Stages, BoardTypeOK
<1>2. /\ r.op = call[k].op /\ r.at = stage /\ r.tab = call[k].tab /\ r.card = call[k].card
      /\ r.index = call[k].index /\ r.ids = s
  BY <1>0 DEF CallRecord
<1> HIDE DEF r
<1>3. QED BY <1>1, <1>2, OneCall

\* and is over.
LEMMA Ends ==
    ASSUME BoardTypeOK, NEW k \in Calls, call' = [call EXCEPT ![k] = Over]
    PROVE  /\ call' \in [Calls -> CallRecord]
           /\ call'[k].op = "none" /\ call'[k].at = "over" /\ call'[k].tab = Nothing
           /\ call'[k].card = Nothing /\ call'[k].ids = <<>>
           /\ \A j \in Calls \ {k} : call'[j] = call[j]
           /\ \A j \in Calls : CallFits(j)'
<1>1. /\ Over \in CallRecord /\ Over.op = "none" /\ Over.at = "over" /\ Over.tab = Nothing
      /\ Over.card = Nothing /\ Over.ids = <<>>
  <2>1. Unbegun \in CallRecord
    BY DEF Unbegun, CallRecord, Ops, Stages
  <2>2. QED BY <2>1 DEF Over, Unbegun, CallRecord, Stages
<1>2. /\ call' \in [Calls -> CallRecord] /\ call'[k] = Over
      /\ \A j \in Calls \ {k} : call'[j] = call[j]
      /\ CallFits(k)' => \A j \in Calls : CallFits(j)'
  BY <1>1, OneCall
<1>3. CallFits(k)'
  BY <1>1, <1>2 DEF CallFits
<1>4. QED BY <1>1, <1>2, <1>3

-----------------------------------------------------------------------------
(* Every step keeps the types.                                              *)

LEMMA PlaceFits ==
    ASSUME BoardTypeOK, Places, NEW c \in Elements(ActiveCards)
    PROVE  /\ PlaceOf(ActiveCards, c) \in 0 .. Len(ActiveCards) - 1
           /\ ActiveCards[PlaceOf(ActiveCards, c) + 1] = c
           /\ c \in Cards /\ Len(ActiveCards) \in Nat
<1>1. ActiveCards \in Seq(Cards) /\ Once(ActiveCards) /\ c \in Cards
  BY Selected, NoElements DEF Places, Orderly
<1>2. PICK k \in 1 .. Len(ActiveCards) :
          k = Seqs!SelectInSeq(ActiveCards, LAMBDA y : y = c) /\ ActiveCards[k] = c
  BY <1>1, Placed
<1>3. PlaceOf(ActiveCards, c) = k - 1 /\ Len(ActiveCards) \in Nat
  BY <1>1, <1>2 DEF PlaceOf
<1>4. QED BY <1>1, <1>2, <1>3

\* A menu's card is one of a tab that is shown.
LEMMA OfMenu ==
    ASSUME BoardTypeOK, NEW t \in Elements(tabs), NEW c \in MenuCards(t)
    PROVE  /\ t \in Tabs /\ c \in Elements(cardsOf[t]) /\ c \in Cards /\ OnPage(c)
           /\ t = ActiveTab => ActiveTab # Nothing /\ ActiveCards = cardsOf[t]
<1>1. t \in Tabs /\ t # Nothing
  BY ElementsOf, DashboardAssumption DEF BoardTypeOK, Ids
<1>2. c \in Elements(cardsOf[t])
  BY DEF MenuCards
<1>3. cardsOf[t] \in Seq(Cards)
  BY <1>1 DEF BoardTypeOK
<1>4. c \in Cards
  BY <1>2, <1>3, ElementsOf
<1>5. t = ActiveTab => ActiveTab # Nothing /\ ActiveCards = cardsOf[t]
  BY <1>1 DEF ActiveCards
<1>6. QED BY <1>1, <1>2, <1>4, <1>5 DEF OnPage

\* Its place is in the list of that tab.
LEMMA PlaceInMenu ==
    ASSUME BoardTypeOK, Places, NEW t \in Elements(tabs), NEW c \in MenuCards(t)
    PROVE  PlaceOf(cardsOf[t], c) \in Nat
<1>1. cardsOf[t] \in Seq(Cards) /\ Once(cardsOf[t]) /\ c \in Elements(cardsOf[t])
  BY OfMenu DEF BoardTypeOK, Places, Orderly
<1>2. PICK n \in 1 .. Len(cardsOf[t]) :
          n = Seqs!SelectInSeq(cardsOf[t], LAMBDA y : y = c) /\ cardsOf[t][n] = c
  BY <1>1, Placed
<1>3. PlaceOf(cardsOf[t], c) = n - 1 /\ n \in Nat /\ n > 0
  BY <1>1, <1>2 DEF PlaceOf
<1>4. QED BY <1>3

LEMMA UserActTypes ==
    ASSUME BoardTypeOK, Places, UserAct
    PROVE  BoardTypeOK'
<1>0. UNCHANGED call => \A k \in Calls : CallFits(k)'
  BY DEF BoardTypeOK, CallFits
<1>1. CASE \E i \in 0 .. Len(tabs) - 1 : SelectTab(i)
  <2>1. PICK i \in 0 .. Len(tabs) - 1 : SelectTab(i)
    BY <1>1
  <2>2. activeTabIdx' \in Int /\ UNCHANGED <<objects, activeCard, currentCardId, rows, call, lost>>
    BY <2>1 DEF SelectTab, BoardTypeOK
  <2>3. strayed' \in BOOLEAN
    BY <2>1, Zenon DEF SelectTab
  <2>4. QED BY <1>0, <2>2, <2>3 DEF BoardTypeOK, objects, rows
<1>2. CASE \E c \in Cards : SelectCard(c)
  <2>1. PICK c \in Cards : SelectCard(c)
    BY <1>2
  <2>2. activeCard' \in Nat \cup {-1} /\ currentCardId' \in Cards
    BY <2>1, PlaceFits DEF SelectCard
  <2>3. strayed' \in BOOLEAN /\ UNCHANGED <<objects, activeTabIdx, rows, call, lost>>
    BY <2>1 DEF SelectCard
  <2>4. QED BY <1>0, <2>2, <2>3 DEF BoardTypeOK, objects, rows
<1>3. CASE \E i \in 0 .. Len(ActiveCards) - 2 : SortCards(i)
  <2>1. PICK i \in 0 .. Len(ActiveCards) - 2 : SortCards(i)
    BY <1>3
  <2>2. ActiveTab # Nothing /\ ActiveCards \in Seq(Cards)
    BY Selected
  <2>3. cardsOf' = [cardsOf EXCEPT ![ActiveTab] = SwapFrom(ActiveCards, i)]
    BY <2>1, <2>2, Selected DEF SortCards
  <2>4. SwapFrom(ActiveCards, i) \in Seq(Cards)
    BY <2>2, Swapped
  <2>5. cardsOf' \in [Tabs -> Seq(Cards)]
    BY <2>3, <2>4 DEF BoardTypeOK
  <2>6. strayed' \in BOOLEAN
    BY <2>1, Zenon DEF SortCards
  <2>7. QED BY <1>0, <2>1, <2>5, <2>6 DEF SortCards, BoardTypeOK, rows, selection
<1>4. CASE FormCard # Nothing /\ \E i \in 0 .. Len(itemsOf[FormCard]) - 2 : SortItems(i)
  <2>1. PICK i \in 0 .. Len(itemsOf[FormCard]) - 2 : SortItems(i)
    BY <1>4
  <2>2. FormCard \in Cards /\ itemsOf[FormCard] \in Seq(Items)
    BY <1>4, Selected DEF BoardTypeOK
  <2>3. SwapFrom(itemsOf[FormCard], i) \in Seq(Items)
    BY <2>2, Swapped
  <2>4. itemsOf' \in [Cards -> Seq(Items)]
    BY <2>1, <2>3 DEF SortItems, BoardTypeOK
  <2>5. QED BY <1>0, <2>1, <2>4 DEF SortItems, BoardTypeOK, rows, selection
<1>5. QED BY <1>1, <1>2, <1>3, <1>4 DEF UserAct

LEMMA UserCallTypes ==
    ASSUME BoardTypeOK, Places, NEW k \in Calls, UserCall(k)
    PROVE  BoardTypeOK'
<1> DEFINE Sent == call' \in [Calls -> CallRecord] /\ \A j \in Calls : CallFits(j)'
<1>0. <<>> \in Seq(Ids) /\ -1 \in Int /\ Nothing \notin Tabs /\ Nothing \notin Cards
  BY DashboardAssumption DEF Ids
<1>1. CASE AddTab(k)
  <2>1. Sent
    <3>1. Send(k, "addTab", Nothing, Nothing, -1, <<>>)
      BY <1>1 DEF AddTab
    <3>2. Apt("addTab", Nothing, Nothing, -1, <<>>)
      BY <1>0 DEF Apt, Ops
    <3>3. QED BY <3>1, <3>2, Sends
  <2>2. QED BY <1>1, <2>1 DEF AddTab, BoardTypeOK, objects, selection, rows
<1>2. CASE RemoveTab(k)
  <2>1. ActiveTab \in Tabs /\ ActiveTab # Nothing
    BY <1>2, Selected DEF RemoveTab
  <2>2. Sent
    <3>1. Send(k, "removeTab", ActiveTab, Nothing, -1, <<>>)
      BY <1>2 DEF RemoveTab
    <3>2. Apt("removeTab", ActiveTab, Nothing, -1, <<>>)
      BY <1>0, <2>1 DEF Apt, Ops
    <3>3. QED BY <3>1, <3>2, Sends
  <2>3. tabs' \in Seq(Tabs)
    BY <1>2, Left DEF RemoveTab, BoardTypeOK
  <2>4. activeTabIdx' \in Int
    BY <1>2 DEF RemoveTab, BoardTypeOK
  <2>5. activeCard' = -1 /\ currentCardId' = Nothing /\ strayed' = FALSE
    BY <1>2 DEF RemoveTab
  <2>6. QED BY <1>2, <2>2, <2>3, <2>4, <2>5 DEF RemoveTab, BoardTypeOK, rows
<1>3. ASSUME NEW o \in {"createCard", "importCard"}, AddCard(k, o) PROVE BoardTypeOK'
  <2>1. ActiveTab \in Tabs
    BY <1>3, Selected DEF AddCard
  <2>2. Sent
    <3>1. Send(k, o, ActiveTab, Nothing, -1, <<>>)
      BY <1>3 DEF AddCard
    <3>2. Apt(o, ActiveTab, Nothing, -1, <<>>)
      BY <1>0, <2>1 DEF Apt, Ops
    <3>3. QED BY <3>1, <3>2, Sends
  <2>3. QED BY <1>3, <2>2 DEF AddCard, BoardTypeOK, objects, selection, rows
<1>4. ASSUME NEW c \in Cards, RemoveCard(k, c) PROVE BoardTypeOK'
  <2>1. ActiveTab \in Tabs /\ <<c>> \in Seq(Ids)
    BY <1>4, Selected DEF RemoveCard, Ids
  <2>2. Sent
    <3>1. Send(k, "removeCard", ActiveTab, c, -1, <<c>>)
      BY <1>4 DEF RemoveCard
    <3>2. Apt("removeCard", ActiveTab, c, -1, <<c>>)
      BY <1>0, <2>1 DEF Apt, Ops
    <3>3. QED BY <3>1, <3>2, Sends
  <2>3. QED BY <1>4, <2>2 DEF RemoveCard, BoardTypeOK, objects, selection, rows
<1>5. ASSUME NEW c \in Cards, CreateItem(k, c) PROVE BoardTypeOK'
  <2>1. Sent
    <3>1. Send(k, "addItem", Nothing, c, -1, <<>>)
      BY <1>5 DEF CreateItem
    <3>2. Apt("addItem", Nothing, c, -1, <<>>)
      BY <1>0 DEF Apt, Ops
    <3>3. QED BY <3>1, <3>2, Sends
  <2>2. PICK t \in Elements(tabs) : /\ c \in MenuCards(t) /\ activeCard' = PlaceOf(cardsOf[t], c)
                                    /\ strayed' = (t # ActiveTab)
    BY <1>5 DEF CreateItem
  <2>3. activeCard' \in Nat
    BY <2>2, PlaceInMenu
  <2>4. strayed' \in BOOLEAN
    BY <2>2, Zenon
  <2>5. currentCardId' \in Cards
    BY <1>5 DEF CreateItem
  <2>6. QED BY <1>5, <2>1, <2>3, <2>4, <2>5 DEF CreateItem, BoardTypeOK, objects, rows
<1>6. ASSUME NEW c \in Cards, CopyItem(k, c) PROVE BoardTypeOK'
  <2>1. Sent
    <3>1. Send(k, "addItem", Nothing, c, -1, <<>>)
      BY <1>6 DEF CopyItem
    <3>2. Apt("addItem", Nothing, c, -1, <<>>)
      BY <1>0 DEF Apt, Ops
    <3>3. QED BY <3>1, <3>2, Sends
  <2>2. QED BY <1>6, <2>1 DEF CopyItem, BoardTypeOK, objects, selection, rows
<1>7. ASSUME NEW c \in Cards, NEW i \in 0 .. Len(itemsOf[c]) - 1, RemoveItem(k, c, i)
      PROVE  BoardTypeOK'
  <2>1. itemsOf[c] \in Seq(Items) /\ Len(itemsOf[c]) \in Nat /\ i \in Nat
    BY DEF BoardTypeOK
  <2>2. PICK x \in Items : x = itemsOf[c][i + 1]
    BY <2>1
  <2>3. Sent
    <3>1. Send(k, "removeItem", Nothing, c, i, <<x>>)
      BY <1>7, <2>2 DEF RemoveItem
    <3>2. <<x>> \in Seq(Ids)
      BY <2>2 DEF Ids
    <3>3. <<x>> \in Seq(Ids) /\ i \in Int /\ i \in Nat /\ c \in Cards \cup {Nothing}
          /\ \E y \in Items : <<x>> = <<y>>
      BY <2>1, <3>2
    <3>4. Apt("removeItem", Nothing, c, i, <<x>>)
      BY <1>0, <3>3 DEF Apt, Ops
    <3>5. QED BY <3>1, <3>4, Sends
  <2>4. QED BY <1>7, <2>3 DEF RemoveItem, BoardTypeOK, objects, selection, rows
<1>8. QED BY <1>1, <1>2, <1>3, <1>4, <1>5, <1>6, <1>7 DEF UserCall

LEMMA Two ==
    ASSUME NEW x \in Ids, NEW y \in Ids
    PROVE  <<x>> \o <<y>> = <<x, y>>
<1>1. <<x>> \in Seq(Ids) /\ <<y>> \in Seq(Ids) /\ <<x, y>> \in Seq(Ids)
  OBVIOUS
<1>2. /\ <<x>> \o <<y>> \in Seq(Ids) /\ Len(<<x>> \o <<y>>) = 2
      /\ (<<x>> \o <<y>>)[1] = x /\ (<<x>> \o <<y>>)[2] = y
  BY <1>1, ConcatProperties
<1>3. Len(<<x, y>>) = 2 /\ <<x, y>>[1] = x /\ <<x, y>>[2] = y
  OBVIOUS
<1>4. \A i \in 1 .. 2 : (<<x>> \o <<y>>)[i] = <<x, y>>[i]
  BY <1>2, <1>3
<1>5. QED BY <1>1, <1>2, <1>3, <1>4, SeqEqual

\* An id and at most one more.
LEMMA Pair ==
    ASSUME NEW x \in Ids, NEW s, s = <<>> \/ \E y \in Ids : s = <<y>>
    PROVE  /\ <<x>> \o s \in Seq(Ids) /\ Len(<<x>> \o s) > 0
           /\ Head(<<x>> \o s) = x /\ Tail(<<x>> \o s) = s
           /\ Elements(<<x>> \o s) = {x} \cup Elements(s)
           /\ s \in Seq(Ids) /\ Once(s)
<1>1. CASE s = <<>>
  <2>1. <<x>> \o s = <<x>>
    BY <1>1
  <2>2. Head(<<x>>) = x /\ Tail(<<x>>) = <<>> /\ Len(<<x>>) = 1 /\ <<x>> \in Seq(Ids)
    OBVIOUS
  <2>3. QED BY <1>1, <2>1, <2>2, NoElements, OneElement
<1>2. CASE s # <<>>
  <2>1. PICK y \in Ids : s = <<y>>
    BY <1>2
  <2>2. <<x>> \o <<y>> = <<x, y>> /\ <<x>> \in Seq(Ids) /\ <<y>> \in Seq(Ids)
    BY Two
  <2>3. Elements(<<x>> \o <<y>>) = {x} \cup Elements(<<y>>)
    <3>1. PICK a \in Seq(Ids), b \in Seq(Ids) : a = <<x>> /\ b = <<y>>
      BY <2>2
    <3>2. Elements(a \o b) = Elements(a) \cup Elements(b)
      BY Joined
    <3>3. Elements(<<x>>) = {x}
      BY OneElement
    <3>4. QED BY <3>1, <3>2, <3>3, Zenon
  <2>4. Head(<<x, y>>) = x /\ Tail(<<x, y>>) = <<y>> /\ Len(<<x, y>>) = 2 /\ <<x, y>> \in Seq(Ids)
    OBVIOUS
  <2>5. Once(<<y>>)
    BY OneElement
  <2>6. /\ <<x>> \o <<y>> \in Seq(Ids) /\ Len(<<x>> \o <<y>>) = 2
        /\ Head(<<x>> \o <<y>>) = x /\ Tail(<<x>> \o <<y>>) = <<y>>
    BY <2>2, <2>4, Zenon
  <2>7. \A n : n = 2 => n > 0
    OBVIOUS
  <2>8. QED BY <2>1, <2>2, <2>3, <2>5, <2>6, <2>7, Zenon
<1>3. QED BY <1>1, <1>2

\* What the server answers to an addition.
TabStored(k, t, s) ==
    /\ call[k].op = "addTab" /\ t \in Tabs \ issued
    /\ s = <<>> \/ \E c \in Cards \ issued : s = <<c>>
    /\ savedTabs' = savedTabs \cup {t}
    /\ tabOf' = [c \in Cards |-> IF c \in Elements(s) THEN t ELSE tabOf[c]]
    /\ cardOf' = cardOf

CardStored(k, c, s) ==
    /\ call[k].op \in {"createCard", "importCard"} /\ call[k].tab \in savedTabs
    /\ c \in Cards \ issued
    /\ s = <<>> \/ (call[k].op = "importCard" /\ \E i \in Items \ issued : s = <<i>>)
    /\ tabOf' = [tabOf EXCEPT ![c] = call[k].tab]
    /\ cardOf' = [i \in Items |-> IF i \in Elements(s) THEN c ELSE cardOf[i]]
    /\ savedTabs' = savedTabs

ItemStored(k, i) ==
    /\ call[k].op = "addItem" /\ tabOf[call[k].card] # Nothing
    /\ i \in Items \ issued
    /\ cardOf' = [cardOf EXCEPT ![i] = call[k].card]
    /\ UNCHANGED <<savedTabs, tabOf>>

\* A call that is served gets its answer or not.
Replied(k, s) ==
    /\ call' \in [Calls -> CallRecord]
    /\ call[k].at = "sent" /\ call'[k].at \in {"done", "failed"}
    /\ call'[k].ids = s
    /\ call'[k].op = call[k].op /\ call'[k].tab = call[k].tab /\ call'[k].card = call[k].card
    /\ call'[k].index = call[k].index
    /\ \A j \in Calls \ {k} : call'[j] = call[j]
    /\ CallFits(k)' => \A j \in Calls : CallFits(j)'
    /\ lost' = IF call'[k].at = "done" THEN lost
               ELSE lost \cup Elements(s) \cup {t \in Tabs : call[k].op = "removeTab" /\ call[k].tab = t}
    /\ UNCHANGED <<objects, selection, strayed>>

LEMMA Replies ==
    ASSUME BoardTypeOK, NEW k \in Calls, NEW s \in Seq(Ids), NEW arrives \in BOOLEAN,
           call[k].at = "sent", Reply(k, s, arrives)
    PROVE  Replied(k, s)
<1>1. PICK stage \in {"done", "failed"} : stage = IF arrives THEN "done" ELSE "failed"
  BY Zenon
<1>2. call' = [call EXCEPT ![k].at = stage, ![k].ids = s]
  BY <1>1, Zenon DEF Reply
<1>3. /\ call' \in [Calls -> CallRecord]
      /\ call'[k].op = call[k].op /\ call'[k].at = stage /\ call'[k].tab = call[k].tab
      /\ call'[k].card = call[k].card /\ call'[k].index = call[k].index /\ call'[k].ids = s
      /\ \A j \in Calls \ {k} : call'[j] = call[j]
      /\ CallFits(k)' => \A j \in Calls : CallFits(j)'
  BY <1>2, Serves
<1>4. lost' = IF call'[k].at = "done" THEN lost
             ELSE lost \cup Elements(s) \cup {t \in Tabs : call[k].op = "removeTab" /\ call[k].tab = t}
  <2>1. call[k].op = "removeTab" => call[k].tab \in Tabs
    BY CallType DEF CallFits
  <2>2. lost' = IF arrives THEN lost
                ELSE lost \cup Elements(s) \cup (IF call[k].op = "removeTab" THEN {call[k].tab} ELSE {})
    BY <1>3 DEF Reply, AtStake
  <2>3. QED BY <1>1, <1>3, <2>1, <2>2
<1>5. UNCHANGED <<objects, selection, strayed>>
  BY DEF Reply
<1>6. QED BY <1>3, <1>4, <1>5 DEF Replied

LEMMA AddServed ==
    ASSUME BoardTypeOK, NEW k \in Calls, NEW arrives \in BOOLEAN, ServeAdd(k, arrives)
    PROVE  \E x \in Ids \ issued : \E s \in Seq(Ids) :
               /\ Replied(k, <<x>> \o s)
               /\ TabStored(k, x, s) \/ CardStored(k, x, s) \/ (s = <<>> /\ ItemStored(k, x))
               /\ issued' = issued \cup {x} \cup Elements(s)
<1>0. /\ Tabs \subseteq Ids /\ Cards \subseteq Ids /\ Items \subseteq Ids
      /\ call[k].at = "sent" /\ issued' = issued \cup Elements(call'[k].ids)
  BY DEF Ids, ServeAdd
<1>1. ASSUME NEW x \in Ids \ issued, NEW s, s = <<>> \/ \E y \in Ids \ issued : s = <<y>>,
             Reply(k, <<x>> \o s, arrives)
      PROVE  /\ Replied(k, <<x>> \o s) /\ s \in Seq(Ids)
             /\ issued' = issued \cup {x} \cup Elements(s)
  <2>1. /\ <<x>> \o s \in Seq(Ids) /\ s \in Seq(Ids)
        /\ Elements(<<x>> \o s) = {x} \cup Elements(s)
    BY <1>1, Pair
  <2>2. Replied(k, <<x>> \o s)
    BY <1>0, <1>1, <2>1, Replies
  <2>3. QED BY <1>0, <2>1, <2>2 DEF Replied
<1>2. CASE call[k].op = "addTab"
  <2>1. PICK t \in Fresh(Tabs), s \in {<<>>} \cup {<<c>> : c \in Fresh(Cards)} :
            /\ savedTabs' = savedTabs \cup {t}
            /\ tabOf' = [c \in Cards |-> IF c \in Elements(s) THEN t ELSE tabOf[c]]
            /\ Reply(k, <<t>> \o s, arrives)
    BY <1>2 DEF ServeAdd
  <2>2. cardOf' = cardOf
    BY <1>2 DEF ServeAdd
  <2>3. t \in Tabs \ issued /\ (s = <<>> \/ \E c \in Cards \ issued : s = <<c>>)
    BY <2>1 DEF Fresh
  <2>4. TabStored(k, t, s)
    BY <1>2, <2>1, <2>2, <2>3 DEF TabStored
  <2>5. t \in Ids \ issued /\ (s = <<>> \/ \E y \in Ids \ issued : s = <<y>>)
    BY <1>0, <2>3
  <2>6. /\ Replied(k, <<t>> \o s) /\ s \in Seq(Ids)
        /\ issued' = issued \cup {t} \cup Elements(s)
    BY <1>1, <2>1, <2>5, Zenon
  <2>7. QED BY <2>4, <2>5, <2>6, Zenon
<1>3. CASE call[k].op \in {"createCard", "importCard"}
  <2>1. PICK c \in Fresh(Cards),
             s \in {<<>>} \cup {<<i>> : i \in {j \in Fresh(Items) : call[k].op = "importCard"}} :
            /\ tabOf' = [tabOf EXCEPT ![c] = call[k].tab]
            /\ cardOf' = [i \in Items |-> IF i \in Elements(s) THEN c ELSE cardOf[i]]
            /\ Reply(k, <<c>> \o s, arrives)
    BY <1>3 DEF ServeAdd
  <2>2. savedTabs' = savedTabs /\ call[k].tab \in savedTabs
    BY <1>3 DEF ServeAdd
  <2>3. /\ c \in Cards \ issued
        /\ s = <<>> \/ (call[k].op = "importCard" /\ \E i \in Items \ issued : s = <<i>>)
    <3>1. c \in Cards \ issued
      BY <2>1 DEF Fresh
    <3>2. ASSUME s # <<>> PROVE call[k].op = "importCard" /\ \E i \in Items \ issued : s = <<i>>
      <4>1. PICK i \in {j \in Fresh(Items) : call[k].op = "importCard"} : s = <<i>>
        BY <2>1, <3>2
      <4>2. QED BY <4>1 DEF Fresh
    <3>3. QED BY <3>1, <3>2, Zenon
  <2>4. CardStored(k, c, s)
    BY <1>3, <2>1, <2>2, <2>3 DEF CardStored
  <2>5. c \in Ids \ issued /\ (s = <<>> \/ \E y \in Ids \ issued : s = <<y>>)
    BY <1>0, <2>3
  <2>6. /\ Replied(k, <<c>> \o s) /\ s \in Seq(Ids)
        /\ issued' = issued \cup {c} \cup Elements(s)
    BY <1>1, <2>1, <2>5, Zenon
  <2>7. QED BY <2>4, <2>5, <2>6, Zenon
<1>4. CASE call[k].op = "addItem"
  <2>1. PICK i \in Fresh(Items) :
            /\ cardOf' = [cardOf EXCEPT ![i] = call[k].card]
            /\ Reply(k, <<i>>, arrives)
    BY <1>4 DEF ServeAdd
  <2>2. UNCHANGED <<savedTabs, tabOf>> /\ tabOf[call[k].card] # Nothing /\ i \in Items \ issued
    BY <1>4, <2>1 DEF ServeAdd, Fresh
  <2>3. ItemStored(k, i)
    BY <1>4, <2>1, <2>2 DEF ItemStored
  <2>4. <<i>> = <<i>> \o <<>> /\ i \in Ids \ issued /\ <<>> \in Seq(Ids)
    BY <1>0, <2>2
  <2>5. Reply(k, <<i>> \o <<>>, arrives)
    BY <2>1, <2>4, Zenon
  <2>6. Replied(k, <<i>> \o <<>>) /\ issued' = issued \cup {i} \cup Elements(<<>>)
    BY <1>1, <2>4, <2>5, Zenon
  <2>7. QED BY <2>3, <2>4, <2>6, Zenon
<1>5. QED BY <1>2, <1>3, <1>4 DEF ServeAdd

\* What a removal takes from the tables.
TabDeleted(k) ==
    /\ call[k].op = "removeTab"
    /\ savedTabs' = savedTabs \ {call[k].tab}
    /\ \A c \in Cards : tabOf'[c] = IF tabOf[c] = call[k].tab THEN Nothing ELSE tabOf[c]
    /\ \A i \in Items : cardOf'[i] =
           IF cardOf[i] # Nothing /\ tabOf'[cardOf[i]] # Nothing THEN cardOf[i] ELSE Nothing
CardDeleted(k) ==
    /\ call[k].op = "removeCard"
    /\ savedTabs' = savedTabs
    /\ \A c \in Cards : tabOf'[c] = IF c = call[k].card THEN Nothing ELSE tabOf[c]
    /\ \A i \in Items : cardOf'[i] =
           IF cardOf[i] # Nothing /\ tabOf'[cardOf[i]] # Nothing THEN cardOf[i] ELSE Nothing
ItemDeleted(k) ==
    /\ call[k].op = "removeItem"
    /\ UNCHANGED <<savedTabs, tabOf>>
    /\ \A i \in Items : cardOf'[i] =
           IF i \notin Elements(call[k].ids) /\ cardOf[i] # Nothing /\ tabOf[cardOf[i]] # Nothing
             THEN cardOf[i] ELSE Nothing

LEMMA RemovalServed ==
    ASSUME BoardTypeOK, NEW k \in Calls, NEW arrives \in BOOLEAN, ServeRemove(k, arrives)
    PROVE  /\ Replied(k, call[k].ids)
           /\ TabDeleted(k) \/ CardDeleted(k) \/ ItemDeleted(k)
           /\ tabOf' \in [Cards -> Tabs \cup {Nothing}]
           /\ cardOf' \in [Items -> Cards \cup {Nothing}]
           /\ issued' = issued
<1>0. call[k].ids \in Seq(Ids) /\ call[k].at = "sent" /\ Nothing \notin Cards /\ Nothing \notin Tabs
  BY CallType, DashboardAssumption DEF ServeRemove, Ids
<1>1. Replied(k, call[k].ids)
  BY <1>0, Replies DEF ServeRemove
<1>2. ASSUME NEW ts, NEW cs, NEW is, DeleteRows(ts, cs, is)
      PROVE  /\ savedTabs' = savedTabs \ ts
             /\ tabOf' \in [Cards -> Tabs \cup {Nothing}]
             /\ cardOf' \in [Items -> Cards \cup {Nothing}]
             /\ issued' = issued
             /\ \A c \in Cards : tabOf'[c] = IF c \in cs \/ tabOf[c] \in ts THEN Nothing ELSE tabOf[c]
             /\ \A i \in Items : cardOf'[i] =
                    IF i \notin is /\ cardOf[i] # Nothing /\ tabOf'[cardOf[i]] # Nothing
                      THEN cardOf[i] ELSE Nothing
  <2>1. tabOf' = [c \in Cards |-> IF c \in cs \/ tabOf[c] \in ts THEN Nothing ELSE tabOf[c]]
    BY <1>2 DEF DeleteRows
  <2>2. cardOf' = [i \in Items |->
            IF i \in is \/ cardOf[i] \notin {c \in Cards : tabOf'[c] # Nothing}
               THEN Nothing ELSE cardOf[i]]
    BY <1>2 DEF DeleteRows
  <2>3. tabOf' \in [Cards -> Tabs \cup {Nothing}]
    BY <2>1 DEF BoardTypeOK
  <2>4. \A i \in Items : cardOf[i] \in Cards \cup {Nothing}
    BY DEF BoardTypeOK
  <2>5. cardOf' \in [Items -> Cards \cup {Nothing}]
    BY <2>2, <2>4
  <2>6. \A i \in Items : cardOf'[i] =
            IF i \notin is /\ cardOf[i] # Nothing /\ tabOf'[cardOf[i]] # Nothing
              THEN cardOf[i] ELSE Nothing
    BY <1>0, <2>2, <2>4
  <2>7. QED BY <1>2, <2>1, <2>3, <2>5, <2>6 DEF DeleteRows
<1>3. CASE call[k].op = "removeTab"
  <2>1. DeleteRows({call[k].tab}, {}, {})
    BY <1>3 DEF ServeRemove
  <2>2. QED BY <1>1, <1>2, <1>3, <2>1 DEF TabDeleted
<1>4. CASE call[k].op = "removeCard"
  <2>1. DeleteRows({}, {call[k].card}, {})
    BY <1>4 DEF ServeRemove
  <2>2. /\ savedTabs' = savedTabs \ {} /\ issued' = issued
        /\ tabOf' \in [Cards -> Tabs \cup {Nothing}]
        /\ cardOf' \in [Items -> Cards \cup {Nothing}]
    BY <1>2, <2>1
  <2>3. \A c \in Cards : tabOf'[c] = IF c = call[k].card THEN Nothing ELSE tabOf[c]
    <3>1. \A c \in Cards :
              tabOf'[c] = IF c \in {call[k].card} \/ tabOf[c] \in {} THEN Nothing ELSE tabOf[c]
      BY <1>2, <2>1
    <3>2. QED BY <3>1
  <2>4. \A i \in Items : cardOf'[i] =
            IF cardOf[i] # Nothing /\ tabOf'[cardOf[i]] # Nothing THEN cardOf[i] ELSE Nothing
    <3>1. \A i \in Items : cardOf'[i] =
              IF i \notin {} /\ cardOf[i] # Nothing /\ tabOf'[cardOf[i]] # Nothing
                THEN cardOf[i] ELSE Nothing
      BY <1>2, <2>1
    <3>2. QED BY <3>1
  <2>5. QED BY <1>1, <1>4, <2>2, <2>3, <2>4 DEF CardDeleted
<1>5. CASE call[k].op = "removeItem"
  <2>0. PICK is : is = Elements(call[k].ids)
    OBVIOUS
  <2>1. DeleteRows({}, {}, is)
    BY <1>5, <2>0 DEF ServeRemove
  <2>2. /\ tabOf' \in [Cards -> Tabs \cup {Nothing}] /\ \A c \in Cards : tabOf'[c] = tabOf[c]
        /\ savedTabs' = savedTabs
    <3>1. /\ savedTabs' = savedTabs \ {} /\ tabOf' \in [Cards -> Tabs \cup {Nothing}]
          /\ \A c \in Cards : tabOf'[c] = IF c \in {} \/ tabOf[c] \in {} THEN Nothing ELSE tabOf[c]
      BY <1>2, <2>1
    <3>2. QED BY <3>1
  <2>3. tabOf' = tabOf
    BY <2>2 DEF BoardTypeOK
  <2>4. \A i \in Items : cardOf'[i] =
            IF i \notin Elements(call[k].ids) /\ cardOf[i] # Nothing /\ tabOf'[cardOf[i]] # Nothing
              THEN cardOf[i] ELSE Nothing
    BY <1>2, <2>0, <2>1
  <2>5. ItemDeleted(k)
    BY <1>5, <2>2, <2>3, <2>4 DEF ItemDeleted
  <2>6. QED BY <1>1, <1>2, <2>1, <2>5
<1>6. QED BY <1>3, <1>4, <1>5 DEF ServeRemove

LEMMA ServerTypes ==
    ASSUME BoardTypeOK, NEW k \in Calls, Server(k)
    PROVE  BoardTypeOK'
<1>0. /\ Nothing \notin Tabs /\ Nothing \notin Cards /\ CallFits(k)
      /\ call[k].tab \in Tabs \cup {Nothing} /\ call[k].card \in Cards \cup {Nothing}
      /\ Tabs \subseteq Ids /\ Cards \subseteq Ids /\ Items \subseteq Ids
  BY CallType, DashboardAssumption DEF Ids
<1>1. ASSUME NEW arrives \in BOOLEAN, ServeAdd(k, arrives) PROVE BoardTypeOK'
  <2>1. PICK x \in Ids \ issued, s \in Seq(Ids) :
            /\ Replied(k, <<x>> \o s)
            /\ TabStored(k, x, s) \/ CardStored(k, x, s) \/ (s = <<>> /\ ItemStored(k, x))
            /\ issued' = issued \cup {x} \cup Elements(s)
    BY <1>1, AddServed
  <2>2. s = <<>> \/ \E y \in Ids : s = <<y>>
    BY <1>0, <2>1 DEF TabStored, CardStored
  <2>3. /\ Head(<<x>> \o s) = x /\ Tail(<<x>> \o s) = s /\ Len(<<x>> \o s) > 0
        /\ Elements(<<x>> \o s) = {x} \cup Elements(s) /\ Once(s) /\ Elements(s) \subseteq Ids
    BY <2>2, Pair, ElementsOf
  <2>4. issued' \subseteq Ids
    BY <2>1, <2>3 DEF BoardTypeOK
  <2>5. /\ call' \in [Calls -> CallRecord]
        /\ call[k].at = "sent" /\ call'[k].at \in {"done", "failed"}
        /\ call'[k].ids = <<x>> \o s
        /\ call'[k].op = call[k].op /\ call'[k].tab = call[k].tab /\ call'[k].card = call[k].card
        /\ call'[k].index = call[k].index
        /\ CallFits(k)' => \A j \in Calls : CallFits(j)'
        /\ UNCHANGED <<objects, selection, strayed>>
    BY <2>1 DEF Replied
  <2>6. lost' \subseteq Ids
    BY <1>0, <2>1, <2>3 DEF Replied, BoardTypeOK
  <2>7. CASE TabStored(k, x, s)
    <3>1. x \in Tabs /\ s \in Seq(Cards)
      <4>1. ASSUME NEW c \in Cards PROVE <<c>> \in Seq(Cards)
        OBVIOUS
      <4>2. <<>> \in Seq(Cards)
        OBVIOUS
      <4>3. QED BY <2>7, <4>1, <4>2, Zenon DEF TabStored
    <3>2. CallFits(k)'
      BY <2>3, <2>5, <2>7, <3>1 DEF CallFits, TabStored
    <3>3. savedTabs' \subseteq Tabs /\ tabOf' \in [Cards -> Tabs \cup {Nothing}] /\ cardOf' = cardOf
      BY <2>7, <3>1 DEF TabStored, BoardTypeOK
    <3>4. QED BY <2>4, <2>5, <2>6, <3>2, <3>3 DEF BoardTypeOK, objects, selection
  <2>8. CASE CardStored(k, x, s)
    <3>1. x \in Cards /\ s \in Seq(Items) /\ (call[k].op = "createCard" => s = <<>>)
      <4>1. ASSUME NEW i \in Items PROVE <<i>> \in Seq(Items)
        OBVIOUS
      <4>2. <<>> \in Seq(Items) /\ "createCard" # "importCard"
        OBVIOUS
      <4>3. x \in Cards /\ (s = <<>> \/ (call[k].op = "importCard" /\ \E i \in Items : s = <<i>>))
        BY <2>8, Zenon DEF CardStored
      <4>4. QED BY <4>1, <4>2, <4>3, Zenon
    <3>2. CallFits(k)'
      BY <1>0, <2>3, <2>5, <2>8, <3>1 DEF CallFits, CardStored
    <3>3. tabOf' \in [Cards -> Tabs \cup {Nothing}]
      BY <1>0, <2>8, <3>1 DEF CardStored, BoardTypeOK
    <3>4. savedTabs' = savedTabs /\ cardOf' \in [Items -> Cards \cup {Nothing}]
      BY <2>8, <3>1 DEF CardStored, BoardTypeOK
    <3>5. QED BY <2>4, <2>5, <2>6, <3>2, <3>3, <3>4 DEF BoardTypeOK, objects, selection
  <2>9. CASE s = <<>> /\ ItemStored(k, x)
    <3>1. x \in Items /\ call'[k].ids = <<x>>
      <4>1. <<x>> \o <<>> = <<x>>
        OBVIOUS
      <4>2. QED BY <2>5, <2>9, <4>1, Zenon DEF ItemStored
    <3>2. \E i \in Items : call'[k].ids = <<i>>
      BY <3>1, Zenon
    <3>3. CallFits(k)'
      BY <1>0, <2>5, <2>9, <3>2 DEF CallFits, ItemStored
    <3>4. UNCHANGED <<savedTabs, tabOf>> /\ cardOf' \in [Items -> Cards \cup {Nothing}]
      BY <1>0, <2>9 DEF ItemStored, BoardTypeOK
    <3>5. QED BY <2>4, <2>5, <2>6, <3>3, <3>4 DEF BoardTypeOK, objects, selection
  <2>10. QED BY <2>1, <2>7, <2>8, <2>9
<1>2. ASSUME NEW arrives \in BOOLEAN, ServeRemove(k, arrives) PROVE BoardTypeOK'
  <2>1. /\ Replied(k, call[k].ids)
        /\ TabDeleted(k) \/ CardDeleted(k) \/ ItemDeleted(k)
        /\ tabOf' \in [Cards -> Tabs \cup {Nothing}]
        /\ cardOf' \in [Items -> Cards \cup {Nothing}]
        /\ issued' = issued
    BY <1>2, RemovalServed
  <2>2. /\ call' \in [Calls -> CallRecord]
        /\ call[k].at = "sent" /\ call'[k].at \in {"done", "failed"}
        /\ call'[k].ids = call[k].ids
        /\ call'[k].op = call[k].op /\ call'[k].tab = call[k].tab /\ call'[k].card = call[k].card
        /\ call'[k].index = call[k].index
        /\ CallFits(k)' => \A j \in Calls : CallFits(j)'
        /\ UNCHANGED <<objects, selection, strayed>>
    BY <2>1 DEF Replied
  <2>3. lost' \subseteq Ids
    BY <1>0, <2>1, CallType, ElementsOf DEF Replied, BoardTypeOK
  <2>4. call[k].op \in {"removeTab", "removeCard", "removeItem"} /\ savedTabs' \subseteq Tabs
    BY <2>1 DEF TabDeleted, CardDeleted, ItemDeleted, BoardTypeOK
  <2>5. CallFits(k)'
    BY <1>0, <2>2, <2>4 DEF CallFits
  <2>6. QED BY <2>1, <2>2, <2>3, <2>4, <2>5 DEF BoardTypeOK, objects, selection
<1>3. CASE Refuse(k)
  <2>1. call[k].at = "sent" /\ call' = [call EXCEPT ![k].at = "failed"] /\ call[k] \in CallRecord
    BY <1>3, CallType DEF Refuse
  <2>2. PICK r : r = [call[k] EXCEPT !.at = "failed"]
    OBVIOUS
  <2>3. /\ r \in CallRecord /\ r.at = "failed" /\ r.op = call[k].op /\ r.tab = call[k].tab
        /\ r.card = call[k].card /\ r.index = call[k].index /\ r.ids = call[k].ids
    BY <2>1, <2>2 DEF CallRecord, Stages
  <2>4. call' = [call EXCEPT ![k] = r]
    BY <2>1, <2>2 DEF BoardTypeOK
  <2>5. /\ call' \in [Calls -> CallRecord] /\ call'[k] = r
        /\ CallFits(k)' => \A j \in Calls : CallFits(j)'
    BY <2>3, <2>4, OneCall
  <2>6. CallFits(k)'
    BY <1>0, <2>1, <2>3, <2>5 DEF CallFits
  <2>7. QED BY <1>3, <2>5, <2>6 DEF Refuse, BoardTypeOK, objects, selection, rows
<1>4. QED BY <1>1, <1>2, <1>3 DEF Server

\* What an answer brings.
LEMMA Answer ==
    ASSUME BoardTypeOK, NEW k \in Calls, call[k].at \in {"done", "twin"}
    PROVE  /\ Elements(call[k].ids) \subseteq Ids
           /\ call[k].op = "addTab" =>
                  /\ Head(call[k].ids) \in Tabs /\ Tail(call[k].ids) \in Seq(Cards)
                  /\ Once(Tail(call[k].ids))
                  /\ Elements(call[k].ids) = {Head(call[k].ids)} \cup Elements(Tail(call[k].ids))
                  /\ Elements(Tail(call[k].ids)) \subseteq Cards
           /\ call[k].op \in {"createCard", "importCard"} =>
                  /\ Head(call[k].ids) \in Cards /\ Tail(call[k].ids) \in Seq(Items)
                  /\ Once(Tail(call[k].ids))
                  /\ Elements(call[k].ids) = {Head(call[k].ids)} \cup Elements(Tail(call[k].ids))
                  /\ Elements(Tail(call[k].ids)) \subseteq Items
                  /\ call[k].tab \in Tabs
                  /\ call[k].op = "createCard" => Tail(call[k].ids) = <<>>
           /\ call[k].op \in {"addItem", "removeItem"} =>
                  /\ \E i \in Items : call[k].ids = <<i>> /\ Elements(call[k].ids) = {i}
                  /\ call[k].card \in Cards
           /\ call[k].op = "removeItem" => call[k].index \in Nat
           /\ call[k].op = "removeCard" =>
                  /\ call[k].tab \in Tabs /\ call[k].card \in Cards /\ call[k].ids = <<call[k].card>>
                  /\ Elements(call[k].ids) = {call[k].card}
<1>1. call[k].ids \in Seq(Ids) /\ CallFits(k)
  BY CallType
<1>2. \A s \in Seq(Ids) : Len(s) > 0 => Elements(s) = {Head(s)} \cup Elements(Tail(s))
  <2> SUFFICES ASSUME NEW s \in Seq(Ids), Len(s) > 0
               PROVE  Elements(s) = {Head(s)} \cup Elements(Tail(s))
    OBVIOUS
  <2>1. /\ Tail(s) \in Seq(Ids) /\ Len(Tail(s)) = Len(s) - 1 /\ Head(s) = s[1]
        /\ \A i \in 1 .. Len(s) - 1 : Tail(s)[i] = s[i + 1]
    OBVIOUS
  <2>2. /\ \A x : x \in Elements(s) <=> \E i \in 1 .. Len(s) : s[i] = x
        /\ \A x : x \in Elements(Tail(s)) <=> \E i \in 1 .. Len(s) - 1 : Tail(s)[i] = x
    BY <2>1, ElementsOf
  <2>3. \A x \in Elements(Tail(s)) : x \in Elements(s)
    BY <2>1, <2>2
  <2>4. s[1] \in Elements(s)
    BY <2>2
  <2>5. ASSUME NEW x \in Elements(s), x # s[1] PROVE x \in Elements(Tail(s))
    <3>1. PICK i \in 1 .. Len(s) : s[i] = x
      BY <2>2
    <3>2. i - 1 \in 1 .. Len(s) - 1 /\ (i - 1) + 1 = i
      BY <2>5, <3>1
    <3>3. QED BY <2>1, <2>2, <3>1, <3>2
  <2>6. QED BY <2>1, <2>3, <2>4, <2>5
<1>3. Elements(call[k].ids) \subseteq Ids
  BY <1>1, ElementsOf
<1>4. \A s : (s \in Seq(Cards) => Elements(s) \subseteq Cards)
             /\ (s \in Seq(Items) => Elements(s) \subseteq Items)
  BY ElementsOf
<1>5. \A x : Elements(<<x>>) = {x}
  BY OneElement
<1>6. CASE call[k].op \in {"addTab", "createCard", "importCard"}
  BY <1>1, <1>2, <1>3, <1>4, <1>6 DEF CallFits
<1>7. CASE call[k].op \in {"addItem", "removeItem"}
  <2>1. PICK i \in Items : call[k].ids = <<i>>
    BY <1>1, <1>7 DEF CallFits
  <2>2. Elements(call[k].ids) = {i}
    BY <1>5, <2>1, Zenon
  <2>3. \E y \in Items : call[k].ids = <<y>> /\ Elements(call[k].ids) = {y}
    BY <2>1, <2>2, Zenon
  <2>4. call[k].card \in Cards /\ (call[k].op = "removeItem" => call[k].index \in Nat)
    BY <1>1, <1>7 DEF CallFits
  <2>5. QED BY <1>3, <1>7, <2>3, <2>4
<1>8. CASE call[k].op = "removeCard"
  <2>1. call[k].tab \in Tabs /\ call[k].card \in Cards /\ call[k].ids = <<call[k].card>>
    BY <1>1, <1>8 DEF CallFits
  <2>2. Elements(call[k].ids) = {call[k].card}
    BY <1>5, <2>1, Zenon
  <2>3. QED BY <1>3, <1>8, <2>1, <2>2
<1>9. CASE call[k].op \in {"none", "removeTab"}
  BY <1>3, <1>9
<1>10. QED BY <1>6, <1>7, <1>8, <1>9, CallType DEF Ops

LEMMA ResumeTypes ==
    ASSUME BoardTypeOK, Places, NEW k \in Calls, Resume(k)
    PROVE  BoardTypeOK'
<1> DEFINE Ended == call' \in [Calls -> CallRecord] /\ \A j \in Calls : CallFits(j)'
<1>0. ASSUME call' = [call EXCEPT ![k] = Over] PROVE Ended
  BY <1>0, Ends
<1>1. CASE TabAdded(k)
  <2>1. Head(call[k].ids) \in Tabs /\ Tail(call[k].ids) \in Seq(Cards)
    BY <1>1, Answer DEF TabAdded, Answered
  <2>2. tabs' \in Seq(Tabs) /\ activeTabIdx' \in Int
    BY <1>1, <2>1 DEF TabAdded, BoardTypeOK
  <2>3. cardsOf' \in [Tabs -> Seq(Cards)]
    BY <1>1, <2>1 DEF TabAdded, BoardTypeOK
  <2>4. Ended
    BY <1>0, <1>1 DEF TabAdded, Answered
  <2>5. /\ activeCard' = -1 /\ currentCardId' = Nothing /\ strayed' = FALSE
        /\ UNCHANGED <<itemsOf, rows, lost>>
    BY <1>1 DEF TabAdded
  <2>6. QED BY <2>2, <2>3, <2>4, <2>5 DEF BoardTypeOK, rows
<1>2. CASE TabRemoved(k)
  <2>1. Ended
    BY <1>0, <1>2 DEF TabRemoved, Answered
  <2>2. QED BY <1>2, <2>1 DEF TabRemoved, BoardTypeOK, objects, selection, rows
<1>3. CASE CardCreated(k)
  <2>1. Head(call[k].ids) \in Cards /\ call[k].tab \in Tabs
    BY <1>3, Answer DEF CardCreated, Answered
  <2>2. /\ cardsOf' = [cardsOf EXCEPT ![call[k].tab] = Append(@, Head(call[k].ids))]
        /\ activeCard' = Len(cardsOf[call[k].tab])
        /\ currentCardId' = Head(call[k].ids)
        /\ UNCHANGED <<tabs, itemsOf, activeTabIdx, rows, lost>>
    BY <1>3 DEF CardCreated
  <2>3. cardsOf' \in [Tabs -> Seq(Cards)] /\ activeCard' \in Nat
    BY <2>1, <2>2 DEF BoardTypeOK
  <2>4. Ended
    BY <1>0, <1>3 DEF CardCreated, Answered
  <2>5. strayed' \in BOOLEAN
    BY <1>3, Zenon DEF CardCreated
  <2>6. QED BY <2>1, <2>2, <2>3, <2>4, <2>5 DEF BoardTypeOK, rows
<1>4. CASE CardImported(k)
  <2>1. Head(call[k].ids) \in Cards /\ Tail(call[k].ids) \in Seq(Items) /\ Head(call[k].ids) \in Ids
    BY <1>4, Answer DEF CardImported, Answered, Ids
  <2>2. /\ cardsOf' = IF ActiveTab = Nothing THEN cardsOf
                      ELSE [cardsOf EXCEPT ![ActiveTab] = Append(@, Head(call[k].ids))]
        /\ itemsOf' = [itemsOf EXCEPT ![Head(call[k].ids)] = Tail(call[k].ids)]
        /\ lost' = IF ActiveTab = call[k].tab THEN lost ELSE lost \cup {Head(call[k].ids)}
        /\ UNCHANGED <<tabs, selection, rows, strayed>>
    BY <1>4 DEF CardImported
  <2>3. cardsOf' \in [Tabs -> Seq(Cards)]
    BY <2>1, <2>2, Selected DEF BoardTypeOK
  <2>4. itemsOf' \in [Cards -> Seq(Items)] /\ lost' \subseteq Ids
    BY <2>1, <2>2 DEF BoardTypeOK
  <2>5. Ended
    BY <1>0, <1>4 DEF CardImported, Answered
  <2>6. QED BY <2>2, <2>3, <2>4, <2>5 DEF BoardTypeOK, selection, rows
<1>5. CASE CardRemoved(k)
  <2>1. call[k].card \in Cards /\ call[k].tab \in Tabs /\ call[k].card \in Ids
    BY <1>5, Answer DEF CardRemoved, Answered, Ids
  <2>2. /\ cardsOf' = IF k \in orphaned THEN cardsOf
                      ELSE [cardsOf EXCEPT ![call[k].tab] = Seqs!RemoveFirst(@, call[k].card)]
        /\ lost' = IF call[k].card \in Elements(cardsOf[call[k].tab])
                     THEN lost ELSE lost \cup {call[k].card}
        /\ activeCard' = -1 /\ currentCardId' = Nothing /\ strayed' = FALSE
        /\ UNCHANGED <<tabs, itemsOf, activeTabIdx, rows>>
    BY <1>5 DEF CardRemoved
  <2>3. Seqs!RemoveFirst(cardsOf[call[k].tab], call[k].card) \in Seq(Cards)
    <3>1. cardsOf[call[k].tab] \in Seq(Cards) /\ Once(cardsOf[call[k].tab])
      BY <2>1 DEF BoardTypeOK, Places, Orderly
    <3>2. QED BY <3>1, Dropped
  <2>4. cardsOf' \in [Tabs -> Seq(Cards)] /\ lost' \subseteq Ids
    BY <2>1, <2>2, <2>3 DEF BoardTypeOK
  <2>5. Ended
    BY <1>0, <1>5 DEF CardRemoved, Answered
  <2>6. QED BY <2>2, <2>4, <2>5 DEF BoardTypeOK, rows
<1>6. CASE ItemAdded(k)
  <2>1. call[k].card \in Cards /\ \E i \in Items : call[k].ids = <<i>>
    BY <1>6, Answer DEF ItemAdded, Answered
  <2>2. call[k].ids \in Seq(Items)
    BY <2>1
  <2>3. /\ itemsOf' = [itemsOf EXCEPT ![call[k].card] = @ \o call[k].ids]
        /\ UNCHANGED <<tabs, cardsOf, selection, rows, strayed, lost>>
    BY <1>6 DEF ItemAdded
  <2>4. itemsOf' \in [Cards -> Seq(Items)]
    BY <2>1, <2>2, <2>3 DEF BoardTypeOK
  <2>5. Ended
    BY <1>0, <1>6 DEF ItemAdded, Answered
  <2>6. QED BY <2>3, <2>4, <2>5 DEF BoardTypeOK, selection, rows
<1>7. CASE ItemRemoved(k)
  <2>1. call[k].card \in Cards /\ call[k].index \in Nat /\ Elements(call[k].ids) \subseteq Ids
    BY <1>7, Answer DEF ItemRemoved, Answered
  <2>2. PICK spliced :
            /\ spliced = Nth(itemsOf[call[k].card], call[k].index)
            /\ itemsOf' = [itemsOf EXCEPT ![call[k].card] = Without(@, call[k].index)]
            /\ lost' = IF call[k].ids = <<spliced>> THEN lost
                       ELSE lost \cup ({spliced} \ {Nothing}) \cup Elements(call[k].ids)
            /\ UNCHANGED <<tabs, cardsOf, selection, rows, strayed>>
    BY <1>7 DEF ItemRemoved
  <2>3. itemsOf[call[k].card] \in Seq(Items)
    BY <2>1 DEF BoardTypeOK
  <2>4. spliced \in Items \cup {Nothing}
    BY <2>1, <2>2, <2>3 DEF Nth
  <2>5. Without(itemsOf[call[k].card], call[k].index) \in Seq(Items)
    <3>1. \A s \in Seq(Items), n \in Int : Without(s, n) \in Seq(Items)
      BY Left
    <3>2. call[k].index \in Int
      BY <2>1
    <3>3. QED BY <2>3, <3>1, <3>2
  <2>6. itemsOf' \in [Cards -> Seq(Items)]
    BY <2>1, <2>2, <2>5 DEF BoardTypeOK
  <2>7. lost' \subseteq Ids
    BY <2>1, <2>2, <2>4 DEF BoardTypeOK, Ids
  <2>8. Ended
    BY <1>0, <1>7 DEF ItemRemoved, Answered
  <2>9. QED BY <2>2, <2>6, <2>7, <2>8 DEF BoardTypeOK, selection, rows
<1>8. CASE Failed(k)
  <2>1. Ended
    BY <1>0, <1>8 DEF Failed
  <2>2. QED BY <1>8, <2>1 DEF Failed, BoardTypeOK, objects, selection, rows
<1>9. CASE CardCreatedAside(k)
  <2>1. Head(call[k].ids) \in Cards
    BY <1>9, Answer DEF CardCreatedAside, Aside
  <2>2. Ended
    BY <1>0, <1>9 DEF CardCreatedAside, Aside
  <2>3. activeCard' \in Nat /\ currentCardId' \in Cards /\ strayed' = TRUE
        /\ UNCHANGED <<objects, activeTabIdx, rows, lost>>
    BY <1>9, <2>1 DEF CardCreatedAside
  <2>4. QED BY <2>2, <2>3 DEF BoardTypeOK, objects, rows
<1>10. CASE ItemsAside(k)
  <2>1. Ended
    BY <1>0, <1>10 DEF ItemsAside, Aside
  <2>2. QED BY <1>10, <2>1 DEF ItemsAside, BoardTypeOK, objects, selection, rows
<1>11. QED BY <1>1, <1>2, <1>3, <1>4, <1>5, <1>6, <1>7, <1>8, <1>9, <1>10 DEF Resume

-----------------------------------------------------------------------------
(* What the page and the calls refer to.                                    *)

LEMMA NewIds ==
    ASSUME BoardTypeOK, NEW k \in Calls
    PROVE  New(k) \subseteq Ids /\ (call[k].at # "done" => New(k) = {})
BY CallType, ElementsOf DEF New, Brings

LEMMA Unmoved ==
    ASSUME NEW k, \A j \in Calls \ {k} : call'[j] = call[j]
    PROVE  \A j \in Calls \ {k} : /\ New(j)' = New(j)
                                  /\ \A x : Names(j, x)' <=> Names(j, x)
BY DEF New, Brings, Names

\* A step of a call (or of none): it learns ids the server gives out now (fresh), or shows what
\* its answer brought.
Learns(k, fresh) ==
    /\ \A j \in Calls \ {k} : New(j)' = New(j)
    /\ fresh \subseteq Ids \ issued /\ issued' = issued \cup fresh
    /\ \/ (k \in Calls => New(k)' \in {New(k), fresh}) /\ \A x \in Ids : Referred(x)' => Referred(x)
       \/ k \in Calls /\ New(k)' = {}
          /\ \A x \in Ids : Referred(x)' => Referred(x) \/ x \in New(k) \cup fresh
    /\ \A c \in Cards : Elements(itemsOf'[c]) # {} =>
           Elements(itemsOf[c]) # {} \/ Referred(c) \/ (c \in New(k) /\ k \in Calls /\ New(k)' = {})

LEMMA Learned ==
    ASSUME BoardTypeOK, Known, Unseen, Bare, NEW k, NEW fresh, Learns(k, fresh)
    PROVE  /\ \A x \in Ids : Referred(x)' \/ (\E j \in Calls : x \in New(j)') => x \in issued'
           /\ Unseen' /\ Bare'
<1>1. /\ \A j \in Calls : New(j) \subseteq Ids
      /\ \A x \in Ids : Referred(x) => x \in issued
      /\ \A x \in Ids : \A j \in Calls : x \in New(j) => x \in issued /\ ~Referred(x)
      /\ \A j, l \in Calls : New(j) \cap New(l) # {} => j = l
      /\ Cards \subseteq Ids
  BY NewIds DEF Known, Unseen, Ids
<1>2. CASE k \in Calls
  <2>1. \A j \in Calls : New(j)' \subseteq Ids
    BY <1>1, <1>2 DEF Learns
  <2>2. /\ \A j \in Calls : j # k => New(j)' = New(j)
        /\ fresh \subseteq Ids \ issued /\ issued' = issued \cup fresh
    BY DEF Learns
  <2>3. CASE New(k)' \in {New(k), fresh} /\ \A x \in Ids : Referred(x)' => Referred(x)
    <3>1. \A x \in Ids : Referred(x)' \/ (\E j \in Calls : x \in New(j)') => x \in issued'
      BY <1>1, <1>2, <2>1, <2>2, <2>3
    <3>2. \A j \in Calls : \A x \in New(j)' : ~Referred(x)'
      BY <1>1, <1>2, <2>1, <2>2, <2>3
    <3>3. \A j, l \in Calls : New(j)' \cap New(l)' # {} => j = l
      BY <1>1, <1>2, <2>1, <2>2, <2>3
    <3>4. Bare'
      <4>1. ASSUME NEW c \in Cards, Elements(itemsOf'[c]) # {}
            PROVE  c \in issued /\ \A j \in Calls : c \notin New(j)'
        <5>1. Elements(itemsOf[c]) # {} \/ Referred(c) \/ (c \in New(k) /\ New(k)' = {})
          BY <4>1 DEF Learns
        <5>2. CASE Elements(itemsOf[c]) # {} \/ Referred(c)
          <6>1. c \in issued /\ \A j \in Calls : c \notin New(j)
            BY <1>1, <5>2 DEF Bare
          <6>2. QED BY <1>2, <2>2, <2>3, <6>1
        <5>3. CASE c \in New(k) /\ New(k)' = {}
          BY <1>1, <1>2, <2>2, <5>3
        <5>4. QED BY <5>1, <5>2, <5>3
      <4>2. QED BY <2>2, <4>1 DEF Bare
    <3>5. QED BY <3>1, <3>2, <3>3, <3>4 DEF Unseen
  <2>4. CASE New(k)' = {} /\ \A x \in Ids : Referred(x)' => Referred(x) \/ x \in New(k) \cup fresh
    <3>1. \A x \in Ids : Referred(x)' \/ (\E j \in Calls : x \in New(j)') => x \in issued'
      BY <1>1, <1>2, <2>2, <2>4
    <3>2. \A j \in Calls : \A x \in New(j)' : ~Referred(x)'
      <4>1. ASSUME NEW j \in Calls, NEW x \in New(j)' PROVE ~Referred(x)'
        <5>1. j # k /\ x \in New(j) /\ x \in Ids /\ x \in issued
          BY <1>1, <2>2, <2>4, <4>1
        <5>2. x \notin New(k) /\ x \notin fresh /\ ~Referred(x)
          BY <1>1, <1>2, <2>2, <5>1
        <5>3. QED BY <2>4, <5>1, <5>2
      <4>2. QED BY <4>1
    <3>3. \A j, l \in Calls : New(j)' \cap New(l)' # {} => j = l
      BY <1>1, <1>2, <2>2, <2>4
    <3>4. Bare'
      <4>1. ASSUME NEW c \in Cards, Elements(itemsOf'[c]) # {}
            PROVE  c \in issued /\ \A j \in Calls \ {k} : c \notin New(j)
        <5>1. Elements(itemsOf[c]) # {} \/ Referred(c) \/ c \in New(k)
          BY <4>1 DEF Learns
        <5>2. QED BY <1>1, <1>2, <5>1 DEF Bare
      <4>2. QED BY <1>2, <2>2, <2>4, <4>1 DEF Bare
    <3>5. QED BY <3>1, <3>2, <3>3, <3>4 DEF Unseen
  <2>5. QED BY <1>2, <2>3, <2>4 DEF Learns
<1>3. CASE k \notin Calls
  <2>1. \A j \in Calls : New(j)' = New(j)
    BY <1>3 DEF Learns
  <2>2. fresh \subseteq Ids \ issued /\ issued' = issued \cup fresh
    BY DEF Learns
  <2>3. \A x \in Ids : Referred(x)' => Referred(x)
    BY <1>3 DEF Learns
  <2>4. \A x \in Ids : Referred(x)' \/ (\E j \in Calls : x \in New(j)') => x \in issued'
    BY <1>1, <2>1, <2>2, <2>3
  <2>5. \A j \in Calls : \A x \in New(j)' : ~Referred(x)'
    BY <1>1, <2>1, <2>2, <2>3
  <2>6. Bare'
    BY <1>1, <1>3, <2>1, <2>2 DEF Bare, Learns
  <2>7. QED BY <1>1, <2>1, <2>4, <2>5, <2>6 DEF Unseen
<1>4. QED BY <1>2, <1>3

-----------------------------------------------------------------------------
(* What a step does to what the page shows.                                 *)

\* The user changes the order at most, and what is selected.
Looks ==
    /\ Elements(tabs') = Elements(tabs)
    /\ \A t \in Tabs : Elements(cardsOf'[t]) = Elements(cardsOf[t])
    /\ \A c \in Cards : Elements(itemsOf'[c]) = Elements(itemsOf[c])
    /\ currentCardId' = currentCardId \/ OnPage(currentCardId')
    /\ UNCHANGED <<rows, call, lost>>

LEMMA ActiveSeen ==
    ASSUME BoardTypeOK
    PROVE  /\ \A c \in Elements(ActiveCards) : OnPage(c)
           /\ ActiveTab # Nothing => ActiveTab \in Tabs /\ OnPage(ActiveTab)
<1>1. ActiveTab # Nothing => ActiveTab \in Tabs /\ OnPage(ActiveTab)
  BY Selected DEF OnPage
<1>2. ASSUME NEW c \in Elements(ActiveCards) PROVE OnPage(c)
  <2>1. ActiveTab \in Tabs /\ Nothing \notin Tabs
    BY <1>2, Selected DEF Ids
  <2>2. c \in Elements(cardsOf[ActiveTab])
    BY <1>2, <2>1, Selected
  <2>3. QED BY <2>1, <2>2 DEF OnPage
<1>3. QED BY <1>1, <1>2

LEMMA ActLooks ==
    ASSUME BoardTypeOK, Places, UserAct
    PROVE  Looks /\ Orderly'
<1>0. Orderly
  BY DEF Places
<1>1. CASE \E i \in 0 .. Len(tabs) - 1 : SelectTab(i)
  BY <1>0, <1>1 DEF SelectTab, Looks, Orderly, objects
<1>2. CASE \E c \in Cards : SelectCard(c)
  <2>1. PICK c \in Cards : SelectCard(c)
    BY <1>2
  <2>2. OnPage(c)
    BY <2>1, ActiveSeen DEF SelectCard
  <2>3. QED BY <1>0, <2>1, <2>2 DEF SelectCard, Looks, Orderly, objects
<1>3. CASE \E i \in 0 .. Len(ActiveCards) - 2 : SortCards(i)
  <2>1. PICK i \in 0 .. Len(ActiveCards) - 2 : SortCards(i)
    BY <1>3
  <2>2. /\ ActiveTab \in Tabs /\ ActiveCards = cardsOf[ActiveTab] /\ ActiveCards \in Seq(Cards)
        /\ Once(ActiveCards)
    BY <1>0, Selected DEF Orderly
  <2>3. PICK r : r = SwapFrom(ActiveCards, i)
    OBVIOUS
  <2>4. Elements(r) = Elements(ActiveCards) /\ Once(r)
    BY <2>2, <2>3, Swapped
  <2>5. cardsOf' = [cardsOf EXCEPT ![ActiveTab] = r]
    BY <2>1, <2>2, <2>3 DEF SortCards
  <2>6. \A t \in Tabs : Elements(cardsOf'[t]) = Elements(cardsOf[t]) /\ Once(cardsOf'[t])
    BY <1>0, <2>2, <2>4, <2>5 DEF Orderly, BoardTypeOK
  <2>7. QED BY <1>0, <2>1, <2>6 DEF SortCards, Looks, Orderly, selection
<1>4. CASE FormCard # Nothing /\ \E i \in 0 .. Len(itemsOf[FormCard]) - 2 : SortItems(i)
  <2>1. PICK i \in 0 .. Len(itemsOf[FormCard]) - 2 : SortItems(i)
    BY <1>4
  <2>2. FormCard \in Cards /\ itemsOf[FormCard] \in Seq(Items) /\ Once(itemsOf[FormCard])
    BY <1>0, <1>4, Selected DEF BoardTypeOK, Orderly
  <2>3. PICK r : r = SwapFrom(itemsOf[FormCard], i)
    OBVIOUS
  <2>4. Elements(r) = Elements(itemsOf[FormCard]) /\ Once(r)
    BY <2>2, <2>3, Swapped
  <2>5. itemsOf' = [itemsOf EXCEPT ![FormCard] = r]
    BY <2>1, <2>3 DEF SortItems
  <2>6. \A c \in Cards : Elements(itemsOf'[c]) = Elements(itemsOf[c]) /\ Once(itemsOf'[c])
    BY <1>0, <2>2, <2>4, <2>5 DEF Orderly, BoardTypeOK
  <2>7. QED BY <1>0, <2>1, <2>6 DEF SortItems, Looks, Orderly, selection
<1>5. QED BY <1>1, <1>2, <1>3, <1>4 DEF UserAct

\* A call begins: it names what the page shows, but for a tab it takes away.
Asks(k) ==
    /\ call[k].at = "idle" /\ call'[k].at = "sent"
    /\ \A j \in Calls \ {k} : call'[j] = call[j]
    /\ \A x \in Ids : Names(k, x)' => OnPage(x)
    /\ call'[k].op = "removeTab" => call'[k].tab \notin Elements(tabs')
    /\ Elements(tabs') \subseteq Elements(tabs) /\ UNCHANGED <<cardsOf, itemsOf, rows, lost>>
    /\ currentCardId' \in {currentCardId, Nothing} \/ OnPage(currentCardId')

LEMMA CallAsks ==
    ASSUME BoardTypeOK, Places, NEW k \in Calls, UserCall(k)
    PROVE  Asks(k) /\ Orderly'
<1>0. /\ Orderly /\ <<>> \in Seq(Ids) /\ -1 \in Int
      /\ Nothing \notin Tabs /\ Nothing \notin Cards /\ Nothing \notin Ids
      /\ Tabs \subseteq Ids /\ Cards \subseteq Ids /\ Items \subseteq Ids
  BY DashboardAssumption DEF Ids, Places
<1>1. ASSUME NEW o, NEW t, NEW c, NEW n, NEW s,
             Send(k, o, t, c, n, s), Apt(o, t, c, n, s),
             t # Nothing => OnPage(t), c # Nothing => OnPage(c),
             \A x \in Elements(s) : OnPage(x)
      PROVE  /\ call[k].at = "idle" /\ call'[k].at = "sent" /\ call'[k].op = o /\ call'[k].tab = t
             /\ \A j \in Calls \ {k} : call'[j] = call[j]
             /\ \A x \in Ids : Names(k, x)' => OnPage(x)
  <2>1. /\ call[k].at = "idle"
        /\ call'[k].op = o /\ call'[k].at = "sent" /\ call'[k].tab = t /\ call'[k].card = c
        /\ call'[k].ids = s
        /\ \A j \in Calls \ {k} : call'[j] = call[j]
    BY <1>1, Sends
  <2>2. \A x \in Ids : Names(k, x)' => OnPage(x)
    BY <1>0, <1>1, <2>1 DEF Names
  <2>3. QED BY <2>1, <2>2
<1>2. \A c \in Elements(ActiveCards) : OnPage(c)
  BY ActiveSeen
<1>3. ActiveTab # Nothing => ActiveTab \in Tabs /\ OnPage(ActiveTab)
  BY ActiveSeen
<1>4. CASE AddTab(k)
  <2>1. Send(k, "addTab", Nothing, Nothing, -1, <<>>) /\ Apt("addTab", Nothing, Nothing, -1, <<>>)
    BY <1>0, <1>4 DEF AddTab, Apt, Ops
  <2>2. QED BY <1>0, <1>1, <1>4, <2>1, NoElements DEF AddTab,
               Asks, Orderly, objects, selection
<1>5. CASE RemoveTab(k)
  <2>1. /\ Send(k, "removeTab", ActiveTab, Nothing, -1, <<>>)
        /\ Apt("removeTab", ActiveTab, Nothing, -1, <<>>)
        /\ ActiveTab # Nothing
    BY <1>0, <1>3, <1>5 DEF RemoveTab, Apt, Ops
  <2>2. tabs' = Without(tabs, activeTabIdx) /\ tabs \in Seq(Tabs) /\ activeTabIdx \in Int /\ Once(tabs)
    BY <1>0, <1>5 DEF RemoveTab, BoardTypeOK, Orderly
  <2>3. activeTabIdx + 1 \in 1 .. Len(tabs) /\ ActiveTab = tabs[activeTabIdx + 1]
    BY <2>1, <2>2 DEF ActiveTab, Nth
  <2>4. Once(tabs') /\ Elements(tabs') = Elements(tabs) \ {ActiveTab}
    <3>1. Once(Without(tabs, activeTabIdx))
      BY <2>2, Left
    <3>2. Elements(Without(tabs, activeTabIdx)) = Elements(tabs) \ {tabs[activeTabIdx + 1]}
      BY <2>2, <2>3, LeftAt
    <3>3. QED BY <2>2, <2>3, <3>1, <3>2
  <2>5. QED BY <1>0, <1>1, <1>3, <1>5, <2>1, <2>4, NoElements DEF RemoveTab, Asks, Orderly
<1>6. ASSUME NEW o \in {"createCard", "importCard"}, AddCard(k, o) PROVE Asks(k) /\ Orderly'
  <2>1. /\ Send(k, o, ActiveTab, Nothing, -1, <<>>) /\ Apt(o, ActiveTab, Nothing, -1, <<>>)
        /\ ActiveTab # Nothing
    BY <1>0, <1>3, <1>6 DEF AddCard, Apt, Ops
  <2>2. o # "removeTab"
    BY <1>6
  <2>3. QED BY <1>0, <1>1, <1>3, <1>6, <2>1, <2>2, NoElements DEF AddCard,
               Asks, Orderly, objects, selection
<1>7. ASSUME NEW c \in Cards, RemoveCard(k, c) PROVE Asks(k) /\ Orderly'
  <2>1. ActiveTab \in Tabs /\ <<c>> \in Seq(Ids) /\ OnPage(c) /\ c # Nothing
    <3>1. ActiveTab \in Tabs
      BY <1>7, Selected DEF RemoveCard
    <3>2. CASE InMenu(c)
      BY <1>0, <1>7, <3>1, <3>2, OfMenu DEF InMenu
    <3>3. CASE c = currentCardId
      BY <1>0, <1>7, <3>1, <3>3 DEF OnPage
    <3>4. QED BY <1>7, <3>2, <3>3 DEF RemoveCard
  <2>2. Send(k, "removeCard", ActiveTab, c, -1, <<c>>) /\ Apt("removeCard", ActiveTab, c, -1, <<c>>)
    <3>1. Apt("removeCard", ActiveTab, c, -1, <<c>>)
      BY <1>0, <1>7, <2>1 DEF Apt, Ops
    <3>2. QED BY <1>7, <3>1 DEF RemoveCard
  <2>3. \A x \in Elements(<<c>>) : OnPage(x)
    BY <2>1, OneElement
  <2>4. QED BY <1>0, <1>1, <1>3, <1>7, <2>1, <2>2, <2>3 DEF RemoveCard,
               Asks, Orderly, objects, selection
<1>8. ASSUME NEW c \in Cards, CreateItem(k, c) \/ CopyItem(k, c) PROVE Asks(k) /\ Orderly'
  <2>1. /\ Send(k, "addItem", Nothing, c, -1, <<>>) /\ Apt("addItem", Nothing, c, -1, <<>>)
        /\ OnPage(c)
    <3>1. OnPage(c)
      BY <1>8, OfMenu DEF CreateItem, CopyItem, InMenu
    <3>2. QED BY <1>0, <1>8, <3>1 DEF CreateItem, CopyItem, Apt, Ops
  <2>2. QED BY <1>0, <1>1, <1>8, <2>1, NoElements DEF CreateItem, CopyItem,
               Asks, Orderly, objects, selection
<1>9. ASSUME NEW c \in Cards, NEW i \in 0 .. Len(itemsOf[c]) - 1, RemoveItem(k, c, i)
      PROVE  Asks(k) /\ Orderly'
  <2>1. itemsOf[c] \in Seq(Items) /\ Len(itemsOf[c]) \in Nat /\ i \in Nat /\ i + 1 \in DOMAIN itemsOf[c]
    BY DEF BoardTypeOK
  <2>2. PICK x \in Items : x = itemsOf[c][i + 1] /\ x \in Elements(itemsOf[c])
    BY <2>1, ElementsOf
  <2>3. <<x>> \in Seq(Ids) /\ OnPage(x) /\ OnPage(c)
    <3>1. OnPage(c)
      BY <1>9, OfMenu DEF RemoveItem, InMenu
    <3>2. QED BY <1>9, <2>2, <3>1 DEF Ids, OnPage
  <2>4. Send(k, "removeItem", Nothing, c, i, <<x>>) /\ Apt("removeItem", Nothing, c, i, <<x>>)
    <3>1. /\ <<x>> \in Seq(Ids) /\ i \in Int /\ i \in Nat /\ c \in Cards \cup {Nothing}
          /\ \E y \in Items : <<x>> = <<y>>
      BY <2>1, <2>2, <2>3
    <3>2. Apt("removeItem", Nothing, c, i, <<x>>)
      BY <1>0, <3>1 DEF Apt, Ops
    <3>3. QED BY <1>9, <2>2, <3>2 DEF RemoveItem
  <2>5. \A y \in Elements(<<x>>) : OnPage(y)
    BY <2>3, OneElement
  <2>6. QED BY <1>0, <1>1, <1>9, <2>3, <2>4, <2>5 DEF RemoveItem,
               Asks, Orderly, objects, selection
<1>10. QED BY <1>4, <1>5, <1>6, <1>7, <1>8, <1>9 DEF UserCall

\* A call ends.
Closes(k) ==
    /\ call[k].at \in {"done", "twin", "failed"} /\ call'[k].at = "over" /\ call'[k].op = "none"
    /\ \A j \in Calls \ {k} : call'[j] = call[j]
    /\ New(k)' = {} /\ \A x \in Ids : ~Names(k, x)'
    /\ UNCHANGED rows

LEMMA CallCloses ==
    ASSUME BoardTypeOK, NEW k \in Calls, call[k].at \in {"done", "twin", "failed"},
           call' = [call EXCEPT ![k] = Over], UNCHANGED rows
    PROVE  Closes(k)
<1>1. /\ call'[k].op = "none" /\ call'[k].at = "over" /\ call'[k].tab = Nothing
      /\ call'[k].card = Nothing /\ call'[k].ids = <<>>
      /\ \A j \in Calls \ {k} : call'[j] = call[j]
  BY Ends
<1>2. New(k)' = {}
  BY <1>1 DEF New, Brings
<1>3. \A x \in Ids : ~Names(k, x)'
  BY <1>1, NoElements, DashboardAssumption DEF Names
<1>4. QED BY <1>1, <1>2, <1>3 DEF Closes

\* It shows what its answer brought,
ShowsTab(k, t, s) ==
    /\ call[k].at = "done" /\ call[k].op = "addTab"
    /\ t = Head(call[k].ids) /\ s = Tail(call[k].ids)
    /\ t \in Tabs /\ Elements(s) \subseteq Cards /\ New(k) = {t} \cup Elements(s)
    /\ Elements(tabs') = Elements(tabs) \cup {t}
    /\ Elements(cardsOf'[t]) = Elements(s) /\ \A u \in Tabs \ {t} : cardsOf'[u] = cardsOf[u]
    /\ UNCHANGED <<itemsOf, lost>> /\ currentCardId' = Nothing

ShowsCard(k, t, c, s) ==
    /\ call[k].at = "done" /\ call[k].op \in {"createCard", "importCard"}
    /\ c = Head(call[k].ids) /\ s = Tail(call[k].ids)
    /\ t \in Tabs \cup {Nothing} /\ c \in Cards /\ Elements(s) \subseteq Items
    /\ New(k) = {c} \cup Elements(s)
    /\ \A u \in Tabs : Elements(cardsOf'[u]) = Elements(cardsOf[u]) \cup (IF u = t THEN {c} ELSE {})
    /\ Elements(itemsOf'[c]) = Elements(s) /\ \A d \in Cards \ {c} : itemsOf'[d] = itemsOf[d]
    /\ lost' = IF t = call[k].tab THEN lost ELSE lost \cup {c}
    /\ UNCHANGED tabs /\ currentCardId' \in {currentCardId, c}

ShowsItem(k, c, i) ==
    /\ call[k].at = "done" /\ call[k].op = "addItem"
    /\ c = call[k].card /\ Elements(call[k].ids) = {i}
    /\ c \in Cards /\ i \in Items /\ New(k) = {i}
    /\ Elements(itemsOf'[c]) = Elements(itemsOf[c]) \cup {i}
    /\ \A d \in Cards \ {c} : itemsOf'[d] = itemsOf[d]
    /\ UNCHANGED <<tabs, cardsOf, currentCardId, lost>>

\* or takes away what it removed, or nothing.
HidesCard(k, t, c) ==
    /\ call[k].at = "done" /\ call[k].op = "removeCard"
    /\ t = call[k].tab /\ c = call[k].card /\ Elements(call[k].ids) = {c}
    /\ t \in Tabs /\ c \in Cards /\ New(k) = {}
    /\ Elements(cardsOf'[t]) = Elements(cardsOf[t]) \ {c}
    /\ \A u \in Tabs \ {t} : cardsOf'[u] = cardsOf[u]
    /\ lost' = IF c \in Elements(cardsOf[t]) THEN lost ELSE lost \cup {c}
    /\ UNCHANGED <<tabs, itemsOf>> /\ currentCardId' = Nothing

HidesItem(k, c, x) ==
    /\ call[k].at = "done" /\ call[k].op = "removeItem"
    /\ c = call[k].card /\ c \in Cards /\ New(k) = {} /\ x \in Items \cup {Nothing}
    /\ Elements(itemsOf'[c]) = Elements(itemsOf[c]) \ {x}
    /\ \A d \in Cards \ {c} : itemsOf'[d] = itemsOf[d]
    /\ \/ Elements(call[k].ids) = {x} /\ x \in Elements(itemsOf[c]) /\ lost' = lost
       \/ lost' = lost \cup ({x} \ {Nothing}) \cup Elements(call[k].ids)
    /\ UNCHANGED <<tabs, cardsOf, currentCardId>>

Settles(k) ==
    /\ call[k].at = "failed" \/ (call[k].at = "done" /\ call[k].op = "removeTab")
    /\ New(k) = {}
    /\ UNCHANGED <<objects, currentCardId, lost>>

Resumed(k) ==
    \/ \E t, s : ShowsTab(k, t, s)
    \/ \E t, c, s : ShowsCard(k, t, c, s)
    \/ \E c, i : ShowsItem(k, c, i)
    \/ \E t, c : HidesCard(k, t, c)
    \/ \E c, x : HidesItem(k, c, x)
    \/ Settles(k)

\* What it began with is no longer on the page.
Drops(k) ==
    /\ k \in orphaned
    /\ UNCHANGED <<objects, rows>>
    /\ \/ currentCardId' \in {currentCardId, Nothing}
       \/ currentCardId' \in Elements(call[k].ids)

LEMMA TabAddedShows ==
    ASSUME BoardTypeOK, Places, Unseen, NEW k \in Calls, TabAdded(k)
    PROVE  Closes(k) /\ Resumed(k) /\ Orderly'
<1>1. /\ call[k].at = "done" /\ call[k].op = "addTab" /\ call' = [call EXCEPT ![k] = Over]
      /\ UNCHANGED <<itemsOf, rows, lost>> /\ currentCardId' = Nothing
  BY DEF TabAdded, Answered
<1>2. PICK t, s : t = Head(call[k].ids) /\ s = Tail(call[k].ids)
  OBVIOUS
<1>3. /\ t \in Tabs /\ s \in Seq(Cards) /\ Elements(s) \subseteq Cards /\ Once(s)
      /\ Elements(call[k].ids) = {t} \cup Elements(s)
  BY <1>1, <1>2, Answer
<1>4. New(k) = {t} \cup Elements(s)
  BY <1>1, <1>3 DEF New, Brings
<1>5. tabs' = Append(tabs, t) /\ cardsOf' = [cardsOf EXCEPT ![t] = s]
  BY <1>2 DEF TabAdded
<1>6. t \notin Elements(tabs)
  BY <1>4 DEF Unseen, Referred, OnPage
<1>7. Elements(tabs') = Elements(tabs) \cup {t} /\ Once(tabs')
  BY <1>3, <1>5, <1>6, Appended DEF BoardTypeOK, Places, Orderly
<1>8. cardsOf'[t] = s /\ \A u \in Tabs \ {t} : cardsOf'[u] = cardsOf[u]
  BY <1>3, <1>5 DEF BoardTypeOK
<1>9. ShowsTab(k, t, s)
  BY <1>1, <1>2, <1>3, <1>4, <1>7, <1>8 DEF ShowsTab
<1>10. Orderly'
  BY <1>1, <1>3, <1>7, <1>8 DEF Places, Orderly
<1>11. QED BY <1>1, <1>9, <1>10, CallCloses DEF Resumed

LEMMA CardCreatedShows ==
    ASSUME BoardTypeOK, Places, Unseen, Bare, NEW k \in Calls, CardCreated(k)
    PROVE  Closes(k) /\ Resumed(k) /\ Orderly'
<1>1. /\ call[k].at = "done" /\ call[k].op = "createCard" /\ call' = [call EXCEPT ![k] = Over]
      /\ UNCHANGED <<tabs, itemsOf, rows, lost>>
  BY DEF CardCreated, Answered
<1>2. PICK t, c, s : t = call[k].tab /\ c = Head(call[k].ids) /\ s = Tail(call[k].ids)
  OBVIOUS
<1>3. /\ t \in Tabs /\ c \in Cards /\ s = <<>>
      /\ Elements(call[k].ids) = {c} \cup Elements(s)
  BY <1>1, <1>2, Answer
<1>4. New(k) = {c} \cup Elements(s) /\ Elements(s) = {}
  BY <1>1, <1>3, NoElements DEF New, Brings
<1>5. cardsOf' = [cardsOf EXCEPT ![t] = Append(@, c)] /\ currentCardId' = c
  BY <1>2 DEF CardCreated
<1>6. c \notin Elements(cardsOf[t]) /\ Elements(itemsOf[c]) = {}
  BY <1>3, <1>4 DEF Unseen, Referred, OnPage, Bare
<1>7. PICK r : r = cardsOf[t] /\ r \in Seq(Cards) /\ Once(r)
  BY <1>3 DEF BoardTypeOK, Places, Orderly
<1>8. PICK q : q = Append(r, c) /\ Elements(q) = Elements(r) \cup {c} /\ Once(q)
  BY <1>3, <1>6, <1>7, Appended
<1>9. cardsOf'[t] = q /\ \A u \in Tabs \ {t} : cardsOf'[u] = cardsOf[u]
  BY <1>3, <1>5, <1>7, <1>8 DEF BoardTypeOK
<1>10. ShowsCard(k, t, c, s)
  BY <1>1, <1>2, <1>3, <1>4, <1>5, <1>6, <1>7, <1>8, <1>9 DEF ShowsCard
<1>11. Orderly'
  BY <1>1, <1>8, <1>9 DEF Places, Orderly
<1>12. QED BY <1>1, <1>10, <1>11, CallCloses DEF Resumed

LEMMA CardImportedShows ==
    ASSUME BoardTypeOK, Places, Unseen, NEW k \in Calls, CardImported(k)
    PROVE  Closes(k) /\ Resumed(k) /\ Orderly'
<1>1. /\ call[k].at = "done" /\ call[k].op = "importCard" /\ call' = [call EXCEPT ![k] = Over]
      /\ UNCHANGED <<tabs, selection, rows, strayed>>
  BY DEF CardImported, Answered
<1>2. PICK t, c, s : t = ActiveTab /\ c = Head(call[k].ids) /\ s = Tail(call[k].ids)
  OBVIOUS
<1>3. /\ t \in Tabs \cup {Nothing} /\ c \in Cards /\ s \in Seq(Items)
      /\ Elements(s) \subseteq Items /\ Once(s)
      /\ Elements(call[k].ids) = {c} \cup Elements(s) /\ Nothing \notin Tabs
  BY <1>1, <1>2, Answer, Selected DEF Ids
<1>4. New(k) = {c} \cup Elements(s)
  BY <1>1, <1>3 DEF New, Brings
<1>5. /\ cardsOf' = IF t = Nothing THEN cardsOf ELSE [cardsOf EXCEPT ![t] = Append(@, c)]
      /\ itemsOf' = [itemsOf EXCEPT ![c] = s]
      /\ lost' = IF t = call[k].tab THEN lost ELSE lost \cup {c}
      /\ currentCardId' = currentCardId
  BY <1>2 DEF CardImported, selection
<1>6. \A u \in Tabs : /\ Elements(cardsOf'[u]) = Elements(cardsOf[u]) \cup (IF u = t THEN {c} ELSE {})
                      /\ Once(cardsOf'[u])
  <2>1. CASE t = Nothing
    BY <1>3, <1>5, <2>1 DEF Places, Orderly
  <2>2. CASE t # Nothing
    <3>0. t \in Tabs
      BY <1>3, <2>2
    <3>1. c \notin Elements(cardsOf[t])
      BY <1>3, <1>4, <3>0 DEF Unseen, Referred, OnPage
    <3>2. PICK r : r = cardsOf[t] /\ r \in Seq(Cards) /\ Once(r)
      BY <3>0 DEF BoardTypeOK, Places, Orderly
    <3>3. PICK q : q = Append(r, c) /\ Elements(q) = Elements(r) \cup {c} /\ Once(q)
      BY <1>3, <3>1, <3>2, Appended
    <3>4. cardsOf'[t] = q /\ \A u \in Tabs \ {t} : cardsOf'[u] = cardsOf[u]
      BY <1>5, <2>2, <3>0, <3>2, <3>3 DEF BoardTypeOK
    <3>5. QED BY <3>0, <3>2, <3>3, <3>4 DEF Places, Orderly
  <2>3. QED BY <2>1, <2>2
<1>7. itemsOf'[c] = s /\ \A d \in Cards \ {c} : itemsOf'[d] = itemsOf[d]
  BY <1>3, <1>5 DEF BoardTypeOK
<1>8. ShowsCard(k, t, c, s)
  BY <1>1, <1>2, <1>3, <1>4, <1>5, <1>6, <1>7 DEF ShowsCard
<1>9. Orderly'
  BY <1>1, <1>3, <1>6, <1>7 DEF Places, Orderly
<1>10. QED BY <1>1, <1>8, <1>9, CallCloses DEF Resumed

LEMMA CardRemovedHides ==
    ASSUME BoardTypeOK, Places, NEW k \in Calls, CardRemoved(k), k \notin orphaned
    PROVE  Closes(k) /\ Resumed(k) /\ Orderly'
<1>1. /\ call[k].at = "done" /\ call[k].op = "removeCard" /\ call' = [call EXCEPT ![k] = Over]
      /\ UNCHANGED <<tabs, itemsOf, rows>> /\ currentCardId' = Nothing
  BY DEF CardRemoved, Answered
<1>2. PICK t, c : t = call[k].tab /\ c = call[k].card
  OBVIOUS
<1>3. t \in Tabs /\ c \in Cards /\ Elements(call[k].ids) = {c} /\ New(k) = {}
  BY <1>1, <1>2, Answer DEF New, Brings
<1>4. PICK r : r = cardsOf[t] /\ r \in Seq(Cards) /\ Once(r)
  BY <1>3 DEF BoardTypeOK, Places, Orderly
<1>5. PICK q : q = Seqs!RemoveFirst(r, c) /\ Elements(q) = Elements(r) \ {c} /\ Once(q)
  BY <1>4, Dropped
<1>6. /\ cardsOf' = [cardsOf EXCEPT ![t] = q]
      /\ lost' = IF c \in Elements(cardsOf[t]) THEN lost ELSE lost \cup {c}
  BY <1>2, <1>4, <1>5 DEF CardRemoved
<1>7. cardsOf'[t] = q /\ \A u \in Tabs \ {t} : cardsOf'[u] = cardsOf[u]
  BY <1>3, <1>6 DEF BoardTypeOK
<1>8. HidesCard(k, t, c)
  BY <1>1, <1>2, <1>3, <1>4, <1>5, <1>6, <1>7 DEF HidesCard
<1>9. Orderly'
  BY <1>1, <1>5, <1>7 DEF Places, Orderly
<1>10. QED BY <1>1, <1>8, <1>9, CallCloses DEF Resumed

LEMMA ItemAddedShows ==
    ASSUME BoardTypeOK, Places, Unseen, NEW k \in Calls, ItemAdded(k)
    PROVE  Closes(k) /\ Resumed(k) /\ Orderly'
<1>1. /\ call[k].at = "done" /\ call[k].op = "addItem" /\ call' = [call EXCEPT ![k] = Over]
      /\ UNCHANGED <<tabs, cardsOf, selection, rows, lost>> /\ currentCardId' = currentCardId
  BY DEF ItemAdded, Answered, selection
<1>2. PICK c : c = call[k].card
  OBVIOUS
<1>3. PICK i \in Items : call[k].ids = <<i>> /\ Elements(call[k].ids) = {i}
  BY <1>1, Answer
<1>4. PICK s : s = call[k].ids /\ s \in Seq(Items) /\ Elements(s) = {i} /\ Once(s)
  <2>1. <<i>> \in Seq(Items) /\ Once(<<i>>)
    BY OneElement
  <2>2. QED BY <1>3, <2>1, Zenon
<1>5. c \in Cards /\ New(k) = {i}
  BY <1>1, <1>2, <1>3, Answer DEF New, Brings
<1>6. i \notin Elements(itemsOf[c])
  BY <1>5 DEF Unseen, Referred, OnPage
<1>7. PICK r : r = itemsOf[c] /\ r \in Seq(Items) /\ Once(r)
  BY <1>5 DEF BoardTypeOK, Places, Orderly
<1>8. PICK q : q = r \o s /\ Elements(q) = Elements(r) \cup {i} /\ Once(q)
  <2>1. Elements(r) \cap Elements(s) = {}
    BY <1>4, <1>6, <1>7
  <2>2. Elements(r \o s) = Elements(r) \cup Elements(s) /\ Once(r \o s)
    BY <1>4, <1>7, <2>1, Joined
  <2>3. QED BY <1>4, <2>2
<1>9. itemsOf' = [itemsOf EXCEPT ![c] = q]
  BY <1>2, <1>4, <1>7, <1>8 DEF ItemAdded
<1>10. itemsOf'[c] = q /\ \A d \in Cards \ {c} : itemsOf'[d] = itemsOf[d]
  BY <1>5, <1>9 DEF BoardTypeOK
<1>11. ShowsItem(k, c, i)
  BY <1>1, <1>2, <1>3, <1>5, <1>7, <1>8, <1>10 DEF ShowsItem
<1>12. Orderly'
  BY <1>1, <1>8, <1>10 DEF Places, Orderly
<1>13. QED BY <1>1, <1>11, <1>12, CallCloses DEF Resumed

LEMMA ItemRemovedHides ==
    ASSUME BoardTypeOK, Places, NEW k \in Calls, ItemRemoved(k)
    PROVE  Closes(k) /\ Resumed(k) /\ Orderly'
<1>1. /\ call[k].at = "done" /\ call[k].op = "removeItem" /\ call' = [call EXCEPT ![k] = Over]
      /\ UNCHANGED <<tabs, cardsOf, selection, rows>> /\ currentCardId' = currentCardId
  BY DEF ItemRemoved, Answered, selection
<1>2. PICK c, n : c = call[k].card /\ n = call[k].index
  OBVIOUS
<1>3. PICK i \in Items : call[k].ids = <<i>> /\ Elements(call[k].ids) = {i}
  BY <1>1, Answer
<1>4. c \in Cards /\ n \in Nat /\ New(k) = {}
  BY <1>1, <1>2, Answer DEF New, Brings
<1>5. PICK r : r = itemsOf[c] /\ r \in Seq(Items) /\ Once(r)
  BY <1>4 DEF BoardTypeOK, Places, Orderly
<1>6. PICK x : x = Nth(r, n)
  OBVIOUS
<1>7. PICK q : q = Without(r, n)
  OBVIOUS
<1>8. Nothing \notin Items
  BY DashboardAssumption DEF Ids
<1>9. /\ Elements(q) = Elements(r) \ {x} /\ Once(q)
      /\ x \in Items \cup {Nothing} /\ (x # Nothing => x \in Elements(r))
  <2>1. CASE n + 1 \in 1 .. Len(r)
    <3>1. x = r[n + 1]
      BY <1>5, <1>6, <2>1 DEF Nth
    <3>2. Elements(Without(r, n)) = Elements(r) \ {r[n + 1]}
      BY <1>4, <1>5, <2>1, LeftAt
    <3>3. Once(Without(r, n))
      <4>1. n \in Int
        BY <1>4
      <4>2. QED BY <1>5, <4>1, Left
    <3>4. r[n + 1] \in Items /\ r[n + 1] \in Elements(r)
      BY <1>5, <2>1, ElementsOf
    <3>5. QED BY <1>7, <3>1, <3>2, <3>3, <3>4
  <2>2. CASE n + 1 \notin 1 .. Len(r)
    <3>1. x = Nothing
      BY <1>5, <1>6, <2>2 DEF Nth
    <3>2. q = r
      BY <1>4, <1>5, <1>7, <2>2, LeftOff
    <3>3. Nothing \notin Elements(r)
      BY <1>5, <1>8, ElementsOf
    <3>4. QED BY <1>5, <3>1, <3>2, <3>3
  <2>3. QED BY <2>1, <2>2
<1>10. /\ itemsOf' = [itemsOf EXCEPT ![c] = q]
       /\ lost' = IF call[k].ids = <<x>> THEN lost
                  ELSE lost \cup ({x} \ {Nothing}) \cup Elements(call[k].ids)
  BY <1>2, <1>5, <1>6, <1>7 DEF ItemRemoved
<1>11. itemsOf'[c] = q /\ \A d \in Cards \ {c} : itemsOf'[d] = itemsOf[d]
  BY <1>4, <1>10 DEF BoardTypeOK
<1>12. \/ Elements(call[k].ids) = {x} /\ x \in Elements(itemsOf[c]) /\ lost' = lost
       \/ lost' = lost \cup ({x} \ {Nothing}) \cup Elements(call[k].ids)
  <2>1. CASE call[k].ids = <<x>>
    <3>1. Elements(<<x>>) = {x}
      BY OneElement
    <3>2. Elements(call[k].ids) = {x}
      BY <2>1, <3>1, Zenon
    <3>3. lost' = lost
      BY <1>10, <2>1, Zenon
    <3>4. x = i /\ i # Nothing
      BY <1>3, <1>8, <3>2
    <3>5. QED BY <1>5, <1>9, <3>2, <3>3, <3>4
  <2>2. CASE call[k].ids # <<x>>
    BY <1>10, <2>2, Zenon
  <2>3. QED BY <2>1, <2>2
<1>13. HidesItem(k, c, x)
  BY <1>1, <1>2, <1>4, <1>5, <1>9, <1>11, <1>12 DEF HidesItem
<1>14. Orderly'
  BY <1>1, <1>9, <1>11 DEF Places, Orderly
<1>15. QED BY <1>1, <1>13, <1>14, CallCloses DEF Resumed

LEMMA AsideDrops ==
    ASSUME BoardTypeOK, Places, NEW k \in Calls,
           CardCreatedAside(k) \/ ItemsAside(k) \/ (CardRemoved(k) /\ k \in orphaned)
    PROVE  Closes(k) /\ Drops(k) /\ Orderly'
<1>1. CASE CardCreatedAside(k)
  <2>1. /\ call[k].at \in {"done", "twin"} /\ call[k].op = "createCard"
        /\ k \in orphaned /\ call' = [call EXCEPT ![k] = Over]
        /\ UNCHANGED <<objects, rows>> /\ currentCardId' = Head(call[k].ids)
    BY <1>1 DEF CardCreatedAside, Aside
  <2>2. currentCardId' \in Elements(call[k].ids)
    BY <2>1, Answer
  <2>3. QED BY <2>1, <2>2, CallCloses DEF Drops, Orderly, Places, objects
<1>2. CASE ItemsAside(k)
  <2>1. /\ call[k].at \in {"done", "twin"} /\ k \in orphaned /\ call' = [call EXCEPT ![k] = Over]
        /\ UNCHANGED <<objects, rows>> /\ currentCardId' = currentCardId
    BY <1>2 DEF ItemsAside, Aside, selection
  <2>2. QED BY <2>1, CallCloses DEF Drops, Orderly, Places, objects
<1>3. CASE CardRemoved(k) /\ k \in orphaned
  <2>1. /\ call[k].at = "done" /\ call' = [call EXCEPT ![k] = Over]
        /\ UNCHANGED <<objects, rows>> /\ currentCardId' = Nothing
    BY <1>3 DEF CardRemoved, Answered, objects
  <2>2. QED BY <1>3, <2>1, CallCloses DEF Drops, Orderly, Places, objects
<1>4. QED BY <1>1, <1>2, <1>3

LEMMA Resumes ==
    ASSUME BoardTypeOK, Places, Unseen, Bare, NEW k \in Calls, Resume(k)
    PROVE  Closes(k) /\ (Resumed(k) \/ Drops(k)) /\ Orderly'
<1>1. CASE TabRemoved(k) \/ Failed(k)
  <2>1. /\ call[k].at = "failed" \/ (call[k].at = "done" /\ call[k].op = "removeTab")
        /\ call' = [call EXCEPT ![k] = Over] /\ UNCHANGED <<objects, selection, rows, lost>>
    BY <1>1 DEF TabRemoved, Answered, Failed
  <2>2. Settles(k)
    BY <2>1 DEF Settles, New, Brings, selection
  <2>3. Orderly'
    BY <2>1 DEF Orderly, Places, objects
  <2>4. QED BY <2>1, <2>2, <2>3, CallCloses DEF Resumed
<1>2. QED BY <1>1, TabAddedShows, CardCreatedShows, CardImportedShows, CardRemovedHides,
             ItemAddedShows, ItemRemovedHides, AsideDrops DEF Resume

-----------------------------------------------------------------------------
(* A row is known before the page shows it, and is shown in one place.      *)

LEMMA Refers ==
    ASSUME NEW k, \A j \in Calls \ {k} : call'[j] = call[j],
           NEW x, Referred(x)'
    PROVE  OnPage(x)' \/ Referred(x) \/ (k \in Calls /\ Names(k, x)')
<1>1. OnPage(x)' \/ \E j \in Calls : Names(j, x)'
  BY DEF Referred
<1>2. CASE OnPage(x)'
  BY <1>2
<1>3. ASSUME NEW j \in Calls, Names(j, x)'
      PROVE  Referred(x) \/ (k \in Calls /\ Names(k, x)')
  <2>1. CASE j = k
    BY <1>3, <2>1
  <2>2. CASE j # k
    <3>1. Names(j, x)
      BY <1>3, <2>2, Unmoved
    <3>2. QED BY <3>1 DEF Referred
  <2>3. QED BY <2>1, <2>2
<1>4. QED BY <1>1, <1>2, <1>3

LEMMA OnSamePage ==
    ASSUME UNCHANGED <<objects, currentCardId>>
    PROVE  \A x : OnPage(x)' => OnPage(x)
BY DEF OnPage, objects

\* The server gives out new ids,
Stores(k, x, s) ==
    /\ Replied(k, <<x>> \o s)
    /\ TabStored(k, x, s) \/ CardStored(k, x, s) \/ (s = <<>> /\ ItemStored(k, x))
    /\ issued' = issued \cup {x} \cup Elements(s)
    /\ {x} \cup Elements(s) \subseteq Ids \ issued
    /\ Elements(<<x>> \o s) = {x} \cup Elements(s)
    /\ Head(<<x>> \o s) = x /\ Tail(<<x>> \o s) = s

\* takes rows away,
Deletes(k) ==
    /\ Replied(k, call[k].ids)
    /\ TabDeleted(k) \/ CardDeleted(k) \/ ItemDeleted(k)
    /\ tabOf' \in [Cards -> Tabs \cup {Nothing}]
    /\ cardOf' \in [Items -> Cards \cup {Nothing}]
    /\ issued' = issued

\* or refuses.
Refuses(k) ==
    /\ call[k].at = "sent" /\ call'[k].at = "failed"
    /\ call'[k].op = call[k].op /\ call'[k].tab = call[k].tab /\ call'[k].card = call[k].card
    /\ call'[k].ids = call[k].ids
    /\ \A j \in Calls \ {k} : call'[j] = call[j]
    /\ UNCHANGED <<objects, selection, rows, lost>>

LEMMA ServerAnswers ==
    ASSUME BoardTypeOK, NEW k \in Calls, Server(k)
    PROVE  (\E x, s : Stores(k, x, s)) \/ Deletes(k) \/ Refuses(k)
<1>1. ASSUME NEW arrives \in BOOLEAN, ServeAdd(k, arrives) PROVE \E x, s : Stores(k, x, s)
  <2>1. PICK x \in Ids \ issued, s \in Seq(Ids) :
            /\ Replied(k, <<x>> \o s)
            /\ TabStored(k, x, s) \/ CardStored(k, x, s) \/ (s = <<>> /\ ItemStored(k, x))
            /\ issued' = issued \cup {x} \cup Elements(s)
    BY <1>1, AddServed
  <2>2. s = <<>> \/ \E y \in Ids \ issued : s = <<y>>
    BY <2>1 DEF TabStored, CardStored, Ids
  <2>3. /\ Head(<<x>> \o s) = x /\ Tail(<<x>> \o s) = s
        /\ Elements(<<x>> \o s) = {x} \cup Elements(s)
    BY <2>2, Pair
  <2>4. Elements(s) \subseteq Ids \ issued
    BY <2>2, NoElements, OneElement
  <2>5. Stores(k, x, s)
    BY <2>1, <2>3, <2>4 DEF Stores
  <2>6. QED BY <2>5
<1>2. ASSUME NEW arrives \in BOOLEAN, ServeRemove(k, arrives) PROVE Deletes(k)
  BY <1>2, RemovalServed DEF Deletes
<1>3. CASE Refuse(k)
  <2>1. call[k] \in CallRecord /\ call[k].at = "sent" /\ call' = [call EXCEPT ![k].at = "failed"]
        /\ UNCHANGED <<objects, selection, rows, lost>>
    BY <1>3, CallType DEF Refuse
  <2>2. /\ call'[k].at = "failed" /\ call'[k].op = call[k].op /\ call'[k].tab = call[k].tab
        /\ call'[k].card = call[k].card /\ call'[k].ids = call[k].ids
        /\ \A j \in Calls \ {k} : call'[j] = call[j]
    BY <2>1 DEF BoardTypeOK, CallRecord
  <2>3. QED BY <2>1, <2>2 DEF Refuses
<1>4. QED BY <1>1, <1>2, <1>3 DEF Server

LEMMA StoresLearns ==
    ASSUME BoardTypeOK, NEW k \in Calls, NEW x, NEW s, Stores(k, x, s)
    PROVE  Learns(k, {x} \cup Elements(s))
<1> DEFINE F == {x} \cup Elements(s)
<1>1. /\ call[k].at = "sent" /\ call'[k].at \in {"done", "failed"}
      /\ call'[k].op = call[k].op /\ call'[k].tab = call[k].tab /\ call'[k].card = call[k].card
      /\ Elements(call'[k].ids) = F
      /\ \A j \in Calls \ {k} : call'[j] = call[j]
      /\ UNCHANGED <<objects, selection>>
      /\ F \subseteq Ids \ issued /\ issued' = issued \cup F
      /\ call[k].op \in {"addTab", "createCard", "importCard", "addItem"}
  BY DEF Stores, Replied, TabStored, CardStored, ItemStored
<1> HIDE DEF F
<1>2. UNCHANGED <<objects, currentCardId>> /\ itemsOf' = itemsOf
  BY <1>1 DEF selection, objects
<1>3. CASE call'[k].at = "done"
  <2>1. New(k)' = F /\ \A y : Names(k, y)' => Names(k, y)
    BY <1>1, <1>3 DEF New, Brings, Names
  <2>2. \A y \in Ids : Referred(y)' => Referred(y)
    BY <1>1, <1>2, <2>1, Refers, OnSamePage DEF Referred
  <2>3. QED BY <1>1, <1>2, <2>1, <2>2, Unmoved DEF Learns, F
<1>4. CASE call'[k].at = "failed"
  <2>1. New(k)' = {} /\ \A y : Names(k, y)' => Names(k, y) \/ y \in F
    BY <1>1, <1>4 DEF New, Brings, Names
  <2>2. \A y \in Ids : Referred(y)' => Referred(y) \/ y \in F
    BY <1>1, <1>2, <2>1, Refers, OnSamePage DEF Referred
  <2>3. QED BY <1>1, <1>2, <2>1, <2>2, Unmoved DEF Learns, F
<1>5. QED BY <1>1, <1>3, <1>4

LEMMA OthersLearn ==
    ASSUME BoardTypeOK, NEW k \in Calls, Asks(k) \/ Deletes(k) \/ Refuses(k)
    PROVE  Learns(k, {})
<1>1. CASE Asks(k)
  <2>1. /\ New(k) = {} /\ New(k)' = {} /\ \A j \in Calls \ {k} : call'[j] = call[j]
        /\ issued' = issued /\ itemsOf' = itemsOf
    BY <1>1 DEF Asks, New, Brings, rows
  <2>2. \A x \in Ids : OnPage(x)' => OnPage(x)
    BY <1>1, DashboardAssumption DEF Asks, OnPage
  <2>3. \A x \in Ids : Names(k, x)' => OnPage(x)
    BY <1>1 DEF Asks
  <2>4. \A x \in Ids : Referred(x)' => Referred(x)
    BY <2>1, <2>2, <2>3, Refers DEF Referred
  <2>5. QED BY <2>1, <2>4, Unmoved DEF Learns
<1>2. CASE Deletes(k) \/ Refuses(k)
  <2>1. /\ call[k].at = "sent" /\ call'[k].at \in {"done", "failed"}
        /\ call'[k].op = call[k].op /\ call'[k].tab = call[k].tab /\ call'[k].card = call[k].card
        /\ call'[k].ids = call[k].ids
        /\ \A j \in Calls \ {k} : call'[j] = call[j]
        /\ UNCHANGED <<objects, selection>> /\ issued' = issued
    BY <1>2 DEF Deletes, Refuses, Replied, rows
  <2>2. call'[k].at = "done" => call[k].op \in {"removeTab", "removeCard", "removeItem"}
    BY <1>2, <2>1 DEF Deletes, Refuses, TabDeleted, CardDeleted, ItemDeleted
  <2>3. UNCHANGED <<objects, currentCardId>> /\ itemsOf' = itemsOf
    BY <2>1 DEF selection, objects
  <2>4. New(k) = {} /\ New(k)' = {} /\ \A x : Names(k, x)' => Names(k, x)
    BY <2>1, <2>2 DEF New, Brings, Names
  <2>5. \A x \in Ids : Referred(x)' => Referred(x)
    BY <2>1, <2>3, <2>4, Refers, OnSamePage DEF Referred
  <2>6. QED BY <2>1, <2>3, <2>4, <2>5, Unmoved DEF Learns
<1>3. QED BY <1>1, <1>2

LEMMA LooksLearns ==
    ASSUME BoardTypeOK, Looks
    PROVE  Learns(Nothing, {})
<1>1. /\ call' = call /\ issued' = issued
      /\ \A c \in Cards : Elements(itemsOf'[c]) = Elements(itemsOf[c])
  BY DEF Looks, rows
<1>2. \A x : OnPage(x)' => OnPage(x)
  BY DEF Looks, OnPage
<1>3. \A x : \A j \in Calls : Names(j, x)' => Names(j, x)
  BY <1>1 DEF Names, Brings
<1>4. \A x : Referred(x)' => Referred(x)
  BY <1>2, <1>3 DEF Referred
<1>5. \A j : New(j)' = New(j)
  BY <1>1 DEF New, Brings
<1>6. QED BY <1>1, <1>4, <1>5 DEF Learns

\* What a call shows is of its answer.
LEMMA ResumesLearn ==
    ASSUME BoardTypeOK, NEW k \in Calls, Closes(k), Resumed(k) \/ Drops(k)
    PROVE  Learns(k, {})
<1>1. /\ \A j \in Calls \ {k} : call'[j] = call[j]
      /\ New(k)' = {} /\ \A x \in Ids : ~Names(k, x)'
      /\ issued' = issued
  BY DEF Closes, rows
<1>2. /\ \A x \in Ids : OnPage(x)' => Referred(x) \/ x \in New(k)
      /\ \A c \in Cards : Elements(itemsOf'[c]) # {} =>
             Elements(itemsOf[c]) # {} \/ Referred(c) \/ c \in New(k)
  <2>0. Nothing \notin Ids
    BY DashboardAssumption
  <2>1. ASSUME NEW t, NEW s, ShowsTab(k, t, s)
        PROVE  \A x \in Ids : OnPage(x)' => OnPage(x) \/ x \in New(k)
    BY <2>0, <2>1 DEF ShowsTab, OnPage
  <2>2. ASSUME NEW t, NEW c, NEW s, ShowsCard(k, t, c, s)
        PROVE  \A x \in Ids : OnPage(x)' => OnPage(x) \/ x \in New(k)
    BY <2>0, <2>2 DEF ShowsCard, OnPage
  <2>3. ASSUME NEW c, NEW i, ShowsItem(k, c, i)
        PROVE  \A x \in Ids : OnPage(x)' => OnPage(x) \/ x \in New(k)
    BY <2>3 DEF ShowsItem, OnPage
  <2>4. ASSUME NEW t, NEW c, HidesCard(k, t, c)
        PROVE  \A x \in Ids : OnPage(x)' => OnPage(x) \/ x \in New(k)
    BY <2>0, <2>4 DEF HidesCard, OnPage
  <2>5. ASSUME NEW c, NEW x, HidesItem(k, c, x)
        PROVE  \A y \in Ids : OnPage(y)' => OnPage(y) \/ y \in New(k)
    BY <2>5 DEF HidesItem, OnPage
  <2>6. ASSUME Settles(k)
        PROVE  \A x \in Ids : OnPage(x)' => OnPage(x) \/ x \in New(k)
    BY <2>6, OnSamePage DEF Settles
  <2>7. \A c \in Cards : Elements(itemsOf'[c]) # {} =>
            Elements(itemsOf[c]) # {} \/ Referred(c) \/ c \in New(k)
    <3>1. ASSUME NEW c, NEW i, ShowsItem(k, c, i)
          PROVE  Referred(c) /\ \A d \in Cards \ {c} : itemsOf'[d] = itemsOf[d]
      BY <3>1 DEF ShowsItem, Referred, Names
    <3>2. ASSUME NEW t, NEW c, NEW s, ShowsCard(k, t, c, s)
          PROVE  c \in New(k) /\ \A d \in Cards \ {c} : itemsOf'[d] = itemsOf[d]
      BY <3>2 DEF ShowsCard
    <3>3. ASSUME NEW c, NEW x, HidesItem(k, c, x)
          PROVE  \A d \in Cards : Elements(itemsOf'[d]) \subseteq Elements(itemsOf[d])
      BY <3>3 DEF HidesItem
    <3>4. ASSUME \/ \E t, s : ShowsTab(k, t, s)
                 \/ \E t, c : HidesCard(k, t, c)
                 \/ Settles(k)
                 \/ Drops(k)
          PROVE  itemsOf' = itemsOf
      BY <3>4 DEF ShowsTab, HidesCard, Settles, Drops, objects
    <3>5. QED BY <3>1, <3>2, <3>3, <3>4 DEF Resumed
  <2>8. ASSUME Drops(k)
        PROVE  \A x \in Ids : OnPage(x)' => Referred(x) \/ x \in New(k)
    <3>1. \A x \in Elements(call[k].ids) : x \in New(k) \/ Names(k, x)
      BY DEF New, Names
    <3>2. UNCHANGED objects
          /\ (currentCardId' \in {currentCardId, Nothing} \/ currentCardId' \in Elements(call[k].ids))
      BY <2>8 DEF Drops
    <3>3. ASSUME NEW x \in Ids, OnPage(x)' PROVE OnPage(x) \/ x \in Elements(call[k].ids)
      BY <2>0, <3>2, <3>3 DEF OnPage, objects
    <3>4. QED BY <3>1, <3>3 DEF Referred
  <2>9. ASSUME Resumed(k)
        PROVE  \A x \in Ids : OnPage(x)' => OnPage(x) \/ x \in New(k)
    BY <2>1, <2>2, <2>3, <2>4, <2>5, <2>6, <2>9 DEF Resumed
  <2>10. QED BY <2>7, <2>8, <2>9 DEF Referred
<1>3. ASSUME NEW x \in Ids, Referred(x)' PROVE Referred(x) \/ x \in New(k)
  <2>1. OnPage(x)' \/ Referred(x)
    BY <1>1, <1>3, Refers
  <2>2. QED BY <1>2, <2>1 DEF Referred
<1>4. \A j \in Calls \ {k} : New(j)' = New(j)
  BY <1>1, Unmoved
<1>5. QED BY <1>1, <1>2, <1>3, <1>4 DEF Learns

\* What the tables hold is known.
RowsKnown ==
    /\ savedTabs \subseteq issued
    /\ \A c \in Cards : tabOf[c] # Nothing => c \in issued /\ tabOf[c] \in savedTabs
    /\ \A i \in Items : cardOf[i] # Nothing => i \in issued /\ tabOf[cardOf[i]] # Nothing

LEMMA RowsStored ==
    ASSUME BoardTypeOK, RowsKnown, NEW k \in Calls, NEW x, NEW s, Stores(k, x, s)
    PROVE  RowsKnown'
<1>0. /\ issued' = issued \cup {x} \cup Elements(s) /\ Nothing \notin Ids
      /\ Tabs \subseteq Ids /\ Cards \subseteq Ids /\ Items \subseteq Ids
      /\ x \notin issued /\ \A y \in Elements(s) : y \notin issued
  BY DashboardAssumption DEF Stores, Ids
<1>1. CASE TabStored(k, x, s)
  <2>1. /\ \A c \in Cards : tabOf'[c] = IF c \in Elements(s) THEN x ELSE tabOf[c]
        /\ cardOf' = cardOf /\ savedTabs' = savedTabs \cup {x} /\ x \in Tabs
    BY <1>1 DEF TabStored
  <2>2. \A i \in Items : cardOf[i] \in Cards \cup {Nothing}
    BY DEF BoardTypeOK
  <2>3. QED BY <1>0, <2>1, <2>2 DEF RowsKnown
<1>2. CASE CardStored(k, x, s)
  <2>1. /\ \A i \in Items : cardOf'[i] = IF i \in Elements(s) THEN x ELSE cardOf[i]
        /\ tabOf'[x] = call[k].tab /\ \A c \in Cards \ {x} : tabOf'[c] = tabOf[c]
    BY <1>2 DEF CardStored, BoardTypeOK
  <2>2. savedTabs' = savedTabs /\ call[k].tab \in savedTabs /\ x \in Cards /\ call[k].tab # Nothing
    BY <1>0, <1>2 DEF CardStored, BoardTypeOK
  <2>3. \A i \in Items : cardOf[i] \in Cards \cup {Nothing}
    BY DEF BoardTypeOK
  <2>4. QED BY <1>0, <2>1, <2>2, <2>3 DEF RowsKnown
<1>3. CASE ItemStored(k, x)
  <2>1. /\ cardOf'[x] = call[k].card /\ \A i \in Items \ {x} : cardOf'[i] = cardOf[i]
    BY <1>3 DEF ItemStored, BoardTypeOK
  <2>2. UNCHANGED <<savedTabs, tabOf>> /\ tabOf[call[k].card] # Nothing
    BY <1>3 DEF ItemStored
  <2>3. QED BY <1>0, <2>1, <2>2 DEF RowsKnown
<1>4. QED BY <1>1, <1>2, <1>3 DEF Stores

LEMMA RowsDeleted ==
    ASSUME BoardTypeOK, RowsKnown, NEW k \in Calls, Deletes(k)
    PROVE  RowsKnown'
<1>1. issued' = issued /\ \A i \in Items : cardOf[i] \in Cards \cup {Nothing}
  BY DEF Deletes, BoardTypeOK
<1>2. CASE TabDeleted(k)
  BY <1>1, <1>2 DEF RowsKnown, TabDeleted
<1>3. CASE CardDeleted(k)
  BY <1>1, <1>3 DEF RowsKnown, CardDeleted
<1>4. CASE ItemDeleted(k)
  BY <1>1, <1>4 DEF RowsKnown, ItemDeleted
<1>5. QED BY <1>2, <1>3, <1>4 DEF Deletes

\* The cards of a tab are of no other, and the items of a card.
LEMMA ApartKept ==
    ASSUME Places, Unseen, NEW k \in Calls, Resumed(k)
    PROVE  /\ \A t, u \in Tabs : Elements(cardsOf'[t]) \cap Elements(cardsOf'[u]) # {} => t = u
           /\ \A c, d \in Cards : Elements(itemsOf'[c]) \cap Elements(itemsOf'[d]) # {} => c = d
<1>1. /\ \A t, u \in Tabs : Elements(cardsOf[t]) \cap Elements(cardsOf[u]) # {} => t = u
      /\ \A c, d \in Cards : Elements(itemsOf[c]) \cap Elements(itemsOf[d]) # {} => c = d
  BY DEF Places
<1>2. \A x \in New(k) : /\ \A t \in Tabs : x \notin Elements(cardsOf[t])
                        /\ \A c \in Cards : x \notin Elements(itemsOf[c])
  BY DEF Unseen, Referred, OnPage
<1>3. ASSUME NEW t, NEW s, ShowsTab(k, t, s)
      PROVE  /\ \A u, v \in Tabs : Elements(cardsOf'[u]) \cap Elements(cardsOf'[v]) # {} => u = v
             /\ itemsOf' = itemsOf
  <2>1. /\ \A x \in Elements(s) : \A u \in Tabs : x \notin Elements(cardsOf[u])
        /\ Elements(cardsOf'[t]) = Elements(s) /\ \A u \in Tabs \ {t} : cardsOf'[u] = cardsOf[u]
    BY <1>2, <1>3 DEF ShowsTab
  <2>2. QED BY <1>1, <1>3, <2>1 DEF ShowsTab
<1>4. ASSUME NEW t, NEW c, NEW s, ShowsCard(k, t, c, s)
      PROVE  /\ \A u, v \in Tabs : Elements(cardsOf'[u]) \cap Elements(cardsOf'[v]) # {} => u = v
             /\ \A d, e \in Cards : Elements(itemsOf'[d]) \cap Elements(itemsOf'[e]) # {} => d = e
  <2>1. /\ c \in New(k) /\ Elements(s) \subseteq New(k)
        /\ \A u \in Tabs : Elements(cardsOf'[u]) = Elements(cardsOf[u]) \cup (IF u = t THEN {c} ELSE {})
        /\ Elements(itemsOf'[c]) = Elements(s)
        /\ \A d \in Cards \ {c} : itemsOf'[d] = itemsOf[d]
    BY <1>4 DEF ShowsCard
  <2>2. \A u, v \in Tabs : Elements(cardsOf'[u]) \cap Elements(cardsOf'[v]) # {} => u = v
    BY <1>1, <1>2, <2>1
  <2>3. \A d, e \in Cards : Elements(itemsOf'[d]) \cap Elements(itemsOf'[e]) # {} => d = e
    BY <1>1, <1>2, <2>1
  <2>4. QED BY <2>2, <2>3
<1>5. ASSUME NEW c, NEW i, ShowsItem(k, c, i)
      PROVE  /\ cardsOf' = cardsOf
             /\ \A d, e \in Cards : Elements(itemsOf'[d]) \cap Elements(itemsOf'[e]) # {} => d = e
  BY <1>1, <1>2, <1>5 DEF ShowsItem
<1>6. ASSUME NEW t, NEW c, HidesCard(k, t, c)
      PROVE  /\ \A u \in Tabs : Elements(cardsOf'[u]) \subseteq Elements(cardsOf[u])
             /\ itemsOf' = itemsOf
  BY <1>6 DEF HidesCard
<1>7. ASSUME NEW c, NEW x, HidesItem(k, c, x)
      PROVE  /\ \A d \in Cards : Elements(itemsOf'[d]) \subseteq Elements(itemsOf[d])
             /\ cardsOf' = cardsOf
  BY <1>7 DEF HidesItem
<1>8. CASE Settles(k)
  BY <1>1, <1>8 DEF Settles, objects
<1>9. CASE \E t, s : ShowsTab(k, t, s)
  BY <1>1, <1>3, <1>9
<1>10. CASE \E t, c, s : ShowsCard(k, t, c, s)
  BY <1>4, <1>10
<1>11. CASE \E c, i : ShowsItem(k, c, i)
  BY <1>1, <1>5, <1>11
<1>12. CASE \E t, c : HidesCard(k, t, c)
  <2>1. /\ \A u \in Tabs : Elements(cardsOf'[u]) \subseteq Elements(cardsOf[u])
        /\ itemsOf' = itemsOf
    BY <1>6, <1>12
  <2>2. QED BY <1>1, <2>1
<1>13. CASE \E c, x : HidesItem(k, c, x)
  <2>1. /\ \A d \in Cards : Elements(itemsOf'[d]) \subseteq Elements(itemsOf[d])
        /\ cardsOf' = cardsOf
    BY <1>7, <1>13
  <2>2. QED BY <1>1, <2>1
<1>14. QED BY <1>8, <1>9, <1>10, <1>11, <1>12, <1>13 DEF Resumed

\* The four kinds of steps.
BoardStep ==
    \/ Looks
    \/ \E k \in Calls : \/ Asks(k)
                        \/ (\E x, s : Stores(k, x, s)) \/ Deletes(k) \/ Refuses(k)
                        \/ Closes(k) /\ Resumed(k)

\* Between two loads; and the request of one, until its answer is applied.
Edits == UserAct \/ \E k \in Calls : UserCall(k) \/ Server(k) \/ Resume(k)
Fetches == Load \/ ReadTabs \/ ReadCards \/ ReadItems \/ LoadFails
DropStep == \E k \in Calls : Closes(k) /\ Drops(k)

LEMMA PageSteps ==
    ASSUME PageInv, Edits
    PROVE  (BoardStep \/ DropStep) /\ BoardTypeOK' /\ Orderly'
<1>0. BoardTypeOK /\ Places /\ Unseen /\ Bare /\ Orderly
  BY DEF PageInv, Places
<1>1. CASE UserAct
  BY <1>0, <1>1, ActLooks, UserActTypes DEF BoardStep
<1>2. ASSUME NEW k \in Calls, UserCall(k) PROVE (BoardStep \/ DropStep) /\ BoardTypeOK' /\ Orderly'
  BY <1>0, <1>2, CallAsks, UserCallTypes DEF BoardStep
<1>3. ASSUME NEW k \in Calls, Server(k) PROVE (BoardStep \/ DropStep) /\ BoardTypeOK' /\ Orderly'
  <2>1. (\E x, s : Stores(k, x, s)) \/ Deletes(k) \/ Refuses(k)
    BY <1>0, <1>3, ServerAnswers
  <2>2. UNCHANGED objects
    BY <2>1 DEF Stores, Deletes, Refuses, Replied
  <2>3. Orderly'
    BY <1>0, <2>2 DEF Orderly, objects
  <2>4. QED BY <1>0, <1>3, <2>1, <2>3, ServerTypes DEF BoardStep
<1>4. ASSUME NEW k \in Calls, Resume(k) PROVE (BoardStep \/ DropStep) /\ BoardTypeOK' /\ Orderly'
  BY <1>0, <1>4, Resumes, ResumeTypes DEF BoardStep, DropStep
<1>5. QED BY <1>1, <1>2, <1>3, <1>4 DEF Edits

LEMMA PageKept ==
    ASSUME PageInv, Edits
    PROVE  PageInv'
<1>0. /\ BoardTypeOK /\ Known /\ Places /\ Unseen /\ Bare /\ RowsKnown
      /\ (BoardStep \/ DropStep) /\ BoardTypeOK' /\ Orderly'
  BY PageSteps DEF PageInv, Known, RowsKnown
<1>1. \E k, F : Learns(k, F)
  BY <1>0, StoresLearns, OthersLearn, LooksLearns, ResumesLearn DEF BoardStep, DropStep
<1>2. /\ \A x \in Ids : Referred(x)' \/ (\E j \in Calls : x \in New(j)') => x \in issued'
      /\ Unseen' /\ Bare'
  BY <1>0, <1>1, Learned
<1>3. RowsKnown'
  <2>1. ASSUME UNCHANGED rows PROVE RowsKnown'
    BY <1>0, <2>1 DEF RowsKnown, rows
  <2>2. Looks \/ (\E k \in Calls : Asks(k) \/ Refuses(k) \/ Closes(k)) => UNCHANGED rows
    BY DEF Looks, Asks, Refuses, Closes, rows
  <2>3. QED BY <1>0, <2>1, <2>2, RowsStored, RowsDeleted DEF BoardStep, DropStep
<1>4. Places'
  <2>0. /\ \A t, u \in Tabs : Elements(cardsOf[t]) \cap Elements(cardsOf[u]) # {} => t = u
        /\ \A c, d \in Cards : Elements(itemsOf[c]) \cap Elements(itemsOf[d]) # {} => c = d
    BY <1>0 DEF Places
  <2>1. CASE \E k \in Calls : Closes(k) /\ Resumed(k)
    BY <1>0, <2>1, ApartKept DEF Places
  <2>2. CASE Looks
    BY <1>0, <2>0, <2>2 DEF Looks, Places
  <2>3. ASSUME NEW k \in Calls,
               Asks(k) \/ (\E x, s : Stores(k, x, s)) \/ Deletes(k) \/ Refuses(k) \/ Drops(k)
        PROVE  UNCHANGED <<cardsOf, itemsOf>>
    BY <2>3 DEF Asks, Stores, Deletes, Refuses, Drops, Replied, objects
  <2>4. CASE UNCHANGED <<cardsOf, itemsOf>>
    BY <1>0, <2>0, <2>4 DEF Places
  <2>5. QED BY <1>0, <2>1, <2>2, <2>3, <2>4 DEF BoardStep, DropStep
<1>5. Known'
  BY <1>2, <1>3 DEF Known, RowsKnown
<1>6. QED BY <1>0, <1>2, <1>4, <1>5 DEF PageInv

LEMMA Holders ==
    ASSUME NEW S, NEW f, DOMAIN f = S, Nothing \notin S,
           \A t, u \in S : Elements(f[t]) \cap Elements(f[u]) # {} => t = u,
           NEW x
    PROVE  /\ HolderOf(x, f) \in S \cup {Nothing}
           /\ \A t \in S : HolderOf(x, f) = t <=> x \in Elements(f[t])
<1>1. CASE \E t \in S : x \in Elements(f[t])
  <2>1. HolderOf(x, f) = CHOOSE t \in S : x \in Elements(f[t])
    BY <1>1 DEF HolderOf
  <2>2. PICK h \in S : h = HolderOf(x, f) /\ x \in Elements(f[h])
    BY <1>1, <2>1
  <2>3. QED BY <2>2
<1>2. CASE ~ \E t \in S : x \in Elements(f[t])
  <2>1. HolderOf(x, f) = Nothing
    BY <1>2 DEF HolderOf
  <2>2. QED BY <1>2, <2>1
<1>3. QED BY <1>1, <1>2

\* The dashboard that was fetched.
LEMMA BoardStarts ==
    ASSUME BoardInit
    PROVE  SelectionInv /\ LoadInv /\ ShowsInv
<1>0. /\ Nothing \notin Tabs /\ Nothing \notin Cards /\ Nothing \notin Items /\ Nothing \notin Ids
      /\ Tabs \subseteq Ids /\ Cards \subseteq Ids /\ Items \subseteq Ids
      /\ Shown \in Seq(Tabs) /\ CardsShown \in [Tabs -> Seq(Cards)]
      /\ ItemsShown \in [Cards -> Seq(Items)]
  BY DashboardAssumption DEF Ids
<1>1. /\ tabs = Shown /\ cardsOf = CardsShown /\ itemsOf = ItemsShown /\ activeTabIdx = 0
      /\ activeCard = (IF ActiveCards = <<>> THEN -1 ELSE 0) /\ currentCardId = FormCard
      /\ savedTabs = Elements(tabs) /\ strayed = FALSE /\ lost = {}
      /\ issued = savedTabs \cup {c \in Cards : tabOf[c] # Nothing}
                      \cup {i \in Items : cardOf[i] # Nothing}
  BY DEF BoardInit
<1>2. \A c \in Cards : /\ tabOf[c] \in Tabs \cup {Nothing}
                       /\ \A t \in Tabs : tabOf[c] = t <=> c \in Elements(cardsOf[t])
  <2>1. \A c \in Cards : tabOf[c] = HolderOf(c, CardsShown)
    BY DEF BoardInit
  <2>2. ASSUME NEW c \in Cards
        PROVE  /\ HolderOf(c, CardsShown) \in Tabs \cup {Nothing}
               /\ \A t \in Tabs : HolderOf(c, CardsShown) = t <=> c \in Elements(CardsShown[t])
    <3>1. /\ DOMAIN CardsShown = Tabs
          /\ \A t, u \in Tabs : Elements(CardsShown[t]) \cap Elements(CardsShown[u]) # {} => t = u
      BY DashboardAssumption
    <3>2. Nothing \notin Tabs
      BY <1>0
    <3>3. QED BY <3>1, <3>2, Holders
  <2>3. QED BY <1>1, <2>1, <2>2
<1>3. \A i \in Items : /\ cardOf[i] \in Cards \cup {Nothing}
                       /\ \A c \in Cards : cardOf[i] = c <=> i \in Elements(itemsOf[c])
  <2>1. \A i \in Items : cardOf[i] = HolderOf(i, ItemsShown)
    BY DEF BoardInit
  <2>2. ASSUME NEW i \in Items
        PROVE  /\ HolderOf(i, ItemsShown) \in Cards \cup {Nothing}
               /\ \A c \in Cards : HolderOf(i, ItemsShown) = c <=> i \in Elements(ItemsShown[c])
    <3>1. /\ DOMAIN ItemsShown = Cards
          /\ \A c, d \in Cards : Elements(ItemsShown[c]) \cap Elements(ItemsShown[d]) # {} => c = d
      BY DashboardAssumption
    <3>2. Nothing \notin Cards
      BY <1>0
    <3>3. QED BY <3>1, <3>2, Holders
  <2>3. QED BY <1>1, <2>1, <2>2
<1>4. /\ Elements(tabs) \subseteq Tabs
      /\ \A t \in Tabs : cardsOf[t] \in Seq(Cards) /\ Elements(cardsOf[t]) \subseteq Cards
                         /\ (Elements(cardsOf[t]) # {} => t \in Elements(tabs))
      /\ \A c \in Cards : itemsOf[c] \in Seq(Items) /\ Elements(itemsOf[c]) \subseteq Items
                          /\ (Elements(itemsOf[c]) # {} => \E t \in Tabs : c \in Elements(cardsOf[t]))
  <2>1. \A t \in Tabs : CardsShown[t] \in Seq(Cards) /\ (CardsShown[t] # <<>> => t \in Elements(Shown))
    BY DashboardAssumption
  <2>2. \A c \in Cards : ItemsShown[c] \in Seq(Items)
                         /\ (ItemsShown[c] # <<>> => \E t \in Tabs : c \in Elements(CardsShown[t]))
    BY DashboardAssumption
  <2>3. /\ \A s \in Seq(Tabs) : Elements(s) \subseteq Tabs
        /\ \A s \in Seq(Cards) : Elements(s) \subseteq Cards /\ (Elements(s) # {} => s # <<>>)
        /\ \A s \in Seq(Items) : Elements(s) \subseteq Items /\ (Elements(s) # {} => s # <<>>)
    BY ElementsOf
  <2>4. QED BY <1>0, <1>1, <2>1, <2>2, <2>3
<1>5. /\ ActiveTab \in Elements(tabs) \cup {Nothing} /\ ActiveCards \in Seq(Cards)
      /\ \A c \in Elements(ActiveCards) : c \in Cards /\ \E t \in Tabs : c \in Elements(cardsOf[t])
  <2>1. ActiveTab \in Elements(tabs) \cup {Nothing}
    <3>1. \A i \in DOMAIN tabs : tabs[i] \in Elements(tabs)
      BY <1>0, <1>1, ElementsOf
    <3>2. QED BY <3>1 DEF ActiveTab, Nth
  <2>2. CASE ActiveTab = Nothing
    <3>1. ActiveCards = <<>>
      BY <2>2 DEF ActiveCards
    <3>2. QED BY <2>1, <3>1, NoElements
  <2>3. CASE ActiveTab # Nothing
    <3>1. ActiveCards = cardsOf[ActiveTab] /\ ActiveTab \in Tabs
      BY <1>4, <2>1, <2>3 DEF ActiveCards
    <3>2. QED BY <1>4, <2>1, <3>1
  <2>4. QED BY <2>2, <2>3
<1>6. /\ activeCard \in Nat \cup {-1} /\ (activeCard = -1 \/ FormCard # Nothing)
      /\ FormCard \in Elements(ActiveCards) \cup {Nothing}
  <2>1. PICK s \in Seq(Cards) : s = ActiveCards
    BY <1>5
  <2>2. \A i \in DOMAIN s : s[i] \in Elements(s) /\ s[i] \in Cards
    BY ElementsOf
  <2>3. FormCard = Nth(s, activeCard)
    BY <2>1 DEF FormCard
  <2>4. CASE s = <<>>
    BY <1>1, <2>1, <2>3, <2>4 DEF Nth
  <2>5. CASE s # <<>>
    <3>1. activeCard = 0 /\ 1 \in DOMAIN s
      BY <1>1, <2>1, <2>5
    <3>2. FormCard = s[1]
      BY <2>3, <3>1 DEF Nth
    <3>3. QED BY <1>0, <2>1, <2>2, <3>1, <3>2
  <2>6. QED BY <2>4, <2>5
<1>7. \A k \in Calls : /\ call[k] \in CallRecord /\ call[k].op = "none" /\ call[k].at = "idle"
                       /\ call[k].tab = Nothing /\ call[k].card = Nothing /\ call[k].ids = <<>>
                       /\ CallFits(k) /\ New(k) = {} /\ \A x \in Ids : ~Names(k, x)
  <2>1. Unbegun \in CallRecord /\ Unbegun.op = "none" /\ Unbegun.at = "idle"
        /\ Unbegun.tab = Nothing /\ Unbegun.card = Nothing /\ Unbegun.ids = <<>>
    BY DEF Unbegun, CallRecord, Ops, Stages
  <2>2. ASSUME NEW k \in Calls
        PROVE  /\ call[k] \in CallRecord /\ call[k].op = "none" /\ call[k].at = "idle"
               /\ call[k].tab = Nothing /\ call[k].card = Nothing /\ call[k].ids = <<>>
    BY <2>1 DEF BoardInit
  <2>3. ASSUME NEW k \in Calls PROVE CallFits(k) /\ New(k) = {} /\ \A x \in Ids : ~Names(k, x)
    BY <1>0, <2>2, NoElements DEF CallFits, New, Brings, Names
  <2>4. QED BY <2>2, <2>3
<1>8. BoardTypeOK
  <2>1. tabOf \in [Cards -> Tabs \cup {Nothing}] /\ cardOf \in [Items -> Cards \cup {Nothing}]
    BY <1>2, <1>3 DEF BoardInit
  <2>2. call \in [Calls -> CallRecord]
    BY <1>7 DEF BoardInit
  <2>3. issued \subseteq Ids
    BY <1>0, <1>1, <1>4
  <2>4. tabs \in Seq(Tabs) /\ cardsOf \in [Tabs -> Seq(Cards)] /\ itemsOf \in [Cards -> Seq(Items)]
    BY <1>0, <1>1
  <2>5. activeTabIdx \in Int /\ currentCardId \in Cards \cup {Nothing}
    BY <1>1, <1>5, <1>6
  <2>6. strayed \in BOOLEAN /\ lost \subseteq Ids /\ savedTabs \subseteq Tabs
    BY <1>1, <1>4
  <2>7. QED BY <1>6, <1>7, <2>1, <2>2, <2>3, <2>4, <2>5, <2>6 DEF BoardTypeOK
<1>9. Known
  <2>1. ASSUME NEW x \in Ids, Referred(x) PROVE x \in issued
    <3>1. OnPage(x)
      BY <1>7, <2>1 DEF Referred
    <3>2. x \in Elements(tabs) \/ (\E t \in Tabs : x \in Elements(cardsOf[t]))
          \/ (\E c \in Cards : x \in Elements(itemsOf[c]))
      BY <1>0, <1>1, <1>5, <1>6, <3>1 DEF OnPage
    <3>3. QED BY <1>0, <1>1, <1>2, <1>3, <1>4, <3>2
  <2>2. \A c \in Cards : tabOf[c] # Nothing => c \in issued /\ tabOf[c] \in savedTabs
    BY <1>1, <1>2, <1>4
  <2>3. \A i \in Items : cardOf[i] # Nothing => i \in issued /\ tabOf[cardOf[i]] # Nothing
    BY <1>0, <1>1, <1>2, <1>3, <1>4
  <2>4. QED BY <1>1, <1>7, <2>1, <2>2, <2>3 DEF Known
<1>10. Unseen
  BY <1>7 DEF Unseen
<1>11. Bare
  <2>1. ASSUME NEW c \in Cards, Elements(itemsOf[c]) # {} PROVE c \in issued
    <3>1. PICK t \in Tabs : c \in Elements(cardsOf[t])
      BY <1>4, <2>1
    <3>2. tabOf[c] = t /\ t # Nothing
      BY <1>0, <1>2, <3>1
    <3>3. QED BY <1>1, <3>2
  <2>2. QED BY <1>7, <2>1 DEF Bare
<1>12. Places
  <2>1. Orderly
    BY <1>1, DashboardAssumption DEF Orderly
  <2>2. QED BY <1>1, <2>1, DashboardAssumption DEF Places
<1>13. PageInv
  BY <1>8, <1>9, <1>10, <1>11, <1>12 DEF PageInv
<1>14. OneSelection /\ InRange
  BY <1>1, <1>6 DEF OneSelection, InRange
<1>15. TabsStored /\ Served
  <2>1. \A k \in Calls : call[k].op # "removeTab" /\ call[k].at # "done"
    BY <1>7
  <2>2. QED BY <1>1, <2>1 DEF TabsStored, Served
<1>16. CardsFollow
  BY <1>2, <1>4 DEF CardsFollow
<1>17. ItemsFollow
  BY <1>3, <1>4 DEF ItemsFollow
<1>18. LoadInv /\ orphaned = {}
  BY DEF BoardInit, NoReload, LoadInv, LoadTypeOK, Snapshot, UpToDate, Reading
<1>19. QED BY <1>13, <1>14, <1>15, <1>16, <1>17, <1>18 DEF SelectionInv, ShowsInv, Followed

-----------------------------------------------------------------------------
(* The form and the selected card.                                          *)

LEMMA NoForm ==
    ASSUME BoardTypeOK', activeCard' = -1
    PROVE  FormCard' = Nothing
<1>1. tabs' \in Seq(Tabs) /\ cardsOf' \in [Tabs -> Seq(Cards)] /\ Nothing \notin Tabs
  BY DashboardAssumption DEF BoardTypeOK, Ids
<1>2. ActiveTab' \in Tabs \cup {Nothing}
  BY <1>1, ElementsOf DEF ActiveTab, Nth
<1>3. ActiveCards' \in Seq(Cards)
  BY <1>1, <1>2 DEF ActiveCards
<1>4. \A s \in Seq(Cards) : -1 + 1 \notin DOMAIN s
  OBVIOUS
<1>5. QED BY <1>3, <1>4 DEF FormCard, Nth

LEMMA SelectionCleared ==
    ASSUME BoardTypeOK', activeCard' = -1, currentCardId' = Nothing
    PROVE  OneSelection' /\ InRange'
BY NoForm DEF OneSelection, InRange

LEMMA SelectionUntouched ==
    ASSUME OneSelection, InRange, UNCHANGED <<tabs, cardsOf, selection, strayed>>
    PROVE  OneSelection' /\ InRange'
BY DEF OneSelection, InRange, FormCard, ActiveCards, ActiveTab, selection

\* A card of the active tab is selected.
LEMMA SelectionMade ==
    ASSUME BoardTypeOK, Places, NEW c \in Elements(ActiveCards),
           activeCard' = PlaceOf(ActiveCards, c), currentCardId' = c,
           UNCHANGED <<tabs, cardsOf, activeTabIdx>>
    PROVE  OneSelection' /\ InRange'
<1>1. ActiveCards' = ActiveCards
  BY DEF ActiveCards, ActiveTab
<1>2. /\ PlaceOf(ActiveCards, c) + 1 \in 1 .. Len(ActiveCards)
      /\ ActiveCards[PlaceOf(ActiveCards, c) + 1] = c /\ c \in Cards
  BY PlaceFits
<1>3. DOMAIN ActiveCards = 1 .. Len(ActiveCards)
  BY Selected, ElementsOf
<1>4. FormCard' = c
  BY <1>1, <1>2, <1>3 DEF FormCard, Nth
<1>5. QED BY <1>2, <1>4, DashboardAssumption DEF OneSelection, InRange, Ids

LEMMA SelectionOnSort ==
    ASSUME BoardTypeOK, OneSelection, InRange,
           NEW i \in 0 .. Len(ActiveCards) - 2, SortCards(i)
    PROVE  OneSelection' /\ InRange'
<1>1. /\ ActiveTab \in Tabs /\ ActiveTab # Nothing /\ ActiveCards = cardsOf[ActiveTab]
      /\ ActiveCards \in Seq(Cards)
  BY Selected
<1>2. PICK s \in Seq(Cards) : s = ActiveCards
  BY <1>1
<1>3. PICK r : r = SwapFrom(s, i) /\ r \in Seq(Cards) /\ Len(r) = Len(s)
               /\ \A j \in 1 .. Len(s) : j \notin {i + 1, i + 2} => r[j] = s[j]
  BY <1>2, Swapped
<1>4. /\ cardsOf' = [cardsOf EXCEPT ![ActiveTab] = r]
      /\ UNCHANGED <<tabs, activeTabIdx, activeCard, currentCardId>>
  BY <1>1, <1>2, <1>3 DEF SortCards, selection
<1>5. ActiveTab' = ActiveTab /\ ActiveCards' = r
  BY <1>1, <1>4 DEF ActiveTab, ActiveCards, BoardTypeOK
<1>6. CASE strayed \/ activeCard \in {i, i + 1}
  <2>1. strayed'
    BY <1>6, Zenon DEF SortCards
  <2>2. QED BY <2>1 DEF OneSelection, InRange
<1>7. CASE ~strayed /\ activeCard \notin {i, i + 1}
  <2>1. PICK n : n = activeCard + 1 /\ n \in Int /\ n \notin {i + 1, i + 2}
    BY <1>7 DEF BoardTypeOK
  <2>2. Nth(r, activeCard) = Nth(s, activeCard)
    BY <1>2, <1>3, <2>1 DEF Nth
  <2>3. FormCard' = FormCard
    BY <1>2, <1>4, <1>5, <2>2 DEF FormCard
  <2>4. QED BY <1>4, <1>7, <2>3 DEF OneSelection, InRange
<1>8. QED BY <1>6, <1>7

\* A card goes to the end of the active tab's list.
LEMMA FormOnAppend ==
    ASSUME BoardTypeOK, ActiveTab # Nothing, NEW c \in Cards,
           cardsOf' = [cardsOf EXCEPT ![ActiveTab] = Append(@, c)],
           UNCHANGED <<tabs, activeTabIdx>>
    PROVE  /\ activeCard' = Len(ActiveCards) => FormCard' = c
           /\ activeCard' = activeCard /\ FormCard # Nothing => FormCard' = FormCard
<1>1. ActiveTab \in Tabs /\ ActiveCards = cardsOf[ActiveTab] /\ ActiveCards \in Seq(Cards)
  BY Selected
<1>2. PICK s \in Seq(Cards) : s = ActiveCards
  BY <1>1
<1>3. PICK r : r = Append(s, c)
  OBVIOUS
<1>4. cardsOf' = [cardsOf EXCEPT ![ActiveTab] = r]
  BY <1>1, <1>2, <1>3
<1>5. ActiveTab' = ActiveTab /\ ActiveCards' = r
  BY <1>1, <1>4 DEF ActiveTab, ActiveCards, BoardTypeOK
<1>6. /\ Len(s) \in Nat /\ DOMAIN r = 1 .. Len(s) + 1 /\ r[Len(s) + 1] = c
      /\ \A j \in 1 .. Len(s) : r[j] = s[j]
  BY <1>3
<1>7. ASSUME activeCard' = Len(ActiveCards) PROVE FormCard' = c
  BY <1>2, <1>5, <1>6, <1>7 DEF FormCard, Nth
<1>8. ASSUME activeCard' = activeCard, FormCard # Nothing PROVE FormCard' = FormCard
  <2>1. PICK n : n = activeCard + 1 /\ n \in 1 .. Len(s) /\ FormCard = s[n]
    BY <1>2, <1>8, Selected
  <2>2. FormCard' = Nth(r, activeCard)
    BY <1>5, <1>8 DEF FormCard
  <2>3. n \in DOMAIN r /\ r[n] = s[n]
    BY <1>6, <2>1
  <2>4. QED BY <2>1, <2>2, <2>3 DEF Nth
<1>9. QED BY <1>7, <1>8

LEMMA SelectionKept ==
    ASSUME SelectionInv, Edits
    PROVE  OneSelection' /\ InRange'
<1>0. /\ BoardTypeOK /\ Places /\ OneSelection /\ InRange /\ BoardTypeOK'
      /\ Nothing \notin Cards
  BY PageSteps, DashboardAssumption DEF SelectionInv, PageInv, Ids
<1>1. ASSUME UNCHANGED <<tabs, cardsOf, selection, strayed>> PROVE OneSelection' /\ InRange'
  BY <1>0, <1>1, SelectionUntouched
<1>2. CASE UserAct
  <2>1. ASSUME NEW i \in 0 .. Len(tabs) - 1, SelectTab(i) PROVE OneSelection' /\ InRange'
    <3>1. CASE strayed \/ activeCard >= 0
      <4>1. strayed'
        BY <2>1, <3>1, Zenon DEF SelectTab
      <4>2. QED BY <4>1 DEF OneSelection, InRange
    <3>2. CASE ~strayed /\ ~(activeCard >= 0)
      <4>1. activeCard = -1
        BY <1>0, <3>2 DEF BoardTypeOK
      <4>2. FormCard = Nothing
        <5>1. activeCard + 1 \notin 1 .. Len(ActiveCards)
          BY <4>1
        <5>2. QED BY <1>0, <5>1, Selected
      <4>3. activeCard' = -1 /\ currentCardId' = Nothing
        BY <1>0, <2>1, <3>2, <4>1, <4>2 DEF SelectTab, OneSelection
      <4>4. QED BY <1>0, <4>3, SelectionCleared
    <3>3. QED BY <3>1, <3>2
  <2>2. ASSUME NEW c \in Cards, SelectCard(c) PROVE OneSelection' /\ InRange'
    BY <1>0, <2>2, SelectionMade DEF SelectCard, objects
  <2>3. ASSUME NEW i \in 0 .. Len(ActiveCards) - 2, SortCards(i) PROVE OneSelection' /\ InRange'
    BY <1>0, <2>3, SelectionOnSort
  <2>4. ASSUME NEW i, SortItems(i) PROVE OneSelection' /\ InRange'
    BY <1>1, <2>4 DEF SortItems
  <2>5. QED BY <1>2, <2>1, <2>2, <2>3, <2>4 DEF UserAct
<1>3. ASSUME NEW k \in Calls, UserCall(k) PROVE OneSelection' /\ InRange'
  <2>1. CASE RemoveTab(k)
    BY <1>0, <2>1, SelectionCleared DEF RemoveTab
  <2>2. ASSUME NEW c \in Cards, CreateItem(k, c) PROVE OneSelection' /\ InRange'
    <3>1. PICK t \in Elements(tabs) : /\ c \in MenuCards(t) /\ activeCard' = PlaceOf(cardsOf[t], c)
                                      /\ strayed' = (t # ActiveTab)
      BY <2>2 DEF CreateItem
    <3>2. CASE t = ActiveTab
      <4>1. c \in Elements(ActiveCards) /\ activeCard' = PlaceOf(ActiveCards, c)
        BY <1>0, <3>1, <3>2, OfMenu
      <4>2. QED BY <1>0, <2>2, <4>1, SelectionMade DEF CreateItem, objects
    <3>3. CASE t # ActiveTab
      BY <3>1, <3>3 DEF OneSelection, InRange
    <3>4. QED BY <3>2, <3>3
  <2>3. CASE \/ AddTab(k)
             \/ \E op \in {"createCard", "importCard"} : AddCard(k, op)
             \/ \E c \in Cards : \/ RemoveCard(k, c) \/ CopyItem(k, c)
                                 \/ \E i \in 0 .. Len(itemsOf[c]) - 1 : RemoveItem(k, c, i)
    BY <1>1, <2>3 DEF AddTab, AddCard, RemoveCard, CopyItem, RemoveItem, objects
  <2>4. QED BY <1>3, <2>1, <2>2, <2>3 DEF UserCall
<1>4. ASSUME NEW k \in Calls, Server(k) PROVE OneSelection' /\ InRange'
  <2>1. CASE Refuse(k)
    BY <1>1, <2>1 DEF Refuse, objects
  <2>2. ASSUME NEW arrives \in BOOLEAN, ServeAdd(k, arrives) \/ ServeRemove(k, arrives)
        PROVE  UNCHANGED <<objects, selection, strayed>>
    BY <2>2 DEF ServeAdd, ServeRemove, Reply
  <2>3. CASE UNCHANGED <<objects, selection, strayed>>
    BY <1>1, <2>3 DEF objects
  <2>4. QED BY <1>4, <2>1, <2>2, <2>3 DEF Server
<1>5. ASSUME NEW k \in Calls, Resume(k) PROVE OneSelection' /\ InRange'
  <2>1. CASE TabAdded(k) \/ CardRemoved(k)
    BY <1>0, <2>1, SelectionCleared DEF TabAdded, CardRemoved
  <2>2. CASE CardCreated(k)
    <3>1. PICK c, t : c = Head(call[k].ids) /\ t = call[k].tab
      OBVIOUS
    <3>2. c \in Cards /\ t \in Tabs
      BY <1>0, <2>2, <3>1, Answer DEF CardCreated, Answered
    <3>3. /\ cardsOf' = [cardsOf EXCEPT ![t] = Append(@, c)]
          /\ activeCard' = Len(cardsOf[t]) /\ currentCardId' = c
          /\ UNCHANGED <<tabs, activeTabIdx>>
      BY <2>2, <3>1 DEF CardCreated
    <3>4. CASE t = ActiveTab
      <4>1. ActiveTab # Nothing /\ ActiveCards = cardsOf[t]
        BY <1>0, <3>2, <3>4, Selected DEF Ids
      <4>2. FormCard' = c
        BY <1>0, <3>2, <3>3, <3>4, <4>1, FormOnAppend
      <4>3. QED BY <1>0, <3>2, <3>3, <4>2 DEF OneSelection, InRange
    <3>5. CASE t # ActiveTab
      <4>1. strayed'
        BY <2>2, <3>1, <3>5, Zenon DEF CardCreated
      <4>2. QED BY <4>1 DEF OneSelection, InRange
    <3>6. QED BY <3>4, <3>5
  <2>3. CASE CardImported(k)
    <3>1. PICK c : c = Head(call[k].ids)
      OBVIOUS
    <3>2. c \in Cards
      BY <1>0, <2>3, <3>1, Answer DEF CardImported, Answered
    <3>3. /\ cardsOf' = IF ActiveTab = Nothing THEN cardsOf
                        ELSE [cardsOf EXCEPT ![ActiveTab] = Append(@, c)]
          /\ UNCHANGED <<tabs, activeTabIdx, activeCard, currentCardId, strayed>>
      BY <2>3, <3>1 DEF CardImported, selection
    <3>4. CASE ActiveTab = Nothing
      BY <1>1, <3>3, <3>4 DEF selection
    <3>5. CASE ActiveTab # Nothing
      <4>1. CASE strayed
        BY <3>3, <4>1 DEF OneSelection, InRange
      <4>2. CASE ~strayed /\ activeCard = -1
        <5>1. FormCard = Nothing
          <6>1. activeCard + 1 \notin 1 .. Len(ActiveCards)
            BY <4>2
          <6>2. QED BY <1>0, <6>1, Selected
        <5>2. activeCard' = -1 /\ currentCardId' = Nothing
          BY <1>0, <3>3, <4>2, <5>1 DEF OneSelection
        <5>3. QED BY <1>0, <5>2, SelectionCleared
      <4>3. CASE ~strayed /\ activeCard # -1
        <5>1. FormCard # Nothing /\ FormCard = currentCardId
          BY <1>0, <4>3 DEF OneSelection, InRange
        <5>2. FormCard' = FormCard
          BY <1>0, <3>2, <3>3, <3>5, <5>1, FormOnAppend
        <5>3. QED BY <3>3, <5>1, <5>2 DEF OneSelection, InRange
      <4>4. QED BY <4>1, <4>2, <4>3
    <3>6. QED BY <3>4, <3>5
  <2>4. CASE ItemAdded(k) \/ ItemRemoved(k) \/ TabRemoved(k) \/ Failed(k)
    BY <1>1, <2>4 DEF ItemAdded, ItemRemoved, TabRemoved, Failed, objects
  <2>5. CASE CardCreatedAside(k)
    BY <2>5 DEF CardCreatedAside, OneSelection, InRange
  <2>6. CASE ItemsAside(k)
    BY <1>1, <2>6 DEF ItemsAside, objects
  <2>7. QED BY <1>5, <2>1, <2>2, <2>3, <2>4, <2>5, <2>6 DEF Resume
<1>6. QED BY <1>2, <1>3, <1>4, <1>5 DEF Edits

-----------------------------------------------------------------------------
(* The rows that are shown.                                                 *)

LEMMA Transit ==
    ASSUME NEW k \in Calls, \A j \in Calls \ {k} : call'[j] = call[j], NEW x
    PROVE  /\ Leaving(x) /\ ~Leaves(k, x) => Leaving(x)'
           /\ Coming(x) /\ x \notin New(k) => Coming(x)'
           /\ Leaves(k, x)' => Leaving(x)'
           /\ x \in New(k)' => Coming(x)'
<1>1. \A j \in Calls \ {k} : (Leaves(j, x)' <=> Leaves(j, x)) /\ New(j)' = New(j)
  BY Unmoved DEF Leaves
<1>2. Leaving(x) /\ ~Leaves(k, x) => Leaving(x)'
  BY <1>1 DEF Leaving
<1>3. Coming(x) /\ x \notin New(k) => Coming(x)'
  BY <1>1 DEF Coming
<1>4. (Leaves(k, x)' => Leaving(x)') /\ (x \in New(k)' => Coming(x)')
  BY DEF Leaving, Coming
<1>5. QED BY <1>2, <1>3, <1>4

\* Ids are of one kind; what is new is known to the server alone.
LEMMA Kinds ==
    ASSUME PageInv
    PROVE  /\ Nothing \notin Tabs /\ Nothing \notin Cards /\ Nothing \notin Items
           /\ \A x \in Cards : x \notin Tabs /\ x \notin Items
           /\ \A x \in Items : x \notin Tabs /\ x \notin Cards
           /\ Tabs \subseteq Ids /\ Cards \subseteq Ids /\ Items \subseteq Ids
           /\ \A j \in Calls : \A x \in New(j) : x \in issued /\ ~Referred(x)
           /\ \A x \in Ids : Referred(x) => x \in issued
           /\ \A j \in Calls : call[j].tab \in Tabs => Referred(call[j].tab)
           /\ \A j \in Calls : call[j].card \in Cards => Referred(call[j].card)
           /\ \A c \in Cards : tabOf[c] \in Tabs \cup {Nothing}
           /\ \A i \in Items : cardOf[i] \in Cards \cup {Nothing}
<1>1. \A j \in Calls : New(j) \subseteq Ids
  BY NewIds DEF PageInv
<1>2. /\ \A j \in Calls : \A x \in New(j) : x \in issued /\ ~Referred(x)
      /\ \A x \in Ids : Referred(x) => x \in issued
  BY <1>1 DEF PageInv, Known, Unseen
<1>3. /\ \A j \in Calls : Referred(call[j].tab)
      /\ \A j \in Calls : Referred(call[j].card)
  BY DEF Referred, Names
<1>4. /\ \A c \in Cards : tabOf[c] \in Tabs \cup {Nothing}
      /\ \A i \in Items : cardOf[i] \in Cards \cup {Nothing}
  BY DEF PageInv, BoardTypeOK
<1>5. QED BY <1>2, <1>3, <1>4, DashboardAssumption DEF Ids

\* An answer that was given.
LEMMA Brought ==
    ASSUME PageInv, NEW k \in Calls, call[k].at = "done"
    PROVE  /\ call[k].op = "addTab" =>
                  /\ New(k) = {Head(call[k].ids)} \cup Elements(Tail(call[k].ids))
                  /\ Head(call[k].ids) \in Tabs /\ Elements(Tail(call[k].ids)) \subseteq Cards
           /\ call[k].op \in {"createCard", "importCard"} =>
                  /\ New(k) = {Head(call[k].ids)} \cup Elements(Tail(call[k].ids))
                  /\ Head(call[k].ids) \in Cards /\ Elements(Tail(call[k].ids)) \subseteq Items
                  /\ call[k].tab \in Tabs
           /\ call[k].op = "addItem" =>
                  /\ New(k) = Elements(call[k].ids) /\ New(k) \subseteq Items /\ call[k].card \in Cards
           /\ call[k].op = "removeItem" =>
                  /\ Elements(call[k].ids) \subseteq Items
                  /\ \A x \in Elements(call[k].ids) : Referred(x)
           /\ call[k].op = "removeCard" => call[k].card \in Cards
<1>1. CASE call[k].op \in {"addTab", "createCard", "importCard"}
  BY <1>1, Answer DEF PageInv, New, Brings
<1>2. CASE call[k].op = "addItem"
  BY <1>2, Answer DEF PageInv, New, Brings
<1>3. CASE call[k].op = "removeItem"
  BY <1>3, Answer DEF PageInv, Referred, Names, Brings
<1>4. CASE call[k].op = "removeCard"
  BY <1>4, Answer DEF PageInv
<1>5. QED BY <1>1, <1>2, <1>3, <1>4

\* The rows that the server stores are of new ids,
LEMMA StoredApart ==
    ASSUME PageInv, NEW k \in Calls, NEW x, NEW s, Stores(k, x, s)
    PROVE  /\ \A c \in Cards : c \notin {x} \cup Elements(s) => tabOf'[c] = tabOf[c]
           /\ \A i \in Items : i \notin {x} \cup Elements(s) => cardOf'[i] = cardOf[i]
           /\ \A c \in Cards : c \in {x} \cup Elements(s) =>
                  tabOf'[c] \in {x, call[k].tab, Nothing} \cup {tabOf[c]}
           /\ \A t \in issued : t \in savedTabs' <=> t \in savedTabs
           /\ savedTabs \subseteq savedTabs'
<1>1. x \notin issued
  BY DEF Stores
<1>2. CASE TabStored(k, x, s)
  BY <1>1, <1>2 DEF TabStored
<1>3. CASE CardStored(k, x, s)
  <2>1. /\ tabOf'[x] = call[k].tab /\ savedTabs' = savedTabs
        /\ \A c \in Cards \ {x} : tabOf'[c] = tabOf[c]
        /\ \A i \in Items : i \notin Elements(s) => cardOf'[i] = cardOf[i]
    BY <1>3 DEF CardStored, PageInv, BoardTypeOK
  <2>2. QED BY <2>1
<1>4. CASE ItemStored(k, x)
  <2>1. \A i \in Items \ {x} : cardOf'[i] = cardOf[i]
    BY <1>4 DEF ItemStored, PageInv, BoardTypeOK
  <2>2. UNCHANGED <<savedTabs, tabOf>>
    BY <1>4 DEF ItemStored
  <2>3. QED BY <2>1, <2>2
<1>5. QED BY <1>2, <1>3, <1>4 DEF Stores

\* and what it takes away it takes with what depends on it.
LEMMA Shrinks ==
    ASSUME PageInv, NEW k \in Calls, Deletes(k)
    PROVE  /\ savedTabs' \subseteq savedTabs
           /\ \A c \in Cards : tabOf'[c] \in {tabOf[c], Nothing}
           /\ \A i \in Items : cardOf'[i] \in {cardOf[i], Nothing}
           /\ \A c \in Cards : ~Referred(c) =>
                  tabOf'[c] = IF tabOf[c] \in savedTabs' THEN tabOf[c] ELSE Nothing
           /\ \A i \in Items : ~Referred(i) =>
                  cardOf'[i] = IF cardOf[i] # Nothing /\ tabOf'[cardOf[i]] # Nothing
                                 THEN cardOf[i] ELSE Nothing
           /\ \A t \in Tabs : ~Referred(t) /\ t \in savedTabs => t \in savedTabs'
<1>1. /\ \A c \in Cards : tabOf[c] # Nothing => tabOf[c] \in savedTabs
      /\ \A i \in Items : cardOf[i] # Nothing => tabOf[cardOf[i]] # Nothing
      /\ savedTabs \subseteq Tabs /\ Nothing \notin Tabs
      /\ \A c \in Cards : tabOf[c] \in Tabs \cup {Nothing}
  BY Kinds DEF PageInv, Known, BoardTypeOK
<1>2. Referred(call[k].tab) /\ Referred(call[k].card) /\ CallFits(k)
  BY CallType DEF Referred, Names, PageInv
<1>3. call[k].op = "removeItem" => \A x \in Elements(call[k].ids) : Referred(x)
  BY DEF Referred, Names, Brings
<1>4. CASE TabDeleted(k)
  BY <1>1, <1>2, <1>4 DEF TabDeleted
<1>5. CASE CardDeleted(k)
  BY <1>1, <1>2, <1>5 DEF CardDeleted
<1>6. CASE ItemDeleted(k)
  BY <1>1, <1>2, <1>3, <1>6 DEF ItemDeleted
<1>7. QED BY <1>4, <1>5, <1>6 DEF Deletes

LEMMA TabsStoredKept ==
    ASSUME PageInv, TabsStored, BoardStep
    PROVE  TabsStored'
<1>0. /\ Elements(tabs) \subseteq savedTabs
      /\ \A k \in Calls : call[k].op = "removeTab" => call[k].tab \notin Elements(tabs)
      /\ \A k \in Calls :
             call[k].at = "done" /\ call[k].op = "addTab" => Head(call[k].ids) \in savedTabs
  BY DEF TabsStored
<1>1. CASE Looks
  BY <1>0, <1>1 DEF Looks, TabsStored, rows
<1>2. ASSUME NEW k \in Calls, Asks(k) PROVE TabsStored'
  <2>1. /\ Elements(tabs') \subseteq Elements(tabs) /\ savedTabs' = savedTabs
        /\ call'[k].op = "removeTab" => call'[k].tab \notin Elements(tabs')
        /\ call'[k].at = "sent"
        /\ \A j \in Calls \ {k} : call'[j] = call[j]
    BY <1>2 DEF Asks, rows
  <2>2. \A j \in Calls : call'[j].op = "removeTab" => call'[j].tab \notin Elements(tabs')
    BY <1>0, <2>1
  <2>3. \A j \in Calls :
            call'[j].at = "done" /\ call'[j].op = "addTab" => Head(call'[j].ids) \in savedTabs'
    BY <1>0, <2>1
  <2>4. QED BY <1>0, <2>1, <2>2, <2>3 DEF TabsStored
<1>3. ASSUME NEW k \in Calls, NEW x, NEW s, Stores(k, x, s) PROVE TabsStored'
  <2>1. /\ tabs' = tabs /\ call'[k].op = call[k].op /\ call'[k].tab = call[k].tab
        /\ call'[k].ids = <<x>> \o s /\ Head(<<x>> \o s) = x
        /\ \A j \in Calls \ {k} : call'[j] = call[j]
    BY <1>3 DEF Stores, Replied, objects
  <2>2. savedTabs \subseteq savedTabs'
    BY <1>3, StoredApart
  <2>3. call[k].op = "addTab" => x \in savedTabs'
    BY <1>3 DEF Stores, TabStored, CardStored, ItemStored
  <2>4. call[k].op = "addTab" => Head(call'[k].ids) \in savedTabs'
    BY <2>1, <2>3, Zenon
  <2>5. \A j \in Calls : call'[j].op = "removeTab" => call'[j].tab \notin Elements(tabs')
    BY <1>0, <2>1
  <2>6. \A j \in Calls :
            call'[j].at = "done" /\ call'[j].op = "addTab" => Head(call'[j].ids) \in savedTabs'
    BY <1>0, <2>1, <2>2, <2>4
  <2>7. QED BY <1>0, <2>1, <2>2, <2>5, <2>6 DEF TabsStored
<1>4. ASSUME NEW k \in Calls, Deletes(k) PROVE TabsStored'
  <2>1. /\ tabs' = tabs /\ call'[k].op = call[k].op /\ call'[k].tab = call[k].tab
        /\ call'[k].ids = call[k].ids
        /\ call[k].op \in {"removeTab", "removeCard", "removeItem"}
        /\ \A j \in Calls \ {k} : call'[j] = call[j]
    BY <1>4 DEF Deletes, Replied, objects, TabDeleted, CardDeleted, ItemDeleted
  <2>2. Elements(tabs) \subseteq savedTabs'
    BY <1>0, <1>4 DEF Deletes, TabDeleted, CardDeleted, ItemDeleted
  <2>3. ASSUME NEW j \in Calls, call[j].at = "done", call[j].op = "addTab"
        PROVE  Head(call[j].ids) \in savedTabs'
    <3>1. /\ Head(call[j].ids) \in Tabs /\ ~Referred(Head(call[j].ids))
      BY <2>3, Brought, Kinds
    <3>2. QED BY <1>0, <1>4, <2>3, <3>1, Shrinks
  <2>4. QED BY <1>0, <2>1, <2>2, <2>3 DEF TabsStored
<1>5. ASSUME NEW k \in Calls, Refuses(k) PROVE TabsStored'
  BY <1>0, <1>5 DEF Refuses, TabsStored, objects, rows
<1>6. ASSUME NEW k \in Calls, Closes(k), Resumed(k) PROVE TabsStored'
  <2>1. /\ call'[k].op = "none" /\ \A j \in Calls \ {k} : call'[j] = call[j]
    BY <1>6 DEF Closes
  <2>2. savedTabs' = savedTabs
    BY <1>6 DEF Closes, rows
  <2>3. ASSUME NEW t, NEW s, ShowsTab(k, t, s)
        PROVE  /\ Elements(tabs') = Elements(tabs) \cup {t} /\ t \in savedTabs
               /\ \A j \in Calls : call[j].tab # t
    <3>1. /\ Elements(tabs') = Elements(tabs) \cup {t} /\ t \in New(k) /\ t \in Tabs
          /\ call[k].at = "done" /\ call[k].op = "addTab" /\ t = Head(call[k].ids)
      BY <2>3 DEF ShowsTab
    <3>2. t \in savedTabs
      BY <1>0, <3>1
    <3>3. \A j \in Calls : call[j].tab # t
      BY <3>1, Kinds
    <3>4. QED BY <3>1, <3>2, <3>3
  <2>4. (\E t, s : ShowsTab(k, t, s)) \/ tabs' = tabs
    BY <1>6 DEF Resumed, ShowsCard, ShowsItem, HidesCard, HidesItem, Settles, objects
  <2>5. CASE tabs' = tabs
    BY <1>0, <2>1, <2>2, <2>5 DEF TabsStored
  <2>6. CASE \E t, s : ShowsTab(k, t, s)
    <3>1. PICK t : /\ Elements(tabs') = Elements(tabs) \cup {t} /\ t \in savedTabs
                   /\ \A j \in Calls : call[j].tab # t
      BY <2>3, <2>6
    <3>2. QED BY <1>0, <2>1, <2>2, <3>1 DEF TabsStored
  <2>7. QED BY <2>4, <2>5, <2>6
<1>7. QED BY <1>1, <1>2, <1>3, <1>4, <1>5, <1>6 DEF BoardStep

\* What Served says of a call.
ServedCall(k) ==
    /\ call[k].op = "removeCard" => tabOf[call[k].card] = Nothing
    /\ call[k].op = "removeItem" => \A i \in Elements(call[k].ids) : cardOf[i] = Nothing
    /\ call[k].op = "addTab" =>
           \A c \in Cards : tabOf[c] = Head(call[k].ids) <=> c \in Elements(Tail(call[k].ids))
    /\ call[k].op \in {"createCard", "importCard"} =>
           /\ call[k].tab \in savedTabs => tabOf[Head(call[k].ids)] = call[k].tab
           /\ tabOf[Head(call[k].ids)] \in {call[k].tab, Nothing}
           /\ \A i \in Elements(Tail(call[k].ids)) :
                  cardOf[i] = IF tabOf[Head(call[k].ids)] = Nothing THEN Nothing ELSE Head(call[k].ids)
    /\ call[k].op = "addItem" =>
           \A i \in Elements(call[k].ids) :
               cardOf[i] = IF tabOf[call[k].card] = Nothing THEN Nothing ELSE call[k].card

LEMMA ServedCalls == Served <=> \A k \in Calls : call[k].at = "done" => ServedCall(k)
BY DEF Served, ServedCall

\* Rows stored for another call change nothing for this one,
LEMMA ServedOnStore ==
    ASSUME PageInv, NEW k \in Calls, NEW x, NEW s, Stores(k, x, s),
           NEW j \in Calls \ {k}, call[j].at = "done", ServedCall(j)
    PROVE  ServedCall(j)'
<1>1. call'[j] = call[j] /\ {x} \cup Elements(s) \subseteq Ids \ issued
  BY DEF Stores, Replied
<1>2. /\ \A c \in Cards : c \in issued => tabOf'[c] = tabOf[c]
      /\ \A i \in Items : i \in issued => cardOf'[i] = cardOf[i]
      /\ \A c \in Cards : c \notin issued => tabOf'[c] \in {x, call[k].tab, Nothing}
      /\ \A t \in issued : t \in savedTabs' <=> t \in savedTabs
      /\ x \notin issued
  <2>1. \A c \in Cards : tabOf[c] # Nothing => c \in issued
    BY DEF PageInv, Known
  <2>2. \A c \in Cards : c \notin issued => tabOf'[c] \in {x, call[k].tab, Nothing}
    BY <1>1, <2>1, StoredApart
  <2>3. QED BY <1>1, <2>2, StoredApart
<1>3. CASE call[j].op = "removeCard"
  <2>1. call[j].card \in Cards /\ call[j].card \in issued
    BY <1>3, Brought, Kinds
  <2>2. QED BY <1>1, <1>2, <1>3, <2>1 DEF ServedCall
<1>4. CASE call[j].op = "removeItem"
  <2>1. \A i \in Elements(call[j].ids) : i \in Items /\ i \in issued
    BY <1>4, Brought, Kinds
  <2>2. QED BY <1>1, <1>2, <1>4, <2>1 DEF ServedCall
<1>5. CASE call[j].op = "addTab"
  <2>1. PICK h, r : h = Head(call[j].ids) /\ r = Tail(call[j].ids)
    OBVIOUS
  <2>2. /\ h \in Tabs /\ h \in issued /\ ~Referred(h)
        /\ \A c \in Elements(r) : c \in Cards /\ c \in issued
    BY <1>5, <2>1, Brought, Kinds
  <2>3. h # call[k].tab /\ h # Nothing /\ h # x
    BY <1>2, <2>2, Kinds
  <2>4. \A c \in Cards : tabOf[c] = h <=> c \in Elements(r)
    BY <1>5, <2>1 DEF ServedCall
  <2>5. \A c \in Cards : tabOf'[c] = h <=> c \in Elements(r)
    BY <1>2, <2>2, <2>3, <2>4
  <2>6. QED BY <1>1, <1>5, <2>1, <2>5 DEF ServedCall
<1>6. CASE call[j].op \in {"createCard", "importCard"}
  <2>1. PICK h, r, t : h = Head(call[j].ids) /\ r = Tail(call[j].ids) /\ t = call[j].tab
    OBVIOUS
  <2>2. /\ h \in Cards /\ h \in issued /\ t \in Tabs /\ t \in issued
        /\ \A i \in Elements(r) : i \in Items /\ i \in issued
    BY <1>6, <2>1, Brought, Kinds
  <2>3. /\ t \in savedTabs => tabOf[h] = t
        /\ tabOf[h] \in {t, Nothing}
        /\ \A i \in Elements(r) : cardOf[i] = IF tabOf[h] = Nothing THEN Nothing ELSE h
    BY <1>6, <2>1 DEF ServedCall
  <2>4. /\ t \in savedTabs' => tabOf'[h] = t
        /\ tabOf'[h] \in {t, Nothing}
        /\ \A i \in Elements(r) : cardOf'[i] = IF tabOf'[h] = Nothing THEN Nothing ELSE h
    BY <1>2, <2>2, <2>3
  <2>5. QED BY <1>1, <1>6, <2>1, <2>4 DEF ServedCall
<1>7. CASE call[j].op = "addItem"
  <2>1. PICK c, r : c = call[j].card /\ r = call[j].ids
    OBVIOUS
  <2>2. c \in Cards /\ c \in issued /\ \A i \in Elements(r) : i \in Items /\ i \in issued
    BY <1>7, <2>1, Brought, Kinds
  <2>3. \A i \in Elements(r) : cardOf'[i] = IF tabOf'[c] = Nothing THEN Nothing ELSE c
    BY <1>2, <1>7, <2>1, <2>2 DEF ServedCall
  <2>4. QED BY <1>1, <1>7, <2>1, <2>3 DEF ServedCall
<1>8. CASE call[j].op \in {"none", "removeTab"}
  BY <1>1, <1>8 DEF ServedCall
<1>9. QED BY <1>3, <1>4, <1>5, <1>6, <1>7, <1>8, CallType DEF PageInv, Ops

\* and rows taken away as much as they should.
LEMMA ServedOnDelete ==
    ASSUME PageInv, TabsStored, NEW k \in Calls, Deletes(k),
           NEW j \in Calls \ {k}, call[j].at = "done", ServedCall(j)
    PROVE  ServedCall(j)'
<1>1. call'[j] = call[j]
  BY DEF Deletes, Replied
<1>2. /\ savedTabs' \subseteq savedTabs
      /\ \A c \in Cards : tabOf'[c] \in {tabOf[c], Nothing}
      /\ \A i \in Items : cardOf'[i] \in {cardOf[i], Nothing}
      /\ \A c \in Cards : ~Referred(c) =>
             tabOf'[c] = IF tabOf[c] \in savedTabs' THEN tabOf[c] ELSE Nothing
      /\ \A i \in Items : ~Referred(i) =>
             cardOf'[i] = IF cardOf[i] # Nothing /\ tabOf'[cardOf[i]] # Nothing
                            THEN cardOf[i] ELSE Nothing
      /\ \A t \in Tabs : ~Referred(t) /\ t \in savedTabs => t \in savedTabs'
  BY Shrinks
<1>3. CASE call[j].op = "removeCard"
  <2>1. call[j].card \in Cards
    BY <1>3, Brought
  <2>2. QED BY <1>1, <1>2, <1>3, <2>1 DEF ServedCall
<1>4. CASE call[j].op = "removeItem"
  <2>1. \A i \in Elements(call[j].ids) : i \in Items
    BY <1>4, Brought
  <2>2. QED BY <1>1, <1>2, <1>4, <2>1 DEF ServedCall
<1>5. CASE call[j].op = "addTab"
  <2>1. PICK h, r : h = Head(call[j].ids) /\ r = Tail(call[j].ids)
    OBVIOUS
  <2>2. /\ h \in Tabs /\ ~Referred(h) /\ h # Nothing
        /\ \A c \in Elements(r) : c \in Cards /\ ~Referred(c)
    BY <1>5, <2>1, Brought, Kinds
  <2>3. h \in savedTabs'
    BY <1>2, <1>5, <2>1, <2>2 DEF TabsStored
  <2>4. \A c \in Cards : tabOf[c] = h <=> c \in Elements(r)
    BY <1>5, <2>1 DEF ServedCall
  <2>5. \A c \in Cards : tabOf'[c] = h <=> c \in Elements(r)
    BY <1>2, <2>2, <2>3, <2>4
  <2>6. QED BY <1>1, <1>5, <2>1, <2>5 DEF ServedCall
<1>6. CASE call[j].op \in {"createCard", "importCard"}
  <2>1. PICK h, r, t : h = Head(call[j].ids) /\ r = Tail(call[j].ids) /\ t = call[j].tab
    OBVIOUS
  <2>2. /\ h \in Cards /\ ~Referred(h) /\ t \in Tabs /\ t # Nothing /\ h # Nothing
        /\ \A i \in Elements(r) : i \in Items /\ ~Referred(i)
    BY <1>6, <2>1, Brought, Kinds
  <2>3. /\ t \in savedTabs => tabOf[h] = t
        /\ tabOf[h] \in {t, Nothing}
        /\ \A i \in Elements(r) : cardOf[i] = IF tabOf[h] = Nothing THEN Nothing ELSE h
    BY <1>6, <2>1 DEF ServedCall
  <2>4. /\ t \in savedTabs' => tabOf'[h] = t
        /\ tabOf'[h] \in {t, Nothing}
    BY <1>2, <2>2, <2>3
  <2>5. \A i \in Elements(r) : cardOf'[i] = IF tabOf'[h] = Nothing THEN Nothing ELSE h
    BY <1>2, <2>2, <2>3
  <2>6. QED BY <1>1, <1>6, <2>1, <2>4, <2>5 DEF ServedCall
<1>7. CASE call[j].op = "addItem"
  <2>1. PICK c, r : c = call[j].card /\ r = call[j].ids
    OBVIOUS
  <2>2. c \in Cards /\ c # Nothing /\ \A i \in Elements(r) : i \in Items /\ ~Referred(i)
    BY <1>7, <2>1, Brought, Kinds
  <2>3. \A i \in Elements(r) : cardOf[i] = IF tabOf[c] = Nothing THEN Nothing ELSE c
    BY <1>7, <2>1 DEF ServedCall
  <2>4. \A i \in Elements(r) : cardOf'[i] = IF tabOf'[c] = Nothing THEN Nothing ELSE c
    BY <1>2, <2>2, <2>3
  <2>5. QED BY <1>1, <1>7, <2>1, <2>4 DEF ServedCall
<1>8. CASE call[j].op \in {"none", "removeTab"}
  BY <1>1, <1>8 DEF ServedCall
<1>9. QED BY <1>3, <1>4, <1>5, <1>6, <1>7, <1>8, CallType DEF PageInv, Ops

\* The call itself.
LEMMA ServedNow ==
    ASSUME PageInv, NEW k \in Calls,
           (\E x, s : Stores(k, x, s)) \/ Deletes(k), call'[k].at = "done"
    PROVE  ServedCall(k)'
<1>1. ASSUME NEW x, NEW s, Stores(k, x, s) PROVE ServedCall(k)'
  <2>0. PICK q : q = <<x>> \o s
    OBVIOUS
  <2>1. /\ call'[k].op = call[k].op /\ call'[k].tab = call[k].tab /\ call'[k].card = call[k].card
        /\ call'[k].ids = q /\ Head(q) = x /\ Tail(q) = s /\ Elements(q) = {x} \cup Elements(s)
        /\ x \notin issued /\ \A y \in Elements(s) : y \notin issued
    BY <1>1, <2>0 DEF Stores, Replied
  <2>2. /\ \A c \in Cards : tabOf[c] # Nothing => tabOf[c] \in issued
        /\ Nothing \notin Tabs /\ Nothing \notin Cards
        /\ savedTabs \subseteq Tabs /\ CallFits(k)
    BY Kinds, CallType DEF PageInv, Known, BoardTypeOK
  <2>3. CASE TabStored(k, x, s)
    <3>1. \A c \in Cards : tabOf'[c] = x <=> c \in Elements(s)
      BY <2>1, <2>2, <2>3 DEF TabStored
    <3>2. QED BY <2>1, <2>3, <3>1 DEF ServedCall, TabStored
  <2>4. CASE CardStored(k, x, s)
    <3>1. /\ tabOf'[x] = call[k].tab /\ call[k].tab # Nothing
          /\ \A i \in Items : i \in Elements(s) => cardOf'[i] = x
      BY <2>2, <2>4 DEF CardStored, PageInv, BoardTypeOK
    <3>2. Elements(s) \subseteq Items
      <4>1. s = <<>> \/ \E i \in Items : s = <<i>>
        BY <2>4 DEF CardStored
      <4>2. QED BY <4>1, NoElements, OneElement
    <3>3. QED BY <2>1, <2>4, <3>1, <3>2 DEF ServedCall, CardStored
  <2>5. CASE s = <<>> /\ ItemStored(k, x)
    <3>1. cardOf'[x] = call[k].card /\ tabOf' = tabOf /\ tabOf[call[k].card] # Nothing
      BY <2>5 DEF ItemStored, PageInv, BoardTypeOK
    <3>2. Elements(q) = {x}
      BY <2>1, <2>5, NoElements
    <3>3. QED BY <2>1, <2>5, <3>1, <3>2 DEF ServedCall, ItemStored
  <2>6. QED BY <1>1, <2>3, <2>4, <2>5 DEF Stores
<1>2. CASE Deletes(k)
  <2>1. /\ call'[k].op = call[k].op /\ call'[k].card = call[k].card /\ call'[k].ids = call[k].ids
        /\ CallFits(k) /\ call[k].ids \in Seq(Ids)
    BY <1>2, CallType DEF Deletes, Replied, PageInv
  <2>2. CASE TabDeleted(k)
    BY <2>1, <2>2 DEF TabDeleted, ServedCall
  <2>3. CASE CardDeleted(k)
    <3>1. call[k].card \in Cards
      BY <2>1, <2>3 DEF CardDeleted, CallFits
    <3>2. QED BY <2>1, <2>3, <3>1 DEF CardDeleted, ServedCall
  <2>4. CASE ItemDeleted(k)
    <3>1. Elements(call[k].ids) \subseteq Items
      <4>1. \E i \in Items : call[k].ids = <<i>>
        BY <2>1, <2>4 DEF ItemDeleted, CallFits
      <4>2. QED BY <4>1, OneElement
    <3>2. QED BY <2>1, <2>4, <3>1 DEF ItemDeleted, ServedCall
  <2>5. QED BY <1>2, <2>2, <2>3, <2>4 DEF Deletes
<1>3. QED BY <1>1, <1>2

LEMMA ServedKept ==
    ASSUME PageInv, TabsStored, Served, BoardStep
    PROVE  Served'
<1>0. \A j \in Calls : call[j].at = "done" => ServedCall(j)
  BY ServedCalls
<1>1. ASSUME NEW j \in Calls, call'[j].at = "done" PROVE ServedCall(j)'
  <2>1. ASSUME UNCHANGED rows, call'[j] = call[j] PROVE ServedCall(j)'
    BY <1>0, <1>1, <2>1 DEF ServedCall, rows
  <2>2. CASE Looks
    BY <2>1, <2>2 DEF Looks
  <2>3. ASSUME NEW k \in Calls, Asks(k) \/ Refuses(k) \/ Closes(k) PROVE ServedCall(j)'
    <3>1. UNCHANGED rows /\ call'[k].at # "done" /\ \A l \in Calls \ {k} : call'[l] = call[l]
      BY <2>3 DEF Asks, Refuses, Closes
    <3>2. QED BY <1>1, <2>1, <3>1
  <2>4. ASSUME NEW k \in Calls, (\E x, s : Stores(k, x, s)) \/ Deletes(k) PROVE ServedCall(j)'
    <3>1. CASE j = k
      BY <1>1, <2>4, <3>1, ServedNow
    <3>2. CASE j # k
      <4>1. call'[j] = call[j]
        BY <2>4, <3>2 DEF Stores, Deletes, Replied
      <4>2. QED BY <1>0, <1>1, <2>4, <3>2, <4>1, ServedOnStore, ServedOnDelete
    <3>3. QED BY <3>1, <3>2
  <2>5. QED BY <2>2, <2>3, <2>4 DEF BoardStep
<1>2. QED BY <1>1 DEF Served, ServedCall

LEMMA CardsFollowKept ==
    ASSUME PageInv, TabsStored, Served, CardsFollow, BoardStep
    PROVE  CardsFollow'
<1>0. /\ \A t \in Elements(tabs) : \A c \in Cards : c \notin lost =>
             /\ c \in Elements(cardsOf[t]) => tabOf[c] = t \/ Leaving(c)
             /\ tabOf[c] = t => c \in Elements(cardsOf[t]) \/ Coming(c)
      /\ Elements(tabs) \subseteq Tabs
      /\ \A t \in Tabs : \A c \in Elements(cardsOf[t]) : Referred(c)
      /\ \A j \in Calls : call[j].at = "done" => ServedCall(j)
      /\ Elements(tabs) \subseteq savedTabs
  BY ElementsOf, ServedCalls DEF CardsFollow, PageInv, BoardTypeOK, Referred, OnPage, TabsStored
<1>1. SUFFICES ASSUME NEW t \in Elements(tabs'), NEW c \in Cards, c \notin lost'
               PROVE  /\ c \in Elements(cardsOf'[t]) => tabOf'[c] = t \/ Leaving(c)'
                      /\ tabOf'[c] = t => c \in Elements(cardsOf'[t]) \/ Coming(c)'
  BY DEF CardsFollow
<1>2. CASE Looks
  <2>1. /\ t \in Elements(tabs) /\ t \in Tabs /\ c \notin lost
        /\ Elements(cardsOf'[t]) = Elements(cardsOf[t]) /\ tabOf' = tabOf
    BY <1>0, <1>1, <1>2 DEF Looks, rows
  <2>2. (Leaving(c)' <=> Leaving(c)) /\ (Coming(c)' <=> Coming(c))
    BY <1>2 DEF Looks, Leaving, Leaves, Coming, New, Brings
  <2>3. QED BY <1>0, <2>1, <2>2
<1>3. ASSUME NEW k \in Calls, Asks(k) \/ Refuses(k)
      PROVE  /\ c \in Elements(cardsOf'[t]) => tabOf'[c] = t \/ Leaving(c)'
             /\ tabOf'[c] = t => c \in Elements(cardsOf'[t]) \/ Coming(c)'
  <2>1. /\ t \in Elements(tabs) /\ c \notin lost /\ cardsOf' = cardsOf /\ tabOf' = tabOf
        /\ call[k].at # "done" /\ \A j \in Calls \ {k} : call'[j] = call[j]
    BY <1>1, <1>3 DEF Asks, Refuses, rows, objects
  <2>2. (Leaving(c) => Leaving(c)') /\ (Coming(c) => Coming(c)')
    BY <2>1, Transit DEF Leaves, New, Brings
  <2>3. QED BY <1>0, <2>1, <2>2
<1>4. ASSUME NEW k \in Calls, NEW x, NEW s, Stores(k, x, s)
      PROVE  /\ c \in Elements(cardsOf'[t]) => tabOf'[c] = t \/ Leaving(c)'
             /\ tabOf'[c] = t => c \in Elements(cardsOf'[t]) \/ Coming(c)'
  <2>1. /\ t \in Elements(tabs) /\ cardsOf' = cardsOf
        /\ call[k].at # "done" /\ \A j \in Calls \ {k} : call'[j] = call[j]
        /\ \A y \in {x} \cup Elements(s) : y \notin issued
        /\ call'[k].at = "done" \/ {x} \cup Elements(s) \subseteq lost'
        /\ lost \subseteq lost'
        /\ call'[k].at \in {"done", "failed"}
    <3>1. Elements(<<x>> \o s) = {x} \cup Elements(s) /\ Replied(k, <<x>> \o s)
      BY <1>4 DEF Stores
    <3>2. PICK q : q = Elements(<<x>> \o s)
      OBVIOUS
    <3>3. lost \subseteq lost' /\ (call'[k].at # "done" => q \subseteq lost')
      BY <3>1, <3>2 DEF Replied
    <3>4. QED BY <1>1, <1>4, <3>1, <3>2, <3>3 DEF Stores, Replied, objects
  <2>2. (Leaving(c) => Leaving(c)') /\ (Coming(c) => Coming(c)')
    BY <2>1, Transit DEF Leaves, New, Brings
  <2>3. c \notin lost
    BY <1>1, <2>1
  <2>4. CASE c \in {x} \cup Elements(s)
    <3>1. call'[k].at = "done"
      BY <1>1, <2>1, <2>4
    <3>2. Brings(k)' /\ New(k)' = {x} \cup Elements(s)
      BY <1>4, <3>1 DEF Stores, Replied, New, Brings, TabStored, CardStored, ItemStored
    <3>3. Coming(c)'
      BY <2>1, <2>4, <3>2, Transit
    <3>4. c \notin Elements(cardsOf[t])
      BY <1>0, <2>1, <2>4, Kinds
    <3>5. QED BY <2>1, <3>3, <3>4
  <2>5. CASE c \notin {x} \cup Elements(s)
    <3>1. tabOf'[c] = tabOf[c]
      BY <1>4, <2>5, StoredApart
    <3>2. QED BY <1>0, <2>1, <2>2, <2>3, <3>1
  <2>6. QED BY <2>4, <2>5
<1>5. ASSUME NEW k \in Calls, Deletes(k)
      PROVE  /\ c \in Elements(cardsOf'[t]) => tabOf'[c] = t \/ Leaving(c)'
             /\ tabOf'[c] = t => c \in Elements(cardsOf'[t]) \/ Coming(c)'
  <2>1. /\ t \in Elements(tabs) /\ cardsOf' = cardsOf /\ c \notin lost
        /\ call[k].at # "done" /\ \A j \in Calls \ {k} : call'[j] = call[j]
        /\ call'[k].op = call[k].op /\ call'[k].ids = call[k].ids
        /\ call'[k].at \in {"done", "failed"}
        /\ call'[k].at = "failed" => c \notin Elements(call[k].ids)
    BY <1>1, <1>5 DEF Deletes, Replied, objects
  <2>2. (Leaving(c) => Leaving(c)') /\ (Coming(c) => Coming(c)')
    BY <2>1, Transit DEF Leaves, New, Brings
  <2>3. t \in Tabs /\ t # Nothing
    BY <1>0, <2>1, Kinds
  <2>4. CASE TabDeleted(k)
    <3>1. t # call[k].tab
      BY <2>1, <2>4 DEF TabDeleted, TabsStored
    <3>2. tabOf'[c] = t <=> tabOf[c] = t
      BY <2>3, <2>4, <3>1 DEF TabDeleted
    <3>3. QED BY <1>0, <2>1, <2>2, <3>2
  <2>5. CASE CardDeleted(k)
    <3>1. Elements(call[k].ids) = {call[k].card}
      <4>1. call[k].ids = <<call[k].card>>
        BY <2>5, CallType DEF CardDeleted, CallFits, PageInv
      <4>2. Elements(<<call[k].card>>) = {call[k].card}
        BY OneElement
      <4>3. QED BY <4>1, <4>2, Zenon
    <3>2. CASE c = call[k].card
      <4>1. tabOf'[c] = Nothing
        BY <2>5, <3>2 DEF CardDeleted
      <4>2. Leaves(k, c)'
        BY <2>1, <2>5, <3>1, <3>2 DEF Leaves, CardDeleted
      <4>3. Leaving(c)'
        BY <2>1, <4>2, Transit
      <4>4. QED BY <2>3, <4>1, <4>3
    <3>3. CASE c # call[k].card
      <4>1. tabOf'[c] = tabOf[c]
        BY <2>5, <3>3 DEF CardDeleted
      <4>2. QED BY <1>0, <2>1, <2>2, <4>1
    <3>4. QED BY <3>2, <3>3
  <2>6. CASE ItemDeleted(k)
    BY <1>0, <2>1, <2>2, <2>6 DEF ItemDeleted
  <2>7. QED BY <1>5, <2>4, <2>5, <2>6 DEF Deletes
<1>6. ASSUME NEW k \in Calls, Closes(k), Resumed(k)
      PROVE  /\ c \in Elements(cardsOf'[t]) => tabOf'[c] = t \/ Leaving(c)'
             /\ tabOf'[c] = t => c \in Elements(cardsOf'[t]) \/ Coming(c)'
  <2>1. /\ tabOf' = tabOf /\ \A j \in Calls \ {k} : call'[j] = call[j]
    BY <1>6 DEF Closes, rows
  <2>2. /\ Leaving(c) /\ ~Leaves(k, c) => Leaving(c)'
        /\ Coming(c) /\ c \notin New(k) => Coming(c)'
    BY <2>1, Transit
  <2>3. ASSUME c \notin lost, t \in Elements(tabs), ~Leaves(k, c), c \notin New(k),
               c \in Elements(cardsOf'[t]) <=> c \in Elements(cardsOf[t])
        PROVE  /\ c \in Elements(cardsOf'[t]) => tabOf'[c] = t \/ Leaving(c)'
               /\ tabOf'[c] = t => c \in Elements(cardsOf'[t]) \/ Coming(c)'
    BY <1>0, <2>1, <2>2, <2>3
  <2>4. ASSUME NEW u, NEW s, ShowsTab(k, u, s)
        PROVE  /\ c \in Elements(cardsOf'[t]) => tabOf'[c] = t \/ Leaving(c)'
               /\ tabOf'[c] = t => c \in Elements(cardsOf'[t]) \/ Coming(c)'
    <3>1. /\ \A d \in Cards : tabOf[d] = u <=> d \in Elements(s)
          /\ c # u /\ u \in Tabs
      BY <1>0, <2>4, Kinds DEF ShowsTab, ServedCall
    <3>2. CASE t = u
      BY <2>1, <2>4, <3>1, <3>2 DEF ShowsTab
    <3>3. CASE t # u
      <4>1. /\ c \notin lost /\ t \in Elements(tabs) /\ ~Leaves(k, c) /\ t \in Tabs
            /\ cardsOf'[t] = cardsOf[t] /\ New(k) = {u} \cup Elements(s)
        BY <1>0, <1>1, <2>4, <3>3 DEF ShowsTab, Leaves
      <4>2. CASE c \in Elements(s)
        <5>1. tabOf[c] = u
          BY <3>1, <4>2
        <5>2. c \notin Elements(cardsOf[t])
          BY <1>0, <4>1, <4>2, Kinds
        <5>3. QED BY <2>1, <3>3, <4>1, <5>1, <5>2
      <4>3. CASE c \notin Elements(s)
        BY <2>3, <3>1, <4>1, <4>3
      <4>4. QED BY <4>2, <4>3
    <3>4. QED BY <3>2, <3>3
  <2>5. ASSUME NEW u, NEW d, NEW s, ShowsCard(k, u, d, s)
        PROVE  /\ c \in Elements(cardsOf'[t]) => tabOf'[c] = t \/ Leaving(c)'
               /\ tabOf'[c] = t => c \in Elements(cardsOf'[t]) \/ Coming(c)'
    <3>1. /\ t \in Elements(tabs) /\ t \in Tabs /\ ~Leaves(k, c) /\ c \notin lost
          /\ New(k) = {d} \cup Elements(s) /\ c \notin Elements(s)
          /\ Elements(cardsOf'[t]) = Elements(cardsOf[t]) \cup (IF t = u THEN {d} ELSE {})
          /\ c = d => u = call[k].tab
      BY <1>0, <1>1, <2>5, Kinds DEF ShowsCard, Leaves
    <3>2. CASE c # d
      BY <2>3, <3>1, <3>2
    <3>3. CASE c = d
      <4>1. /\ call[k].tab \in savedTabs => tabOf[d] = call[k].tab
            /\ tabOf[d] \in {call[k].tab, Nothing}
        BY <1>0, <2>5 DEF ShowsCard, ServedCall
      <4>2. c \notin Elements(cardsOf[t])
        BY <1>0, <3>1, <3>3, Kinds
      <4>3. c \in Elements(cardsOf'[t]) <=> t = u
        BY <3>1, <3>3, <4>2
      <4>4. t \in savedTabs /\ t # Nothing
        BY <1>0, <3>1, Kinds
      <4>5. QED BY <2>1, <3>1, <3>3, <4>1, <4>3, <4>4
    <3>4. QED BY <3>2, <3>3
  <2>6. ASSUME NEW d, NEW i, ShowsItem(k, d, i)
        PROVE  /\ c \in Elements(cardsOf'[t]) => tabOf'[c] = t \/ Leaving(c)'
               /\ tabOf'[c] = t => c \in Elements(cardsOf'[t]) \/ Coming(c)'
    <3>1. /\ t \in Elements(tabs) /\ ~Leaves(k, c) /\ c \notin lost
          /\ c \notin New(k) /\ cardsOf' = cardsOf
      BY <1>1, <2>6, Kinds DEF ShowsItem, Leaves
    <3>2. QED BY <2>3, <3>1
  <2>7. ASSUME NEW u, NEW d, HidesCard(k, u, d)
        PROVE  /\ c \in Elements(cardsOf'[t]) => tabOf'[c] = t \/ Leaving(c)'
               /\ tabOf'[c] = t => c \in Elements(cardsOf'[t]) \/ Coming(c)'
    <3>1. /\ t \in Elements(tabs) /\ t \in Tabs /\ u \in Tabs /\ c \notin lost /\ New(k) = {}
          /\ Elements(call[k].ids) = {d}
          /\ Elements(cardsOf'[u]) = Elements(cardsOf[u]) \ {d}
          /\ t # u => cardsOf'[t] = cardsOf[t]
          /\ c = d => d \in Elements(cardsOf[u])
      BY <1>0, <1>1, <2>7 DEF HidesCard
    <3>2. CASE c # d
      <4>1. ~Leaves(k, c)
        BY <3>1, <3>2 DEF Leaves
      <4>2. c \in Elements(cardsOf'[t]) <=> c \in Elements(cardsOf[t])
        BY <3>1, <3>2
      <4>3. QED BY <2>3, <3>1, <4>1, <4>2
    <3>3. CASE c = d
      <4>1. tabOf[c] = Nothing /\ t # Nothing
        BY <1>0, <2>7, <3>1, <3>3, Kinds DEF HidesCard, ServedCall
      <4>2. \A v, w \in Tabs : Elements(cardsOf[v]) \cap Elements(cardsOf[w]) # {} => v = w
        BY DEF PageInv, Places
      <4>3. c \notin Elements(cardsOf'[t])
        BY <3>1, <3>3, <4>2
      <4>4. QED BY <2>1, <4>1, <4>3
    <3>4. QED BY <3>2, <3>3
  <2>8. ASSUME NEW d, NEW x, HidesItem(k, d, x)
        PROVE  /\ c \in Elements(cardsOf'[t]) => tabOf'[c] = t \/ Leaving(c)'
               /\ tabOf'[c] = t => c \in Elements(cardsOf'[t]) \/ Coming(c)'
    <3>1. Elements(call[k].ids) \subseteq Items
      BY <2>8, Brought DEF HidesItem
    <3>2. /\ t \in Elements(tabs) /\ ~Leaves(k, c) /\ c \notin lost
          /\ c \notin New(k) /\ cardsOf' = cardsOf
      BY <1>1, <2>8, <3>1, Kinds DEF HidesItem, Leaves
    <3>3. QED BY <2>3, <3>2
  <2>9. CASE Settles(k)
    <3>1. /\ t \in Elements(tabs) /\ ~Leaves(k, c) /\ c \notin lost
          /\ c \notin New(k) /\ cardsOf' = cardsOf
      BY <1>1, <2>9 DEF Settles, Leaves, objects
    <3>2. QED BY <2>3, <3>1
  <2>10. QED BY <1>6, <2>4, <2>5, <2>6, <2>7, <2>8, <2>9 DEF Resumed
<1>7. QED BY <1>2, <1>3, <1>4, <1>5, <1>6 DEF BoardStep

LEMMA ItemsFollowKept ==
    ASSUME PageInv, TabsStored, Served, ItemsFollow, BoardStep
    PROVE  ItemsFollow'
<1>0. /\ \A c \in Cards : tabOf[c] # Nothing => \A i \in Items : i \notin lost =>
             /\ i \in Elements(itemsOf[c]) => cardOf[i] = c \/ Leaving(i)
             /\ cardOf[i] = c => i \in Elements(itemsOf[c]) \/ Coming(i)
      /\ \A c \in Cards : \A i \in Elements(itemsOf[c]) : Referred(i)
      /\ \A j \in Calls : call[j].at = "done" => ServedCall(j)
      /\ \A c \in Cards : Elements(itemsOf[c]) # {} => c \in issued /\ \A j \in Calls : c \notin New(j)
      /\ \A c \in Cards : tabOf[c] # Nothing => c \in issued
      /\ \A i \in Items : cardOf[i] # Nothing => tabOf[cardOf[i]] # Nothing
  BY ElementsOf, ServedCalls DEF ItemsFollow, PageInv, BoardTypeOK, Known, Bare, Referred, OnPage
<1>1. SUFFICES ASSUME NEW c \in Cards, tabOf'[c] # Nothing, NEW i \in Items, i \notin lost'
               PROVE  /\ i \in Elements(itemsOf'[c]) => cardOf'[i] = c \/ Leaving(i)'
                      /\ cardOf'[i] = c => i \in Elements(itemsOf'[c]) \/ Coming(i)'
  BY DEF ItemsFollow
<1>2. CASE Looks
  <2>1. /\ i \notin lost /\ tabOf' = tabOf /\ cardOf' = cardOf
        /\ Elements(itemsOf'[c]) = Elements(itemsOf[c])
    BY <1>1, <1>2 DEF Looks, rows
  <2>2. (Leaving(i)' <=> Leaving(i)) /\ (Coming(i)' <=> Coming(i))
    BY <1>2 DEF Looks, Leaving, Leaves, Coming, New, Brings
  <2>3. QED BY <1>0, <1>1, <2>1, <2>2
<1>3. ASSUME NEW k \in Calls, Asks(k) \/ Refuses(k)
      PROVE  /\ i \in Elements(itemsOf'[c]) => cardOf'[i] = c \/ Leaving(i)'
             /\ cardOf'[i] = c => i \in Elements(itemsOf'[c]) \/ Coming(i)'
  <2>1. /\ i \notin lost /\ itemsOf' = itemsOf /\ tabOf' = tabOf /\ cardOf' = cardOf
        /\ call[k].at # "done" /\ \A j \in Calls \ {k} : call'[j] = call[j]
    BY <1>1, <1>3 DEF Asks, Refuses, rows, objects
  <2>2. (Leaving(i) => Leaving(i)') /\ (Coming(i) => Coming(i)')
    BY <2>1, Transit DEF Leaves, New, Brings
  <2>3. QED BY <1>0, <1>1, <2>1, <2>2
<1>4. ASSUME NEW k \in Calls, NEW x, NEW s, Stores(k, x, s)
      PROVE  /\ i \in Elements(itemsOf'[c]) => cardOf'[i] = c \/ Leaving(i)'
             /\ cardOf'[i] = c => i \in Elements(itemsOf'[c]) \/ Coming(i)'
  <2>1. /\ itemsOf' = itemsOf
        /\ call[k].at # "done" /\ \A j \in Calls \ {k} : call'[j] = call[j]
        /\ \A y \in {x} \cup Elements(s) : y \notin issued
        /\ call'[k].at = "done" \/ {x} \cup Elements(s) \subseteq lost'
        /\ lost \subseteq lost'
    <3>1. Elements(<<x>> \o s) = {x} \cup Elements(s) /\ Replied(k, <<x>> \o s)
      BY <1>4 DEF Stores
    <3>2. PICK q : q = Elements(<<x>> \o s)
      OBVIOUS
    <3>3. lost \subseteq lost' /\ (call'[k].at # "done" => q \subseteq lost')
      BY <3>1, <3>2 DEF Replied
    <3>4. QED BY <1>4, <3>1, <3>2, <3>3 DEF Stores, Replied, objects
  <2>2. (Leaving(i) => Leaving(i)') /\ (Coming(i) => Coming(i)')
    BY <2>1, Transit DEF Leaves, New, Brings
  <2>3. i \notin lost
    BY <1>1, <2>1
  <2>4. CASE i \in {x} \cup Elements(s)
    <3>1. call'[k].at = "done"
      BY <1>1, <2>1, <2>4
    <3>2. Brings(k)' /\ New(k)' = {x} \cup Elements(s)
      BY <1>4, <3>1 DEF Stores, Replied, New, Brings, TabStored, CardStored, ItemStored
    <3>3. Coming(i)'
      BY <2>1, <2>4, <3>2, Transit
    <3>4. i \notin Elements(itemsOf[c])
      BY <1>0, <2>1, <2>4, Kinds
    <3>5. QED BY <2>1, <3>3, <3>4
  <2>5. CASE i \notin {x} \cup Elements(s)
    <3>1. cardOf'[i] = cardOf[i]
      BY <1>4, <2>5, StoredApart
    <3>2. CASE c \in {x} \cup Elements(s)
      <4>1. Elements(itemsOf[c]) = {} /\ c \notin issued /\ c # Nothing
        BY <1>0, <2>1, <3>2, Kinds
      <4>2. cardOf[i] # c
        BY <1>0, <4>1
      <4>3. QED BY <2>1, <3>1, <4>1, <4>2
    <3>3. CASE c \notin {x} \cup Elements(s)
      <4>1. tabOf[c] # Nothing
        BY <1>1, <1>4, <3>3, StoredApart
      <4>2. QED BY <1>0, <2>1, <2>2, <2>3, <3>1, <4>1
    <3>4. QED BY <3>2, <3>3
  <2>6. QED BY <2>4, <2>5
<1>5. ASSUME NEW k \in Calls, Deletes(k)
      PROVE  /\ i \in Elements(itemsOf'[c]) => cardOf'[i] = c \/ Leaving(i)'
             /\ cardOf'[i] = c => i \in Elements(itemsOf'[c]) \/ Coming(i)'
  <2>1. /\ itemsOf' = itemsOf /\ i \notin lost
        /\ call[k].at # "done" /\ \A j \in Calls \ {k} : call'[j] = call[j]
        /\ call'[k].op = call[k].op /\ call'[k].ids = call[k].ids
        /\ call'[k].at \in {"done", "failed"}
        /\ call'[k].at = "failed" => i \notin Elements(call[k].ids)
    BY <1>1, <1>5 DEF Deletes, Replied, objects
  <2>2. (Leaving(i) => Leaving(i)') /\ (Coming(i) => Coming(i)')
    BY <2>1, Transit DEF Leaves, New, Brings
  <2>3. tabOf[c] # Nothing /\ c # Nothing
    BY <1>1, <1>5, Shrinks, Kinds
  <2>4. CASE TabDeleted(k) \/ CardDeleted(k)
    <3>1. cardOf'[i] = c <=> cardOf[i] = c
      BY <1>1, <2>3, <2>4 DEF TabDeleted, CardDeleted
    <3>2. QED BY <1>0, <2>1, <2>2, <2>3, <3>1
  <2>5. CASE ItemDeleted(k)
    <3>1. CASE i \in Elements(call[k].ids)
      <4>1. cardOf'[i] = Nothing
        BY <2>5, <3>1 DEF ItemDeleted
      <4>2. Leaves(k, i)'
        BY <2>1, <2>5, <3>1 DEF Leaves, ItemDeleted
      <4>3. Leaving(i)'
        BY <2>1, <4>2, Transit
      <4>4. QED BY <2>3, <4>1, <4>3
    <3>2. CASE i \notin Elements(call[k].ids)
      <4>1. cardOf'[i] = c <=> cardOf[i] = c
        BY <2>3, <2>5, <3>2 DEF ItemDeleted
      <4>2. QED BY <1>0, <2>1, <2>2, <2>3, <4>1
    <3>3. QED BY <3>1, <3>2
  <2>6. QED BY <1>5, <2>4, <2>5 DEF Deletes
<1>6. ASSUME NEW k \in Calls, Closes(k), Resumed(k)
      PROVE  /\ i \in Elements(itemsOf'[c]) => cardOf'[i] = c \/ Leaving(i)'
             /\ cardOf'[i] = c => i \in Elements(itemsOf'[c]) \/ Coming(i)'
  <2>1. /\ tabOf[c] # Nothing /\ cardOf' = cardOf /\ \A j \in Calls \ {k} : call'[j] = call[j]
    BY <1>1, <1>6 DEF Closes, rows
  <2>2. /\ Leaving(i) /\ ~Leaves(k, i) => Leaving(i)'
        /\ Coming(i) /\ i \notin New(k) => Coming(i)'
    BY <2>1, Transit
  <2>3. ASSUME i \notin lost, ~Leaves(k, i), i \notin New(k),
               i \in Elements(itemsOf'[c]) <=> i \in Elements(itemsOf[c])
        PROVE  /\ i \in Elements(itemsOf'[c]) => cardOf'[i] = c \/ Leaving(i)'
               /\ cardOf'[i] = c => i \in Elements(itemsOf'[c]) \/ Coming(i)'
    BY <1>0, <2>1, <2>2, <2>3
  <2>4. ASSUME NEW t, NEW s, ShowsTab(k, t, s)
        PROVE  /\ i \in Elements(itemsOf'[c]) => cardOf'[i] = c \/ Leaving(i)'
               /\ cardOf'[i] = c => i \in Elements(itemsOf'[c]) \/ Coming(i)'
    <3>1. i \notin lost /\ ~Leaves(k, i) /\ i \notin New(k) /\ itemsOf' = itemsOf
      BY <1>1, <2>4, Kinds DEF ShowsTab, Leaves
    <3>2. QED BY <2>3, <3>1
  <2>5. ASSUME NEW t, NEW d, NEW s, ShowsCard(k, t, d, s)
        PROVE  /\ i \in Elements(itemsOf'[c]) => cardOf'[i] = c \/ Leaving(i)'
               /\ cardOf'[i] = c => i \in Elements(itemsOf'[c]) \/ Coming(i)'
    <3>1. /\ i \notin lost /\ ~Leaves(k, i) /\ i # d
          /\ New(k) = {d} \cup Elements(s) /\ d \in Cards
          /\ Elements(itemsOf'[d]) = Elements(s)
          /\ c # d => itemsOf'[c] = itemsOf[c]
      BY <1>1, <2>5, Kinds DEF ShowsCard, Leaves
    <3>2. \A y \in Elements(s) : cardOf[y] = IF tabOf[d] = Nothing THEN Nothing ELSE d
      BY <1>0, <2>5 DEF ShowsCard, ServedCall
    <3>3. CASE c # d /\ i \notin Elements(s)
      BY <2>3, <3>1, <3>3
    <3>4. CASE c # d /\ i \in Elements(s)
      <4>1. cardOf[i] # c
        BY <3>2, <3>4, Kinds
      <4>2. i \notin Elements(itemsOf[c])
        BY <1>0, <3>1, <3>4, Kinds
      <4>3. QED BY <2>1, <3>1, <3>4, <4>1, <4>2
    <3>5. CASE c = d
      <4>1. Elements(itemsOf[c]) = {}
        BY <1>0, <3>1, <3>5
      <4>2. i \in Elements(s) => cardOf[i] = c
        BY <2>1, <3>2, <3>5
      <4>3. cardOf[i] = c /\ i \notin Elements(s) => Coming(i)'
        BY <1>0, <2>1, <2>2, <3>1, <4>1
      <4>4. QED BY <2>1, <3>1, <3>5, <4>2, <4>3
    <3>6. QED BY <3>3, <3>4, <3>5
  <2>6. ASSUME NEW d, NEW x, ShowsItem(k, d, x)
        PROVE  /\ i \in Elements(itemsOf'[c]) => cardOf'[i] = c \/ Leaving(i)'
               /\ cardOf'[i] = c => i \in Elements(itemsOf'[c]) \/ Coming(i)'
    <3>1. /\ i \notin lost /\ ~Leaves(k, i) /\ New(k) = {x} /\ d \in Cards
          /\ Elements(itemsOf'[d]) = Elements(itemsOf[d]) \cup {x}
          /\ c # d => itemsOf'[c] = itemsOf[c]
      BY <1>1, <2>6 DEF ShowsItem, Leaves
    <3>2. cardOf[x] = IF tabOf[d] = Nothing THEN Nothing ELSE d
      BY <1>0, <2>6 DEF ShowsItem, ServedCall
    <3>3. CASE i # x
      <4>1. i \in Elements(itemsOf'[c]) <=> i \in Elements(itemsOf[c])
        BY <3>1, <3>3
      <4>2. QED BY <2>3, <3>1, <3>3, <4>1
    <3>4. CASE i = x /\ c = d
      BY <2>1, <3>1, <3>2, <3>4
    <3>5. CASE i = x /\ c # d
      <4>1. cardOf[i] # c
        BY <3>2, <3>5, Kinds
      <4>2. i \notin Elements(itemsOf[c])
        BY <1>0, <3>1, <3>5, Kinds
      <4>3. QED BY <2>1, <3>1, <3>5, <4>1, <4>2
    <3>6. QED BY <3>3, <3>4, <3>5
  <2>7. ASSUME NEW t, NEW d, HidesCard(k, t, d)
        PROVE  /\ i \in Elements(itemsOf'[c]) => cardOf'[i] = c \/ Leaving(i)'
               /\ cardOf'[i] = c => i \in Elements(itemsOf'[c]) \/ Coming(i)'
    <3>1. i \notin lost /\ ~Leaves(k, i) /\ i \notin New(k) /\ itemsOf' = itemsOf
      BY <1>1, <2>7, Kinds DEF HidesCard, Leaves
    <3>2. QED BY <2>3, <3>1
  <2>8. ASSUME NEW d, NEW x, HidesItem(k, d, x)
        PROVE  /\ i \in Elements(itemsOf'[c]) => cardOf'[i] = c \/ Leaving(i)'
               /\ cardOf'[i] = c => i \in Elements(itemsOf'[c]) \/ Coming(i)'
    <3>1. /\ i \notin lost /\ i \notin New(k) /\ d \in Cards
          /\ Elements(itemsOf'[d]) = Elements(itemsOf[d]) \ {x}
          /\ c # d => itemsOf'[c] = itemsOf[c]
      BY <1>1, <2>8 DEF HidesItem
    <3>2. CASE i \notin Elements(call[k].ids)
      <4>1. i # x
        <5>1. i # Nothing
          BY Kinds
        <5>2. QED BY <1>1, <2>8, <3>2, <5>1 DEF HidesItem
      <4>2. i \in Elements(itemsOf'[c]) <=> i \in Elements(itemsOf[c])
        BY <3>1, <4>1
      <4>3. ~Leaves(k, i)
        BY <3>2 DEF Leaves
      <4>4. QED BY <2>3, <3>1, <4>2, <4>3
    <3>3. CASE i \in Elements(call[k].ids)
      <4>1. i = x /\ x \in Elements(itemsOf[d])
        BY <1>1, <2>8, <3>3 DEF HidesItem
      <4>2. cardOf[i] = Nothing
        BY <1>0, <2>8, <3>3 DEF HidesItem, ServedCall
      <4>3. \A e, f \in Cards : Elements(itemsOf[e]) \cap Elements(itemsOf[f]) # {} => e = f
        BY DEF PageInv, Places
      <4>4. i \notin Elements(itemsOf'[c])
        BY <3>1, <4>1, <4>3
      <4>5. QED BY <2>1, <4>2, <4>4, Kinds
    <3>4. QED BY <3>2, <3>3
  <2>9. CASE Settles(k)
    <3>1. i \notin lost /\ ~Leaves(k, i) /\ i \notin New(k) /\ itemsOf' = itemsOf
      BY <1>1, <2>9 DEF Settles, Leaves, objects
    <3>2. QED BY <2>3, <3>1
  <2>10. QED BY <1>6, <2>4, <2>5, <2>6, <2>7, <2>8, <2>9 DEF Resumed
<1>7. QED BY <1>2, <1>3, <1>4, <1>5, <1>6 DEF BoardStep

-----------------------------------------------------------------------------
(* A load.                                                                  *)

LEMMA BoardKinds == BoardNext => Edits \/ Fetches \/ Reload
BY DEF BoardNext, Edits, Fetches

\* What an edit may do to a load under way, and to what is lost.
Spares ==
    /\ orphaned' = orphaned /\ lost \subseteq lost' /\ issued \subseteq issued'
    /\ \/ reload' = reload /\ UNCHANGED rows
       \/ reload' = [reload EXCEPT !.stale = (reload.at \in Reading)]

LEMMA EditsLoad ==
    ASSUME Edits
    PROVE  Spares
<1>1. CASE UserAct
  BY <1>1 DEF UserAct, SelectTab, SelectCard, SortCards, SortItems, Spares, loads, rows
<1>2. ASSUME NEW k \in Calls, UserCall(k) PROVE Spares
  BY <1>2 DEF UserCall, AddTab, RemoveTab, AddCard, RemoveCard, CreateItem, CopyItem, RemoveItem,
              Spares, loads, rows
<1>3. ASSUME NEW k \in Calls, Server(k) PROVE Spares
  <2>1. ASSUME NEW s, NEW arrives \in BOOLEAN, Reply(k, s, arrives)
        PROVE  /\ orphaned' = orphaned /\ lost \subseteq lost'
               /\ reload' = [reload EXCEPT !.stale = (reload.at \in Reading)]
    BY <2>1 DEF Reply, Reading
  <2>2. ASSUME NEW arrives \in BOOLEAN, ServeAdd(k, arrives) PROVE Spares
    BY <2>1, <2>2 DEF ServeAdd, Spares
  <2>3. ASSUME NEW arrives \in BOOLEAN, ServeRemove(k, arrives) PROVE Spares
    BY <2>1, <2>3 DEF ServeRemove, DeleteRows, Spares
  <2>4. CASE Refuse(k)
    BY <2>4 DEF Refuse, Spares, loads, rows
  <2>5. QED BY <1>3, <2>2, <2>3, <2>4 DEF Server
<1>4. ASSUME NEW k \in Calls, Resume(k) PROVE Spares
  <2>1. CASE TabAdded(k) \/ TabRemoved(k) \/ CardCreated(k) \/ CardCreatedAside(k) \/ ItemAdded(k)
             \/ ItemsAside(k) \/ Failed(k)
    BY <2>1 DEF TabAdded, TabRemoved, CardCreated, CardCreatedAside, ItemAdded, ItemsAside, Failed,
                Spares, loads, rows
  <2>2. CASE CardImported(k)
    BY <2>2 DEF CardImported, Spares, loads, rows
  <2>3. CASE CardRemoved(k)
    BY <2>3 DEF CardRemoved, Spares, loads, rows
  <2>4. CASE ItemRemoved(k)
    BY <2>4 DEF ItemRemoved, Spares, loads, rows
  <2>5. QED BY <1>4, <2>1, <2>2, <2>3, <2>4 DEF Resume
<1>5. QED BY <1>1, <1>2, <1>3, <1>4 DEF Edits

LEMMA SameBoard ==
    ASSUME UNCHANGED <<objects, selection, rows, call, orphaned, strayed, lost>>
    PROVE  /\ SelectionInv => SelectionInv'
           /\ ShowsInv => ShowsInv'
<1>1. /\ tabs' = tabs /\ cardsOf' = cardsOf /\ itemsOf' = itemsOf
      /\ activeTabIdx' = activeTabIdx /\ activeCard' = activeCard /\ currentCardId' = currentCardId
      /\ savedTabs' = savedTabs /\ tabOf' = tabOf /\ cardOf' = cardOf /\ issued' = issued
      /\ call' = call /\ strayed' = strayed /\ lost' = lost /\ orphaned' = orphaned
  BY DEF objects, selection, rows
<1>2. PageInv => PageInv'
  <2>1. BoardTypeOK => BoardTypeOK'
    BY <1>1 DEF BoardTypeOK, CallFits
  <2>2. (Known => Known') /\ (Unseen => Unseen') /\ (Bare => Bare')
    BY <1>1 DEF Known, Unseen, Bare, Referred, OnPage, Names, New, Brings
  <2>3. Places => Places'
    BY <1>1 DEF Places, Orderly
  <2>4. QED BY <2>1, <2>2, <2>3 DEF PageInv
<1>3. OneSelection /\ InRange => OneSelection' /\ InRange'
  BY <1>1, SelectionUntouched DEF selection
<1>4. (TabsStored => TabsStored') /\ (Served => Served')
  BY <1>1 DEF TabsStored, Served
<1>5. (CardsFollow => CardsFollow') /\ (ItemsFollow => ItemsFollow')
  BY <1>1 DEF CardsFollow, ItemsFollow, Leaving, Leaves, Coming, New, Brings
<1>6. QED BY <1>1, <1>2, <1>3, <1>4, <1>5 DEF SelectionInv, ShowsInv, Followed

\* The request of a load changes nothing the page shows.
LEMMA FetchesHidden ==
    ASSUME Fetches
    PROVE  /\ SelectionInv => SelectionInv'
           /\ ShowsInv => ShowsInv'
<1>1. UNCHANGED <<objects, selection, rows, call, orphaned, strayed, lost>>
  BY DEF Fetches, Load, ReadTabs, ReadCards, ReadItems, LoadFails
<1>2. QED BY <1>1, SameBoard

LEMMA Listed ==
    ASSUME NEW S, IsFiniteSet(S), NEW s \in Orders(S)
    PROVE  s \in Seq(S) /\ Elements(s) = S /\ Once(s)
<1>1. Cardinality(S) \in Nat
  BY FS_CardinalityType
<1>2. s \in [1 .. Cardinality(S) -> S] /\ Elements(s) = S /\ Once(s)
  BY DEF Orders
<1>3. QED BY <1>1, <1>2

LEMMA ListedOf ==
    ASSUME NEW S, NEW D, IsFiniteSet(D), NEW f \in [D -> S \cup {Nothing}], NEW g \in Lists(f, S)
    PROVE  /\ g \in [S -> Seq(D)]
           /\ \A x \in S : Elements(g[x]) = {y \in D : f[y] = x} /\ Once(g[x])
<1>1. DOMAIN g = S /\ g = [x \in S |-> g[x]] /\ \A x \in S : g[x] \in Orders(Of(f, x))
  BY DEF Lists
<1>2. ASSUME NEW x \in S
      PROVE  g[x] \in Seq(D) /\ Elements(g[x]) = {y \in D : f[y] = x} /\ Once(g[x])
  <2>1. Of(f, x) = {y \in D : f[y] = x} /\ Of(f, x) \subseteq D
    BY DEF Of
  <2>2. IsFiniteSet(Of(f, x))
    BY <2>1, FS_Subset
  <2>3. g[x] \in Seq(Of(f, x)) /\ Elements(g[x]) = Of(f, x) /\ Once(g[x])
    BY <1>1, <2>2, Listed
  <2>4. QED BY <2>1, <2>3
<1>3. QED BY <1>1, <1>2

\* The page after a load.
LEMMA Reloaded ==
    ASSUME LoadInv, Reload
    PROVE  /\ tabs' \in Seq(Tabs) /\ Elements(tabs') = reload.tabs /\ Once(tabs')
           /\ cardsOf' \in [Tabs -> Seq(Cards)] /\ itemsOf' \in [Cards -> Seq(Items)]
           /\ \A t \in Tabs : /\ Elements(cardsOf'[t]) = {c \in Cards : reload.tabOf[c] = t}
                              /\ Once(cardsOf'[t])
           /\ \A c \in Cards : /\ Elements(itemsOf'[c]) = {i \in Items : reload.cardOf[i] = c}
                               /\ Once(itemsOf'[c])
<1>1. /\ reload.tabs \subseteq Tabs /\ reload.tabOf \in [Cards -> Tabs \cup {Nothing}]
      /\ reload.cardOf \in [Items -> Cards \cup {Nothing}]
  BY DEF LoadInv, LoadTypeOK
<1>2. IsFiniteSet(reload.tabs) /\ IsFiniteSet(Cards) /\ IsFiniteSet(Items)
  BY <1>1, FS_Subset, DashboardAssumption DEF Ids
<1>3. /\ tabs' \in Orders(reload.tabs) /\ cardsOf' \in Lists(reload.tabOf, Tabs)
      /\ itemsOf' \in Lists(reload.cardOf, Cards)
  BY DEF Reload
<1>4. tabs' \in Seq(reload.tabs) /\ Elements(tabs') = reload.tabs /\ Once(tabs')
  BY <1>2, <1>3, Listed
<1>5. tabs' \in Seq(Tabs)
  BY <1>1, <1>4
<1>6. /\ cardsOf' \in [Tabs -> Seq(Cards)]
      /\ \A t \in Tabs : Elements(cardsOf'[t]) = {c \in Cards : reload.tabOf[c] = t} /\ Once(cardsOf'[t])
  BY <1>1, <1>2, <1>3, ListedOf
<1>7. /\ itemsOf' \in [Cards -> Seq(Items)]
      /\ \A c \in Cards : Elements(itemsOf'[c]) = {i \in Items : reload.cardOf[i] = c} /\ Once(itemsOf'[c])
  BY <1>1, <1>2, <1>3, ListedOf
<1>8. QED BY <1>4, <1>5, <1>6, <1>7

\* The first card of the first tab is selected, or what was stays so.
LEMMA FirstCard ==
    ASSUME BoardTypeOK, LoadInv, Reload
    PROVE  /\ ActiveCards' \in Seq(Cards)
           /\ ActiveCards' # <<>> => ActiveTab' \in Tabs
           /\ ActiveTab' \in Tabs => ActiveCards' = cardsOf'[ActiveTab']
           /\ \/ /\ ActiveCards' = <<>> /\ strayed' = (strayed \/ activeCard >= 0)
                 /\ UNCHANGED <<activeCard, currentCardId>>
              \/ /\ ActiveCards' # <<>> /\ activeCard' = 0 /\ currentCardId' = ActiveCards'[1]
                 /\ currentCardId' \in Elements(ActiveCards') /\ strayed' = FALSE
<1>1. /\ tabs' \in Seq(Tabs) /\ cardsOf' \in [Tabs -> Seq(Cards)] /\ Nothing \notin Tabs
      /\ activeTabIdx' = 0
  BY Reloaded, DashboardAssumption DEF Reload, Ids
<1>2. /\ tabs' = <<>> => ActiveTab' = Nothing
      /\ tabs' # <<>> => ActiveTab' = tabs'[1] /\ tabs'[1] \in Tabs
  BY <1>1 DEF ActiveTab, Nth
<1>3. /\ tabs' = <<>> => ActiveCards' = <<>>
      /\ tabs' # <<>> => ActiveCards' = cardsOf'[tabs'[1]] /\ ActiveTab' \in Tabs
  BY <1>1, <1>2 DEF ActiveCards
<1>4. ActiveCards' \in Seq(Cards) /\ (ActiveTab' \in Tabs => ActiveCards' = cardsOf'[ActiveTab'])
  BY <1>1, <1>2, <1>3
<1>5. ActiveCards' # <<>> => ActiveCards'[1] \in Elements(ActiveCards')
  BY <1>4, ElementsOf
<1>6. ActiveCards' = IF tabs' = <<>> THEN <<>> ELSE cardsOf'[tabs'[1]]
  BY <1>3
<1>7. IF ActiveCards' = <<>>
      THEN /\ strayed' = (strayed \/ activeCard >= 0)
           /\ UNCHANGED <<activeCard, currentCardId>>
      ELSE activeCard' = 0 /\ currentCardId' = ActiveCards'[1] /\ strayed' = FALSE
  BY <1>6 DEF Reload
<1>8. QED BY <1>3, <1>4, <1>5, <1>7

\* What a load does to the calls.
LEMMA ReloadCalls ==
    ASSUME BoardTypeOK, Reload, NEW k \in Calls
    PROVE  /\ call' \in [Calls -> CallRecord] /\ CallFits(k)'
           /\ call'[k].op = call[k].op /\ call'[k].tab = call[k].tab /\ call'[k].card = call[k].card
           /\ call'[k].index = call[k].index /\ call'[k].ids = call[k].ids
           /\ call'[k].at = IF Twin(k) THEN "twin" ELSE call[k].at
<1>1. call' = [j \in Calls |-> IF Twin(j) THEN [call[j] EXCEPT !.at = "twin"] ELSE call[j]]
  BY DEF Reload
<1>2. \A j \in Calls : call[j] \in CallRecord
  BY DEF BoardTypeOK
<1>3. call' \in [Calls -> CallRecord]
  BY <1>1, <1>2 DEF CallRecord, Stages
<1>4. /\ call'[k].op = call[k].op /\ call'[k].tab = call[k].tab /\ call'[k].card = call[k].card
      /\ call'[k].index = call[k].index /\ call'[k].ids = call[k].ids
      /\ call'[k].at = IF Twin(k) THEN "twin" ELSE call[k].at
  BY <1>1, <1>2 DEF CallRecord
<1>5. CallFits(k)'
  BY <1>4, CallType DEF CallFits, Twin
<1>6. QED BY <1>3, <1>4, <1>5

LEMMA ReloadedPage ==
    ASSUME PageInv, LoadInv, Reload
    PROVE  PageInv'
<1> DEFINE Listing(x) == \/ x \in reload.tabs
                         \/ x \in Cards /\ reload.tabOf[x] # Nothing
                         \/ x \in Items /\ reload.cardOf[x] # Nothing
<1>0. /\ BoardTypeOK /\ Known /\ Unseen /\ Nothing \notin Ids
      /\ Tabs \subseteq Ids /\ Cards \subseteq Ids /\ Items \subseteq Ids
      /\ reload.at = "done" /\ UNCHANGED rows
  BY DashboardAssumption DEF PageInv, Reload, Ids
<1>1. BoardTypeOK'
  <2>1. activeTabIdx' = 0 /\ lost' \subseteq Ids
    BY DEF Reload
  <2>2. activeCard' \in Nat \cup {-1} /\ currentCardId' \in Cards \cup {Nothing}
    <3>1. Elements(ActiveCards') \subseteq Cards
      <4>1. ActiveCards' \in Seq(Cards)
        BY <1>0, FirstCard
      <4>2. QED BY <4>1, ElementsOf
    <3>2. \/ activeCard' = activeCard /\ currentCardId' = currentCardId
          \/ activeCard' = 0 /\ currentCardId' \in Elements(ActiveCards')
      BY <1>0, FirstCard
    <3>3. QED BY <1>0, <3>1, <3>2 DEF BoardTypeOK
  <2>3. strayed' \in BOOLEAN
    BY <1>0, FirstCard, Zenon
  <2>4. call' \in [Calls -> CallRecord] /\ \A k \in Calls : CallFits(k)'
    <3>1. call' = [k \in Calls |-> IF Twin(k) THEN [call[k] EXCEPT !.at = "twin"] ELSE call[k]]
      BY DEF Reload
    <3>2. \A k \in Calls : call'[k] \in CallRecord /\ CallFits(k)'
      BY <1>0, ReloadCalls
    <3>3. QED BY <3>1, <3>2
  <2>5. QED BY <1>0, <2>1, <2>2, <2>3, <2>4, Reloaded DEF BoardTypeOK, rows
<1>2. \A k \in Calls : /\ New(k)' \subseteq New(k) /\ \A x \in New(k)' : ~Listing(x)
                       /\ New(k)' = {} \/ (New(k)' = New(k) /\ \A x : Names(k, x)' => Names(k, x))
                       /\ \A x : Names(k, x)' => Names(k, x) \/ x \in New(k)
  <2>1. ASSUME NEW k \in Calls, ~Twin(k)
        PROVE  /\ New(k)' = New(k) /\ \A x : Names(k, x)' => Names(k, x)
               /\ \A x \in New(k) : ~Listing(x)
    <3>1. New(k)' = New(k) /\ \A x : Names(k, x)' => Names(k, x)
      BY <1>0, <2>1, ReloadCalls DEF New, Names, Brings
    <3>2. \A x \in New(k) : ~Listing(x)
      BY <2>1 DEF New, Brings, Twin
    <3>3. QED BY <3>1, <3>2
  <2>2. ASSUME NEW k \in Calls, Twin(k)
        PROVE  New(k)' = {} /\ \A x : Names(k, x)' => Names(k, x) \/ x \in New(k)
    <3>1. Brings(k) /\ ~Brings(k)'
      BY <1>0, <2>2, ReloadCalls DEF Brings, Twin
    <3>2. QED BY <1>0, <3>1, ReloadCalls DEF New, Names
  <2>3. QED BY <2>1, <2>2
<1>3. \A x \in Ids : OnPage(x)' => Listing(x) \/ OnPage(x)
  <2>1. currentCardId' = currentCardId \/ \E t \in Tabs : currentCardId' \in Elements(cardsOf'[t])
    BY <1>0, FirstCard
  <2>2. \A x \in Elements(tabs') : Listing(x)
    BY Reloaded
  <2>3. \A t \in Tabs : \A x \in Elements(cardsOf'[t]) : Listing(x)
    BY <1>0, Reloaded
  <2>4. \A c \in Cards : \A x \in Elements(itemsOf'[c]) : Listing(x)
    BY <1>0, Reloaded
  <2>5. QED BY <2>1, <2>2, <2>3, <2>4 DEF OnPage
<1>4. /\ \A x : Listing(x) => x \in issued
      /\ \A i \in Items : \A c \in Cards : reload.cardOf[i] = c => Listing(c)
  BY <1>0 DEF LoadInv, Snapshot
<1> HIDE DEF Listing
<1>5. Known'
  <2>1. \A x \in Ids : Referred(x)' \/ (\E k \in Calls : x \in New(k)') => x \in issued
    BY <1>0, <1>2, <1>3, <1>4 DEF Known, Referred
  <2>2. QED BY <1>0, <2>1 DEF Known, rows
<1>6. Unseen'
  <2>1. ASSUME NEW k \in Calls, NEW x \in New(k)' PROVE ~Referred(x)'
    <3>1. x \in New(k) /\ ~Listing(x) /\ ~Referred(x) /\ x \in Ids
      BY <1>0, <1>2, <2>1, NewIds DEF Unseen
    <3>2. ~OnPage(x)'
      BY <1>3, <3>1 DEF Referred
    <3>3. ASSUME NEW j \in Calls PROVE ~Names(j, x)'
      <4>1. x \in New(j) => j = k
        BY <1>0, <3>1 DEF Unseen
      <4>2. ~Names(j, x)
        BY <3>1 DEF Referred
      <4>3. QED BY <1>2, <2>1, <4>1, <4>2
    <3>4. QED BY <3>2, <3>3 DEF Referred
  <2>2. \A j, k \in Calls : New(j)' \cap New(k)' # {} => j = k
    BY <1>0, <1>2 DEF Unseen
  <2>3. QED BY <2>1, <2>2 DEF Unseen
<1>7. Bare'
  <2>1. ASSUME NEW c \in Cards, Elements(itemsOf'[c]) # {}
        PROVE  c \in issued /\ \A k \in Calls : c \notin New(k)'
    <3>1. PICK i \in Items : reload.cardOf[i] = c
      BY <2>1, Reloaded
    <3>2. Listing(c)
      BY <1>4, <3>1
    <3>3. QED BY <1>2, <1>4, <3>2
  <2>2. QED BY <1>0, <2>1 DEF Bare, rows
<1>8. Places'
  <2>1. Orderly'
    BY Reloaded DEF Orderly
  <2>2. ASSUME NEW t \in Tabs, NEW u \in Tabs, NEW c \in Elements(cardsOf'[t]) \cap Elements(cardsOf'[u])
        PROVE  t = u
    BY Reloaded
  <2>3. ASSUME NEW c \in Cards, NEW d \in Cards,
               NEW i \in Elements(itemsOf'[c]) \cap Elements(itemsOf'[d])
        PROVE  c = d
    BY Reloaded
  <2>4. QED BY <2>1, <2>2, <2>3 DEF Places
<1>9. QED BY <1>1, <1>5, <1>6, <1>7, <1>8 DEF PageInv

LEMMA ReloadSelects ==
    ASSUME SelectionInv, LoadInv, Reload
    PROVE  OneSelection' /\ InRange'
<1>0. /\ BoardTypeOK /\ BoardTypeOK' /\ OneSelection /\ InRange /\ Nothing \notin Cards
  BY ReloadedPage, DashboardAssumption DEF SelectionInv, PageInv, Ids
<1>1. CASE ActiveCards' # <<>>
  <2>1. activeCard' = 0 /\ currentCardId' = ActiveCards'[1] /\ ActiveCards' \in Seq(Cards)
    BY <1>0, <1>1, FirstCard
  <2>2. 0 + 1 \in DOMAIN ActiveCards' /\ ActiveCards'[1] \in Cards
    BY <1>1, <2>1
  <2>3. FormCard' = ActiveCards'[1]
    BY <2>1, <2>2 DEF FormCard, Nth
  <2>4. QED BY <1>0, <2>1, <2>2, <2>3 DEF OneSelection, InRange
<1>2. CASE ActiveCards' = <<>> /\ (strayed \/ activeCard >= 0)
  <2>1. strayed' = (strayed \/ activeCard >= 0)
    BY <1>0, <1>2, FirstCard, Zenon
  <2>2. strayed'
    BY <1>2, <2>1, Zenon
  <2>3. QED BY <2>2 DEF OneSelection, InRange
<1>3. CASE ActiveCards' = <<>> /\ ~strayed /\ ~(activeCard >= 0)
  <2>1. activeCard = -1 /\ UNCHANGED <<activeCard, currentCardId>>
    BY <1>0, <1>3, FirstCard DEF BoardTypeOK
  <2>2. FormCard = Nothing
    <3>1. activeCard + 1 \notin 1 .. Len(ActiveCards)
      BY <2>1
    <3>2. QED BY <1>0, <3>1, Selected
  <2>3. QED BY <1>0, <1>3, <2>1, <2>2, SelectionCleared DEF OneSelection
<1>4. QED BY <1>1, <1>2, <1>3

\* A load that met nothing shows the rows.
LEMMA ReloadFollows ==
    ASSUME PageInv, LoadInv, Reload
    PROVE  lost' = Ids \/ (TabsStored' /\ Served' /\ CardsFollow' /\ ItemsFollow' /\ orphaned' = {})
<1>1. CASE UnderWay # {} \/ reload.stale
  <2>1. lost' = IF UnderWay = {} /\ ~reload.stale THEN {} ELSE Ids
    BY DEF Reload
  <2>2. QED BY <1>1, <2>1
<1>2. CASE UnderWay = {} /\ ~reload.stale
  <2>1. /\ BoardTypeOK /\ UNCHANGED rows /\ orphaned' = {} /\ Nothing \notin Tabs
        /\ reload.tabs = savedTabs /\ reload.tabOf = tabOf /\ reload.cardOf = cardOf
    BY <1>2, DashboardAssumption DEF PageInv, Reload, LoadInv, UpToDate, Reading, Ids
  <2>2. \A k \in Calls : /\ call'[k].at \in {"idle", "over"}
                         /\ call'[k].op = "removeTab" => call'[k].tab \in Tabs
                         /\ call'[k].tab = Nothing
    <3>1. ASSUME NEW k \in Calls PROVE call[k].at \in {"idle", "over"} /\ ~Twin(k)
      BY <1>2 DEF UnderWay, Twin
    <3>2. QED BY <2>1, <3>1, ReloadCalls, CallType DEF CallFits
  <2>3. TabsStored' /\ Served'
    BY <2>1, <2>2, Reloaded DEF TabsStored, Served, rows
  <2>4. CardsFollow'
    BY <2>1, Reloaded, ElementsOf DEF CardsFollow, rows
  <2>5. ItemsFollow'
    BY <2>1, Reloaded DEF ItemsFollow, rows
  <2>6. QED BY <2>1, <2>3, <2>4, <2>5
<1>3. QED BY <1>1, <1>2

LEMMA LoadsKept ==
    ASSUME PageInv, LoadInv, BoardNext
    PROVE  LoadInv'
<1>0. LoadTypeOK /\ Snapshot /\ UpToDate /\ BoardTypeOK /\ Known
  BY DEF LoadInv, PageInv
<1>1. CASE Edits
  <2>1. Spares
    BY <1>1, EditsLoad
  <2>2. CASE reload' = reload /\ UNCHANGED rows
    BY <1>0, <2>1, <2>2 DEF Spares, LoadInv, LoadTypeOK, Snapshot, UpToDate, Reading, rows
  <2>3. CASE reload' = [reload EXCEPT !.stale = (reload.at \in Reading)]
    <3>1. /\ reload'.at = reload.at /\ reload'.tabs = reload.tabs /\ reload'.tabOf = reload.tabOf
          /\ reload'.cardOf = reload.cardOf /\ reload'.stale = (reload.at \in Reading)
      BY <1>0, <2>3 DEF LoadTypeOK
    <3>2. LoadTypeOK'
      <4>1. CASE reload.at \in Reading
        <5>1. reload' = [reload EXCEPT !.stale = TRUE]
          BY <2>3, <4>1, Zenon
        <5>2. QED BY <1>0, <2>1, <5>1 DEF LoadTypeOK, Spares
      <4>2. CASE reload.at \notin Reading
        <5>1. (reload.at \in Reading) = FALSE
          BY <4>2
        <5>2. reload' = [reload EXCEPT !.stale = FALSE]
          BY <2>3, <5>1
        <5>3. QED BY <1>0, <2>1, <5>2 DEF LoadTypeOK, Spares
      <4>3. QED BY <4>1, <4>2
    <3>3. Snapshot'
      BY <1>0, <2>1, <3>1 DEF Snapshot, Spares
    <3>4. UpToDate'
      BY <3>1 DEF UpToDate, Reading
    <3>5. QED BY <3>2, <3>3, <3>4 DEF LoadInv
  <2>4. QED BY <2>1, <2>2, <2>3 DEF Spares
<1>2. CASE Load \/ LoadFails
  <2>1. reload' = NoReload \/ reload' = [NoReload EXCEPT !.at = "sent"]
    BY <1>2 DEF Load, LoadFails
  <2>2. /\ reload' \in [at : {"idle", "sent"} \cup Reading, tabs : SUBSET Tabs,
                       tabOf : [Cards -> Tabs \cup {Nothing}], cardOf : [Items -> Cards \cup {Nothing}],
                       stale : BOOLEAN]
        /\ Snapshot' /\ UpToDate'
    <3>0. issued' = issued
      BY <1>2 DEF Load, LoadFails, rows
    <3>1. PICK f, g : f = [c \in Cards |-> Nothing] /\ g = [i \in Items |-> Nothing]
      OBVIOUS
    <3>2. f \in [Cards -> Tabs \cup {Nothing}] /\ g \in [Items -> Cards \cup {Nothing}]
      BY <3>1
    <3>3. NoReload = [at |-> "idle", tabs |-> {}, tabOf |-> f, cardOf |-> g, stale |-> FALSE]
      BY <3>1 DEF NoReload
    <3>4. PICK a \in {"idle", "sent"} :
              reload' = [at |-> a, tabs |-> {}, tabOf |-> f, cardOf |-> g, stale |-> FALSE]
      BY <2>1, <3>3
    <3>5. /\ reload'.at \in {"idle", "sent"} /\ reload'.tabs = {}
          /\ \A c \in Cards : reload'.tabOf[c] = Nothing
          /\ \A i \in Items : reload'.cardOf[i] = Nothing
      BY <3>1, <3>4
    <3>6. Snapshot' /\ UpToDate'
      BY <3>0, <3>5 DEF Snapshot, UpToDate, Reading
    <3>7. QED BY <3>2, <3>4, <3>6
  <2>3. orphaned' = orphaned
    BY <1>2 DEF Load, LoadFails
  <2>4. QED BY <1>0, <2>2, <2>3 DEF LoadInv, LoadTypeOK
<1>3. CASE ReadTabs
  <2>1. /\ reload' = [reload EXCEPT !.at = "tabs", !.tabs = savedTabs] /\ reload.at = "sent"
        /\ UNCHANGED rows /\ orphaned' = orphaned
    BY <1>3 DEF ReadTabs
  <2>2. /\ reload'.at = "tabs" /\ reload'.tabs = savedTabs /\ reload'.tabOf = reload.tabOf
        /\ reload'.cardOf = reload.cardOf /\ reload'.stale = reload.stale
    BY <1>0, <2>1 DEF LoadTypeOK
  <2>3. LoadTypeOK'
    BY <1>0, <2>1 DEF LoadTypeOK, BoardTypeOK, Reading
  <2>4. Snapshot'
    BY <1>0, <2>1, <2>2 DEF Snapshot, Known, rows
  <2>5. UpToDate'
    BY <2>1, <2>2 DEF UpToDate, rows
  <2>6. QED BY <2>3, <2>4, <2>5 DEF LoadInv
<1>4. CASE ReadCards
  <2>1. /\ reload' = [reload EXCEPT !.at = "cards", !.tabOf = Under(tabOf, reload.tabs)]
        /\ reload.at = "tabs" /\ UNCHANGED rows /\ orphaned' = orphaned
    BY <1>4 DEF ReadCards
  <2>2. /\ reload'.at = "cards" /\ reload'.tabs = reload.tabs
        /\ reload'.tabOf = Under(tabOf, reload.tabs)
        /\ reload'.cardOf = reload.cardOf /\ reload'.stale = reload.stale
    BY <1>0, <2>1 DEF LoadTypeOK
  <2>3. /\ Under(tabOf, reload.tabs) \in [Cards -> Tabs \cup {Nothing}]
        /\ \A c \in Cards : Under(tabOf, reload.tabs)[c]
               = IF tabOf[c] \in reload.tabs THEN tabOf[c] ELSE Nothing
    BY <1>0 DEF BoardTypeOK, Under
  <2>4. LoadTypeOK'
    BY <1>0, <2>1, <2>3 DEF LoadTypeOK, Reading
  <2>5. Snapshot'
    BY <1>0, <2>1, <2>2, <2>3 DEF Snapshot, Known, rows
  <2>6. UpToDate'
    <3>1. ASSUME ~reload.stale PROVE Under(tabOf, reload.tabs) = tabOf
      <4>1. reload.tabs = savedTabs
        BY <1>0, <2>1, <3>1 DEF UpToDate, Reading
      <4>2. \A c \in Cards : tabOf[c] \in savedTabs \cup {Nothing}
        BY <1>0 DEF Known
      <4>3. tabOf \in [Cards -> Tabs \cup {Nothing}]
        BY <1>0 DEF BoardTypeOK
      <4>4. QED BY <2>3, <4>1, <4>2, <4>3
    <3>2. QED BY <1>0, <2>1, <2>2, <3>1 DEF UpToDate, Reading, rows
  <2>7. QED BY <2>4, <2>5, <2>6 DEF LoadInv
<1>5. CASE ReadItems
  <2> DEFINE read == {c \in Cards : reload.tabOf[c] # Nothing}
  <2>1. /\ reload' = [reload EXCEPT !.at = "done", !.cardOf = Under(cardOf, read)]
        /\ reload.at = "cards" /\ UNCHANGED rows /\ orphaned' = orphaned
    BY <1>5 DEF ReadItems
  <2>2. /\ reload'.at = "done" /\ reload'.tabs = reload.tabs /\ reload'.tabOf = reload.tabOf
        /\ reload'.cardOf = Under(cardOf, read) /\ reload'.stale = reload.stale
    BY <1>0, <2>1 DEF LoadTypeOK
  <2>3. /\ Under(cardOf, read) \in [Items -> Cards \cup {Nothing}]
        /\ \A i \in Items : Under(cardOf, read)[i] = IF cardOf[i] \in read THEN cardOf[i] ELSE Nothing
    BY <1>0 DEF BoardTypeOK, Under
  <2>4. LoadTypeOK'
    BY <1>0, <2>1, <2>3 DEF LoadTypeOK, Reading
  <2>5. Snapshot'
    BY <1>0, <2>1, <2>2, <2>3 DEF Snapshot, Known, rows
  <2>6. UpToDate'
    <3>1. ASSUME ~reload.stale PROVE Under(cardOf, read) = cardOf
      <4>1. reload.tabOf = tabOf
        BY <1>0, <2>1, <3>1 DEF UpToDate
      <4>2. \A i \in Items : cardOf[i] # Nothing => cardOf[i] \in Cards /\ tabOf[cardOf[i]] # Nothing
        BY <1>0 DEF BoardTypeOK, Known
      <4>3. cardOf \in [Items -> Cards \cup {Nothing}]
        BY <1>0 DEF BoardTypeOK
      <4>4. QED BY <2>3, <4>1, <4>2, <4>3
    <3>2. QED BY <1>0, <2>1, <2>2, <3>1 DEF UpToDate, Reading, rows
  <2>7. QED BY <2>4, <2>5, <2>6 DEF LoadInv
<1>6. CASE Reload
  <2>1. reload' = NoReload /\ orphaned' \subseteq Calls
    BY <1>6 DEF Reload, UnderWay
  <2>2. QED BY <2>1 DEF NoReload, LoadInv, LoadTypeOK, Snapshot, UpToDate, Reading
<1>7. QED BY <1>1, <1>2, <1>3, <1>4, <1>5, <1>6, BoardKinds DEF Fetches

-----------------------------------------------------------------------------
(* The theorems.                                                            *)

LEMMA StuttersOnBoard ==
    ASSUME UNCHANGED boardVars
    PROVE  /\ SelectionInv => SelectionInv'
           /\ LoadInv => LoadInv'
           /\ ShowsInv => ShowsInv'
<1>1. UNCHANGED <<objects, selection, rows, call, reload, orphaned, strayed, lost>>
  BY DEF boardVars, loads
<1>2. LoadInv => LoadInv'
  BY <1>1 DEF LoadInv, LoadTypeOK, Snapshot, UpToDate, Reading, rows
<1>3. QED BY <1>1, <1>2, SameBoard

LEMMA BoardInductive == BoardSpec => [](SelectionInv /\ LoadInv /\ ShowsInv)
<1>1. BoardInit => SelectionInv /\ LoadInv /\ ShowsInv
  BY BoardStarts
<1>2. SelectionInv /\ LoadInv /\ ShowsInv /\ [BoardNext]_boardVars
      => (SelectionInv /\ LoadInv /\ ShowsInv)'
  <2>1. ASSUME SelectionInv, LoadInv, ShowsInv, Edits PROVE SelectionInv' /\ ShowsInv'
    <3>1. PageInv /\ PageInv' /\ (BoardStep \/ DropStep)
      BY <2>1, PageSteps, PageKept DEF SelectionInv
    <3>2. OneSelection' /\ InRange'
      BY <2>1, SelectionKept
    <3>3. lost \subseteq lost' /\ orphaned' = orphaned /\ lost' \subseteq Ids
      BY <2>1, <3>1, EditsLoad DEF PageInv, BoardTypeOK, Spares
    <3>4. CASE lost = Ids
      BY <3>1, <3>2, <3>3, <3>4 DEF SelectionInv, ShowsInv
    <3>5. CASE Followed /\ orphaned = {}
      <4>1. BoardStep
        BY <3>1, <3>5 DEF DropStep, Drops
      <4>2. TabsStored' /\ Served' /\ CardsFollow' /\ ItemsFollow'
        BY <3>1, <3>5, <4>1, TabsStoredKept, ServedKept, CardsFollowKept, ItemsFollowKept DEF Followed
      <4>3. QED BY <3>1, <3>2, <3>3, <3>5, <4>2 DEF SelectionInv, ShowsInv, Followed
    <3>6. QED BY <2>1, <3>4, <3>5 DEF ShowsInv
  <2>2. ASSUME SelectionInv, ShowsInv, Fetches PROVE SelectionInv' /\ ShowsInv'
    BY <2>2, FetchesHidden
  <2>3. ASSUME SelectionInv, LoadInv, Reload PROVE SelectionInv' /\ ShowsInv'
    <3>1. PageInv /\ PageInv' /\ OneSelection' /\ InRange'
      BY <2>3, ReloadedPage, ReloadSelects DEF SelectionInv
    <3>2. ShowsInv'
      BY <2>3, <3>1, ReloadFollows DEF ShowsInv, Followed
    <3>3. QED BY <3>1, <3>2 DEF SelectionInv
  <2>4. ASSUME SelectionInv, LoadInv, BoardNext PROVE LoadInv'
    BY <2>4, LoadsKept DEF SelectionInv
  <2>5. QED BY <2>1, <2>2, <2>3, <2>4, StuttersOnBoard, BoardKinds
<1>3. QED BY <1>1, <1>2, PTL DEF BoardSpec

\* When all is quiet no row is on its way.
LEMMA NothingOnTheWay ==
    ASSUME Quiet, NEW x
    PROVE  ~Leaving(x) /\ ~Coming(x)
BY DEF Quiet, Leaving, Leaves, Coming, New, Brings

LEMMA BoardShows ==
    ASSUME BoardTypeOK, ShowsInv
    PROVE  ShowsCards /\ ShowsItems
<1>0. CASE lost = Ids
  <2>1. Elements(tabs) \ lost = {}
    BY <1>0, ElementsOf DEF BoardTypeOK, Ids
  <2>2. QED BY <2>1 DEF ShowsCards, ShowsItems
<1>1. SUFFICES ASSUME Followed, Quiet, NEW t \in Elements(tabs) \ lost
               PROVE  /\ t \in savedTabs
                      /\ \A c \in Cards \ lost : c \in Elements(cardsOf[t]) <=> tabOf[c] = t
                      /\ \A c \in Elements(cardsOf[t]) \ lost : \A i \in Items \ lost :
                             i \in Elements(itemsOf[c]) <=> cardOf[i] = c
  BY <1>0 DEF ShowsCards, ShowsItems, ShowsInv
<1>2. t \in savedTabs /\ t \in Tabs /\ t # Nothing /\ Elements(cardsOf[t]) \subseteq Cards
  <2>1. t \in savedTabs /\ t \in Tabs
    BY <1>1, ElementsOf DEF Followed, TabsStored, PageInv, BoardTypeOK
  <2>2. PageInv /\ cardsOf[t] \in Seq(Cards)
    BY <1>1, <2>1 DEF Followed, PageInv, BoardTypeOK
  <2>3. t # Nothing
    BY <2>1, <2>2, Kinds
  <2>4. Elements(cardsOf[t]) \subseteq Cards
    BY <2>2, ElementsOf
  <2>5. QED BY <2>1, <2>3, <2>4
<1>3. \A c \in Cards \ lost : c \in Elements(cardsOf[t]) <=> tabOf[c] = t
  BY <1>1, NothingOnTheWay DEF Followed, CardsFollow
<1>4. ASSUME NEW c \in Elements(cardsOf[t]) \ lost, NEW i \in Items \ lost
      PROVE  i \in Elements(itemsOf[c]) <=> cardOf[i] = c
  <2>1. c \in Cards /\ tabOf[c] # Nothing
    BY <1>2, <1>3, <1>4
  <2>2. QED BY <1>1, <1>4, <2>1, NothingOnTheWay DEF Followed, ItemsFollow
<1>5. QED BY <1>2, <1>3, <1>4

(* The editor's lists, its selection and the rows keep their types, and a  *)
(* request its arguments until it is answered.                             *)
THEOREM BoardTypeCorrect == BoardSpec => []BoardTypeOK
<1>1. SelectionInv => BoardTypeOK
  BY DEF SelectionInv, PageInv
<1>2. QED BY <1>1, BoardInductive, PTL

(* The form of a card and its button Remove are about one card.            *)
THEOREM OneSelectionHolds == BoardSpec => []OneSelection
<1>1. SelectionInv => OneSelection
  BY DEF SelectionInv
<1>2. QED BY <1>1, BoardInductive, PTL

(* Whatever the order in which requests were served and answered, a page   *)
(* that waits for none shows the tabs and cards that are stored.           *)
THEOREM ShowsStoredCards == BoardSpec => []ShowsCards
<1>1. SelectionInv /\ ShowsInv => ShowsCards
  BY BoardShows DEF SelectionInv, PageInv
<1>2. QED BY <1>1, BoardInductive, PTL

(* Likewise the items of the cards it shows.                               *)
THEOREM ShowsStoredItems == BoardSpec => []ShowsItems
<1>1. SelectionInv /\ ShowsInv => ShowsItems
  BY BoardShows DEF SelectionInv, PageInv
<1>2. QED BY <1>1, BoardInductive, PTL
=============================================================================
