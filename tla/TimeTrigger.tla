---------------------------- MODULE TimeTrigger ----------------------------
(***************************************************************************)
(* The time (cron) trigger of internal/plugins/time: its table of          *)
(* subscribers and the scheduler's entries.                                *)
(*                                                                         *)
(* The subscribers are the triggers of the automation.  Their handlers are *)
(* closures of one function literal, made by genSubscriber, so that        *)
(* reflect's Pointer, the address of the code, is the same for all.        *)
(*                                                                         *)
(* Trigger.Start subscribes a handler and Trigger.Stop unsubscribes it,    *)
(* each once, and Start takes no lock: Stop may come while Start is about  *)
(* to subscribe, or between the two steps of Subscribe, which takes the    *)
(* mutex only after it added the entry.  The list of a schedule is a set   *)
(* here, its order means nothing.  MaxEntries bounds the entries ever      *)
(* made.                                                                   *)
(***************************************************************************)
EXTENDS Naturals

CONSTANTS
    Handlers,   \* one handler per trigger subscriber
    Schedules,  \* cron expressions that parse
    MaxEntries

ASSUME MaxEntriesAssumption == MaxEntries \in Nat

VARIABLES
    schedule,    \* handler -> the cron attribute of its payload
    state,       \* handler -> "off", "adding" (in Subscribe) or "on"
    left,        \* handler -> "no"; "done" once Unsubscribe was called after
                 \* Subscribe returned, "early" if it was called before
    entry,       \* handler -> the entry AddFunc gave it, 0 before the first
    entries,     \* the scheduler's entries: [id, handler] records
    nextID,      \* the scheduler's last entry id
    subscribers  \* schedule -> [handler, entry] records

vars == <<schedule, state, left, entry, entries, nextID, subscribers>>

Init ==
    /\ schedule \in [Handlers -> Schedules]
    /\ state = [h \in Handlers |-> "off"]
    /\ left = [h \in Handlers |-> "no"]
    /\ entry = [h \in Handlers |-> 0]
    /\ entries = {}
    /\ nextID = 0
    /\ subscribers = [s \in Schedules |-> {}]

\* The address of a handler's code: the one literal in genSubscriber.
Pointer(h) == "genSubscriber"

\* Mutant of AddFunc: the id is taken before the counter is raised.
AddFuncEarlyID(h) ==
    /\ state[h] = "off"
    /\ left[h] # "done"
    /\ nextID < MaxEntries
    /\ nextID' = nextID + 1
    /\ entries' = entries \cup {[id |-> nextID, handler |-> h]}
    /\ entry' = [entry EXCEPT ![h] = nextID]
    /\ state' = [state EXCEPT ![h] = "adding"]
    /\ UNCHANGED <<schedule, left, subscribers>>

\* Subscribe: the scheduler's AddFunc comes first,
AddFunc(h) ==
    /\ state[h] = "off"
    /\ left[h] # "done"
    /\ nextID < MaxEntries
    /\ nextID' = nextID + 1
    /\ entries' = entries \cup {[id |-> nextID', handler |-> h]}
    /\ entry' = [entry EXCEPT ![h] = nextID']
    /\ state' = [state EXCEPT ![h] = "adding"]
    /\ UNCHANGED <<schedule, left, subscribers>>

\* then, with the mutex, the table.
Subscribe(h) ==
    /\ state[h] = "adding"
    /\ subscribers' = [subscribers EXCEPT ![schedule[h]] =
                          @ \cup {[handler |-> h, entry |-> entry[h]]}]
    /\ state' = [state EXCEPT ![h] = "on"]
    /\ UNCHANGED <<schedule, left, entry, entries, nextID>>

\* The trigger is loaded anew, with a handler of its own and the schedule
\* its payload has by then.
Reload(h, s) ==
    /\ left[h] = "done"
    /\ left' = [left EXCEPT ![h] = "no"]
    /\ schedule' = [schedule EXCEPT ![h] = s]
    /\ UNCHANGED <<state, entry, entries, nextID, subscribers>>

\* The subscribers Unsubscribe takes for the one of h: those of its
\* schedule whose handler has the same code.
Matching(h) == {sub \in subscribers[schedule[h]] : Pointer(sub.handler) = Pointer(h)}

\* The trigger is stopped, whether or not its Subscribe has returned.
Leaves(h) ==
    /\ left[h] = "no"
    /\ left' = [left EXCEPT ![h] = IF state[h] = "on" THEN "done" ELSE "early"]
    /\ state' = [state EXCEPT ![h] = IF @ = "on" THEN "off" ELSE @]
    /\ UNCHANGED <<schedule, entry, nextID>>

\* Mutant of Unsubscribe: the table is cut, the scheduler keeps the entries.
UnsubscribeTableOnly(h) ==
    /\ Leaves(h)
    /\ subscribers' = [subscribers EXCEPT ![schedule[h]] = @ \ Matching(h)]
    /\ UNCHANGED entries

\* Mutant of Unsubscribe: the search ends at the first match.
UnsubscribeFirst(h) ==
    /\ Leaves(h)
    /\ \E sub \in Matching(h) :
         /\ subscribers' = [subscribers EXCEPT ![schedule[h]] = @ \ {sub}]
         /\ entries' = {e \in entries : e.id # sub.entry}

\* Unsubscribe, with the mutex: the matching subscribers are cut from the
\* table and their entries removed.
Unsubscribe(h) ==
    /\ Leaves(h)
    /\ subscribers' = [subscribers EXCEPT ![schedule[h]] = @ \ Matching(h)]
    /\ entries' = {e \in entries : \A sub \in Matching(h) : sub.entry # e.id}

Next ==
    \E h \in Handlers :
        \/ AddFunc(h)
        \/ Subscribe(h)
        \/ \E s \in Schedules : Reload(h, s)
        \/ Unsubscribe(h)

Spec == Init /\ [][Next]_vars

-----------------------------------------------------------------------------
TypeOK ==
    /\ schedule \in [Handlers -> Schedules]
    /\ state \in [Handlers -> {"off", "adding", "on"}]
    /\ left \in [Handlers -> {"no", "done", "early"}]
    /\ entry \in [Handlers -> 0..MaxEntries]
    /\ entries \subseteq [id : 1..MaxEntries, handler : Handlers]
    /\ nextID \in 0..MaxEntries
    /\ subscribers \in [Schedules -> SUBSET [handler : Handlers, entry : 1..MaxEntries]]

\* The table and the scheduler agree: an entry is the one of a subscriber
\* in the table, or its Subscribe is under way, and every subscriber in the
\* table has its entry (Subscribe, Unsubscribe).
TableMatchesScheduler ==
    entries = {[id |-> sub.entry, handler |-> sub.handler] :
                   sub \in UNION {subscribers[s] : s \in Schedules}}
              \cup {[id |-> entry[h], handler |-> h] : h \in {g \in Handlers : state[g] = "adding"}}

\* A trigger that was unsubscribed never fires again, whoever shares its
\* schedule and whatever other calls interleave: only an Unsubscribe that
\* overtakes the trigger's own Subscribe leaves it an entry (Unsubscribe).
UnsubscribedIsSilent ==
    \A h \in Handlers : left[h] = "done" => \A e \in entries : e.handler # h

\* triggers.md: the trigger "activates at specified time intervals according
\* to a schedule": a subscribed trigger has its entry in the scheduler.
SubscribedFires ==
    \A h \in Handlers : state[h] = "on" /\ left[h] = "no" => \E e \in entries : e.handler = h
=============================================================================
