----------------------------- MODULE EventLoop -----------------------------
(***************************************************************************)
(* The JavaScript event loop of internal/system/scripts/eventloop, as      *)
(* javascript.go uses it: a script's program runs in Run, its functions    *)
(* are called (AssertFunction) while no loop runs, one at a time.          *)
(*                                                                         *)
(* A timeout's goroutine, and an interval's goroutine on every tick, send  *)
(* a job on jobChan, which has no buffer: they wait in the send until run  *)
(* receives.  clearInterval sends on the interval's stopChan, which has no *)
(* buffer either.  What the script calls, and when, is arbitrary.          *)
(*                                                                         *)
(* A Go panic in the script's code, as of NewTicker for an interval of 0   *)
(* or of clearTimeout for a value that is no timer, unwinds to the recover *)
(* of javascript.go.                                                       *)
(*                                                                         *)
(* Start, Stop and RunOnLoop, which nothing calls, are left out, and with  *)
(* them the flag running.  MaxDrift bounds how far jobCount falls below    *)
(* zero.                                                                   *)
(***************************************************************************)
EXTENDS Integers, FiniteSets

CONSTANTS
    Timers,     \* timer structs; one is used again once nothing refers to it
    Intervals,  \* interval structs
    None,
    MaxDrift

ASSUME NamesAssumption ==
    Timers \cap Intervals = {} /\ None \notin Timers \cup Intervals
ASSUME FiniteAssumption == IsFiniteSet(Timers) /\ IsFiniteSet(Intervals)
ASSUME MaxDriftAssumption == MaxDrift \in Nat

VARIABLES
    pc,         \* what the goroutine that entered the engine is doing
    cur,        \* the timer or interval whose callback runs, or None
    back,       \* where a blocked clearInterval returns to
    clearing,   \* the interval that clearInterval stops, or None
    jobCount,
    timer,      \* timer -> "free", "armed", "sending" on jobChan, or "done"
    interval,   \* interval -> "off", its goroutine in "select" or "sending"
    tick,       \* interval -> its ticker's channel holds a tick
    stopped,    \* interval -> its ticker was stopped
    cancelled   \* timer or interval -> its cancelled flag

loopVars == <<pc, cur, back, clearing>>
timeVars == <<timer, interval, tick, stopped>>
engineVars == <<loopVars, jobCount, timeVars, cancelled>>

\* The delayed jobs: what was set and not cleared, and will still run, or is
\* running.
Pending ==
    {t \in Timers : ~cancelled[t] /\ (timer[t] # "done" \/ cur = t)}
    \cup {i \in Intervals : ~cancelled[i]}

\* The timeouts whose callback ended in a panic: they will not run again,
\* but they are still counted.
Aborted == {t \in Timers : ~cancelled[t] /\ timer[t] = "done" /\ cur # t}

LoopInit ==
    /\ pc = "idle"
    /\ cur = None
    /\ back = "idle"
    /\ clearing = None
    /\ jobCount = 0
    /\ timer = [t \in Timers |-> "free"]
    /\ interval = [i \in Intervals |-> "off"]
    /\ tick = [i \in Intervals |-> FALSE]
    /\ stopped = [i \in Intervals |-> FALSE]
    /\ cancelled = [x \in Timers \cup Intervals |-> TRUE]

-----------------------------------------------------------------------------
(* The script's code: the program, a callback, or a function called while  *)
(* no loop runs.                                                           *)

InScript == pc \in {"fn", "callback", "outside"}

\* addTimeout
SetTimeout(t) ==
    /\ InScript
    /\ timer[t] = "free" \/ (timer[t] = "done" /\ cur # t /\ cancelled[t])
    /\ timer' = [timer EXCEPT ![t] = "armed"]
    /\ cancelled' = [cancelled EXCEPT ![t] = FALSE]
    /\ jobCount' = jobCount + 1
    /\ UNCHANGED <<loopVars, interval, tick, stopped>>

\* addInterval
SetInterval(i) ==
    /\ InScript
    /\ interval[i] = "off"
    /\ interval' = [interval EXCEPT ![i] = "select"]
    /\ cancelled' = [cancelled EXCEPT ![i] = FALSE]
    /\ jobCount' = jobCount + 1
    /\ UNCHANGED <<loopVars, timer, tick, stopped>>

\* timer.Stop does nothing about a goroutine that fired.  A callback may
\* clear its own timer: the flag is set only after the callback.
ClearTimeout(t) ==
    /\ InScript
    /\ jobCount > -MaxDrift
    /\ timer[t] # "free"
    /\ ~cancelled[t]
    /\ timer' = [timer EXCEPT ![t] = IF @ = "armed" THEN "done" ELSE @]
    /\ cancelled' = [cancelled EXCEPT ![t] = TRUE]
    /\ jobCount' = jobCount - 1
    /\ UNCHANGED <<loopVars, interval, tick, stopped>>

\* clearInterval sets the flag and sends on stopChan,
ClearInterval(i) ==
    /\ InScript
    /\ ~cancelled[i]
    /\ cancelled' = [cancelled EXCEPT ![i] = TRUE]
    /\ pc' = "clearing"
    /\ back' = pc
    /\ clearing' = i
    /\ UNCHANGED <<cur, jobCount, timeVars>>

\* which the interval's goroutine takes only in its select.  It stops the
\* ticker, which leaves no tick behind (Go 1.23), and its break ends the
\* select and not the loop around it.
ClearIntervalEnd ==
    /\ pc = "clearing"
    /\ interval[clearing] = "select"
    /\ stopped' = [stopped EXCEPT ![clearing] = TRUE]
    /\ tick' = [tick EXCEPT ![clearing] = FALSE]
    /\ jobCount' = jobCount - 1
    /\ pc' = back
    /\ back' = "idle"
    /\ clearing' = None
    /\ UNCHANGED <<cur, timer, interval, cancelled>>

Script ==
    \/ \E t \in Timers : SetTimeout(t) \/ ClearTimeout(t)
    \/ \E i \in Intervals : SetInterval(i) \/ ClearInterval(i)

-----------------------------------------------------------------------------
(* Time: timers fire, tickers tick                                         *)

Fire(t) ==
    /\ timer[t] = "armed"
    /\ timer' = [timer EXCEPT ![t] = "sending"]
    /\ UNCHANGED <<loopVars, jobCount, interval, tick, stopped, cancelled>>

Tick(i) ==
    /\ interval[i] # "off"
    /\ ~stopped[i]
    /\ ~tick[i]
    /\ tick' = [tick EXCEPT ![i] = TRUE]
    /\ UNCHANGED <<loopVars, jobCount, timer, interval, stopped, cancelled>>

\* The goroutine's select takes the tick, even when stopChan is ready too.
TakeTick(i) ==
    /\ interval[i] = "select"
    /\ tick[i]
    /\ tick' = [tick EXCEPT ![i] = FALSE]
    /\ interval' = [interval EXCEPT ![i] = "sending"]
    /\ UNCHANGED <<loopVars, jobCount, timer, stopped, cancelled>>

-----------------------------------------------------------------------------
(* Run: the program, then jobs as long as some are delayed                 *)

Enter(place) ==
    /\ pc = "idle"
    /\ pc' = place
    /\ UNCHANGED <<cur, back, clearing, jobCount, timeVars, cancelled>>

Run == Enter("fn")
AssertFunction == Enter("outside")

\* The program or the function ends, with or without an exception.
Leave ==
    /\ pc \in {"fn", "outside"}
    /\ pc' = IF pc = "fn" THEN "check" ELSE "idle"
    /\ UNCHANGED <<cur, back, clearing, jobCount, timeVars, cancelled>>

CheckJobs ==
    /\ pc = "check"
    /\ pc' = IF jobCount > 0 THEN "recv" ELSE "idle"
    /\ UNCHANGED <<cur, back, clearing, jobCount, timeVars, cancelled>>

\* A job is received: doTimeout, doInterval start the callback unless the
\* flag is set.
Do(x) ==
    /\ pc' = IF cancelled[x] THEN "check" ELSE "callback"
    /\ cur' = IF cancelled[x] THEN None ELSE x
    /\ UNCHANGED <<back, clearing, jobCount, tick, stopped, cancelled>>

\* Mutant of DoTimeout: the jobs of intervals are received first.
DoTimeoutLast(t) ==
    /\ pc = "recv"
    /\ timer[t] = "sending"
    /\ \A i \in Intervals : interval[i] # "sending"
    /\ timer' = [timer EXCEPT ![t] = "done"]
    /\ UNCHANGED interval
    /\ Do(t)

DoTimeout(t) ==
    /\ pc = "recv"
    /\ timer[t] = "sending"
    /\ timer' = [timer EXCEPT ![t] = "done"]
    /\ UNCHANGED interval
    /\ Do(t)

DoInterval(i) ==
    /\ pc = "recv"
    /\ interval[i] = "sending"
    /\ interval' = [interval EXCEPT ![i] = "select"]
    /\ UNCHANGED timer
    /\ Do(i)

\* Mutant of CallbackEnd: the timeout that ran is not counted down.
CallbackEndUncounted ==
    /\ pc = "callback"
    /\ pc' = "check"
    /\ cur' = None
    /\ cancelled' = [cancelled EXCEPT ![cur] = @ \/ cur \in Timers]
    /\ UNCHANGED <<back, clearing, timeVars, jobCount>>

\* doTimeout sets the flag and counts down after the callback.
CallbackEnd ==
    /\ pc = "callback"
    /\ pc' = "check"
    /\ cur' = None
    /\ IF cur \in Timers
         THEN /\ cancelled' = [cancelled EXCEPT ![cur] = TRUE]
              /\ jobCount' = jobCount - 1
         ELSE UNCHANGED <<cancelled, jobCount>>
    /\ UNCHANGED <<back, clearing, timeVars>>

\* A panic in the script's code: nothing below the recover is finished, not
\* doTimeout after the callback, nor Run, whose delayed jobs go on waiting.
Panic ==
    /\ InScript
    /\ pc' = "idle"
    /\ cur' = None
    /\ UNCHANGED <<back, clearing, jobCount, timeVars, cancelled>>

LoopNext ==
    \/ Script
    \/ Panic
    \/ ClearIntervalEnd
    \/ \E t \in Timers : Fire(t) \/ DoTimeout(t)
    \/ \E i \in Intervals : Tick(i) \/ TakeTick(i) \/ DoInterval(i)
    \/ Run
    \/ AssertFunction
    \/ Leave
    \/ CheckJobs
    \/ CallbackEnd

LoopSpec == LoopInit /\ [][LoopNext]_engineVars

\* The script's code ends, time passes, goroutines go on; a sender waiting
\* on jobChan is served in its turn, as Go queues them.
LoopFairness ==
    /\ WF_engineVars(Leave) /\ WF_engineVars(CheckJobs) /\ WF_engineVars(CallbackEnd)
    /\ WF_engineVars(ClearIntervalEnd)
    /\ \A t \in Timers : WF_engineVars(Fire(t)) /\ SF_engineVars(DoTimeout(t))
    /\ \A i \in Intervals : WF_engineVars(Tick(i)) /\ WF_engineVars(TakeTick(i)) /\ SF_engineVars(DoInterval(i))

-----------------------------------------------------------------------------
\* Run waits in vain for nothing but the timeouts a panic aborted: jobCount
\* is never above the delayed jobs, these timeouts and the interval being
\* cleared (addTimeout, addInterval, doTimeout, clearTimeout, clearInterval).
NoPhantomJob ==
    jobCount <= Cardinality(Pending) + Cardinality(Aborted)
                + (IF pc = "clearing" THEN 1 ELSE 0)

\* While Run runs, a delayed timeout is run or cleared in the end, whatever
\* the intervals do, unless the script hangs in clearInterval.
TimeoutRuns ==
    \A t \in Timers : t \in Pending ~> (cancelled[t] \/ pc = "idle" \/ pc = "clearing")
=============================================================================
