------------------------------ MODULE Storage ------------------------------
(***************************************************************************)
(* The variable store of internal/system/storage: an in-memory pool (a     *)
(* sync.Map) in front of the "variables" table.  push writes the pool      *)
(* only; a serialization pass, started by a one-minute ticker, by          *)
(* Serialize() or by Shutdown(), copies changed entries to the table;      *)
(* pop and search read the pool and fall back to the table.  Other parts   *)
(* of the program (the variable endpoint and the script binding) write the *)
(* table without telling the pool.                                         *)
(*                                                                         *)
(* Every load, store and delete on the sync.Map and every SQL statement is *)
(* one atomic step: those are the points where other goroutines can        *)
(* interleave.  Names and values are abstract.  getByName changes nothing: *)
(* it returns the pool's value, or else the table's; within pop its two    *)
(* reads are separate steps.                                               *)
(***************************************************************************)
EXTENDS FiniteSets

CONSTANTS
    Keys,       \* variable names
    Values,     \* variable values
    Clients,    \* goroutines that call Pop or Search
    Callers,    \* goroutines that call Serialize
    Ticker,     \* the goroutine NewStorage starts
    Closer,     \* the goroutine that calls Shutdown
    None        \* no value: no pool entry, no row

Serializers == Callers \cup {Ticker, Closer}

ASSUME NoneAssumption == None \notin Values
ASSUME SerializersAssumption ==
    /\ Ticker # Closer
    /\ Ticker \notin Callers
    /\ Closer \notin Callers

VARIABLES
    pool,       \* key -> value held in memory, or None
    changed,    \* key -> the Changed flag of the pool's entry
    db,         \* key -> value in the table, or None
    isStarted,
    inProcess,
    spc,        \* serializer -> where its call of serialize() stands
    todo,       \* serializer -> keys its Range call has yet to visit
    data,       \* serializer -> <<key, value>> its closure works on
    cpc,        \* client -> where its call of pop or search stands
    names,      \* client -> keys that call will still write or delete
    rows,       \* client -> rows search read from the table
    last,       \* history: key -> the last value pushed, None when popped
    contended,  \* history: key -> the last push met a call working on the key
    diverged    \* history: key -> the table was written or missed a write
                \*          behind the pool's back

storeVars == <<pool, changed, db>>
flagVars == <<isStarted, inProcess>>
passVars == <<spc, todo, data>>
callVars == <<cpc, names, rows>>
historyVars == <<last, contended, diverged>>
vars == <<storeVars, flagVars, passVars, callVars, historyVars>>

Row == Values \cup {None}

Present == {k \in Keys : pool[k] # None}

Init ==
    /\ pool = [k \in Keys |-> None]
    /\ changed = [k \in Keys |-> FALSE]
    /\ db \in [Keys -> Row]
    /\ isStarted = TRUE
    /\ inProcess = FALSE
    /\ spc = [s \in Serializers |-> "idle"]
    /\ todo = [s \in Serializers |-> {}]
    /\ data = [s \in Serializers |-> <<None, None>>]
    /\ cpc = [c \in Clients |-> "idle"]
    /\ names = [c \in Clients |-> {}]
    /\ rows = [c \in Clients |-> [k \in Keys |-> None]]
    /\ last = [k \in Keys |-> None]
    /\ contended = [k \in Keys |-> FALSE]
    /\ diverged = [k \in Keys |-> FALSE]

-----------------------------------------------------------------------------
(* push *)

\* Some call already under way will store or delete the pool's entry for k
\* from what it read before.
WriteBackPending(k) ==
    \/ \E s \in Serializers : spc[s] = "clean" /\ data[s][1] = k
    \/ \E c \in Clients : cpc[c] # "idle" /\ k \in names[c]

Push(k, v) ==
    /\ pool' = [pool EXCEPT ![k] = v]
    /\ changed' = [changed EXCEPT ![k] = TRUE]
    /\ last' = [last EXCEPT ![k] = v]
    /\ contended' = [contended EXCEPT ![k] = WriteBackPending(k)]
    /\ UNCHANGED <<db, flagVars, passVars, callVars, diverged>>

-----------------------------------------------------------------------------
(* pop: read the value, delete the row, delete the pool's entry *)

PopStart(c, k) ==
    /\ cpc[c] = "idle"
    /\ cpc' = [cpc EXCEPT ![c] = IF pool[k] # None THEN "pop_delete" ELSE "pop_read"]
    /\ names' = [names EXCEPT ![c] = {k}]
    /\ UNCHANGED <<storeVars, flagVars, passVars, rows, historyVars>>

Return(c) ==
    /\ cpc' = [cpc EXCEPT ![c] = "idle"]
    /\ names' = [names EXCEPT ![c] = {}]

\* getByName's second half: the name is not in the pool, ask the table.
PopRead(c) ==
    /\ cpc[c] = "pop_read"
    /\ \/ \* the row is there
          /\ \A k \in names[c] : db[k] # None
          /\ cpc' = [cpc EXCEPT ![c] = "pop_delete"]
          /\ UNCHANGED names
       \/ \* no such row, or the query failed
          Return(c)
    /\ UNCHANGED <<storeVars, flagVars, passVars, rows, historyVars>>

PopDelete(c) ==
    /\ cpc[c] = "pop_delete"
    /\ \/ /\ db' = [k \in Keys |-> IF k \in names[c] THEN None ELSE db[k]]
          /\ cpc' = [cpc EXCEPT ![c] = "pop_forget"]
          /\ UNCHANGED names
       \/ \* the statement failed
          Return(c) /\ UNCHANGED db
    /\ UNCHANGED <<pool, changed, flagVars, passVars, rows, historyVars>>

PopForget(c) ==
    /\ cpc[c] = "pop_forget"
    /\ pool' = [k \in Keys |-> IF k \in names[c] THEN None ELSE pool[k]]
    /\ changed' = [k \in Keys |-> changed[k] /\ k \notin names[c]]
    /\ last' = [k \in Keys |-> IF k \in names[c] THEN None ELSE last[k]]
    /\ Return(c)
    /\ UNCHANGED <<db, flagVars, passVars, rows, contended, diverged>>

-----------------------------------------------------------------------------
(* search: collect the matching entries of the pool, then the matching     *)
(* rows, and put in the pool the rows whose name the pool did not give.    *)
(* The two reads are two steps; the stores are one step per row.           *)

\* matches: the names that contain the text searched for.
\* Mutant: search stores every row it read, also over entries of the pool.
AllMatches(matches) == matches

Unresolved(matches) == matches \ Present

SearchStart(c, matches) ==
    /\ cpc[c] = "idle"
    /\ cpc' = [cpc EXCEPT ![c] = "search_db"]
    /\ names' = [names EXCEPT ![c] = Unresolved(matches)]
    /\ UNCHANGED <<storeVars, flagVars, passVars, rows, historyVars>>

SearchDb(c) ==
    /\ cpc[c] = "search_db"
    /\ \/ /\ rows' = [rows EXCEPT ![c] = db]
          /\ names' = [names EXCEPT ![c] = {k \in @ : db[k] # None}]
          /\ cpc' = [cpc EXCEPT ![c] = "search_store"]
       \/ \* the query failed
          Return(c) /\ UNCHANGED rows
    /\ UNCHANGED <<storeVars, flagVars, passVars, historyVars>>

SearchStore(c, k) ==
    /\ cpc[c] = "search_store"
    /\ k \in names[c]
    /\ pool' = [pool EXCEPT ![k] = rows[c][k]]
    /\ changed' = [changed EXCEPT ![k] = FALSE]
    /\ names' = [names EXCEPT ![c] = @ \ {k}]
    /\ UNCHANGED <<db, flagVars, passVars, cpc, rows, historyVars>>

SearchReturn(c) ==
    /\ cpc[c] = "search_store"
    /\ names[c] = {}
    /\ Return(c)
    /\ rows' = [rows EXCEPT ![c] = [k \in Keys |-> None]]
    /\ UNCHANGED <<storeVars, flagVars, passVars, historyVars>>

-----------------------------------------------------------------------------
(* serialize *)

\* The ticker and a caller of Serialize may start a pass whenever they are
\* between two; Shutdown starts exactly one, after it closed quit.
Ready(s) == spc[s] = (IF s = Closer THEN "called" ELSE "idle")

\* inProcess admits one pass at a time.  Range visits every key that is
\* there when it starts and may visit keys stored meanwhile.
\* Mutant: no CompareAndSwap on inProcess.
SerializeStartAnyway(s) ==
    /\ Ready(s)
    /\ inProcess' = TRUE
    /\ spc' = [spc EXCEPT ![s] = "range"]
    /\ \E later \in SUBSET (Keys \ Present) :
           todo' = [todo EXCEPT ![s] = Present \cup later]
    /\ UNCHANGED <<storeVars, isStarted, data, callVars, historyVars>>

SerializeStart(s) ==
    /\ Ready(s)
    /\ ~inProcess
    /\ inProcess' = TRUE
    /\ spc' = [spc EXCEPT ![s] = "range"]
    /\ \E later \in SUBSET (Keys \ Present) :
           todo' = [todo EXCEPT ![s] = Present \cup later]
    /\ UNCHANGED <<storeVars, isStarted, data, callVars, historyVars>>

\* The pass is refused and the call returns; a tick is simply lost.
SerializeRefused(s) ==
    /\ Ready(s)
    /\ inProcess
    /\ spc' = [spc EXCEPT ![s] = "idle"]
    /\ UNCHANGED <<storeVars, flagVars, todo, data, callVars, historyVars>>

\* Mutant: the entry is taken without a look at what was loaded.
VisitUnchecked(s, k) ==
    /\ spc[s] = "range"
    /\ k \in todo[s]
    /\ todo' = [todo EXCEPT ![s] = @ \ {k}]
    /\ data' = [data EXCEPT ![s] = <<k, pool[k]>>]
    /\ spc' = [spc EXCEPT ![s] = "clean"]
    /\ UNCHANGED <<storeVars, flagVars, callVars, historyVars>>

Visit(s, k) ==
    /\ spc[s] = "range"
    /\ k \in todo[s]
    /\ todo' = [todo EXCEPT ![s] = @ \ {k}]
    /\ IF pool[k] # None /\ changed[k]
         THEN /\ data' = [data EXCEPT ![s] = <<k, pool[k]>>]
              /\ spc' = [spc EXCEPT ![s] = "clean"]
         ELSE UNCHANGED <<data, spc>>
    /\ UNCHANGED <<storeVars, flagVars, callVars, historyVars>>

\* data.Changed = false; pool.Store(key, data)
StoreClean(s) ==
    /\ spc[s] = "clean"
    /\ pool' = [pool EXCEPT ![data[s][1]] = data[s][2]]
    /\ changed' = [changed EXCEPT ![data[s][1]] = FALSE]
    /\ spc' = [spc EXCEPT ![s] = "write"]
    /\ UNCHANGED <<db, flagVars, todo, data, callVars, historyVars>>

WriteDb(s) ==
    /\ spc[s] = "write"
    /\ spc' = [spc EXCEPT ![s] = "range"]
    /\ \/ /\ db' = [db EXCEPT ![data[s][1]] = data[s][2]]
          /\ diverged' = [diverged EXCEPT ![data[s][1]] = FALSE]
       \/ \* the upsert failed: it is logged and the pass goes on
          /\ diverged' = [diverged EXCEPT ![data[s][1]] = TRUE]
          /\ UNCHANGED db
    /\ UNCHANGED <<pool, changed, flagVars, todo, data, callVars, last, contended>>

\* Mutant: the deferred inProcess.Store(false) is missing.
SerializeEndStuck(s) ==
    /\ spc[s] = "range"
    /\ todo[s] = {}
    /\ spc' = [spc EXCEPT ![s] = "idle"]
    /\ UNCHANGED <<storeVars, flagVars, todo, data, callVars, historyVars>>

SerializeEnd(s) ==
    /\ spc[s] = "range"
    /\ todo[s] = {}
    /\ inProcess' = FALSE
    /\ spc' = [spc EXCEPT ![s] = "idle"]
    /\ UNCHANGED <<storeVars, isStarted, todo, data, callVars, historyVars>>

-----------------------------------------------------------------------------
(* Shutdown, and the rest of the program *)

Shutdown ==
    /\ isStarted
    /\ isStarted' = FALSE
    /\ spc' = [spc EXCEPT ![Closer] = "called"]
    /\ UNCHANGED <<storeVars, inProcess, todo, data, callVars, historyVars>>

\* quit is closed: the ticker's goroutine ends.
TickerExit ==
    /\ ~isStarted
    /\ spc[Ticker] = "idle"
    /\ spc' = [spc EXCEPT ![Ticker] = "exited"]
    /\ UNCHANGED <<storeVars, flagVars, todo, data, callVars, historyVars>>

\* The variable endpoint or the script binding writes or deletes the row.
ExternalWrite(k, row) ==
    /\ db[k] # row
    /\ db' = [db EXCEPT ![k] = row]
    /\ diverged' = [diverged EXCEPT ![k] = TRUE]
    /\ UNCHANGED <<pool, changed, flagVars, passVars, callVars, last, contended>>

-----------------------------------------------------------------------------
Pass(s) ==
    \/ \E k \in Keys : Visit(s, k)
    \/ StoreClean(s)
    \/ WriteDb(s)
    \/ SerializeEnd(s)

Call(c) ==
    \/ \E k \in Keys : PopStart(c, k)
    \/ \E matches \in SUBSET Keys : SearchStart(c, matches)

Continue(c) ==
    \/ PopRead(c)
    \/ PopDelete(c)
    \/ PopForget(c)
    \/ SearchDb(c)
    \/ \E k \in Keys : SearchStore(c, k)
    \/ SearchReturn(c)

Next ==
    \/ \E k \in Keys, v \in Values : Push(k, v)
    \/ \E k \in Keys, row \in Row : ExternalWrite(k, row)
    \/ \E c \in Clients : Call(c) \/ Continue(c)
    \/ \E s \in Serializers : SerializeStart(s) \/ SerializeRefused(s) \/ Pass(s)
    \/ Shutdown
    \/ TickerExit

Spec == Init /\ [][Next]_vars

\* The runtime keeps scheduling a goroutine that runs, and the ticker keeps
\* ticking.  Nothing is assumed of new pushes and calls, or of SQL succeeding.
Fairness ==
    /\ WF_vars(SerializeStart(Ticker))
    /\ \A s \in Serializers : WF_vars(Pass(s))
    /\ \A c \in Clients : WF_vars(Continue(c))

FairSpec == Spec /\ Fairness

-----------------------------------------------------------------------------
TypeOK ==
    /\ pool \in [Keys -> Row]
    /\ changed \in [Keys -> BOOLEAN]
    /\ db \in [Keys -> Row]
    /\ isStarted \in BOOLEAN
    /\ inProcess \in BOOLEAN
    /\ spc \in [Serializers -> {"idle", "called", "range", "clean", "write", "exited"}]
    /\ todo \in [Serializers -> SUBSET Keys]
    /\ data \in [Serializers -> (Keys \X Values) \cup {<<None, None>>}]
    /\ cpc \in [Clients -> {"idle", "pop_read", "pop_delete", "pop_forget",
                            "search_db", "search_store"}]
    /\ names \in [Clients -> SUBSET Keys]
    /\ rows \in [Clients -> [Keys -> Row]]
    /\ last \in [Keys -> Row]
    /\ contended \in [Keys -> BOOLEAN]
    /\ diverged \in [Keys -> BOOLEAN]

\* What the last push promised for k: a value, unless the push met a call
\* that was already working on k.
Promised(k) == last[k] # None /\ ~contended[k]

\* A pushed value is what a read returns until the next push or pop of its
\* name, whatever passes, searches and table writes happen meanwhile,
\* provided no pass or call was half way through the key at the push
\* (storage.go push, serialize, search, pop).
UncontendedPushHeld ==
    \A k \in Keys : Promised(k) => pool[k] = last[k]

\* A pool entry that is not marked Changed is in the table already, or the
\* pass that cleared the mark is about to write it, or a pop deleted the row
\* and is about to delete the entry.  Passes skip such an entry, so
\* otherwise the value would never be archived (storage.go serialize).
CleanMeansPersisted ==
    \A k \in Keys :
        Promised(k) /\ ~changed[k] /\ ~diverged[k] =>
            \/ db[k] = last[k]
            \/ \E s \in Serializers : spc[s] = "write" /\ data[s] = <<k, last[k]>>
            \/ \E c \in Clients : cpc[c] = "pop_forget" /\ k \in names[c]

\* A pushed value reaches the table, or it is overwritten, popped, or cut
\* off by a failed statement, a foreign table write or Shutdown (the
\* ticker loop of NewStorage and serialize).
PushArchived ==
    \A k \in Keys, v \in Values :
        (last[k] = v /\ Promised(k)) ~>
            (db[k] = v \/ last[k] # v \/ contended[k] \/ diverged[k] \/ ~isStarted)
=============================================================================
