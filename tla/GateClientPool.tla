--------------------------- MODULE GateClientPool ---------------------------
(***************************************************************************)
(* The gate client's pool of websockets to one gate server                 *)
(* (internal/system/gate/client/wsp): connector, which keeps it filled,    *)
(* the goroutine of each connection, and Shutdown.                         *)
(*                                                                         *)
(* connector runs under the lock of the pool; the goroutines and Shutdown  *)
(* use the sync.Map without it.  The element of Connections of a goroutine *)
(* that ended and whose socket is closed stands for the next connection.   *)
(* MaxCalls bounds the calls of connector that wait for the lock.          *)
(***************************************************************************)
EXTENDS Integers, FiniteSets

CONSTANTS
    Connections,
    PoolIdleSize,
    PoolMaxSize,
    Tokens,    \* {} if no session is asked for, or the outcomes of GetUser
    MaxCalls

ASSUME ConstantsAssumption ==
    /\ IsFiniteSet(Connections)
    /\ PoolIdleSize \in Nat \ {0}
    /\ PoolMaxSize \in Nat \ {0}
    /\ Tokens \subseteq BOOLEAN
    /\ MaxCalls \in Nat

VARIABLES
    members,   \* pool.connections
    status,    \* connection -> CONNECTING, IDLE or RUNNING
    isClosed,  \* connection -> its flag
    at,        \* connection -> where its goroutine is
    open,      \* connections whose socket is open
    calls,     \* calls of connector that wait for the lock
    toCreate,  \* what connector, with the lock, has still to create
    shutdown,  \* "no", "ranging" or "done"
    todo       \* what Shutdown's Range has to visit

connVars == <<status, isClosed, at, open>>
poolVars == <<members, calls, toCreate, shutdown, todo>>
vars == <<connVars, poolVars>>

\* Start calls connector once, then for each tick.
Init ==
    /\ members = {}
    /\ status = [c \in Connections |-> "CONNECTING"]
    /\ isClosed = [c \in Connections |-> TRUE]
    /\ at = [c \in Connections |-> "end"]
    /\ open = {}
    /\ calls = 1
    /\ toCreate = 0
    /\ shutdown = "no"
    /\ todo = {}

Tick ==
    /\ shutdown = "no"
    /\ calls < MaxCalls
    /\ calls' = calls + 1
    /\ UNCHANGED <<connVars, members, toCreate, shutdown, todo>>

-----------------------------------------------------------------------------
(* connector.                                                               *)

Total == Cardinality(members)
Idle == Cardinality({c \in members : status[c] = "IDLE"})

\* Mutant of Missing: more idle connections than PoolIdleSize count against it.
MissingSigned == IF Total = 0 THEN 1 ELSE PoolIdleSize - Idle

\* What is missing to PoolIdleSize, one if the pool is empty.
Missing ==
    IF Total = 0 THEN 1
    ELSE IF Idle < PoolIdleSize THEN PoolIdleSize - Idle ELSE 0

\* Mutant of Wanted: the connections that serve are not held against the maximum.
WantedByIdle == IF Idle + Missing >= PoolMaxSize THEN 0 ELSE Missing

Wanted == IF Total + Missing >= PoolMaxSize THEN 0 ELSE Missing

Connector ==
    /\ calls > 0
    /\ toCreate = 0
    /\ calls' = calls - 1
    /\ toCreate' = Wanted
    /\ UNCHANGED <<connVars, members, shutdown, todo>>

Create(c) ==
    /\ toCreate > 0
    /\ at[c] = "end"
    /\ c \notin members \cup open
    /\ toCreate' = toCreate - 1
    /\ members' = members \cup {c}
    /\ status' = [status EXCEPT ![c] = "CONNECTING"]
    /\ isClosed' = [isClosed EXCEPT ![c] = TRUE]
    /\ at' = [at EXCEPT ![c] = "dial"]
    /\ UNCHANGED <<open, calls, shutdown, todo>>

-----------------------------------------------------------------------------
(* The goroutine of a connection: Connect, serve, then Delete.              *)

Dial(c) ==
    /\ at[c] = "dial"
    /\ open' = open \cup {c}
    /\ isClosed' = [isClosed EXCEPT ![c] = FALSE]
    /\ at' = [at EXCEPT ![c] = "greet"]
    /\ UNCHANGED <<status, poolVars>>

DialError(c) ==
    /\ at[c] = "dial"
    /\ at' = [at EXCEPT ![c] = "delete"]
    /\ UNCHANGED <<status, isClosed, open, poolVars>>

\* The greeting, then serve waits for a request.
Greet(c) ==
    /\ at[c] = "greet"
    /\ c \in open
    /\ ~isClosed[c]
    /\ status' = [status EXCEPT ![c] = "IDLE"]
    /\ at' = [at EXCEPT ![c] = "read"]
    /\ UNCHANGED <<isClosed, open, poolVars>>

\* It fails when the socket is closed on either side; Close then sets the
\* flag, if Shutdown did not.
GreetError(c) ==
    /\ at[c] = "greet"
    /\ c \notin open
    /\ isClosed' = [isClosed EXCEPT ![c] = TRUE]
    /\ at' = [at EXCEPT ![c] = "delete"]
    /\ UNCHANGED <<status, open, poolVars>>

\* A request: serve calls connector in a goroutine.
Request(c) ==
    /\ at[c] = "read"
    /\ c \in open
    /\ calls < MaxCalls
    /\ status' = [status EXCEPT ![c] = "RUNNING"]
    /\ calls' = calls + 1
    /\ at' = [at EXCEPT ![c] = "serve"]
    /\ UNCHANGED <<isClosed, open, members, toCreate, shutdown, todo>>

Answer(c) ==
    /\ at[c] = "serve"
    /\ c \in open
    /\ status' = [status EXCEPT ![c] = "IDLE"]
    /\ at' = [at EXCEPT ![c] = "read"]
    /\ UNCHANGED <<isClosed, open, poolVars>>

\* The socket is closed: the read or the write fails and serve returns.
ServeError(c) ==
    /\ at[c] \in {"read", "serve"}
    /\ c \notin open
    /\ at' = [at EXCEPT ![c] = "delete"]
    /\ UNCHANGED <<status, isClosed, open, poolVars>>

\* The request asks for a session: with a user the stream serves it until
\* the socket closes, without one serve returns.  Nothing is closed.
Session(c, user) ==
    /\ at[c] = "serve"
    /\ at' = [at EXCEPT ![c] = IF user THEN "stream" ELSE "delete"]
    /\ UNCHANGED <<status, isClosed, open, poolVars>>

SessionEnd(c) ==
    /\ at[c] = "stream"
    /\ c \notin open
    /\ at' = [at EXCEPT ![c] = "delete"]
    /\ UNCHANGED <<status, isClosed, open, poolVars>>

\* Mutant of Delete: a connection stays in the pool unless it was served.
DeleteServed(c) ==
    /\ at[c] = "delete"
    /\ members' = IF status[c] = "CONNECTING" THEN members ELSE members \ {c}
    /\ at' = [at EXCEPT ![c] = "end"]
    /\ UNCHANGED <<status, isClosed, open, calls, toCreate, shutdown, todo>>

Delete(c) ==
    /\ at[c] = "delete"
    /\ members' = members \ {c}
    /\ at' = [at EXCEPT ![c] = "end"]
    /\ UNCHANGED <<status, isClosed, open, calls, toCreate, shutdown, todo>>

\* The gate server, or the network, closes a socket.
PeerClose(c) ==
    /\ c \in open
    /\ open' = open \ {c}
    /\ UNCHANGED <<status, isClosed, at, poolVars>>

-----------------------------------------------------------------------------
(* Shutdown: done is closed, then the map is ranged over.                   *)

ShutdownStart ==
    /\ shutdown = "no"
    /\ shutdown' = "ranging"
    /\ todo' = members
    /\ UNCHANGED <<connVars, members, calls, toCreate>>

\* Close does nothing if the flag is set, as it is until Connect has dialed.
ShutdownOne(c) ==
    /\ shutdown = "ranging"
    /\ c \in members
    /\ open' = IF isClosed[c] THEN open ELSE open \ {c}
    /\ isClosed' = [isClosed EXCEPT ![c] = TRUE]
    /\ members' = members \ {c}
    /\ todo' = todo \ {c}
    /\ UNCHANGED <<status, at, calls, toCreate, shutdown>>

ShutdownEnd ==
    /\ shutdown = "ranging"
    /\ todo \cap members = {}
    /\ shutdown' = "done"
    /\ todo' = {}
    /\ UNCHANGED <<connVars, members, calls, toCreate>>

-----------------------------------------------------------------------------
Goroutine(c) ==
    \/ Dial(c) \/ DialError(c) \/ Greet(c) \/ GreetError(c)
    \/ Answer(c) \/ ServeError(c) \/ (\E user \in Tokens : Session(c, user))
    \/ SessionEnd(c) \/ Delete(c)

Next ==
    \/ Tick
    \/ Connector
    \/ \E c \in Connections : Create(c) \/ Goroutine(c) \/ Request(c) \/ PeerClose(c) \/ ShutdownOne(c)
    \/ ShutdownStart
    \/ ShutdownEnd

Spec == Init /\ [][Next]_vars

\* The ticker ticks, connector gets the lock and the goroutines run.
Fairness ==
    /\ WF_vars(Tick)
    /\ WF_vars(Connector)
    /\ WF_vars(\E c \in Connections : Create(c))
    /\ \A c \in Connections : WF_vars(Goroutine(c))

FairSpec == Spec /\ Fairness

-----------------------------------------------------------------------------
TypeOK ==
    /\ members \subseteq Connections
    /\ status \in [Connections -> {"CONNECTING", "IDLE", "RUNNING"}]
    /\ isClosed \in [Connections -> BOOLEAN]
    /\ at \in [Connections -> {"dial", "greet", "read", "serve", "stream", "delete", "end"}]
    /\ open \subseteq Connections
    /\ calls \in 0..(MaxCalls + 1)
    /\ toCreate \in Nat
    /\ shutdown \in {"no", "ranging", "done"}
    /\ todo \subseteq Connections

\* pool.go: "Ensure to open at most PoolMaxSize connections": what is in
\* the map and what connector has still to create fit into PoolMaxSize,
\* whoever calls connector and whatever ends meanwhile.
BelowMax == Cardinality(members) + toCreate <= PoolMaxSize

\* The pool never dies: again and again it holds a connection that dials or
\* serves, however the dialing fails and the sockets break, until Shutdown
\* (or until the sockets of refused sessions hold every name of Connections).
PoolRecovers ==
    []<>(\/ shutdown # "no"
         \/ Connections \subseteq open
         \/ \E c \in members : at[c] \in {"dial", "greet", "read", "serve", "stream"})
=============================================================================
