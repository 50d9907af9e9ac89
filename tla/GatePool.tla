------------------------------ MODULE GatePool ------------------------------
(***************************************************************************)
(* The gate: one pool of websocket connections on the gate server          *)
(* (internal/system/gate/server/wsp), the requests it relays, and the end  *)
(* of each connection in the smart-home server                             *)
(* (internal/system/gate/client/wsp, serve).                               *)
(*                                                                         *)
(* The status of a connection has no lock: Take, Release and Clean read it *)
(* and write it in two steps, WritePump and Close beside them.  The locks  *)
(* are those of Pools (registration, the janitor's Clean, GetPool) and of  *)
(* the pool (its map).  idle and queue are channels without a buffer: a    *)
(* send is received in the same step.  After the janitor removed the pool  *)
(* a new one is made for the same id; the model follows one pool.          *)
(* A websocket delivers in order; a broken one may lose what is in it.     *)
(* Left out: the goroutine of a session writes its close message (Bye)     *)
(* with no lock against the write of the next request, which gorilla       *)
(* answers with a panic when the two meet.                                 *)
(***************************************************************************)
EXTENDS Naturals, Sequences, FiniteSets

CONSTANTS
    Connections,  \* the websockets peers open
    Http,         \* HTTP requests
    Sessions,     \* requests for a websocket session
    Size,         \* the idle connections the greeting asks for
    ServerStops,  \* whether the server may be shut down
    Janitor,      \* the server's Clean loop
    Event,        \* a message of a session, from the stream
    ErrorBody,    \* the text serve sends after the answer of status 527
    None

ASSUME NamesAssumption ==
    /\ Http \cap Sessions = {}
    /\ {Janitor, Event, ErrorBody, None} \cap (Http \cup Sessions \cup Connections) = {}
    /\ Janitor # None
    /\ Size \in Nat
    /\ ServerStops \in BOOLEAN

Requests == Http \cup Sessions
Messages == Http \cup {Event, ErrorBody}

VARIABLES
    pool,         \* "listed" in Pools, "removed" by its Clean, or "shutdown"
    registering,  \* the connection whose registration holds the lock of Pools
    members,      \* pool.connections
    status,       \* connection -> "new", or its ConnectionStatus
    offers,       \* connection -> goroutines that wait to send it on idle
    pump,         \* connection -> where its WritePump is
    held,         \* connection -> the message WritePump sends on queue
    queueClosed,  \* connections whose queue is closed
    readers,      \* connection -> sessions whose goroutine reads its queue
    sweep,        \* IsEmpty under way, with the lock of the pool
    rstate,       \* request -> where its handler is
    conn,         \* request -> the connection it works on
    outcome,      \* request -> how it ended
    got,          \* request -> the message it took for its answer
    cut,          \* connections the server closed
    byes,         \* connections the server wrote a close message to
    toPeer,       \* connection -> requests on their way to the peer
    toPool,       \* connection -> messages on their way back
    peer          \* connection -> what the smart-home server does with it

poolVars == <<pool, registering, members, sweep>>
connVars == <<status, offers, pump, held, queueClosed, readers>>
reqVars == <<rstate, conn, outcome, got>>
wireVars == <<cut, byes, toPeer, toPool, peer>>
vars == <<poolVars, connVars, reqVars, wireVars>>

NoSweep == [by |-> None, todo |-> {}, idle |-> 0, victim |-> None]

Init ==
    /\ pool = "listed"
    /\ registering = None
    /\ members = {}
    /\ status = [c \in Connections |-> "new"]
    /\ offers = [c \in Connections |-> 0]
    /\ pump = [c \in Connections |-> "off"]
    /\ held = [c \in Connections |-> None]
    /\ queueClosed = {}
    /\ readers = [c \in Connections |-> {}]
    /\ sweep = NoSweep
    /\ rstate = [r \in Requests |-> "new"]
    /\ conn = [r \in Requests |-> None]
    /\ outcome = [r \in Requests |-> "none"]
    /\ got = [r \in Requests |-> None]
    /\ cut = {}
    /\ byes = {}
    /\ toPeer = [c \in Connections |-> <<>>]
    /\ toPool = [c \in Connections |-> <<>>]
    /\ peer = [c \in Connections |-> "serving"]

PoolsUnlocked == registering = None /\ sweep.by # Janitor
PoolUnlocked == sweep.by = None

-----------------------------------------------------------------------------
(* Registration of a connection, with the lock of Pools.                    *)

\* Mutant of Register: done is read before the lock of Pools is taken.
RegisterUnlocked(c) ==
    /\ status[c] = "new"
    /\ pool = "listed"
    /\ registering = None
    /\ registering' = c
    /\ status' = [status EXCEPT ![c] = "Idle"]
    /\ offers' = [offers EXCEPT ![c] = 1]
    /\ UNCHANGED <<pool, members, sweep, pump, held, queueClosed, readers, reqVars, wireVars>>

\* done is read; NewConnection makes the connection Idle and offers it.
Register(c) ==
    /\ status[c] = "new"
    /\ pool = "listed"
    /\ PoolsUnlocked
    /\ registering' = c
    /\ status' = [status EXCEPT ![c] = "Idle"]
    /\ offers' = [offers EXCEPT ![c] = 1]
    /\ UNCHANGED <<pool, members, sweep, pump, held, queueClosed, readers, reqVars, wireVars>>

\* The connection enters the map and its WritePump starts.
Enter(c) ==
    /\ registering = c
    /\ PoolUnlocked
    /\ members' = members \cup {c}
    /\ pump' = [pump EXCEPT ![c] = "head"]
    /\ registering' = None
    /\ UNCHANGED <<pool, sweep, status, offers, held, queueClosed, readers, reqVars, wireVars>>

-----------------------------------------------------------------------------
(* WritePump.                                                               *)

PumpHead(c) ==
    /\ pump[c] = "head"
    /\ pump' = [pump EXCEPT ![c] = IF status[c] = "Closed" THEN "exit" ELSE "read"]
    /\ UNCHANGED <<poolVars, status, offers, held, queueClosed, readers, reqVars, wireVars>>

PumpRead(c) ==
    /\ pump[c] = "read"
    /\ toPool[c] # <<>>
    /\ held' = [held EXCEPT ![c] = Head(toPool[c])]
    /\ toPool' = [toPool EXCEPT ![c] = Tail(@)]
    /\ pump' = [pump EXCEPT ![c] = "send"]
    /\ UNCHANGED <<poolVars, status, offers, queueClosed, readers, reqVars, cut, byes, toPeer, peer>>

\* The read fails: the server closed the websocket, or the peer is gone.
PumpError(c) ==
    /\ pump[c] = "read"
    /\ c \in cut \/ (peer[c] = "gone" /\ toPool[c] = <<>>)
    /\ status' = [status EXCEPT ![c] = "Closed"]
    /\ queueClosed' = queueClosed \cup {c}
    /\ pump' = [pump EXCEPT ![c] = "exit"]
    /\ UNCHANGED <<poolVars, offers, held, readers, reqVars, wireVars>>

PumpExit(c) ==
    /\ pump[c] = "exit"
    /\ PoolUnlocked
    /\ members' = members \ {c}
    /\ pump' = [pump EXCEPT ![c] = "end"]
    /\ UNCHANGED <<pool, registering, sweep, status, offers, held, queueClosed, readers, reqVars, wireVars>>

\* The message on queue is received: WritePump goes on.
Sent(c) ==
    /\ pump[c] = "send"
    /\ pump' = [pump EXCEPT ![c] = "head"]
    /\ held' = [held EXCEPT ![c] = None]

-----------------------------------------------------------------------------
(* Clean, called by IsEmpty with the lock of the pool.                      *)

CleanStart(by) ==
    /\ PoolUnlocked
    /\ sweep' = [by |-> by, todo |-> members, idle |-> 0, victim |-> None]

\* One connection of the map; timeout tells whether it was idle too long.
CleanLook(c, timeout) ==
    /\ c \in sweep.todo
    /\ sweep.victim = None
    /\ LET idle == IF status[c] = "Idle" THEN sweep.idle + 1 ELSE sweep.idle
       IN  sweep' = [sweep EXCEPT
               !.todo = @ \ {c},
               !.idle = idle,
               !.victim = IF status[c] = "Idle" /\ idle > Size + 1 /\ timeout THEN c ELSE None]
    /\ UNCHANGED <<pool, registering, members, connVars, reqVars, wireVars>>

Closed(c) == [status EXCEPT ![c] = "Closed"]
CutUnlessClosed(c) == IF status[c] = "Closed" THEN cut ELSE cut \cup {c}

CleanClose(c) ==
    /\ sweep.victim = c
    /\ status' = Closed(c)
    /\ cut' = CutUnlessClosed(c)
    /\ members' = members \ {c}
    /\ sweep' = [sweep EXCEPT !.victim = None]
    /\ UNCHANGED <<pool, registering, offers, pump, held, queueClosed, readers, reqVars,
                   byes, toPeer, toPool, peer>>

CleanEnd(by) ==
    /\ sweep.by = by
    /\ sweep.todo = {}
    /\ sweep.victim = None
    /\ sweep' = NoSweep

\* Pools.Clean, with the lock of Pools: an empty pool is shut down and
\* removed.  It finds the pool with the first registration made.
JanitorStart ==
    /\ PoolsUnlocked
    /\ pool # "removed"
    /\ \E c \in Connections : status[c] # "new"
    /\ CleanStart(Janitor)
    /\ UNCHANGED <<pool, registering, members, connVars, reqVars, wireVars>>

JanitorEnd ==
    /\ CleanEnd(Janitor)
    /\ pool' = IF members = {} THEN "removed" ELSE pool
    /\ UNCHANGED <<registering, members, connVars, reqVars, wireVars>>

\* Server.Shutdown: Pools.Shutdown takes no lock, Pool.Shutdown its own.
Shutdown ==
    /\ ServerStops
    /\ pool = "listed"
    /\ PoolUnlocked
    /\ pool' = "shutdown"
    /\ status' = [c \in Connections |-> IF c \in members THEN "Closed" ELSE status[c]]
    /\ cut' = cut \cup {c \in members : status[c] # "Closed"}
    /\ members' = {}
    /\ UNCHANGED <<registering, sweep, offers, pump, held, queueClosed, readers, reqVars,
                   byes, toPeer, toPool, peer>>

-----------------------------------------------------------------------------
(* Server.Request and Server.Ws.                                            *)

Go(r, to) == rstate' = [rstate EXCEPT ![r] = to]

\* Pools.GetPool.
GetPool(r) ==
    /\ rstate[r] = "new"
    /\ PoolsUnlocked
    /\ \E c \in Connections : status[c] # "new"
    /\ IF pool = "removed"
       THEN Go(r, "done") /\ outcome' = [outcome EXCEPT ![r] = "unavailable"]
       ELSE Go(r, "got") /\ UNCHANGED outcome
    /\ UNCHANGED <<poolVars, connVars, conn, got, wireVars>>

\* GetIdleConnection: IsEmpty,
IsEmptyStart(r) ==
    /\ rstate[r] = "got"
    /\ CleanStart(r)
    /\ Go(r, "cleaning")
    /\ UNCHANGED <<pool, registering, members, connVars, conn, outcome, got, wireVars>>

IsEmptyEnd(r) ==
    /\ CleanEnd(r)
    /\ IF members = {}
       THEN Go(r, "done") /\ outcome' = [outcome EXCEPT ![r] = "unavailable"]
       ELSE Go(r, "waiting") /\ UNCHANGED outcome
    /\ UNCHANGED <<pool, registering, members, connVars, conn, got, wireVars>>

\* then the select: the timeout of the pool or of the request,
GetTimeout(r) ==
    /\ rstate[r] = "waiting"
    /\ Go(r, "done")
    /\ outcome' = [outcome EXCEPT ![r] = "unavailable"]
    /\ UNCHANGED <<poolVars, connVars, conn, got, wireVars>>

\* Mutant of Receive: a connection is taken although nobody offers it.
ReceiveUnoffered(r, c) ==
    /\ rstate[r] = "waiting"
    /\ status[c] = "Idle"
    /\ offers' = [offers EXCEPT ![c] = @ - 1]
    /\ conn' = [conn EXCEPT ![r] = c]
    /\ Go(r, "received")
    /\ UNCHANGED <<poolVars, status, pump, held, queueClosed, readers, outcome, got, wireVars>>

\* or a connection from idle,
Receive(r, c) ==
    /\ rstate[r] = "waiting"
    /\ offers[c] > 0
    /\ offers' = [offers EXCEPT ![c] = @ - 1]
    /\ conn' = [conn EXCEPT ![r] = c]
    /\ Go(r, "received")
    /\ UNCHANGED <<poolVars, status, pump, held, queueClosed, readers, outcome, got, wireVars>>

\* which Take checks, and it is back to the select,
TakeCheck(r) ==
    /\ rstate[r] = "received"
    /\ IF status[conn[r]] = "Idle"
       THEN Go(r, "taking") /\ UNCHANGED conn
       ELSE Go(r, "waiting") /\ conn' = [conn EXCEPT ![r] = None]
    /\ UNCHANGED <<poolVars, connVars, outcome, got, wireVars>>

\* or marks.
Take(r) ==
    /\ rstate[r] = "taking"
    /\ status' = [status EXCEPT ![conn[r]] = "Busy"]
    /\ Go(r, "taken")
    /\ UNCHANGED <<poolVars, offers, pump, held, queueClosed, readers, conn, outcome, got, wireVars>>

\* The handler returns; the deferred Release comes next.
Leave(r, how) ==
    /\ Go(r, "leaving")
    /\ outcome' = [outcome EXCEPT ![r] = how]

\* proxyRequest and proxyWs write to the peer.
Write(r) ==
    LET c == conn[r] IN
    /\ rstate[r] = "taken"
    /\ c \notin cut \cup byes
    /\ toPeer' = [toPeer EXCEPT ![c] = Append(@, r)]
    /\ Go(r, IF r \in Http THEN "awaiting" ELSE "upgrading")
    /\ UNCHANGED <<poolVars, connVars, conn, outcome, got, cut, byes, toPool, peer>>

WriteError(r) ==
    LET c == conn[r] IN
    /\ rstate[r] = "taken"
    /\ c \in cut \cup byes \/ peer[c] = "gone"
    /\ Leave(r, "error")
    /\ UNCHANGED <<poolVars, connVars, conn, got, wireVars>>

\* proxyRequest takes the message from queue for the answer.  It fails if
\* it is no HTTP response, as ErrorBody, or the requester is gone.
Answer(r, ok) ==
    LET c == conn[r] IN
    /\ rstate[r] = "awaiting"
    /\ ok => held[c] # ErrorBody
    /\ Sent(c)
    /\ got' = [got EXCEPT ![r] = held[c]]
    /\ Leave(r, IF ok THEN "answered" ELSE "error")
    /\ UNCHANGED <<poolVars, status, offers, queueClosed, readers, conn, wireVars>>

\* Mutant of NoAnswer: the request also stops waiting when it is canceled.
NoAnswerOrCanceled(r) ==
    /\ rstate[r] = "awaiting"
    /\ Leave(r, "empty")
    /\ UNCHANGED <<poolVars, connVars, conn, got, wireVars>>

\* queue was closed: proxyRequest returns no error.
NoAnswer(r) ==
    /\ rstate[r] = "awaiting"
    /\ conn[r] \in queueClosed
    /\ Leave(r, "empty")
    /\ UNCHANGED <<poolVars, connVars, conn, got, wireVars>>

\* proxyWs upgrades the requester's side, and starts its goroutines,
Upgrade(r) ==
    /\ rstate[r] = "upgrading"
    /\ readers' = [readers EXCEPT ![conn[r]] =
                      IF status[conn[r]] = "Closed" THEN @ ELSE @ \cup {r}]
    /\ Go(r, "session")
    /\ UNCHANGED <<poolVars, status, offers, pump, held, queueClosed, conn, outcome, got, wireVars>>

\* or cannot.
UpgradeError(r) ==
    /\ rstate[r] = "upgrading"
    /\ Leave(r, "error")
    /\ UNCHANGED <<poolVars, connVars, conn, got, wireVars>>

\* A goroutine that reads the queue for a session relays the message; it
\* goes on unless the requester is gone or the connection Closed.
Relay(r, c) ==
    /\ r \in readers[c]
    /\ Sent(c)
    /\ readers' = [readers EXCEPT ![c] =
                      IF rstate[r] = "session" /\ status[c] # "Closed" THEN @ ELSE @ \ {r}]
    /\ UNCHANGED <<poolVars, status, offers, queueClosed, reqVars, wireVars>>

RelayEnd(r, c) ==
    /\ r \in readers[c]
    /\ c \in queueClosed
    /\ readers' = [readers EXCEPT ![c] = @ \ {r}]
    /\ UNCHANGED <<poolVars, status, offers, pump, held, queueClosed, reqVars, wireVars>>

\* The requester of a session leaves: the goroutine that reads from it
\* reports, then sends a close message to the peer.
SessionEnd(r) ==
    /\ rstate[r] = "session"
    /\ Leave(r, "ended")
    /\ UNCHANGED <<poolVars, connVars, conn, got, wireVars>>

Bye(r) ==
    /\ outcome[r] = "ended"
    /\ conn[r] \notin cut \cup byes
    /\ byes' = byes \cup {conn[r]}
    /\ UNCHANGED <<poolVars, connVars, reqVars, cut, toPeer, toPool, peer>>

\* After Release, the handler closes the connection on an error.
Released(r) == Go(r, IF outcome[r] = "error" THEN "closing" ELSE "done")

\* Release finds the connection Closed,
ReleaseClosed(r) ==
    /\ rstate[r] = "leaving"
    /\ status[conn[r]] = "Closed"
    /\ Released(r)
    /\ UNCHANGED <<poolVars, connVars, conn, outcome, got, wireVars>>

\* or not;
ReleaseCheck(r) ==
    /\ rstate[r] = "leaving"
    /\ status[conn[r]] # "Closed"
    /\ Go(r, "releasing")
    /\ UNCHANGED <<poolVars, connVars, conn, outcome, got, wireVars>>

\* Mutant of Release: the failed connection is offered twice.
ReleaseTwice(r) ==
    /\ rstate[r] = "releasing"
    /\ status' = [status EXCEPT ![conn[r]] = "Idle"]
    /\ offers' = [offers EXCEPT ![conn[r]] = @ + 2]
    /\ Released(r)
    /\ UNCHANGED <<poolVars, pump, held, queueClosed, readers, conn, outcome, got, wireVars>>

\* then it is Idle and offered.
Release(r) ==
    /\ rstate[r] = "releasing"
    /\ status' = [status EXCEPT ![conn[r]] = "Idle"]
    /\ offers' = [offers EXCEPT ![conn[r]] = @ + 1]
    /\ Released(r)
    /\ UNCHANGED <<poolVars, pump, held, queueClosed, readers, conn, outcome, got, wireVars>>

\* Mutant of CloseFailed: the websocket is left open.
CloseFailedQuietly(r) ==
    /\ rstate[r] = "closing"
    /\ status' = Closed(conn[r])
    /\ Go(r, "done")
    /\ UNCHANGED <<poolVars, offers, pump, held, queueClosed, readers, conn, outcome, got, wireVars>>

\* Mutant of CloseFailed: the closed connection is offered once more.
CloseFailedOffers(r) ==
    LET c == conn[r] IN
    /\ rstate[r] = "closing"
    /\ status' = Closed(c)
    /\ cut' = CutUnlessClosed(c)
    /\ offers' = [offers EXCEPT ![c] = 1]
    /\ Go(r, "done")
    /\ UNCHANGED <<poolVars, pump, held, queueClosed, readers, conn, outcome, got,
                   byes, toPeer, toPool, peer>>

CloseFailed(r) ==
    LET c == conn[r] IN
    /\ rstate[r] = "closing"
    /\ status' = Closed(c)
    /\ cut' = CutUnlessClosed(c)
    /\ Go(r, "done")
    /\ UNCHANGED <<poolVars, offers, pump, held, queueClosed, readers, conn, outcome, got,
                   byes, toPeer, toPool, peer>>

-----------------------------------------------------------------------------
(* The peer: serve, in the smart-home server, and the network.              *)

\* serve answers an HTTP request.
PeerAnswer(c) ==
    /\ peer[c] = "serving"
    /\ toPeer[c] # <<>>
    /\ Head(toPeer[c]) \in Http
    /\ toPool' = [toPool EXCEPT ![c] = Append(@, Head(toPeer[c]))]
    /\ toPeer' = [toPeer EXCEPT ![c] = Tail(@)]
    /\ UNCHANGED <<poolVars, connVars, reqVars, cut, byes, peer>>

\* serve cannot decode the request (request.go: url.Parse fails): c.error
\* sends an answer of status 527 and then its text, as a second message;
\* serve ends, and nobody reads the websocket or closes it.
PeerRefuse(c) ==
    /\ peer[c] = "serving"
    /\ toPeer[c] # <<>>
    /\ Head(toPeer[c]) \in Http
    /\ toPool' = [toPool EXCEPT ![c] = @ \o <<Head(toPeer[c]), ErrorBody>>]
    /\ toPeer' = [toPeer EXCEPT ![c] = Tail(@)]
    /\ peer' = [peer EXCEPT ![c] = "mute"]
    /\ UNCHANGED <<poolVars, connVars, reqVars, cut, byes>>

\* serve takes whatever contains "WS:" for a session, an HTTP request too,
\* and the rest of it for the token.  It hands the websocket to the stream;
\* if the token does not tell a user, as the text of a request never does,
\* it returns without a word.
PeerSession(c, user) ==
    /\ peer[c] = "serving"
    /\ toPeer[c] # <<>>
    /\ user => Head(toPeer[c]) \in Sessions
    /\ peer' = [peer EXCEPT ![c] = IF user THEN "session" ELSE "mute"]
    /\ toPeer' = [toPeer EXCEPT ![c] = Tail(@)]
    /\ UNCHANGED <<poolVars, connVars, reqVars, cut, byes, toPool>>

\* The stream sends an event,
PeerEvent(c) ==
    /\ peer[c] = "session"
    /\ toPool[c] = <<>>
    /\ toPool' = [toPool EXCEPT ![c] = <<Event>>]
    /\ UNCHANGED <<poolVars, connVars, reqVars, cut, byes, toPeer, peer>>

\* and does nothing with a message that is none of its own.
PeerIgnore(c) ==
    /\ peer[c] = "session"
    /\ toPeer[c] # <<>>
    /\ toPeer' = [toPeer EXCEPT ![c] = Tail(@)]
    /\ UNCHANGED <<poolVars, connVars, reqVars, cut, byes, toPool, peer>>

\* The websocket breaks, or the peer reads a close message.
PeerGone(c) ==
    /\ peer[c] # "gone"
    /\ status[c] # "new"
    /\ peer' = [peer EXCEPT ![c] = "gone"]
    /\ UNCHANGED <<poolVars, connVars, reqVars, cut, byes, toPeer, toPool>>

-----------------------------------------------------------------------------
Registration(c) == Register(c) \/ Enter(c)
WritePump(c) == PumpHead(c) \/ PumpRead(c) \/ PumpError(c) \/ PumpExit(c)
Clean == \E c \in Connections : (\E timeout \in BOOLEAN : CleanLook(c, timeout)) \/ CleanClose(c)

Handler(r) ==
    \/ GetPool(r) \/ IsEmptyStart(r) \/ IsEmptyEnd(r) \/ GetTimeout(r)
    \/ \E c \in Connections : Receive(r, c)
    \/ TakeCheck(r) \/ Take(r)
    \/ Write(r) \/ WriteError(r)
    \/ \E ok \in BOOLEAN : Answer(r, ok)
    \/ NoAnswer(r)
    \/ Upgrade(r) \/ UpgradeError(r)
    \/ ReleaseClosed(r) \/ ReleaseCheck(r) \/ Release(r) \/ CloseFailed(r)

Relays(c) == \E r \in Sessions : Relay(r, c) \/ RelayEnd(r, c)

Peer(c) ==
    \/ PeerAnswer(c)
    \/ PeerRefuse(c)
    \/ \E user \in BOOLEAN : PeerSession(c, user)
    \/ PeerEvent(c)
    \/ PeerIgnore(c)

Next ==
    \/ \E c \in Connections : Registration(c) \/ WritePump(c) \/ Relays(c) \/ Peer(c) \/ PeerGone(c)
    \/ Clean
    \/ JanitorStart \/ JanitorEnd \/ Shutdown
    \/ \E r \in Requests : Handler(r)
    \/ \E r \in Sessions : SessionEnd(r) \/ Bye(r)

Spec == Init /\ [][Next]_vars

\* The goroutines of the server run, those that wait for the lock of the
\* pool get it, and the peer answers; nobody has to ask, to leave or to break.
Fairness ==
    /\ \A c \in Connections :
        /\ WF_vars(Enter(c))
        /\ WF_vars(PumpHead(c) \/ PumpRead(c) \/ PumpError(c))
        /\ SF_vars(PumpExit(c))
        /\ WF_vars(Relays(c))
        /\ WF_vars(PeerAnswer(c))
    /\ WF_vars(Clean)
    /\ WF_vars(JanitorEnd)
    /\ \A r \in Requests : WF_vars(Handler(r))

FairSpec == Spec /\ Fairness

-----------------------------------------------------------------------------
\* A request between the receive from idle and the end of its Release.
Using(r) == rstate[r] \in {"received", "taking", "taken", "awaiting", "upgrading", "session",
                           "leaving", "releasing"}

TypeOK ==
    /\ pool \in {"listed", "removed", "shutdown"}
    /\ registering \in Connections \cup {None}
    /\ members \subseteq Connections
    /\ status \in [Connections -> {"new", "Idle", "Busy", "Closed"}]
    /\ offers \in [Connections -> Nat]
    /\ pump \in [Connections -> {"off", "head", "read", "send", "exit", "end"}]
    /\ held \in [Connections -> Messages \cup {None}]
    /\ queueClosed \subseteq Connections
    /\ readers \in [Connections -> SUBSET Sessions]
    /\ sweep \in [by : Requests \cup {Janitor, None}, todo : SUBSET Connections,
                  idle : Nat, victim : Connections \cup {None}]
    /\ rstate \in [Requests -> {"new", "got", "cleaning", "waiting", "received", "taking", "taken",
                     "awaiting", "upgrading", "session", "leaving", "releasing", "closing", "done"}]
    /\ conn \in [Requests -> Connections \cup {None}]
    /\ outcome \in [Requests -> {"none", "answered", "empty", "error", "ended", "unavailable"}]
    /\ got \in [Requests -> Messages \cup {None}]
    /\ cut \subseteq Connections
    /\ byes \subseteq Connections
    /\ toPeer \in [Connections -> Seq(Requests)]
    /\ toPool \in [Connections -> Seq(Messages)]
    /\ peer \in [Connections -> {"serving", "session", "mute", "gone"}]

\* Two requests never use one connection at a time, although Take checks
\* the status and sets it without a lock: a connection is offered at most
\* once, and not while it is used (Take, Release, Offer).
OneUser ==
    /\ \A r, q \in Requests : Using(r) /\ Using(q) /\ conn[r] = conn[q] => r = q
    /\ \A c \in Connections : offers[c] \leq 1
    /\ \A r \in Requests : Using(r) => offers[conn[r]] = 0

Users(c) == {r \in Requests : Using(r) /\ conn[r] = c}

\* The abstract state: a connection is lent to the request that uses it, and
\* free while it is offered on idle.
Standing == [c \in Connections |->
    IF status[c] = "new" THEN "unknown"
    ELSE IF Users(c) # {} THEN "lent"
    ELSE IF offers[c] > 0 THEN "free" ELSE "spoiled"]

Borrower == [c \in Connections |-> IF Users(c) = {} THEN None ELSE CHOOSE r \in Users(c) : TRUE]

Answered == {r \in Requests : outcome[r] = "answered"}

Lease == INSTANCE ConnectionLease WITH
    standing <- Standing, borrower <- Borrower, answered <- Answered

\* The unlocked status, the offers on idle and the select of the handlers
\* together are an exclusive lease: receiving from idle borrows, Release or
\* the failed check of Take ends it, and what was not offered again is never
\* used again (GetIdleConnection, Take, Release, proxyRequest).
ImplementsLease == Lease!LeaseSpec

\* pool.go: "Ensure we never add a connection to a pool we have garbage
\* collected": a pool the janitor removed stays empty, whatever was in the
\* middle of its registration (Pools.RegisterConnection, Pools.Clean).
CollectedStaysEmpty == pool = "removed" => members = {}

\* A session that took the connection may have left messages of its own.
ServedSession(c) == \E s \in Sessions : conn[s] = c

\* An HTTP request that is answered gets the answer to itself and never one
\* meant for an earlier user of the connection, except that after a session
\* it may get a message of the session.  The text left behind when an earlier
\* request was refused makes it fail, but is no answer to it either
\* (proxyRequest, proxyWs, WritePump; the client's serve and error).
RightAnswer ==
    \A r \in Http : outcome[r] = "answered" =>
        got[r] = r \/ (got[r] = Event /\ ServedSession(conn[r]))

\* A connection that is Closed leaves the map in the end: its WritePump is
\* never left with an answer that nobody receives, only with the second
\* message of a refusal or a message of a session (WritePump, proxyRequest,
\* Close; the client's error).
ClosedLeaves ==
    \A c \in Connections :
        status[c] = "Closed" /\ c \in members ~>
            c \notin members \/ held[c] \in {Event, ErrorBody}

\* pool.go: "We need to be sur we'll never close a BUSY or soon to be BUSY
\* connection": the connection Clean is about to close is not Busy.
CleanSparesBusy == sweep.victim # None => status[sweep.victim] # "Busy"
=============================================================================
