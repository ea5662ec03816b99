-------------------------- MODULE BevyHttpServer ---------------------------
(***************************************************************************)
(* The HTTP server of a game (bevy-nethernet/src/http_server.rs): update() *)
(* accepts and pumps TCP connections, feeds their requests to the          *)
(* HttpSignaler, answers the offers it hands out and applies the events of *)
(* the pool, all once a frame on the game thread.                          *)
(*                                                                         *)
(* The pool (SessionPool) is reduced to what the server sees of it: every  *)
(* join has a session id of its own, so that no id is used twice; its      *)
(* session opens at most once, fails at most once, and is dropped when a   *)
(* Remove is executed.  Of a connection's stream there is the number of    *)
(* writes its output still takes, up to two; what it reads in a frame is   *)
(* nothing, part of a request, one that cannot be read, or a whole one.    *)
(* Status data and token trust stay as the game set them at the start:     *)
(* HttpSignalingServer changes them at any time.                           *)
(***************************************************************************)
EXTENDS HttpSignaler

CONSTANTS
  RequestKinds,   \* the requests peers send
  IdleTimeout,    \* idle_timeout
  Establish,      \* timeouts.establish()
  MaxPending,     \* the smaller of the two pending_limits: joins of one network
  MaxReads        \* bound: reads of a connection that bring bytes

VARIABLES
  conn,      \* connection -> TcpConn or None
  opened,    \* connections accepted so far
  h_at,      \* where update() is
  todo,      \* connections not pumped yet in this frame
  reqs,      \* requests parsed in this frame
  gone,      \* connections found closed in this frame
  signs,     \* identity is set or unsigned answers are allowed
  sessions,  \* join -> SessionEntry or None
  pool,      \* join -> its session in the pool: "none", "running" or "open"
  p_events,  \* the pool's events: a join's Ready precedes its Failed, and the
             \* events of two joins do not depend on one another
  removes,   \* sessions with a Remove in the pool's queue
  refused,   \* history: connections the signaler refused
  told       \* joins whose last event to the game is SessionConnected

streamVars == <<conn, opened, h_at, todo, reqs, gone>>
tableVars == <<signs, sessions, pool, p_events, removes, told>>
vars == <<signalerVars, streamVars, tableVars, refused>>

MaxWrites == 2

ConnType == [out : 0 .. MaxWrites, closing : BOOLEAN, requested : BOOLEAN,
             idle : 0 .. IdleTimeout, reads : 0 .. MaxReads]

Init ==
  /\ SignalerInit
  /\ conn = [c \in Connections |-> None]
  /\ opened = {}
  /\ h_at = "app"
  /\ todo = {}
  /\ reqs = <<>>
  /\ gone = {}
  /\ signs \in BOOLEAN
  /\ sessions = [j \in Joins |-> None]
  /\ pool = [j \in Joins |-> "none"]
  /\ p_events = {}
  /\ removes = {}
  /\ refused = {}
  /\ told = {}

Conns == {c \in Connections : conn[c] # None}
Open == {j \in Joins : sessions[j] # None}
Unready == {j \in Open : ~ sessions[j].ready}

Event(kind, j) == [kind |-> kind, join |-> j]

At(from, to) == h_at = from /\ h_at' = to
-----------------------------------------------------------------------------
(* The game between frames, and the pool's thread                          *)

\* disconnect(id): the session leaves the table with an event and a Remove.
disconnect(j) ==
  /\ h_at = "app"
  /\ j \in Open
  /\ sessions' = [sessions EXCEPT ![j] = None]
  /\ removes' = removes \cup {j}
  /\ told' = told \ {j}
  /\ UNCHANGED <<signalerVars, streamVars, signs, pool, p_events, refused>>

set_identity ==
  /\ h_at = "app"
  /\ ~ signs
  /\ signs' = TRUE
  /\ UNCHANGED <<signalerVars, streamVars, sessions, pool, p_events, removes, refused, told>>

PoolOpens(j) ==
  /\ pool[j] = "running"
  /\ pool' = [pool EXCEPT ![j] = "open"]
  /\ p_events' = p_events \cup {Event("Ready", j)}
  /\ UNCHANGED <<signalerVars, streamVars, signs, sessions, removes, refused, told>>

PoolFails(j) ==
  /\ pool[j] # "none"
  /\ pool' = [pool EXCEPT ![j] = "none"]
  /\ p_events' = p_events \cup {Event("Failed", j)}
  /\ UNCHANGED <<signalerVars, streamVars, signs, sessions, removes, refused, told>>

PoolRemoves(j) ==
  /\ j \in removes
  /\ removes' = removes \ {j}
  /\ pool' = [pool EXCEPT ![j] = "none"]
  /\ UNCHANGED <<signalerVars, streamVars, signs, sessions, p_events, refused, told>>
-----------------------------------------------------------------------------
(* A frame: accept and pump                                                *)

BeginUpdate ==
  /\ At("app", "accept")
  /\ UNCHANGED <<signalerVars, conn, opened, todo, reqs, gone, tableVars, refused>>

\* The signaler's Close of a refused connection is handled with its other
\* outputs, after the connection was pumped.
Accept(c, p) ==
  /\ h_at = "accept"
  /\ c \notin opened
  /\ \A d \in Connections \ opened : c <= d
  /\ opened' = opened \cup {c}
  /\ conn' = [conn EXCEPT ![c] =
       [out |-> 0, closing |-> FALSE, requested |-> FALSE, idle |-> 0, reads |-> 0]]
  /\ connected(c, p)
  /\ output' = IF Refused(p) THEN Append(output, Close(c)) ELSE output
  /\ refused' = IF Refused(p) THEN refused \cup {c} ELSE refused
  /\ UNCHANGED <<h_at, todo, reqs, gone, tableVars>>

BeginPump ==
  /\ At("accept", "pump")
  /\ todo' = Conns
  /\ UNCHANGED <<signalerVars, conn, opened, reqs, gone, tableVars, refused>>

Pumped(c) ==
  /\ h_at = "pump"
  /\ c \in todo
  /\ todo' = todo \ {c}
  /\ UNCHANGED <<signalerVars, opened, h_at, tableVars, refused>>

\* The stream is done: the last byte is out and close() has finished, or it
\* failed or was closed by the peer while it was driven.
PumpCloses(c) ==
  /\ Pumped(c)
  /\ gone' = gone \cup {c}
  /\ UNCHANGED <<conn, reqs>>

\* A response is out, or there was none, and close() needs another frame: the
\* close_notify of TLS is not written yet.
PumpLingers(c) ==
  /\ Pumped(c)
  /\ conn[c].closing
  /\ conn' = [conn EXCEPT ![c].out = 0, ![c].idle = IF conn[c].out > 0 THEN 0 ELSE @]
  /\ UNCHANGED <<reqs, gone>>

\* Drain and fill of a connection that stays: Drain is what drain() did, Input
\* what was read.  A refusal of what cannot be read closes the connection.
Drains(c) ==
  CASE conn[c].out = 0 -> {"Empty"}
    [] conn[c].out = 1 -> {"Blocked", "Complete"}
    [] OTHER -> {"Blocked", "Partial", "Complete"}

Left(out, drain) ==
  CASE drain = "Complete" -> 0
    [] drain = "Partial" -> out - 1
    [] OTHER -> out

Bytes(kind) == [kind |-> kind, request |-> None]

Inputs(c) == {Bytes("Idle")} \cup
  (IF conn[c].reads = MaxReads THEN {}
   ELSE {Bytes("Partial"), Bytes("Unreadable")} \cup [kind : {"Request"}, request : RequestKinds])

\* The request is passed on, once for a connection; what is read later is
\* dropped.
Parsed(c, input) == input.kind = "Request" /\ ~ conn[c].requested

Pump(c, drain, input) ==
  LET e == conn[c]
      active == drain \in {"Partial", "Complete"} \/ input.kind # "Idle"
      refuses == input.kind = "Unreadable" /\ ~ e.requested
  IN  /\ Pumped(c)
      /\ drain \in Drains(c)
      /\ input \in Inputs(c)
      /\ ~ (e.closing /\ Left(e.out, drain) = 0)
      /\ input.kind = "Request" => next_join + Len(reqs) <= MaxJoins
      /\ conn' = [conn EXCEPT ![c] =
           [out |-> IF refuses THEN MaxWrites ELSE Left(e.out, drain),
            closing |-> e.closing \/ refuses,
            requested |-> e.requested \/ Parsed(c, input),
            idle |-> IF active THEN 0 ELSE e.idle,
            reads |-> IF input.kind = "Idle" THEN e.reads ELSE e.reads + 1]]
      /\ reqs' = IF Parsed(c, input)
                 THEN Append(reqs, [connection |-> c, request |-> input.request]) ELSE reqs
      /\ UNCHANGED gone

\* Requests reach the signaler before it hears of closed connections.
FeedRequest ==
  /\ h_at = "pump"
  /\ todo = {}
  /\ reqs # <<>>
  /\ reqs' = Tail(reqs)
  /\ handle_request(Head(reqs).connection, Head(reqs).request)
  /\ UNCHANGED <<conn, opened, h_at, todo, gone, tableVars, refused>>

\* Mutant: the signaler is not told.
Drop_silently(c) ==
  /\ conn' = [conn EXCEPT ![c] = None]
  /\ UNCHANGED signalerVars

\* A connection leaves the table and the signaler.
Drop(c) ==
  /\ conn' = [conn EXCEPT ![c] = None]
  /\ closed(c)

DropClosed(c) ==
  /\ h_at = "pump"
  /\ todo = {}
  /\ reqs = <<>>
  /\ c \in gone
  /\ gone' = gone \ {c}
  /\ Drop(c)
  /\ UNCHANGED <<opened, h_at, todo, reqs, tableVars, refused>>

\* The signaler's Update; overdue joins are rejected.
EndPump ==
  /\ At("pump", "outputs")
  /\ todo = {}
  /\ reqs = <<>>
  /\ gone = {}
  /\ handle_update
  /\ UNCHANGED <<conn, opened, todo, reqs, gone, tableVars, refused>>
-----------------------------------------------------------------------------
(* A frame: outputs of the signaler                                        *)

Polled(o) ==
  /\ h_at = "outputs"
  /\ output # <<>>
  /\ Head(output) = o

\* An output for a connection that is gone is dropped.
HandleResponse(o) ==
  /\ Polled(o)
  /\ o.type \in {"Response", "Close"}
  /\ conn' = IF o.connection \notin Conns THEN conn
             ELSE [conn EXCEPT ![o.connection].closing = TRUE,
                               ![o.connection].out = IF o.type = "Response" THEN MaxWrites ELSE @]
  /\ poll
  /\ UNCHANGED <<opened, h_at, todo, reqs, gone, tableVars, refused>>

\* The output is taken and the signaler is called back with the outcome.
Reply(j, status) ==
  /\ output' = IF pending[j] = None THEN Tail(output)
               ELSE Append(Tail(output), Response(pending[j].connection, status, j))
  /\ pending' = [pending EXCEPT ![j] = None]
  /\ UNCHANGED <<connections, per_address, next_join, server_data, token_trust>>

\* An identity, and room among the sessions that are not established.
admits_offer == signs /\ Cardinality(Unready) < MaxPending

\* handle_offer; the game thread waits until the pool has the session.
AcceptOffer(j) ==
  /\ Polled(Offer(j))
  /\ admits_offer
  /\ Reply(j, 200)
  /\ pool' = [pool EXCEPT ![j] = "running"]
  /\ sessions' = [sessions EXCEPT ![j] = [ready |-> FALSE, age |-> 0]]
  /\ UNCHANGED <<streamVars, signs, p_events, removes, refused, told>>

\* No identity, no room, or the policy refuses the offer.
RefuseOffer(j) ==
  /\ Polled(Offer(j))
  /\ \E reason \in {"Rejected", "Unavailable"} :
       /\ ~ admits_offer => reason = "Unavailable"
       /\ Reply(j, StatusOf[reason])
  /\ UNCHANGED <<streamVars, tableVars, refused>>
-----------------------------------------------------------------------------
(* A frame: the pool's events, idle connections, sessions out of time      *)

Reported(kind) == {j \in Open : Event(kind, j) \in p_events}

\* Mutant: failed sessions stay listed.
drive_sessions_keeps ==
  /\ At("outputs", "idle")
  /\ output = <<>>
  /\ p_events' = {}
  /\ sessions' = [j \in Joins |->
       IF j \notin Open THEN None
       ELSE [sessions[j] EXCEPT !.ready = @ \/ j \in Reported("Ready")]]
  /\ told' = told \cup (Unready \cap Reported("Ready"))
  /\ UNCHANGED <<signalerVars, conn, opened, todo, reqs, gone, signs, pool, removes, refused>>

drive_sessions ==
  /\ At("outputs", "idle")
  /\ output = <<>>
  /\ p_events' = {}
  /\ sessions' = [j \in Joins |->
       IF j \notin Open \/ j \in Reported("Failed") THEN None
       ELSE [sessions[j] EXCEPT !.ready = @ \/ j \in Reported("Ready")]]
  /\ removes' = removes \cup Reported("Failed")
  /\ told' = (told \cup (Unready \cap Reported("Ready"))) \ Reported("Failed")
  /\ UNCHANGED <<signalerVars, conn, opened, todo, reqs, gone, signs, pool, refused>>

\* Mutant: a connection that has made its request is not timed any more.
IdleConns_unserved == {c \in Conns : conn[c].idle >= IdleTimeout /\ ~ conn[c].requested}

IdleConns == {c \in Conns : conn[c].idle >= IdleTimeout}

DropIdle(c) ==
  /\ h_at = "idle"
  /\ c \in IdleConns
  /\ Drop(c)
  /\ UNCHANGED <<opened, h_at, todo, reqs, gone, tableVars, refused>>

\* Sessions that are not established in time are taken off the table, without
\* a Remove and without an event.
ExpireSessions ==
  /\ At("idle", "app")
  /\ IdleConns = {}
  /\ sessions' = [j \in Joins |->
       IF j \in Unready /\ sessions[j].age >= Establish THEN None ELSE sessions[j]]
  /\ UNCHANGED <<signalerVars, conn, opened, todo, reqs, gone, signs, pool, p_events, removes,
                 refused, told>>

\* One unit of time, between two frames: a frame takes the time once.
Tick ==
  /\ h_at = "app"
  /\ conn' = [c \in Connections |->
       IF c \in Conns /\ conn[c].idle < IdleTimeout THEN [conn[c] EXCEPT !.idle = @ + 1]
       ELSE conn[c]]
  /\ sessions' = [j \in Joins |->
       IF j \in Unready /\ sessions[j].age < Establish THEN [sessions[j] EXCEPT !.age = @ + 1]
       ELSE sessions[j]]
  /\ Elapse
  /\ UNCHANGED <<connections, per_address, next_join, server_data, token_trust, output, opened,
                 h_at, todo, reqs, gone, signs, pool, p_events, removes, refused, told>>

Frame ==
  \/ BeginUpdate
  \/ BeginPump
  \/ \E c \in Connections : PumpCloses(c) \/ PumpLingers(c) \/ DropClosed(c) \/ DropIdle(c)
  \/ \E c \in todo : \E drain \in Drains(c), input \in Inputs(c) : Pump(c, drain, input)
  \/ FeedRequest
  \/ EndPump
  \/ output # <<>> /\ HandleResponse(Head(output))
  \/ \E j \in Joins : AcceptOffer(j) \/ RefuseOffer(j)
  \/ drive_sessions
  \/ ExpireSessions

Next ==
  \/ \E j \in Joins : disconnect(j) \/ PoolOpens(j) \/ PoolFails(j) \/ PoolRemoves(j)
  \/ set_identity
  \/ \E c \in Connections, p \in Peers : Accept(c, p)
  \/ Frame
  \/ Tick

Spec == Init /\ [][Next]_vars

\* The game runs a frame again and again and time passes between frames.
\* Nothing is assumed of the peers: one may never read its response.
FairSpec == Spec /\ WF_vars(Frame) /\ SF_vars(Tick)
-----------------------------------------------------------------------------
TypeOK ==
  /\ conn \in [Connections -> ConnType \cup {None}]
  /\ opened \subseteq Connections
  /\ h_at \in {"app", "accept", "pump", "outputs", "idle"}
  /\ todo \subseteq Conns
  /\ reqs \in Seq([connection : Connections, request : RequestKinds])
  /\ gone \subseteq Conns
  /\ signs \in BOOLEAN
  /\ sessions \in [Joins -> [ready : BOOLEAN, age : 0 .. Establish] \cup {None}]
  /\ pool \in [Joins -> {"none", "running", "open"}]
  /\ removes \subseteq Joins
  /\ refused \subseteq Connections
  /\ told \subseteq Joins

\* The table and the signaler agree on which connections are open, between
\* frames: what is dropped is dropped in both, with its joins, so that an
\* address gets its place back (pump_connections, update).
ConnectionsAgree ==
  h_at = "app" =>
    /\ \A c \in Connections : connections[c] # None => c \in Conns
    /\ \A c \in Conns \ refused : connections[c] # None
    /\ PendingJoins = {}
    /\ output = <<>>

\* The connections of the server come to an end, each of them since none is used
\* twice: its response was written and the stream closed, or it was idle for too
\* long (close_after_write, idle_timeout).  A peer that sent something in every
\* frame and never read would keep its connection: MaxReads bounds what it sends.
ConnectionsEnd == Conns # {} ~> Conns = {}

\* What the game was told is what sessions() lists, and a listed session is one
\* the pool runs, or the game is about to hear that it failed.
SessionsAreReal ==
  /\ h_at = "app" => told = {j \in Open : sessions[j].ready}
  /\ \A j \in Open : pool[j] = "none" => Event("Failed", j) \in p_events
=============================================================================
