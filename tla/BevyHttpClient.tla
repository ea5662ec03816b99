-------------------------- MODULE BevyHttpClient ---------------------------
(***************************************************************************)
(* The HTTP client of a game (bevy-nethernet/src/http_client.rs): a status *)
(* query and a join, each a request over a stream that update() drives     *)
(* once a frame, and the pool that is made for the session of a join that  *)
(* was answered.  Dropping a pool ends its thread and takes its queues     *)
(* along: the pool of this module is the one the client holds.             *)
(***************************************************************************)
EXTENDS SessionPool

CONSTANTS
  Key,            \* the one key of the pool, () in the code
  Attempts,       \* attempts.max(1)
  Negotiation,    \* timeouts.negotiation
  Establish       \* timeouts.establish()

VARIABLES
  query,          \* [state, left]: the stream's state and the time left, or None
  join,           \* the state of the join's stream, or None
  has_pool,
  connected,
  deadline,       \* connecting_deadline: time left, or None
  attempts_left,
  ready,          \* what is_connected() returns
  c_at,           \* "app" between frames; in update() "join", "add" or "drive"
  c_created,      \* Connections created so far
  last            \* the last of Connected, Disconnected and ConnectFailed

joinVars == <<query, join, has_pool, connected, deadline, attempts_left, ready, c_at,
              c_created, last>>
vars == <<poolVars, joinVars>>

StreamStates == {"sending", "receiving"}

Init ==
  /\ PoolInit
  /\ query = None
  /\ join = None
  /\ has_pool = FALSE
  /\ connected = FALSE
  /\ deadline = None
  /\ attempts_left = 0
  /\ ready = FALSE
  /\ c_at = "app"
  /\ c_created = 0
  /\ last = None

Connecting == deadline # None

\* Everything the client keeps of a connection, but for the deadline.
Forget ==
  /\ join' = None
  /\ has_pool' = FALSE
  /\ connected' = FALSE
  /\ ready' = FALSE
  /\ DropPool
-----------------------------------------------------------------------------
(* Requests                                                                *)

\* What a stream may do when it is driven: drain() while the request is sent,
\* then fill() and the parse of what was received.
StreamResults(state) ==
  IF state = "sending" THEN {"Blocked", "Partial", "Complete", "Err"}
  ELSE {"Closed", "Idle", "Incomplete", "Oversized", "Unreadable", "Response", "Err"}

drive_join(state, result) ==
  CASE result \in {"Blocked", "Partial"} -> "sending"
    [] result \in {"Complete", "Idle", "Incomplete"} -> "receiving"
    [] result = "Response" -> "done"
    [] OTHER -> "failed"

\* The events ServerData and QueryFailed end a query.
update_query(result) ==
  LET step == drive_join(query.state, result)
  IN  query' = IF step \in StreamStates /\ query.left > 0
               THEN [query EXCEPT !.state = step] ELSE None

\* The offer of a new Connection is queued on a new stream.
begin_join(left) ==
  /\ c_created < MaxSessions
  /\ c_created' = c_created + 1
  /\ attempts_left' = left - 1
  /\ join' = "sending"
  /\ deadline' = Negotiation
-----------------------------------------------------------------------------
(* The game between frames                                                 *)

\* A query under way is replaced.
query_server_data ==
  /\ c_at = "app"
  /\ query' = [state |-> "sending", left |-> Negotiation]
  /\ UNCHANGED <<poolVars, join, has_pool, connected, deadline, attempts_left, ready, c_at,
                 c_created, last>>

\* Mutant: the pool of an earlier connection is kept.
connect_over ==
  /\ c_at = "app"
  /\ begin_join(Attempts)
  /\ connected' = FALSE
  /\ ready' = FALSE
  /\ UNCHANGED <<poolVars, has_pool, query, c_at, last>>

connect ==
  /\ c_at = "app"
  /\ begin_join(Attempts)
  /\ has_pool' = FALSE
  /\ connected' = FALSE
  /\ ready' = FALSE
  /\ DropPool
  /\ UNCHANGED <<query, c_at, last>>

\* connect() returns an error: the connection before it is gone, and a deadline
\* that ran for it still runs.
ConnectFails ==
  /\ c_at = "app"
  /\ Forget
  /\ attempts_left' = Attempts - 1
  /\ UNCHANGED <<query, deadline, c_at, c_created, last>>

disconnect ==
  /\ c_at = "app"
  /\ Forget
  /\ deadline' = None
  /\ last' = IF ready THEN "Disconnected" ELSE last
  /\ UNCHANGED <<query, attempts_left, c_at, c_created>>

send_on ==
  /\ c_at = "app"
  /\ connected
  /\ Len(commands) < MaxQueued
  /\ commands' = Append(commands, [kind |-> "Send", key |-> Key, gen |-> c_created])
  /\ UNCHANGED <<events, entries, router, pool_at, todo, failed, joinVars>>
-----------------------------------------------------------------------------
(* A frame: the query, the join, the pool's events, the deadline           *)

BeginUpdate ==
  /\ c_at = "app"
  /\ c_at' = "join"
  /\ IF query = None THEN UNCHANGED query
     ELSE \E result \in StreamResults(query.state) : update_query(result)
  /\ UNCHANGED <<poolVars, join, has_pool, connected, deadline, attempts_left, ready,
                 c_created, last>>

\* No join, or one whose stream needs more frames.
JoinPending ==
  /\ c_at = "join"
  /\ c_at' = "drive"
  /\ IF join = None THEN UNCHANGED join
     ELSE \E result \in StreamResults(join) :
            /\ drive_join(join, result) \in StreamStates
            /\ join' = drive_join(join, result)
  /\ UNCHANGED <<poolVars, query, has_pool, connected, deadline, attempts_left, ready,
                 c_created, last>>

\* The stream failed, the response is no answer, its identity is not trusted,
\* or the Connection does not take it.
JoinFails ==
  /\ c_at = "join"
  /\ join # None
  /\ \E result \in StreamResults(join) : drive_join(join, result) \in {"done", "failed"}
  /\ join' = None
  /\ deadline' = None
  /\ last' = "ConnectFailed"
  /\ c_at' = "drive"
  /\ UNCHANGED <<poolVars, query, has_pool, connected, attempts_left, ready, c_created>>

\* A valid answer: the game thread waits for the new pool's thread.
JoinDone ==
  /\ c_at = "join"
  /\ join # None
  /\ \E result \in StreamResults(join) : drive_join(join, result) = "done"
  /\ join' = None
  /\ commands' = <<[kind |-> "Add", key |-> Key, gen |-> c_created]>>
  /\ c_at' = "add"
  /\ UNCHANGED <<events, entries, router, pool_at, todo, failed, query, has_pool, connected,
                 deadline, attempts_left, ready, c_created, last>>

Added ==
  /\ c_at = "add"
  /\ commands = <<>>
  /\ has_pool' = TRUE
  /\ connected' = TRUE
  /\ deadline' = Establish
  /\ c_at' = "drive"
  /\ UNCHANGED <<poolVars, query, join, attempts_left, ready, c_created, last>>

Got(kind) == has_pool /\ \E i \in DOMAIN events : events[i].kind = kind

\* The session is over; a Ready before it was announced.
PoolFailed ==
  /\ c_at = "drive"
  /\ Got("Failed")
  /\ Forget
  /\ deadline' = None
  /\ last' = IF ready \/ Got("Ready") THEN "Disconnected" ELSE "ConnectFailed"
  /\ c_at' = "app"
  /\ UNCHANGED <<query, attempts_left, c_created>>

Announces == Got("Ready") /\ ~ ready

DeadlinePassed == deadline = 0 /\ ~ Announces

EndUpdate ==
  /\ c_at = "drive"
  /\ ~ Got("Failed")
  /\ ~ DeadlinePassed
  /\ events' = IF has_pool THEN <<>> ELSE events
  /\ ready' = (ready \/ Announces)
  /\ deadline' = IF Announces THEN None ELSE deadline
  /\ last' = IF Announces THEN "Connected" ELSE last
  /\ c_at' = "app"
  /\ UNCHANGED <<commands, entries, router, pool_at, todo, failed, query, join, has_pool,
                 connected, attempts_left, c_created>>

\* The join before it and its stream are dropped.
Retry ==
  /\ c_at = "drive"
  /\ DeadlinePassed
  /\ ~ has_pool
  /\ attempts_left > 0
  /\ begin_join(attempts_left)
  /\ c_at' = "app"
  /\ UNCHANGED <<poolVars, query, has_pool, connected, ready, last>>

\* The session did not open in time, no attempt is left, or the next one fails.
GiveUp ==
  /\ c_at = "drive"
  /\ ~ Got("Failed")
  /\ DeadlinePassed
  /\ attempts_left' = IF has_pool \/ attempts_left = 0 THEN attempts_left ELSE attempts_left - 1
  /\ Forget
  /\ deadline' = None
  /\ last' = IF ready THEN "Disconnected" ELSE "ConnectFailed"
  /\ c_at' = "app"
  /\ UNCHANGED <<query, c_created>>

\* One unit of time, between two frames: a frame takes the time once.
Tick ==
  /\ c_at = "app"
  /\ (Connecting /\ deadline > 0) \/ (query # None /\ query.left > 0)
  /\ deadline' = IF Connecting /\ deadline > 0 THEN deadline - 1 ELSE deadline
  /\ query' = IF query # None /\ query.left > 0 THEN [query EXCEPT !.left = @ - 1] ELSE query
  /\ UNCHANGED <<poolVars, join, has_pool, connected, attempts_left, ready, c_at, c_created, last>>

PoolRuns ==
  /\ has_pool \/ c_at = "add"
  /\ PoolStep
  /\ UNCHANGED joinVars

Frame ==
  \/ BeginUpdate
  \/ JoinPending \/ JoinFails \/ JoinDone \/ Added
  \/ PoolFailed \/ EndUpdate \/ Retry \/ GiveUp

Next ==
  \/ PoolRuns
  \/ query_server_data \/ connect \/ ConnectFails \/ disconnect \/ send_on
  \/ Frame
  \/ Tick

Spec == Init /\ [][Next]_vars

\* The game runs a frame again and again, the pool's thread runs, time passes.
\* Nothing is assumed of the server: a stream may stay blocked for ever.
FairSpec ==
  /\ Spec
  /\ WF_vars(PoolRuns)
  /\ WF_vars(Frame)
  /\ SF_vars(Tick)
-----------------------------------------------------------------------------
TypeOK ==
  /\ PoolTypeOK
  /\ query = None \/ query \in [state : StreamStates, left : 0 .. Negotiation]
  /\ join \in StreamStates \cup {None}
  /\ has_pool \in BOOLEAN
  /\ connected \in BOOLEAN
  /\ deadline \in 0 .. Negotiation + Establish \cup {None}
  /\ attempts_left \in 0 .. Attempts
  /\ ready \in BOOLEAN
  /\ c_at \in {"app", "join", "add", "drive"}
  /\ c_created \in 0 .. MaxSessions
  /\ last \in {None, "Connected", "Disconnected", "ConnectFailed"}

\* A client that says it is connected was announced so, and runs the session of
\* its newest join with open channels, or has yet to hear that it failed: an
\* event of an earlier connection never counts for a later one.
ConnectedIsOwn ==
  ready =>
    /\ connected
    /\ last = "Connected"
    /\ \A k \in Live : entries[k].gen = c_created /\ entries[k].phase = "open"
    /\ Live = {} => Got("Failed")

\* A join comes to an end, and a query whose time is up does unless the game
\* asks again, even against a server that accepts the connection and never
\* answers (connecting_deadline, Query::deadline).
JoinsEnd ==
  /\ Connecting ~> ~ Connecting
  /\ (query # None /\ query.left = 0) ~> (query = None \/ query.left > 0)
=============================================================================
