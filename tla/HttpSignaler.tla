---------------------------- MODULE HttpSignaler ----------------------------
(***************************************************************************)
(* The sans-io HTTP signaling server (nethernet/src/signaling/http/mod.rs):*)
(* it limits the connections of one peer address, holds each join until it *)
(* is answered, rejected or overdue, and queues outputs for its driver.    *)
(*                                                                         *)
(* Deadlines are kept as the time left, which Tick lowers to zero.  Bodies,*)
(* headers and keep-alive are left out: they decide the wording of a       *)
(* response and whether the peer keeps the connection, which a peer may    *)
(* give up at any time anyway.  The random id of a join is a fresh number. *)
(***************************************************************************)
EXTENDS Naturals, Sequences, FiniteSets

CONSTANTS
  Connections,      \* connection ids, each used for one connection
  Peers,            \* normalized peer addresses
  TrustedProxies,   \* config.trusted_proxies
  None,             \* absence
  MaxPerAddress,    \* config.max_connections_per_address
  MaxPendingJoins,  \* config.max_pending_joins
  AnswerTimeout,    \* config.answer_timeout, in ticks
  ServeMotd,        \* config.serve_motd
  MaxJoins          \* bound on the joins of a behaviour

ASSUME SignalerAssumption ==
  /\ IsFiniteSet(Connections)
  /\ TrustedProxies \subseteq Peers
  /\ MaxPerAddress \in Nat
  /\ MaxPendingJoins \in Nat
  /\ AnswerTimeout \in Nat
  /\ MaxJoins \in Nat
  /\ ServeMotd \in BOOLEAN
  /\ None \notin [peer : Peers, counted : BOOLEAN]
  /\ None \notin [connection : Connections, left : 0 .. AnswerTimeout]

Joins == 1 .. MaxJoins

\* What a request is judged by: its path, its method, and whether its body
\* carries an identity that validates.
Requests == [path : {"status", "join", "other"}, method : {"GET", "POST"}, valid : BOOLEAN]

\* Why the application refuses a join, with the status each is sent as.
StatusOf == [Rejected |-> 403, Timeout |-> 504, Unavailable |-> 503]
RejectReasons == {"Rejected", "Timeout", "Unavailable"}

VARIABLES
  connections,   \* connection -> its peer and whether it is counted, or None
  per_address,   \* peer -> connections counted against it
  pending,       \* join -> its connection and the time left, or None
  next_join,     \* the next random id
  server_data,   \* whether server data is set
  token_trust,   \* whether offers are validated
  output         \* the queued outputs

signalerVars ==
  <<connections, per_address, pending, next_join, server_data, token_trust, output>>

SignalerInit ==
  /\ connections = [c \in Connections |-> None]
  /\ per_address = [p \in Peers |-> 0]
  /\ pending = [j \in Joins |-> None]
  /\ next_join = 1
  /\ server_data = FALSE
  /\ token_trust \in BOOLEAN
  /\ output = <<>>

Close(c) == [type |-> "Close", connection |-> c]
Offer(j) == [type |-> "Offer", join |-> j]

\* join is the id of the join the response completes, None for a response
\* given at once.
Response(c, status, j) ==
  [type |-> "Response", connection |-> c, status |-> status, join |-> j]

PendingJoins == {j \in Joins : pending[j] # None}
-----------------------------------------------------------------------------
(* Connections                                                             *)

Refused(p) == p \notin TrustedProxies /\ per_address[p] + 1 > MaxPerAddress

connected(c, p) ==
  /\ connections' = IF Refused(p) THEN connections
                    ELSE [connections EXCEPT ![c] =
                            [peer |-> p, counted |-> p \notin TrustedProxies]]
  /\ per_address' = IF Refused(p) \/ p \in TrustedProxies THEN per_address
                    ELSE [per_address EXCEPT ![p] = @ + 1]
  /\ UNCHANGED <<pending, next_join, server_data, token_trust>>

\* Mutant of closed: a proxied connection gives back a place it never took.
closed_uncounted(c) ==
  /\ connections' = [connections EXCEPT ![c] = None]
  /\ per_address' = IF connections[c] # None
                    THEN [per_address EXCEPT ![connections[c].peer] = @ - 1]
                    ELSE per_address
  /\ pending' = [j \in Joins |-> IF pending[j] # None /\ pending[j].connection = c
                                 THEN None ELSE pending[j]]
  /\ UNCHANGED <<next_join, server_data, token_trust, output>>

closed(c) ==
  /\ connections' = [connections EXCEPT ![c] = None]
  /\ per_address' = IF connections[c] # None /\ connections[c].counted
                    THEN [per_address EXCEPT ![connections[c].peer] = IF @ = 0 THEN 0 ELSE @ - 1]
                    ELSE per_address
  /\ pending' = IF connections[c] = None THEN pending
                ELSE [j \in Joins |-> IF pending[j] # None /\ pending[j].connection = c
                                      THEN None ELSE pending[j]]
  /\ UNCHANGED <<next_join, server_data, token_trust, output>>
-----------------------------------------------------------------------------
(* Requests                                                                *)

respond(c, status) ==
  /\ output' = Append(output, Response(c, status, None))
  /\ UNCHANGED <<connections, per_address, pending, next_join, server_data, token_trust>>

status_request(c, r) ==
  \/ r.method # "GET" /\ respond(c, 405)
  \/ r.method = "GET" /\ ~ (server_data /\ ServeMotd) /\ respond(c, 404)
  \/ r.method = "GET" /\ server_data /\ ServeMotd /\ respond(c, 200)

join(c, r) ==
  \/ Cardinality(PendingJoins) >= MaxPendingJoins /\ respond(c, 503)
  \/ Cardinality(PendingJoins) < MaxPendingJoins /\ token_trust /\ ~ r.valid /\ respond(c, 401)
  \/ /\ Cardinality(PendingJoins) < MaxPendingJoins
     /\ token_trust => r.valid
     /\ next_join \in Joins
     /\ next_join' = next_join + 1
     /\ pending' = [pending EXCEPT ![next_join] = [connection |-> c, left |-> AnswerTimeout]]
     /\ output' = Append(output, Offer(next_join))
     /\ UNCHANGED <<connections, per_address, server_data, token_trust>>

handle_request(c, r) ==
  \/ r.path = "status" /\ status_request(c, r)
  \/ r.path = "other" /\ respond(c, 404)
  \/ r.path = "join" /\ r.method # "POST" /\ respond(c, 405)
  \/ r.path = "join" /\ r.method = "POST" /\ join(c, r)
-----------------------------------------------------------------------------
(* Completion of joins                                                     *)

\* answer and reject: an id that is not pending is an error and changes nothing.
complete(j, status) ==
  /\ IF pending[j] # None
     THEN /\ output' = Append(output, Response(pending[j].connection, status, j))
          /\ pending' = [pending EXCEPT ![j] = None]
     ELSE UNCHANGED <<pending, output>>
  /\ UNCHANGED <<connections, per_address, next_join, server_data, token_trust>>

answer(j) == complete(j, 200)
reject(j, reason) == complete(j, StatusOf[reason])

Overdue == {j \in PendingJoins : pending[j].left = 0}

\* Mutant of handle_update: an overdue join is answered but stays pending.
handle_update_keeps ==
  /\ \E j \in Overdue :
       output' = Append(output, Response(pending[j].connection, StatusOf["Timeout"], j))
  /\ UNCHANGED <<connections, per_address, pending, next_join, server_data, token_trust>>

\* Mutant of handle_update: overdue joins are dropped without a response.
handle_update_silent ==
  /\ pending' = [j \in Joins |-> IF j \in Overdue THEN None ELSE pending[j]]
  /\ UNCHANGED <<connections, per_address, next_join, server_data, token_trust, output>>

\* Every overdue join is rejected, in the order of the hash map: any order.
handle_update ==
  /\ pending' = [j \in Joins |-> IF j \in Overdue THEN None ELSE pending[j]]
  /\ \E order \in [1 .. Cardinality(Overdue) -> Overdue] :
       /\ \A j \in Overdue : \E i \in DOMAIN order : order[i] = j
       /\ output' = output \o
            [i \in DOMAIN order |->
               Response(pending[order[i]].connection, StatusOf["Timeout"], order[i])]
  /\ UNCHANGED <<connections, per_address, next_join, server_data, token_trust>>

set_server_data ==
  /\ server_data' = TRUE
  /\ UNCHANGED <<connections, per_address, pending, next_join, token_trust, output>>

set_token_trust(b) ==
  /\ token_trust' = b
  /\ UNCHANGED <<connections, per_address, pending, next_join, server_data, output>>

poll ==
  /\ output # <<>>
  /\ output' = Tail(output)
  /\ UNCHANGED <<connections, per_address, pending, next_join, server_data, token_trust>>

\* One unit of time passes for every pending join.
Elapse ==
  pending' = [j \in Joins |->
    IF pending[j] = None \/ pending[j].left = 0 THEN pending[j]
    ELSE [pending[j] EXCEPT !.left = @ - 1]]
-----------------------------------------------------------------------------
(* The signaler under any driver that opens each connection once.          *)

SignalerNext ==
  \/ \E c \in Connections, p \in Peers :
       /\ connections[c] = None
       /\ connected(c, p)
       /\ output' = IF Refused(p) THEN Append(output, Close(c)) ELSE output
  \/ \E c \in Connections : closed(c)
  \/ \E c \in Connections, r \in Requests : connections[c] # None /\ handle_request(c, r)
  \/ \E j \in Joins : answer(j) \/ \E reason \in RejectReasons : reject(j, reason)
  \/ handle_update
  \/ set_server_data
  \/ \E b \in BOOLEAN : set_token_trust(b)
  \/ poll
  \/ Elapse /\ UNCHANGED <<connections, per_address, next_join, server_data, token_trust, output>>

SignalerSpec == SignalerInit /\ [][SignalerNext]_signalerVars
-----------------------------------------------------------------------------
Counted(p) ==
  {c \in Connections : connections[c] # None /\ connections[c].counted /\ connections[c].peer = p}

\* The counter of an address is the number of its open, counted connections:
\* a refused, a proxied or a doubly closed connection never shifts it, so an
\* address neither runs out of its allowance nor exceeds it (connected
\* 115-127, closed 143-151).
CountsMatch ==
  \A p \in Peers : per_address[p] = Cardinality(Counted(p)) /\ per_address[p] <= MaxPerAddress

\* No more joins wait than the limit, and each on an open connection: a join
\* whose peer left does not keep its place (join 210, closed 153).
PendingWithinLimit ==
  /\ Cardinality(PendingJoins) <= MaxPendingJoins
  /\ \A j \in PendingJoins : connections[pending[j].connection] # None
=============================================================================
