------------------------- MODULE HttpSignalingServer -------------------------
(***************************************************************************)
(* The tokio HTTP signaling server                                         *)
(* (nethernet-tokio/src/signaling/http/server.rs): the accept task, one    *)
(* task per connection and the application send commands to the driver     *)
(* task over one FIFO channel; the driver alone owns the HttpSignaler.     *)
(*                                                                         *)
(* One iteration of the driver is a select! followed by the draining of    *)
(* the signaler's outputs; neither awaits anything else, so a command or a *)
(* timer is taken only when output is empty.  Hyper serves one request of  *)
(* a connection at a time.  Requests refused before they reach the driver  *)
(* (a body too large or too slow) change none of this state.               *)
(***************************************************************************)
EXTENDS HttpSignaler

CONSTANTS
  MaxRequests,   \* bound on the requests of a behaviour
  MaxCommands,   \* bound on the commands in the channel
  RequestKinds,  \* the requests peers send
  AppReasons     \* the reasons the application rejects joins for

ASSUME ServerAssumption ==
  /\ Connections \subseteq Nat
  /\ MaxRequests \in Nat
  /\ MaxRequests <= MaxJoins
  /\ MaxCommands \in Nat \ {0}
  /\ RequestKinds \subseteq Requests
  /\ AppReasons \subseteq RejectReasons
  /\ None \notin Nat

VARIABLES
  commands,   \* the command channel
  task,       \* connection -> the state of its task
  awaited,    \* connection -> the request it awaits a reply to, or 0
  requests,   \* requests sent so far
  waiting,    \* connection -> the request whose reply sender is held, or 0
  metadata,   \* joins with an entry in addresses, players or hosts
  app,        \* join -> what the application did about it
  origin,     \* history: join -> the request that made it
  running     \* whether the server has not been shut down

serverVars == <<commands, task, awaited, requests, waiting, metadata, app, origin, running>>
vars == <<signalerVars, serverVars>>

\* The states of a connection task: the accept task waits for its admission;
\* it waits for a request of its peer; it awaits a reply; it has ended.
TaskStates == {"new", "admitting", "idle", "awaiting", "ended"}

\* What the application can still do about a join.
AppStates == {"unknown", "offered", "answered", "done"}

Init ==
  /\ SignalerInit
  /\ commands = <<>>
  /\ task = [c \in Connections |-> "new"]
  /\ awaited = [c \in Connections |-> 0]
  /\ requests = 0
  /\ waiting = [c \in Connections |-> 0]
  /\ metadata = {}
  /\ app = [j \in Joins |-> "unknown"]
  /\ origin = [j \in Joins |-> 0]
  /\ running = TRUE

Queue(command) ==
  /\ Len(commands) < MaxCommands
  /\ commands' = Append(commands, command)
-----------------------------------------------------------------------------
(* Producers of commands                                                   *)

\* The accept task numbers one connection and awaits its admission.
Accept(c, p) ==
  /\ running
  /\ task[c] = "new"
  /\ \A d \in Connections : task[d] # "admitting" /\ (task[d] = "new" => c <= d)
  /\ task' = [task EXCEPT ![c] = "admitting"]
  /\ Queue([type |-> "Connected", connection |-> c, peer |-> p])
  /\ UNCHANGED <<signalerVars, awaited, requests, waiting, metadata, app, origin, running>>

\* serve_http hands a request over and awaits its reply.
SendRequest(c, r) ==
  /\ running
  /\ task[c] = "idle"
  /\ requests < MaxRequests
  /\ requests' = requests + 1
  /\ task' = [task EXCEPT ![c] = "awaiting"]
  /\ awaited' = [awaited EXCEPT ![c] = requests']
  /\ Queue([type |-> "Request", connection |-> c, request |-> r, serial |-> requests'])
  /\ UNCHANGED <<signalerVars, waiting, metadata, app, origin, running>>

\* The peer hangs up, idle or not, or the connection is done: its task ends.
HangUp(c) ==
  /\ running
  /\ task[c] \in {"idle", "awaiting"}
  /\ task' = [task EXCEPT ![c] = "ended"]
  /\ awaited' = [awaited EXCEPT ![c] = 0]
  /\ Queue([type |-> "Closed", connection |-> c])
  /\ UNCHANGED <<signalerVars, requests, waiting, metadata, app, origin, running>>

\* The application completes a join it was offered; after an answer it may
\* still report an error on it, when the session does not become ready.
AppSignal(j, command, state) ==
  /\ running
  /\ app' = [app EXCEPT ![j] = state]
  /\ Queue(command)
  /\ UNCHANGED <<signalerVars, task, awaited, requests, waiting, metadata, origin, running>>

AppAnswer(j) ==
  /\ app[j] = "offered"
  /\ AppSignal(j, [type |-> "Answer", join |-> j], "answered")

AppReject(j, reason) ==
  /\ app[j] \in {"offered", "answered"}
  /\ AppSignal(j, [type |-> "Reject", join |-> j, reason |-> reason], "done")

\* set_server_data and set_token_trust, taken when the channel is empty: they
\* only decide how the requests queued behind them are judged.
AppConfigure(command) ==
  /\ running
  /\ commands = <<>>
  /\ Queue(command)
  /\ UNCHANGED <<signalerVars, task, awaited, requests, waiting, metadata, app, origin, running>>

\* The driver stops and drops the signaler and every reply sender with it; the
\* connection tasks end.
Shutdown ==
  /\ running
  /\ running' = FALSE
  /\ connections' = [c \in Connections |-> None]
  /\ per_address' = [p \in Peers |-> 0]
  /\ pending' = [j \in Joins |-> None]
  /\ output' = <<>>
  /\ commands' = <<>>
  /\ task' = [c \in Connections |-> "ended"]
  /\ awaited' = [c \in Connections |-> 0]
  /\ waiting' = [c \in Connections |-> 0]
  /\ metadata' = {}
  /\ UNCHANGED <<next_join, server_data, token_trust, requests, app, origin>>
-----------------------------------------------------------------------------
(* The driver                                                              *)

Take(type) ==
  /\ running
  /\ output = <<>>
  /\ commands # <<>>
  /\ Head(commands).type = type
  /\ commands' = Tail(commands)

\* The outputs of this branch are read and discarded inside it, all but the
\* refusal; a refused connection never gets a task.
HandleConnected ==
  /\ Take("Connected")
  /\ LET c == Head(commands).connection
         p == Head(commands).peer
     IN  /\ connected(c, p)
         /\ output' = <<>>
         /\ task' = [task EXCEPT ![c] = IF Refused(p) THEN "ended" ELSE "idle"]
  /\ UNCHANGED <<awaited, requests, waiting, metadata, app, origin, running>>

HandleRequest ==
  /\ Take("Request")
  /\ LET c == Head(commands).connection
     IN  /\ waiting' = [waiting EXCEPT ![c] = Head(commands).serial]
         /\ handle_request(c, Head(commands).request)
         /\ origin' = IF next_join' # next_join
                      THEN [origin EXCEPT ![next_join] = Head(commands).serial] ELSE origin
  /\ UNCHANGED <<task, awaited, requests, metadata, app, running>>

\* Mutant of HandleClosed: the reply sender of the connection is kept.
HandleClosed_keeps_reply ==
  /\ Take("Closed")
  /\ closed(Head(commands).connection)
  /\ UNCHANGED <<task, awaited, requests, waiting, metadata, app, origin, running>>

HandleClosed ==
  /\ Take("Closed")
  /\ waiting' = [waiting EXCEPT ![Head(commands).connection] = 0]
  /\ closed(Head(commands).connection)
  /\ UNCHANGED <<task, awaited, requests, metadata, app, origin, running>>

HandleAnswer ==
  /\ Take("Answer")
  /\ answer(Head(commands).join)
  /\ metadata' = metadata \ {Head(commands).join}
  /\ UNCHANGED <<task, awaited, requests, waiting, app, origin, running>>

HandleReject ==
  /\ Take("Reject")
  /\ reject(Head(commands).join, Head(commands).reason)
  /\ metadata' = metadata \ {Head(commands).join}
  /\ UNCHANGED <<task, awaited, requests, waiting, app, origin, running>>

HandleConfigure ==
  /\ \/ Take("SetServerData") /\ set_server_data
     \/ Take("SetTokenTrust") /\ set_token_trust(Head(commands).trust)
  /\ UNCHANGED <<task, awaited, requests, waiting, metadata, app, origin, running>>

\* The timer: it may be late, by MAX_IDLE at most.
HandleTimer ==
  /\ running
  /\ output = <<>>
  /\ handle_update
  /\ UNCHANGED serverVars

\* One output leaves the signaler.  A reply reaches the task if it still
\* awaits it; an offer is broadcast, to an application that may have lagged
\* behind or gone.
Drain ==
  /\ running
  /\ poll
  /\ LET o == Head(output) IN
     \/ /\ o.type = "Response"
        /\ waiting' = [waiting EXCEPT ![o.connection] = 0]
        /\ LET replied == waiting[o.connection] # 0 /\ awaited[o.connection] = waiting[o.connection]
           IN  /\ task' = IF replied THEN [task EXCEPT ![o.connection] = "idle"] ELSE task
               /\ awaited' = IF replied THEN [awaited EXCEPT ![o.connection] = 0] ELSE awaited
        /\ UNCHANGED <<metadata, app>>
     \/ /\ o.type = "Offer"
        /\ metadata' = metadata \cup {o.join}
        /\ \E heard \in BOOLEAN : app' = IF heard THEN [app EXCEPT ![o.join] = "offered"] ELSE app
        /\ UNCHANGED <<waiting, task, awaited>>
  /\ UNCHANGED <<commands, requests, origin, running>>

Tick ==
  /\ running
  /\ Elapse
  /\ pending' # pending
  /\ UNCHANGED <<connections, per_address, next_join, server_data, token_trust, output, serverVars>>

Driver ==
  \/ HandleConnected \/ HandleRequest \/ HandleClosed \/ HandleAnswer \/ HandleReject
  \/ HandleConfigure \/ Drain

Next ==
  \/ \E c \in Connections, p \in Peers : Accept(c, p)
  \/ \E c \in Connections, r \in RequestKinds : SendRequest(c, r)
  \/ \E c \in Connections : HangUp(c)
  \/ \E j \in Joins : AppAnswer(j) \/ \E reason \in AppReasons : AppReject(j, reason)
  \/ AppConfigure([type |-> "SetServerData"])
  \/ \E b \in BOOLEAN : AppConfigure([type |-> "SetTokenTrust", trust |-> b])
  \/ Driver \/ HandleTimer \/ Tick \/ Shutdown

Spec == Init /\ [][Next]_vars

\* select! picks among its ready branches at random, so neither commands nor
\* the timer starve; time passes.  Peers and the application owe nothing.
FairSpec == Spec /\ WF_vars(Driver) /\ SF_vars(HandleTimer) /\ WF_vars(Tick)
-----------------------------------------------------------------------------
TypeOK ==
  /\ connections \in [Connections -> [peer : Peers, counted : BOOLEAN] \cup {None}]
  /\ per_address \in [Peers -> Nat]
  /\ pending \in [Joins -> [connection : Connections, left : 0 .. AnswerTimeout] \cup {None}]
  /\ next_join \in 1 .. MaxJoins + 1
  /\ server_data \in BOOLEAN /\ token_trust \in BOOLEAN /\ running \in BOOLEAN
  /\ task \in [Connections -> TaskStates]
  /\ awaited \in [Connections -> 0 .. MaxRequests]
  /\ waiting \in [Connections -> 0 .. MaxRequests]
  /\ metadata \subseteq Joins
  /\ app \in [Joins -> AppStates]
  /\ origin \in [Joins -> 0 .. MaxRequests]

\* Responses that are queued for a connection.
Owed(c) == {i \in DOMAIN output : output[i].type = "Response" /\ output[i].connection = c}

\* The reply sender held for a connection is that of the request which made
\* its pending join or its queued response: a late answer, a rejection or a
\* timeout never completes a later request of the same connection, and no
\* sender is held that nothing will complete (drive 242-251, 300-311).
RepliesMatchRequests ==
  running =>
  /\ \A j \in PendingJoins : waiting[pending[j].connection] = origin[j]
  /\ \A c \in Connections : \A i \in Owed(c) :
       output[i].join # None => waiting[c] = origin[output[i].join]
  /\ \A c \in Connections : waiting[c] # 0 =>
       Cardinality(Owed(c)) + Cardinality({j \in PendingJoins : pending[j].connection = c}) = 1

\* Once the Closed command of an ended connection has been handled, nothing of
\* the connection is left: no count, no join and no reply sender, even when it
\* hung up with a request still in the channel (accept 203, drive 252-255).
EndedLeavesNothing ==
  \A c \in Connections :
    /\ running
    /\ task[c] = "ended"
    /\ \A i \in DOMAIN commands : commands[i].type = "Closed" => commands[i].connection # c
    => /\ connections[c] = None
       /\ waiting[c] = 0
       /\ \A j \in PendingJoins : pending[j].connection # c

\* Every request is answered in the end, with 504 if the application never
\* completes its join or never heard of it, unless the peer hangs up.
RequestsAreAnswered ==
  \A c \in Connections : task[c] = "awaiting" ~> task[c] # "awaiting"
=============================================================================
