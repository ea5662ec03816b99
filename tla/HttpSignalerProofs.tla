------------------------- MODULE HttpSignalerProofs -------------------------
(***************************************************************************)
(* Proofs about the sans-io HTTP signaler, for every set of connections    *)
(* and peers and every limit, and any driver that opens a connection once  *)
(* and hands over requests of open connections only; and about the tokio   *)
(* server that drives it, whatever peers and application do and when.      *)
(***************************************************************************)
EXTENDS HttpSignalingServer, FiniteSetTheorems, SequenceTheorems, TLAPS

ConnectionEntry == [peer : Peers, counted : BOOLEAN]
JoinEntry == [connection : Connections, left : 0 .. AnswerTimeout]

\* The types the limits rest on.
SignalerTypes ==
  /\ connections \in [Connections -> ConnectionEntry \cup {None}]
  /\ per_address \in [Peers -> Nat]
  /\ pending \in [Joins -> JoinEntry \cup {None}]
  /\ next_join \in Nat

\* The inductive invariant.
SignalerInv == SignalerTypes /\ CountsMatch /\ PendingWithinLimit

\* The connections counted against an address, and the joins, are finite sets.
LEMMA Finite ==
  /\ \A p \in Peers : IsFiniteSet(Counted(p)) /\ Cardinality(Counted(p)) \in Nat
  /\ IsFiniteSet(PendingJoins) /\ Cardinality(PendingJoins) \in Nat
<1>1. ASSUME NEW p \in Peers PROVE IsFiniteSet(Counted(p))
  BY SignalerAssumption, FS_Subset DEF Counted
<1>2. IsFiniteSet(PendingJoins)
  <2>1. IsFiniteSet(Joins)
    BY SignalerAssumption, FS_Interval DEF Joins
  <2> QED
    BY <2>1, FS_Subset DEF PendingJoins
<1> QED
  BY <1>1, <1>2, FS_CardinalityType

\* The signaler starts with nothing counted and nothing pending.
LEMMA InitInv == SignalerInit => SignalerInv
<1> SUFFICES ASSUME SignalerInit PROVE SignalerInv
  OBVIOUS
<1>1. SignalerTypes
  BY DEF SignalerInit, SignalerTypes
<1>2. \A p \in Peers : Counted(p) = {}
  BY DEF SignalerInit, Counted
<1>3. PendingJoins = {}
  BY DEF SignalerInit, PendingJoins
<1>4. CountsMatch
  BY <1>2, FS_EmptySet, SignalerAssumption DEF CountsMatch, SignalerInit
<1>5. Cardinality(PendingJoins) = 0
  BY <1>3, FS_EmptySet
<1> QED
  BY <1>1, <1>3, <1>4, <1>5, SignalerAssumption DEF SignalerInv, PendingWithinLimit

\* A connection that is admitted and counted adds one to its own address only.
LEMMA ConnectedInv ==
  ASSUME SignalerInv, NEW c \in Connections, NEW p \in Peers,
         connections[c] = None, connected(c, p)
  PROVE  SignalerInv'
<1> USE SignalerAssumption DEF SignalerInv
<1>1. CASE Refused(p)
  <2>1. UNCHANGED <<connections, per_address, pending, next_join>>
    BY <1>1 DEF connected
  <2> QED
    BY <2>1 DEF SignalerTypes, CountsMatch, Counted, PendingWithinLimit, PendingJoins
<1>2. CASE ~ Refused(p)
  <2>1. /\ connections' = [connections EXCEPT ![c] = [peer |-> p, counted |-> p \notin TrustedProxies]]
        /\ per_address' = IF p \in TrustedProxies THEN per_address
                          ELSE [per_address EXCEPT ![p] = @ + 1]
        /\ UNCHANGED <<pending, next_join>>
    BY <1>2 DEF connected
  <2>2. [peer |-> p, counted |-> p \notin TrustedProxies] \in ConnectionEntry
    BY DEF ConnectionEntry
  <2>3. SignalerTypes'
    BY <2>1, <2>2 DEF SignalerTypes
  <2>4. connections'[c] # None
    BY <2>1, <2>2 DEF SignalerTypes, ConnectionEntry
  <2>5. PendingWithinLimit'
    <3>1. PendingJoins' = PendingJoins
      BY <2>1 DEF PendingJoins
    <3>2. \A d \in Connections : connections[d] # None => connections'[d] # None
      BY <2>1, <2>4 DEF SignalerTypes
    <3>3. \A j \in PendingJoins : pending[j].connection \in Connections
      BY DEF SignalerTypes, PendingJoins, JoinEntry
    <3> QED
      BY <2>1, <3>1, <3>2, <3>3 DEF PendingWithinLimit
  <2>6. CountsMatch'
    <3> SUFFICES ASSUME NEW q \in Peers
                 PROVE  /\ per_address'[q] = Cardinality(Counted(q)')
                        /\ per_address'[q] <= MaxPerAddress
      BY DEF CountsMatch
    <3>1. CASE q = p /\ p \notin TrustedProxies
      <4>1. Counted(q)' = Counted(q) \cup {c}
        BY <2>1, <2>4, <3>1 DEF Counted, SignalerTypes
      <4>2. c \notin Counted(q)
        BY DEF Counted
      <4>3. Cardinality(Counted(q)') = Cardinality(Counted(q)) + 1
        BY <4>1, <4>2, Finite, FS_AddElement
      <4> QED
        BY <1>2, <2>1, <3>1, <4>3 DEF CountsMatch, SignalerTypes, Refused
    <3>2. CASE q # p \/ p \in TrustedProxies
      <4>1. Counted(q)' = Counted(q)
        BY <2>1, <3>2 DEF Counted, SignalerTypes
      <4>2. per_address'[q] = per_address[q]
        BY <2>1, <3>2 DEF SignalerTypes
      <4> QED
        BY <4>1, <4>2 DEF CountsMatch
    <3> QED
      BY <3>1, <3>2
  <2> QED
    BY <2>3, <2>5, <2>6
<1> QED
  BY <1>1, <1>2

\* A connection that closes gives back exactly what it took, and its joins go.
LEMMA ClosedInv ==
  ASSUME SignalerInv, NEW c \in Connections, closed(c)
  PROVE  SignalerInv'
<1> USE SignalerAssumption DEF SignalerInv
<1>1. SignalerTypes'
  <2>1. connections' \in [Connections -> ConnectionEntry \cup {None}]
    BY DEF closed, SignalerTypes
  <2>2. per_address' \in [Peers -> Nat]
    <3>1. CASE connections[c] = None \/ ~ connections[c].counted
      BY <3>1 DEF closed, SignalerTypes
    <3>2. CASE connections[c] # None /\ connections[c].counted
      <4> DEFINE p == connections[c].peer
      <4>1. p \in Peers
        BY <3>2 DEF SignalerTypes, ConnectionEntry
      <4>2. per_address' = [per_address EXCEPT ![p] = IF @ = 0 THEN 0 ELSE @ - 1]
        BY <3>2 DEF closed
      <4>3. (IF per_address[p] = 0 THEN 0 ELSE per_address[p] - 1) \in Nat
        BY <4>1 DEF SignalerTypes
      <4> QED
        BY <4>1, <4>2, <4>3 DEF SignalerTypes
    <3> QED
      BY <3>1, <3>2
  <2>3. pending' \in [Joins -> JoinEntry \cup {None}] /\ next_join' \in Nat
    BY DEF closed, SignalerTypes
  <2> QED
    BY <2>1, <2>2, <2>3 DEF SignalerTypes
<1>2. CountsMatch'
  <2> SUFFICES ASSUME NEW q \in Peers
               PROVE  /\ per_address'[q] = Cardinality(Counted(q)')
                      /\ per_address'[q] <= MaxPerAddress
    BY DEF CountsMatch
  <2>1. Counted(q)' = Counted(q) \ {c}
    BY DEF closed, Counted, SignalerTypes
  <2>2. CASE c \in Counted(q)
    <3>1. Cardinality(Counted(q)') = Cardinality(Counted(q)) - 1
      BY <2>1, <2>2, Finite, FS_RemoveElement
    <3>2. Cardinality(Counted(q)) # 0
      BY <2>2, Finite, FS_EmptySet
    <3>3. per_address'[q] = per_address[q] - 1
      BY <2>2, <3>2 DEF closed, Counted, SignalerTypes, CountsMatch
    <3> QED
      BY <3>1, <3>3, Finite DEF CountsMatch
  <2>3. CASE c \notin Counted(q)
    <3>1. Counted(q)' = Counted(q)
      BY <2>1, <2>3
    <3>2. per_address'[q] = per_address[q]
      BY <2>3 DEF closed, Counted, SignalerTypes
    <3> QED
      BY <3>1, <3>2 DEF CountsMatch
  <2> QED
    BY <2>2, <2>3
<1>3. PendingWithinLimit'
  <2>1. PendingJoins' \subseteq PendingJoins
    BY DEF closed, PendingJoins
  <2>2. Cardinality(PendingJoins') <= Cardinality(PendingJoins) /\ Cardinality(PendingJoins') \in Nat
    BY <2>1, Finite, FS_Subset, FS_CardinalityType
  <2>3. ASSUME NEW j \in PendingJoins' PROVE connections'[pending'[j].connection] # None
    <3>1. j \in Joins /\ j \in PendingJoins /\ pending'[j] = pending[j]
      BY <2>1 DEF closed, PendingJoins
    <3>2. connections[pending[j].connection] # None /\ pending[j].connection \in Connections
      BY <3>1 DEF PendingWithinLimit, PendingJoins, SignalerTypes, JoinEntry
    <3>3. pending[j].connection # c
      BY <3>1, <3>2 DEF closed, PendingJoins
    <3> QED
      BY <3>1, <3>2, <3>3 DEF closed, SignalerTypes
  <2> QED
    BY <2>2, <2>3, Finite DEF PendingWithinLimit
<1> QED
  BY <1>1, <1>2, <1>3

\* A step that leaves the connections alone and only completes joins, or lets
\* their time run, keeps the invariant.
LEMMA FewerJoinsInv ==
  ASSUME SignalerInv,
         UNCHANGED <<connections, per_address, next_join>>,
         pending' \in [Joins -> JoinEntry \cup {None}],
         \A j \in Joins : pending'[j] # None =>
            pending[j] # None /\ pending'[j].connection = pending[j].connection
  PROVE  SignalerInv'
<1> USE SignalerAssumption DEF SignalerInv
<1>1. SignalerTypes' /\ CountsMatch'
  BY DEF SignalerTypes, CountsMatch, Counted
<1>2. PendingJoins' \subseteq PendingJoins
  BY DEF PendingJoins
<1>3. Cardinality(PendingJoins') <= Cardinality(PendingJoins) /\ Cardinality(PendingJoins') \in Nat
  BY <1>2, Finite, FS_Subset, FS_CardinalityType
<1>4. Cardinality(PendingJoins') <= MaxPendingJoins
  BY <1>3, Finite DEF PendingWithinLimit
<1>5. \A j \in PendingJoins' : connections'[pending'[j].connection] # None
  BY <1>2 DEF PendingWithinLimit, PendingJoins
<1> QED
  BY <1>1, <1>4, <1>5 DEF PendingWithinLimit

\* A request is answered at once, or takes one free place.
LEMMA RequestInv ==
  ASSUME SignalerInv, NEW c \in Connections, NEW r \in Requests,
         connections[c] # None, handle_request(c, r)
  PROVE  SignalerInv'
<1> USE SignalerAssumption
<1>1. CASE UNCHANGED <<connections, per_address, pending, next_join>>
  BY <1>1, FewerJoinsInv DEF SignalerInv, SignalerTypes
<1>2. CASE /\ Cardinality(PendingJoins) < MaxPendingJoins
           /\ next_join \in Joins
           /\ next_join' = next_join + 1
           /\ pending' = [pending EXCEPT ![next_join] = [connection |-> c, left |-> AnswerTimeout]]
           /\ UNCHANGED <<connections, per_address>>
  <2>1. [connection |-> c, left |-> AnswerTimeout] \in JoinEntry
    BY DEF JoinEntry
  <2>2. SignalerTypes'
    BY <1>2, <2>1 DEF SignalerInv, SignalerTypes
  <2>3. CountsMatch'
    BY <1>2 DEF SignalerInv, CountsMatch, Counted
  <2>4. pending'[next_join] # None /\ pending'[next_join].connection = c
    BY <1>2, <2>1 DEF SignalerInv, SignalerTypes, JoinEntry
  <2>5. PendingJoins' = PendingJoins \cup {next_join}
    BY <1>2, <2>4 DEF SignalerInv, SignalerTypes, PendingJoins
  <2>6. Cardinality(PendingJoins') <= MaxPendingJoins
    <3>1. Cardinality(PendingJoins \cup {next_join}) =
            IF next_join \in PendingJoins THEN Cardinality(PendingJoins)
            ELSE Cardinality(PendingJoins) + 1
      BY Finite, FS_AddElement
    <3> QED
      BY <1>2, <2>5, <3>1, Finite
  <2>7. \A j \in PendingJoins' : connections'[pending'[j].connection] # None
    BY <1>2, <2>4, <2>5 DEF SignalerInv, SignalerTypes, PendingWithinLimit, PendingJoins
  <2> QED
    BY <2>2, <2>3, <2>6, <2>7 DEF SignalerInv, PendingWithinLimit
<1> QED
  BY <1>1, <1>2 DEF handle_request, status_request, join, respond

\* Every step keeps the invariant.
LEMMA StepInv == SignalerInv /\ [SignalerNext]_signalerVars => SignalerInv'
<1> SUFFICES ASSUME SignalerInv, [SignalerNext]_signalerVars PROVE SignalerInv'
  OBVIOUS
<1> USE DEF SignalerInv, SignalerTypes
<1>1. CASE UNCHANGED <<connections, per_address, pending, next_join>>
  BY <1>1, FewerJoinsInv
<1>2. CASE \E c \in Connections, p \in Peers : connections[c] = None /\ connected(c, p)
  BY <1>2, ConnectedInv
<1>3. CASE \E c \in Connections : closed(c)
  BY <1>3, ClosedInv
<1>4. CASE \E c \in Connections, r \in Requests : connections[c] # None /\ handle_request(c, r)
  BY <1>4, RequestInv
<1>5. ASSUME NEW j \in Joins, NEW status, complete(j, status) PROVE SignalerInv'
  BY <1>5, FewerJoinsInv DEF complete
<1>6. CASE handle_update
  BY <1>6, FewerJoinsInv DEF handle_update
<1>7. CASE Elapse /\ UNCHANGED <<connections, per_address, next_join>>
  <2>1. ASSUME NEW j \in Joins
        PROVE  /\ pending'[j] \in JoinEntry \cup {None}
               /\ pending'[j] # None =>
                    pending[j] # None /\ pending'[j].connection = pending[j].connection
    <3>1. CASE pending[j] = None \/ pending[j].left = 0
      BY <1>7, <3>1 DEF Elapse
    <3>2. CASE pending[j] # None /\ pending[j].left # 0
      <4>1. pending'[j] = [pending[j] EXCEPT !.left = @ - 1] /\ pending[j] \in JoinEntry
        BY <1>7, <3>2 DEF Elapse
      <4> QED
        BY <3>2, <4>1, SignalerAssumption DEF JoinEntry
    <3> QED
      BY <3>1, <3>2
  <2>2. pending' \in [Joins -> JoinEntry \cup {None}]
    BY <1>7, <2>1 DEF Elapse
  <2> QED
    BY <1>7, <2>1, <2>2, FewerJoinsInv
<1> QED
  BY <1>1, <1>2, <1>3, <1>4, <1>5, <1>6, <1>7
     DEF SignalerNext, signalerVars, answer, reject, poll, set_server_data, set_token_trust

\* The invariant holds in every reachable state.
LEMMA SignalerInductive == SignalerSpec => []SignalerInv
  BY InitInv, StepInv, PTL DEF SignalerSpec

\* The counter of every peer address is the number of its open, counted
\* connections and stays within the limit.
THEOREM CountsAreExact == SignalerSpec => []CountsMatch
<1>1. SignalerInv => CountsMatch
  BY DEF SignalerInv
<1> QED
  BY <1>1, SignalerInductive, PTL

\* Never more joins than the limit are pending, and each on an open connection.
THEOREM JoinsAreBounded == SignalerSpec => []PendingWithinLimit
<1>1. SignalerInv => PendingWithinLimit
  BY DEF SignalerInv
<1> QED
  BY <1>1, SignalerInductive, PTL
-----------------------------------------------------------------------------
(* The server that drives the signaler                                     *)

Commands ==
  [type : {"Connected"}, connection : Connections, peer : Peers]
  \cup [type : {"Request"}, connection : Connections, request : RequestKinds, serial : 1 .. MaxRequests]
  \cup [type : {"Closed"}, connection : Connections]
  \cup [type : {"Answer"}, join : Joins]
  \cup [type : {"Reject"}, join : Joins, reason : AppReasons]
  \cup [type : {"SetServerData"}]
  \cup [type : {"SetTokenTrust"}, trust : BOOLEAN]

Outputs ==
  [type : {"Response"}, connection : Connections, status : Nat, join : Joins \cup {None}]
  \cup [type : {"Offer"}, join : Joins]

PendingOf(c) == {j \in PendingJoins : pending[j].connection = c}

\* The places in the channel of the commands of one kind for a connection.
Queued(type, c) ==
  {i \in 1 .. Len(commands) : commands[i].type = type /\ commands[i].connection = c}

\* A reply sender is held for exactly one thing that will complete it.
OneReply(c) ==
  /\ waiting[c] = 0 => Owed(c) = {} /\ PendingOf(c) = {}
  /\ waiting[c] # 0 => \/ \E i : Owed(c) = {i} /\ PendingOf(c) = {}
                       \/ \E j : PendingOf(c) = {j} /\ Owed(c) = {}

\* That thing was made by the request the sender came with.
SameOrigin(c) ==
  /\ \A j \in PendingOf(c) : waiting[c] = origin[j]
  /\ \A i \in Owed(c) : output[i].join # None => waiting[c] = origin[output[i].join]

\* The commands of a connection come in turn: Connected while it is admitted, a
\* request only after the reply to the last, and Closed behind them.
InTurn(c) ==
  /\ \A i \in Queued("Connected", c) : task[c] = "admitting" /\ Queued("Connected", c) = {i}
  /\ \A i \in Queued("Request", c) :
       /\ task[c] \in {"awaiting", "ended"} /\ Queued("Request", c) = {i}
       /\ waiting[c] = 0 /\ connections[c] # None
       /\ \A k \in Queued("Closed", c) : i < k
  /\ Queued("Closed", c) # {} => task[c] = "ended"

\* What the driver holds of a connection, by the state of its task.
TaskHolds(c) ==
  /\ task[c] \in {"new", "admitting"} => connections[c] = None
  /\ task[c] \in {"new", "admitting", "idle"} => waiting[c] = 0
  /\ task[c] \in {"idle", "awaiting"} => connections[c] # None
  /\ task[c] = "ended" /\ Queued("Closed", c) = {} =>
       connections[c] = None /\ waiting[c] = 0 /\ Queued("Request", c) = {}

Replied(c) == OneReply(c) /\ SameOrigin(c)
Taken(c) == InTurn(c) /\ TaskHolds(c)

\* The ids of joins to come are unused.
Fresh == \A j \in Joins : j >= next_join => pending[j] = None

\* Only a task that awaits a reply can be given one.
Awaits == \A c \in Connections : awaited[c] # 0 => task[c] = "awaiting"

ServerTypes ==
  /\ TypeOK
  /\ requests \in 0 .. MaxRequests
  /\ commands \in Seq(Commands)
  /\ output \in Seq(Outputs)

\* The inductive invariant of the server.
ServerInv ==
  /\ ServerTypes
  /\ SignalerInv
  /\ Fresh
  /\ Awaits
  /\ running => \A c \in Connections : Replied(c) /\ Taken(c)

Kinds == {"Connected", "Request", "Closed"}

\* A command of a connection names it, and so on for the others.
LEMMA CommandFields ==
  ASSUME NEW m \in Commands
  PROVE  /\ m.type \in Kinds => m.connection \in Connections
         /\ m.type = "Connected" => m.peer \in Peers
         /\ m.type = "Request" => m.request \in Requests /\ m.serial \in 1 .. MaxRequests
         /\ m.type \in {"Answer", "Reject"} => m.join \in Joins
         /\ m.type = "Reject" => m.reason \in RejectReasons
         /\ m.type = "SetTokenTrust" => m.trust \in BOOLEAN
BY ServerAssumption DEF Commands, Kinds

\* A command that is sent stands behind those in the channel.
LEMMA QueueAppends ==
  ASSUME commands \in Seq(Commands), NEW m \in Commands, Queue(m)
  PROVE  /\ commands' \in Seq(Commands)
         /\ \A k \in Kinds, c \in Connections :
              /\ Queued(k, c) \subseteq 1 .. Len(commands)
              /\ Queued(k, c)' = Queued(k, c) \cup
                   (IF m.type = k /\ m.connection = c THEN {Len(commands) + 1} ELSE {})
<1>1. /\ commands' \in Seq(Commands) /\ Len(commands) \in Nat
      /\ Len(commands') = Len(commands) + 1 /\ commands'[Len(commands) + 1] = m
      /\ \A i \in 1 .. Len(commands) : commands'[i] = commands[i]
  BY AppendProperties, LenProperties DEF Queue
<1>2. ASSUME NEW k \in Kinds, NEW c \in Connections
      PROVE  Queued(k, c)' = Queued(k, c) \cup
               (IF m.type = k /\ m.connection = c THEN {Len(commands) + 1} ELSE {})
  <2>1. \A i : i \in 1 .. Len(commands') <=> i \in 1 .. Len(commands) \/ i = Len(commands) + 1
    BY <1>1
  <2> QED
    BY <1>1, <2>1 DEF Queued
<1> QED
  BY <1>1, <1>2 DEF Queued

\* The command that is taken is the first; the others move up.
LEMMA QueueMoves ==
  ASSUME commands \in Seq(Commands), commands # <<>>, commands' = Tail(commands)
  PROVE  /\ commands' \in Seq(Commands) /\ Head(commands) \in Commands
         /\ \A k \in Kinds, c \in Connections :
              /\ 1 \in Queued(k, c) <=> Head(commands).type = k /\ Head(commands).connection = c
              /\ Queued(k, c) \subseteq Nat \ {0}
              /\ Queued(k, c)' = {i \in Nat \ {0} : i + 1 \in Queued(k, c)}
<1>1. /\ commands' \in Seq(Commands) /\ Len(commands) \in Nat \ {0} /\ Head(commands) \in Commands
      /\ Len(commands') = Len(commands) - 1 /\ Head(commands) = commands[1]
      /\ \A i \in 1 .. Len(commands') : commands'[i] = commands[i + 1]
  BY HeadTailProperties, EmptySeq
<1>2. ASSUME NEW k \in Kinds, NEW c \in Connections
      PROVE  Queued(k, c)' = {i \in Nat \ {0} : i + 1 \in Queued(k, c)}
  <2>1. \A i \in Nat \ {0} : i \in 1 .. Len(commands') <=> i + 1 \in 1 .. Len(commands)
    BY <1>1
  <2>2. \A i \in 1 .. Len(commands') : i \in Nat \ {0}
    OBVIOUS
  <2> QED
    BY <1>1, <2>1, <2>2 DEF Queued
<1> QED
  BY <1>1, <1>2 DEF Queued

LEMMA RepliedFrame ==
  ASSUME NEW c, Replied(c), waiting'[c] = waiting[c], output' = output, origin' = origin,
         PendingOf(c)' = PendingOf(c)
  PROVE  Replied(c)'
<1>1. Owed(c)' = Owed(c)
  BY DEF Owed
<1> QED
  BY <1>1 DEF Replied, OneReply, SameOrigin

LEMMA TakenFrame ==
  ASSUME NEW c, Taken(c), task'[c] = task[c], waiting'[c] = waiting[c],
         connections'[c] = connections[c], \A k \in Kinds : Queued(k, c)' = Queued(k, c)
  PROVE  Taken(c)'
<1>1. /\ Queued("Connected", c)' = Queued("Connected", c)
      /\ Queued("Request", c)' = Queued("Request", c)
      /\ Queued("Closed", c)' = Queued("Closed", c)
  BY DEF Kinds
<1> QED
  BY <1>1 DEF Taken, InTurn, TaskHolds

\* Sending a command leaves the signaler and the replies alone.
LEMMA ProducerInv ==
  ASSUME ServerInv, running, NEW m \in Commands, Queue(m),
         UNCHANGED <<signalerVars, waiting, origin, running>>,
         task' \in [Connections -> TaskStates], awaited' \in [Connections -> 0 .. MaxRequests],
         requests' \in 0 .. MaxRequests, metadata' = metadata, app' \in [Joins -> AppStates],
         Awaits', \A c \in Connections : Taken(c)'
  PROVE  ServerInv'
<1>1. commands' \in Seq(Commands)
  BY QueueAppends DEF ServerInv, ServerTypes
<1>2. ServerTypes'
  BY <1>1 DEF ServerInv, ServerTypes, TypeOK, signalerVars
<1>3. SignalerInv' /\ Fresh'
  <2>1. UNCHANGED <<connections, per_address, pending, next_join>>
    BY DEF signalerVars
  <2> QED
    BY <2>1, FewerJoinsInv DEF ServerInv, SignalerInv, SignalerTypes, Fresh
<1>4. \A c \in Connections : Replied(c)'
  BY RepliedFrame DEF ServerInv, PendingOf, PendingJoins, signalerVars
<1> QED
  BY <1>2, <1>3, <1>4 DEF ServerInv

\* Outside the command's own connection the turns are as before.
LEMMA OthersTaken ==
  ASSUME ServerInv, running, NEW m \in Commands, Queue(m), NEW d \in Connections,
         UNCHANGED <<connections, waiting>>, task'[d] = task[d],
         m.type \in Kinds => m.connection # d
  PROVE  Taken(d)'
<1>1. ASSUME NEW k \in Kinds PROVE Queued(k, d)' = Queued(k, d)
  <2>1. ~ (m.type = k /\ m.connection = d) /\ commands \in Seq(Commands)
    BY DEF ServerInv, ServerTypes
  <2>2. Queued(k, d)' = Queued(k, d) \cup
          (IF m.type = k /\ m.connection = d THEN {Len(commands) + 1} ELSE {})
    BY <2>1, QueueAppends
  <2> QED
    BY <2>1, <2>2
<1> QED
  BY <1>1, TakenFrame DEF ServerInv

LEMMA AcceptInv ==
  ASSUME ServerInv, NEW c \in Connections, NEW p \in Peers, Accept(c, p)
  PROVE  ServerInv'
<1> DEFINE m == [type |-> "Connected", connection |-> c, peer |-> p]
<1>1. /\ m \in Commands /\ m.type = "Connected" /\ m.connection = c
      /\ Queue(m) /\ running /\ task[c] = "new" /\ task' = [task EXCEPT ![c] = "admitting"]
      /\ UNCHANGED <<signalerVars, awaited, requests, waiting, metadata, app, origin, running>>
  BY DEF Accept, Commands
<1> HIDE DEF m
<1>2. task \in [Connections -> TaskStates] /\ commands \in Seq(Commands)
  BY DEF ServerInv, ServerTypes, TypeOK
<1>3. Taken(c) /\ connections' = connections /\ waiting' = waiting /\ task'[c] = "admitting"
  BY <1>1, <1>2 DEF ServerInv, signalerVars
<1>4. Queued("Connected", c) = {} /\ Queued("Request", c) = {} /\ Queued("Closed", c) = {}
  BY <1>1, <1>3 DEF Taken, InTurn
<1>5. /\ Queued("Connected", c)' = {Len(commands) + 1}
      /\ Queued("Request", c)' = {} /\ Queued("Closed", c)' = {}
  BY <1>1, <1>2, <1>4, QueueAppends DEF Kinds
<1>6. Taken(c)'
  BY <1>1, <1>3, <1>5 DEF Taken, InTurn, TaskHolds
<1>7. ASSUME NEW d \in Connections, d # c PROVE Taken(d)'
  BY <1>1, <1>2, <1>3, <1>7, OthersTaken
<1>8. \A d \in Connections : Taken(d)'
  BY <1>6, <1>7
<1>9. Awaits'
  BY <1>1, <1>2 DEF ServerInv, Awaits
<1> QED
  BY <1>1, <1>2, <1>8, <1>9, ProducerInv DEF ServerInv, ServerTypes, TypeOK, TaskStates

LEMMA SendRequestInv ==
  ASSUME ServerInv, NEW c \in Connections, NEW r \in RequestKinds, SendRequest(c, r)
  PROVE  ServerInv'
<1>0. PICK n : n = requests + 1
  OBVIOUS
<1> DEFINE m == [type |-> "Request", connection |-> c, request |-> r, serial |-> n]
<1>1. /\ Queue(m) /\ running /\ task[c] = "idle" /\ task' = [task EXCEPT ![c] = "awaiting"]
      /\ requests < MaxRequests /\ requests' = n /\ awaited' = [awaited EXCEPT ![c] = n]
      /\ UNCHANGED <<signalerVars, waiting, metadata, app, origin, running>>
  BY <1>0 DEF SendRequest
<1>2. /\ task \in [Connections -> TaskStates] /\ commands \in Seq(Commands)
      /\ n \in 1 .. MaxRequests /\ awaited \in [Connections -> 0 .. MaxRequests]
  BY <1>0, <1>1, ServerAssumption DEF ServerInv, ServerTypes, TypeOK
<1>3. m \in Commands /\ m.type = "Request" /\ m.connection = c
  BY <1>2 DEF Commands
<1> HIDE DEF m
<1>4. Taken(c) /\ connections' = connections /\ waiting' = waiting /\ task'[c] = "awaiting"
  BY <1>1, <1>2 DEF ServerInv, signalerVars
<1>5. Queued("Connected", c) = {} /\ Queued("Request", c) = {} /\ Queued("Closed", c) = {}
  BY <1>1, <1>4 DEF Taken, InTurn
<1>6. /\ Queued("Request", c)' = {Len(commands) + 1}
      /\ Queued("Connected", c)' = {} /\ Queued("Closed", c)' = {}
  BY <1>1, <1>2, <1>3, <1>5, QueueAppends DEF Kinds
<1>7. Taken(c)'
  BY <1>1, <1>4, <1>6 DEF Taken, InTurn, TaskHolds
<1>8. ASSUME NEW d \in Connections, d # c PROVE Taken(d)'
  BY <1>1, <1>2, <1>3, <1>4, <1>8, OthersTaken
<1>9. /\ task' \in [Connections -> TaskStates] /\ awaited' \in [Connections -> 0 .. MaxRequests]
      /\ requests' \in 0 .. MaxRequests
  BY <1>1, <1>2 DEF TaskStates
<1>10. \A d \in Connections : Taken(d)'
  BY <1>7, <1>8
<1>11. Awaits'
  BY <1>1, <1>2 DEF ServerInv, Awaits
<1> QED
  BY <1>1, <1>3, <1>9, <1>10, <1>11, ProducerInv DEF ServerInv, ServerTypes, TypeOK

LEMMA HangUpInv ==
  ASSUME ServerInv, NEW c \in Connections, HangUp(c)
  PROVE  ServerInv'
<1> DEFINE m == [type |-> "Closed", connection |-> c]
<1>1. /\ m \in Commands /\ m.type = "Closed" /\ m.connection = c
      /\ Queue(m) /\ running /\ task[c] \in {"idle", "awaiting"}
      /\ task' = [task EXCEPT ![c] = "ended"] /\ awaited' = [awaited EXCEPT ![c] = 0]
      /\ UNCHANGED <<signalerVars, requests, waiting, metadata, app, origin, running>>
  BY DEF HangUp, Commands
<1> HIDE DEF m
<1>2. /\ task \in [Connections -> TaskStates] /\ commands \in Seq(Commands)
      /\ awaited \in [Connections -> 0 .. MaxRequests] /\ Len(commands) \in Nat
  BY DEF ServerInv, ServerTypes, TypeOK
<1>3. Taken(c) /\ connections' = connections /\ waiting' = waiting /\ task'[c] = "ended"
  BY <1>1, <1>2 DEF ServerInv, signalerVars
<1>4. Queued("Connected", c) = {} /\ Queued("Closed", c) = {}
  BY <1>1, <1>3 DEF Taken, InTurn
<1>5. /\ Queued("Closed", c)' = {Len(commands) + 1}
      /\ Queued("Connected", c)' = {} /\ Queued("Request", c)' = Queued("Request", c)
      /\ Queued("Request", c) \subseteq 1 .. Len(commands)
  BY <1>1, <1>2, <1>4, QueueAppends DEF Kinds
<1>6. \A i \in Queued("Request", c) : i < Len(commands) + 1
  BY <1>2, <1>5
<1>7. Taken(c)'
  BY <1>1, <1>3, <1>5, <1>6 DEF Taken, InTurn, TaskHolds
<1>8. ASSUME NEW d \in Connections, d # c PROVE Taken(d)'
  BY <1>1, <1>2, <1>3, <1>8, OthersTaken
<1>9. /\ task' \in [Connections -> TaskStates] /\ awaited' \in [Connections -> 0 .. MaxRequests]
  BY <1>1, <1>2, ServerAssumption DEF TaskStates
<1>10. \A d \in Connections : Taken(d)'
  BY <1>7, <1>8
<1>11. Awaits'
  BY <1>1, <1>2 DEF ServerInv, Awaits
<1> QED
  BY <1>1, <1>9, <1>10, <1>11, ProducerInv DEF ServerInv, ServerTypes, TypeOK

\* The application's commands are of no connection.
LEMMA AppCommandInv ==
  ASSUME ServerInv, running, NEW m \in Commands, m.type \notin Kinds, Queue(m),
         UNCHANGED <<signalerVars, task, awaited, requests, waiting, metadata, origin, running>>,
         app' \in [Joins -> AppStates]
  PROVE  ServerInv'
<1>1. \A d \in Connections : Taken(d)'
  BY OthersTaken DEF signalerVars
<1>2. Awaits'
  BY DEF ServerInv, Awaits
<1> QED
  BY <1>1, <1>2, ProducerInv DEF ServerInv, ServerTypes, TypeOK

-----------------------------------------------------------------------------
(* The driver                                                              *)

\* A command that was taken is gone from the turns of its connection, and the
\* others' are as before: what is left in order stays in order.
LEMMA TakeMoves ==
  ASSUME ServerInv, NEW type, Take(type), NEW d \in Connections
  PROVE  /\ Head(commands) \in Commands /\ Head(commands).type = type /\ output = <<>> /\ running
         /\ commands' \in Seq(Commands) /\ Taken(d) /\ Replied(d)
         /\ \A k \in Kinds :
              /\ Queued(k, d)' = {i \in Nat \ {0} : i + 1 \in Queued(k, d)}
              /\ Queued(k, d) \subseteq Nat \ {0}
              /\ 1 \in Queued(k, d) <=> type = k /\ Head(commands).connection = d
BY QueueMoves DEF Take, ServerInv, ServerTypes

\* The turns of a connection that the command taken is not of.
LEMMA UntakenTaken ==
  ASSUME ServerInv, NEW type, Take(type), NEW d \in Connections,
         type \in Kinds => Head(commands).connection # d,
         task'[d] = task[d], waiting'[d] = waiting[d], connections'[d] = connections[d]
  PROVE  Taken(d)'
<1>1. /\ Taken(d)
      /\ \A k \in Kinds : /\ Queued(k, d)' = {i \in Nat \ {0} : i + 1 \in Queued(k, d)}
                          /\ Queued(k, d) \subseteq Nat \ {0} /\ 1 \notin Queued(k, d)
  BY TakeMoves
<1>2. ASSUME NEW k \in Kinds
      PROVE  /\ \A i \in Queued(k, d)' : i \in Nat \ {0} /\ i + 1 \in Queued(k, d)
             /\ \A i \in Queued(k, d) : i \in Nat /\ i - 1 \in Queued(k, d)' /\ i - 1 + 1 = i
             /\ \A i : Queued(k, d) = {i + 1} /\ i \in Queued(k, d)' => Queued(k, d)' = {i}
             /\ Queued(k, d)' = {} <=> Queued(k, d) = {}
  <2>1. \A i \in Queued(k, d)' : i \in Nat \ {0} /\ i + 1 \in Queued(k, d)
    BY <1>1
  <2>2. \A i \in Queued(k, d) : i \in Nat /\ i - 1 \in Nat \ {0} /\ i - 1 + 1 = i
    BY <1>1
  <2>3. \A i \in Queued(k, d) : i - 1 \in Queued(k, d)'
    BY <1>1, <2>2
  <2>4. ASSUME NEW i, Queued(k, d) = {i + 1}, i \in Queued(k, d)', NEW x \in Queued(k, d)'
        PROVE  x = i
    BY <2>1, <2>4
  <2> QED
    BY <2>1, <2>2, <2>3, <2>4
<1>3. ASSUME NEW i \in Queued("Connected", d)'
      PROVE  task'[d] = "admitting" /\ Queued("Connected", d)' = {i}
  BY <1>1, <1>2 DEF Kinds, Taken, InTurn
<1>4. ASSUME NEW i \in Queued("Request", d)'
      PROVE  /\ task'[d] \in {"awaiting", "ended"} /\ Queued("Request", d)' = {i}
             /\ waiting'[d] = 0 /\ connections'[d] # None
             /\ \A k \in Queued("Closed", d)' : i < k
  <2>1. i \in Nat /\ i + 1 \in Queued("Request", d)
    BY <1>2 DEF Kinds
  <2>2. /\ task[d] \in {"awaiting", "ended"} /\ Queued("Request", d) = {i + 1}
        /\ waiting[d] = 0 /\ connections[d] # None
        /\ \A k \in Queued("Closed", d) : i + 1 < k
    BY <1>1, <2>1 DEF Taken, InTurn
  <2>3. \A k \in Queued("Closed", d)' : k \in Nat /\ k + 1 \in Queued("Closed", d)
    BY <1>2 DEF Kinds
  <2> QED
    BY <1>2, <2>1, <2>2, <2>3 DEF Kinds
<1>5. Queued("Closed", d)' # {} => task'[d] = "ended"
  BY <1>1, <1>2 DEF Kinds, Taken, InTurn
<1>6. task'[d] = "ended" /\ Queued("Closed", d)' = {} =>
        connections'[d] = None /\ waiting'[d] = 0 /\ Queued("Request", d)' = {}
  BY <1>1, <1>2 DEF Kinds, Taken, TaskHolds
<1>7. InTurn(d)'
  BY <1>3, <1>4, <1>5 DEF InTurn
<1>8. TaskHolds(d)'
  BY <1>1, <1>6 DEF Taken, TaskHolds
<1> QED
  BY <1>7, <1>8 DEF Taken

\* What the signaler keeps, and the driver's own state, have their types.
LEMMA DriverTypes ==
  ASSUME ServerInv, SignalerInv', next_join' \in 1 .. MaxJoins + 1,
         server_data' \in BOOLEAN, token_trust' \in BOOLEAN, running' = running,
         task' \in [Connections -> TaskStates], awaited' \in [Connections -> 0 .. MaxRequests],
         waiting' \in [Connections -> 0 .. MaxRequests], requests' = requests,
         metadata' \subseteq Joins, app' \in [Joins -> AppStates],
         origin' \in [Joins -> 0 .. MaxRequests],
         commands' \in Seq(Commands), output' \in Seq(Outputs)
  PROVE  ServerTypes'
BY DEF ServerInv, ServerTypes, TypeOK, SignalerInv, SignalerTypes, ConnectionEntry, JoinEntry

LEMMA HandleConnectedInv ==
  ASSUME ServerInv, HandleConnected
  PROVE  ServerInv'
<1>0. PICK c, p : c = Head(commands).connection /\ p = Head(commands).peer
  OBVIOUS
<1>1. /\ Take("Connected") /\ connected(c, p) /\ output' = <<>>
      /\ task' = [task EXCEPT ![c] = IF Refused(p) THEN "ended" ELSE "idle"]
      /\ UNCHANGED <<awaited, requests, waiting, metadata, app, origin, running>>
      /\ UNCHANGED <<pending, next_join, server_data, token_trust>>
      /\ commands \in Seq(Commands) /\ commands # <<>> /\ Head(commands).type = "Connected"
      /\ running /\ output = <<>>
  BY <1>0 DEF HandleConnected, connected, Take, ServerInv, ServerTypes
<1>2. c \in Connections /\ p \in Peers /\ commands' \in Seq(Commands)
  BY <1>0, <1>1, QueueMoves, CommandFields DEF Take, Kinds
<1>3. /\ Taken(c)
      /\ \A k \in Kinds : /\ Queued(k, c)' = {i \in Nat \ {0} : i + 1 \in Queued(k, c)}
                          /\ Queued(k, c) \subseteq Nat \ {0}
                          /\ 1 \in Queued(k, c) <=> k = "Connected"
  BY <1>0, <1>1, <1>2, TakeMoves
<1>4. /\ task[c] = "admitting" /\ Queued("Connected", c) = {1} /\ Queued("Request", c) = {}
      /\ Queued("Closed", c) = {} /\ connections[c] = None /\ waiting[c] = 0
  BY <1>3 DEF Kinds, Taken, InTurn, TaskHolds
<1>5. Queued("Connected", c)' = {} /\ Queued("Request", c)' = {} /\ Queued("Closed", c)' = {}
  BY <1>3, <1>4 DEF Kinds
<1>6. SignalerInv'
  BY <1>1, <1>2, <1>4, ConnectedInv DEF ServerInv
<1>7. /\ task \in [Connections -> TaskStates] /\ connections \in [Connections -> ConnectionEntry \cup {None}]
  BY DEF ServerInv, ServerTypes, TypeOK, SignalerInv, SignalerTypes
<1>8. Taken(c)'
  <2>1. CASE Refused(p)
    <3>1. task'[c] = "ended" /\ connections'[c] = None /\ waiting'[c] = 0
      BY <1>1, <1>2, <1>4, <1>7, <2>1 DEF connected
    <3> QED
      BY <1>5, <3>1 DEF Taken, InTurn, TaskHolds
  <2>2. CASE ~ Refused(p)
    <3>1. [peer |-> p, counted |-> p \notin TrustedProxies] \in ConnectionEntry
      BY <1>2 DEF ConnectionEntry
    <3>2. task'[c] = "idle" /\ connections'[c] # None /\ waiting'[c] = 0
      BY <1>1, <1>2, <1>4, <1>7, <2>2, <3>1, SignalerAssumption DEF connected, ConnectionEntry
    <3> QED
      BY <1>5, <3>2 DEF Taken, InTurn, TaskHolds
  <2> QED
    BY <2>1, <2>2
<1>9. ASSUME NEW d \in Connections, d # c PROVE Taken(d)'
  <2>1. task'[d] = task[d] /\ waiting'[d] = waiting[d] /\ connections'[d] = connections[d]
    BY <1>1, <1>2, <1>7, <1>9 DEF connected
  <2> QED
    BY <1>0, <1>1, <1>9, <2>1, UntakenTaken
<1>10. \A d \in Connections : Replied(d)'
  BY <1>1, RepliedFrame DEF ServerInv, PendingOf, PendingJoins
<1>11. task' \in [Connections -> TaskStates]
  BY <1>1, <1>2, <1>7 DEF TaskStates
<1>12. ServerTypes'
  BY <1>1, <1>2, <1>6, <1>11, DriverTypes DEF ServerInv, ServerTypes, TypeOK
<1>13. Awaits'
  BY <1>1, <1>2, <1>4, <1>7 DEF ServerInv, Awaits
<1> QED
  BY <1>1, <1>6, <1>8, <1>9, <1>10, <1>12, <1>13 DEF ServerInv, Fresh

LEMMA HandleClosedInv ==
  ASSUME ServerInv, HandleClosed
  PROVE  ServerInv'
<1>0. PICK c : c = Head(commands).connection
  OBVIOUS
<1>1. /\ Take("Closed") /\ closed(c) /\ waiting' = [waiting EXCEPT ![c] = 0]
      /\ UNCHANGED <<task, awaited, requests, metadata, app, origin, running>>
      /\ UNCHANGED <<next_join, server_data, token_trust, output>>
      /\ connections' = [connections EXCEPT ![c] = None]
      /\ commands \in Seq(Commands) /\ commands # <<>> /\ Head(commands).type = "Closed"
      /\ running /\ output = <<>>
  BY <1>0 DEF HandleClosed, closed, Take, ServerInv, ServerTypes
<1>2. c \in Connections /\ commands' \in Seq(Commands)
  BY <1>0, <1>1, QueueMoves, CommandFields DEF Take, Kinds
<1>3. /\ Taken(c)
      /\ \A k \in Kinds : /\ Queued(k, c)' = {i \in Nat \ {0} : i + 1 \in Queued(k, c)}
                          /\ Queued(k, c) \subseteq Nat \ {0}
                          /\ 1 \in Queued(k, c) <=> k = "Closed"
  BY <1>0, <1>1, <1>2, TakeMoves
<1>4. task[c] = "ended" /\ Queued("Connected", c) = {} /\ Queued("Request", c) = {}
  <2>1. 1 \in Queued("Closed", c)
    BY <1>3 DEF Kinds
  <2>2. task[c] = "ended" /\ Queued("Connected", c) = {}
    BY <1>3, <2>1 DEF Taken, InTurn
  <2>3. \A i \in Queued("Request", c) : i \in Nat \ {0} /\ i < 1
    BY <1>3, <2>1 DEF Kinds, Taken, InTurn
  <2> QED
    BY <2>2, <2>3
<1>5. Queued("Connected", c)' = {} /\ Queued("Request", c)' = {}
  BY <1>3, <1>4 DEF Kinds
<1>6. SignalerInv'
  BY <1>1, <1>2, ClosedInv DEF ServerInv
<1>7. /\ waiting \in [Connections -> 0 .. MaxRequests] /\ connections \in [Connections -> ConnectionEntry \cup {None}]
      /\ pending \in [Joins -> JoinEntry \cup {None}]
  BY DEF ServerInv, ServerTypes, TypeOK, SignalerInv, SignalerTypes
<1>8. waiting'[c] = 0 /\ connections'[c] = None /\ task'[c] = "ended"
  BY <1>1, <1>2, <1>4, <1>7
<1>9. Taken(c)'
  BY <1>5, <1>8 DEF Taken, InTurn, TaskHolds
<1>10. ASSUME NEW d \in Connections, d # c PROVE Taken(d)'
  <2>1. task'[d] = task[d] /\ waiting'[d] = waiting[d] /\ connections'[d] = connections[d]
    BY <1>1, <1>2, <1>7, <1>10
  <2> QED
    BY <1>0, <1>1, <1>10, <2>1, UntakenTaken
<1>11. PendingOf(c)' = {}
  <2>1. CASE connections[c] = None
    <3>1. pending' = pending
      BY <1>1, <2>1 DEF closed
    <3>2. \A j \in PendingJoins : connections[pending[j].connection] # None
      BY DEF ServerInv, SignalerInv, PendingWithinLimit
    <3> QED
      BY <2>1, <3>1, <3>2 DEF PendingOf, PendingJoins
  <2>2. CASE connections[c] # None
    BY <1>1, <2>2 DEF closed, PendingOf, PendingJoins
  <2> QED
    BY <2>1, <2>2
<1>12. \A d \in Connections : Owed(d)' = {}
  BY <1>1 DEF Owed
<1>13. Replied(c)'
  BY <1>2, <1>8, <1>11, <1>12 DEF Replied, OneReply, SameOrigin
<1>14. ASSUME NEW d \in Connections, d # c PROVE Replied(d)'
  <2>1. PendingOf(d)' = PendingOf(d)
    BY <1>1, <1>7, <1>14 DEF closed, PendingOf, PendingJoins, JoinEntry
  <2>2. waiting'[d] = waiting[d] /\ Replied(d)
    BY <1>1, <1>7, <1>14 DEF ServerInv
  <2> QED
    BY <1>1, <2>1, <2>2, RepliedFrame
<1>15. waiting' \in [Connections -> 0 .. MaxRequests]
  BY <1>1, <1>2, <1>7, ServerAssumption
<1>16. ServerTypes'
  BY <1>1, <1>2, <1>6, <1>15, DriverTypes DEF ServerInv, ServerTypes, TypeOK
<1>17. Fresh'
  BY <1>1 DEF closed, ServerInv, Fresh
<1>18. Awaits'
  BY <1>1 DEF ServerInv, Awaits
<1> QED
  BY <1>1, <1>6, <1>9, <1>10, <1>13, <1>14, <1>16, <1>17, <1>18 DEF ServerInv
\* A request is owed its response at once, or its join holds the place.
LEMMA HandleRequestInv ==
  ASSUME ServerInv, HandleRequest
  PROVE  ServerInv'
<1>0. PICK c, r, n : c = Head(commands).connection /\ r = Head(commands).request
                     /\ n = Head(commands).serial
  OBVIOUS
<1>1. /\ Take("Request") /\ handle_request(c, r) /\ waiting' = [waiting EXCEPT ![c] = n]
      /\ origin' = IF next_join' # next_join THEN [origin EXCEPT ![next_join] = n] ELSE origin
      /\ UNCHANGED <<task, awaited, requests, metadata, app, running>>
      /\ commands \in Seq(Commands) /\ commands # <<>> /\ Head(commands).type = "Request"
      /\ running /\ output = <<>>
  BY <1>0 DEF HandleRequest, Take, ServerInv, ServerTypes
<1>2. c \in Connections /\ r \in Requests /\ n \in 1 .. MaxRequests /\ commands' \in Seq(Commands)
  BY <1>0, <1>1, QueueMoves, CommandFields DEF Take, Kinds
<1>3. /\ Taken(c) /\ Replied(c)
      /\ \A k \in Kinds : /\ Queued(k, c)' = {i \in Nat \ {0} : i + 1 \in Queued(k, c)}
                          /\ Queued(k, c) \subseteq Nat \ {0}
                          /\ 1 \in Queued(k, c) <=> k = "Request"
  BY <1>0, <1>1, <1>2, TakeMoves
<1>4. /\ task[c] \in {"awaiting", "ended"} /\ Queued("Connected", c) = {}
      /\ Queued("Request", c) = {1} /\ connections[c] # None /\ waiting[c] = 0
      /\ task[c] = "ended" => Queued("Closed", c) # {}
  BY <1>3 DEF Kinds, Taken, InTurn, TaskHolds
<1>5. Queued("Connected", c)' = {} /\ Queued("Request", c)' = {}
  BY <1>3, <1>4 DEF Kinds
<1>6. Queued("Closed", c)' # {} <=> Queued("Closed", c) # {}
  <2>1. ASSUME NEW i \in Queued("Closed", c) PROVE i - 1 \in Queued("Closed", c)'
    <3>1. i \in Nat \ {0} /\ i # 1
      BY <1>3 DEF Kinds
    <3>2. i - 1 \in Nat \ {0} /\ i - 1 + 1 = i
      BY <3>1
    <3> QED
      BY <1>3, <3>2 DEF Kinds
  <2> QED
    BY <1>3, <2>1 DEF Kinds
<1>7. /\ waiting \in [Connections -> 0 .. MaxRequests] /\ origin \in [Joins -> 0 .. MaxRequests]
      /\ pending \in [Joins -> JoinEntry \cup {None}] /\ next_join \in 1 .. MaxJoins + 1
  BY DEF ServerInv, ServerTypes, TypeOK, SignalerInv, SignalerTypes
<1>8. UNCHANGED <<connections, server_data, token_trust>>
  BY <1>1 DEF handle_request, status_request, join, respond
<1>9. SignalerInv'
  BY <1>1, <1>2, <1>4, RequestInv DEF ServerInv
<1>10. waiting' \in [Connections -> 0 .. MaxRequests] /\ waiting'[c] = n /\ n # 0
  BY <1>1, <1>2, <1>7
<1>11. Taken(c)'
  BY <1>1, <1>3, <1>4, <1>5, <1>6, <1>8 DEF Taken, InTurn, TaskHolds
<1>12. ASSUME NEW d \in Connections, d # c PROVE Taken(d)'
  <2>1. task'[d] = task[d] /\ waiting'[d] = waiting[d] /\ connections'[d] = connections[d]
    BY <1>1, <1>2, <1>7, <1>8, <1>12
  <2> QED
    BY <1>0, <1>1, <1>12, <2>1, UntakenTaken
<1>13. PendingOf(c) = {} /\ \A d \in Connections : Owed(d) = {} /\ Replied(d)
  <2>1. PendingOf(c) = {}
    BY <1>3, <1>4 DEF Replied, OneReply
  <2>2. \A d \in Connections : Owed(d) = {}
    BY <1>1 DEF Owed
  <2> QED
    BY <1>1, <2>1, <2>2 DEF ServerInv
<1>14. Awaits'
  BY <1>1 DEF ServerInv, Awaits
<1>15. CASE \E status \in {200, 401, 404, 405, 503} : respond(c, status)
  <2>1. PICK status \in {200, 401, 404, 405, 503} : respond(c, status)
    BY <1>15
  <2>2. PICK o : o = Response(c, status, None)
    OBVIOUS
  <2>3. output' = <<o>> /\ UNCHANGED <<pending, next_join, origin>>
    BY <1>1, <2>1, <2>2 DEF respond
  <2>4. /\ o \in Outputs /\ o.type = "Response" /\ o.connection = c /\ o.join = None
    BY <1>2, <2>2 DEF Response, Outputs
  <2>5. Owed(c)' = {1} /\ output'[1].join = None
    BY <2>3, <2>4 DEF Owed
  <2>6. \A d \in Connections : d # c => Owed(d)' = {}
    BY <2>3, <2>4 DEF Owed
  <2>7. \A d \in Connections : PendingOf(d)' = PendingOf(d)
    BY <2>3 DEF PendingOf, PendingJoins
  <2>8. Replied(c)'
    <3>1. PendingOf(c)' = {}
      BY <1>2, <1>13, <2>7
    <3>2. OneReply(c)'
      BY <1>10, <2>5, <3>1 DEF OneReply
    <3>3. SameOrigin(c)'
      BY <2>5, <3>1 DEF SameOrigin
    <3> QED
      BY <3>2, <3>3 DEF Replied
  <2>9. ASSUME NEW d \in Connections, d # c PROVE Replied(d)'
    <3>1. waiting'[d] = waiting[d] /\ Owed(d)' = {} /\ PendingOf(d)' = PendingOf(d) /\ Owed(d) = {}
      BY <1>1, <1>2, <1>7, <1>13, <2>6, <2>7, <2>9
    <3>2. OneReply(d) /\ SameOrigin(d)
      BY <1>13, <2>9 DEF Replied
    <3>3. OneReply(d)'
      BY <3>1, <3>2 DEF OneReply
    <3>4. SameOrigin(d)'
      BY <2>3, <3>1, <3>2 DEF SameOrigin
    <3> QED
      BY <3>3, <3>4 DEF Replied
  <2>10. output' \in Seq(Outputs)
    BY <2>3, <2>4
  <2>11. ServerTypes' /\ Fresh'
    <3>1. Fresh'
      BY <2>3 DEF ServerInv, Fresh
    <3>2. next_join' \in 1 .. MaxJoins + 1 /\ origin' \in [Joins -> 0 .. MaxRequests]
      BY <1>7, <2>3
    <3>3. ServerTypes'
      BY <1>1, <1>2, <1>8, <1>9, <1>10, <2>10, <3>2, DriverTypes
         DEF ServerInv, ServerTypes, TypeOK
    <3> QED
      BY <3>1, <3>3
  <2> QED
    BY <1>1, <1>9, <1>11, <1>12, <1>14, <2>8, <2>9, <2>11 DEF ServerInv
<1>16. CASE /\ next_join \in Joins /\ next_join' = next_join + 1
            /\ pending' = [pending EXCEPT ![next_join] = [connection |-> c, left |-> AnswerTimeout]]
            /\ output' = Append(output, Offer(next_join))
  <2>1. PICK j \in Joins : j = next_join
    BY <1>16
  <2>2. PICK e : e = [connection |-> c, left |-> AnswerTimeout]
    OBVIOUS
  <2>3. e \in JoinEntry /\ e.connection = c /\ e # None
    BY <1>2, <2>2, SignalerAssumption DEF JoinEntry
  <2>4. /\ pending' = [pending EXCEPT ![j] = e] /\ next_join' = j + 1
        /\ origin' = [origin EXCEPT ![j] = n] /\ pending[j] = None
        /\ output' = <<Offer(j)>> /\ j \in 1 .. MaxJoins
    BY <1>1, <1>7, <1>16, <2>1, <2>2 DEF ServerInv, Fresh, Joins
  <2>5. Offer(j) \in Outputs /\ Offer(j).type = "Offer"
    BY DEF Offer, Outputs
  <2>6. \A d \in Connections : Owed(d)' = {}
    BY <2>4, <2>5 DEF Owed
  <2>7. PendingOf(c)' = {j}
    <3>1. pending'[j] = e /\ \A i \in Joins : i # j => pending'[i] = pending[i]
      BY <1>7, <2>4
    <3>2. ASSUME NEW i \in Joins PROVE i \in PendingOf(c)' <=> i = j
      BY <1>13, <2>3, <3>1 DEF PendingOf, PendingJoins
    <3> QED
      BY <3>2 DEF PendingOf, PendingJoins
  <2>8. ASSUME NEW d \in Connections, d # c PROVE PendingOf(d)' = PendingOf(d)
    BY <1>7, <2>3, <2>4, <2>8 DEF PendingOf, PendingJoins
  <2>9. origin'[j] = n
    BY <1>7, <2>4
  <2>10. Replied(c)'
    BY <1>2, <1>10, <2>6, <2>7, <2>9 DEF Replied, OneReply, SameOrigin
  <2>11. ASSUME NEW d \in Connections, d # c PROVE Replied(d)'
    <3>1. waiting'[d] = waiting[d] /\ Owed(d)' = {} /\ PendingOf(d)' = PendingOf(d) /\ Owed(d) = {}
      BY <1>1, <1>2, <1>7, <1>13, <2>6, <2>8, <2>11
    <3>2. ASSUME NEW i \in PendingOf(d) PROVE origin'[i] = origin[i]
      BY <1>7, <2>4 DEF PendingOf, PendingJoins
    <3> QED
      BY <1>13, <3>1, <3>2 DEF Replied, OneReply, SameOrigin
  <2>12. /\ output' \in Seq(Outputs) /\ next_join' \in 1 .. MaxJoins + 1
         /\ origin' \in [Joins -> 0 .. MaxRequests]
    <3>1. n \in 0 .. MaxRequests
      BY <1>2
    <3>2. next_join' \in 1 .. MaxJoins + 1
      BY <2>4, SignalerAssumption
    <3> QED
      BY <1>7, <2>4, <2>5, <3>1, <3>2
  <2>13. ServerTypes'
    BY <1>1, <1>2, <1>8, <1>9, <1>10, <2>12, DriverTypes DEF ServerInv, ServerTypes, TypeOK
  <2>14. Fresh'
    <3> SUFFICES ASSUME NEW i \in Joins, i >= j + 1 PROVE pending'[i] = None
      BY <2>4 DEF Fresh
    <3>1. i # j /\ i >= j
      BY DEF Joins
    <3> QED
      BY <1>7, <2>1, <2>4, <3>1 DEF ServerInv, Fresh
  <2> QED
    BY <1>1, <1>9, <1>11, <1>12, <1>14, <2>10, <2>11, <2>13, <2>14 DEF ServerInv
<1> QED
  BY <1>1, <1>15, <1>16 DEF handle_request, status_request, join
\* An answer or a rejection turns the join that waits into the response owed; one
\* that comes too late changes nothing.
LEMMA CompleteInv ==
  ASSUME ServerInv, NEW type, Take(type), type \notin Kinds,
         NEW j \in Joins, NEW status \in Nat, complete(j, status), metadata' \subseteq metadata,
         UNCHANGED <<task, awaited, requests, waiting, app, origin, running>>
  PROVE  ServerInv'
<1>1. /\ UNCHANGED <<connections, per_address, next_join, server_data, token_trust>>
      /\ output = <<>> /\ running /\ commands \in Seq(Commands) /\ commands # <<>>
      /\ commands' = Tail(commands)
  BY DEF complete, Take, ServerInv, ServerTypes
<1>2. \A d \in Connections : Taken(d)'
  BY <1>1, UntakenTaken
<1>3. /\ pending \in [Joins -> JoinEntry \cup {None}] /\ commands' \in Seq(Commands)
  BY <1>1, QueueMoves DEF ServerInv, SignalerInv, SignalerTypes
<1>4. pending' \in [Joins -> JoinEntry \cup {None}]
  BY <1>3 DEF complete
<1>5. \A i \in Joins : pending'[i] # None => pending'[i] = pending[i]
  BY <1>3 DEF complete
<1>6. SignalerInv'
  BY <1>1, <1>4, <1>5, FewerJoinsInv DEF ServerInv
<1>7. Fresh' /\ Awaits'
  BY <1>1, <1>5 DEF ServerInv, Fresh, Awaits
<1>8. ASSUME output' \in Seq(Outputs) PROVE ServerTypes'
  BY <1>1, <1>3, <1>6, <1>8, DriverTypes DEF ServerInv, ServerTypes, TypeOK
<1>9. CASE pending[j] = None
  <2>1. UNCHANGED <<pending, output>>
    BY <1>9 DEF complete
  <2>2. \A d \in Connections : Replied(d)'
    BY <1>1, <2>1, RepliedFrame DEF ServerInv, PendingOf, PendingJoins
  <2>3. ServerTypes'
    BY <1>8, <2>1 DEF ServerInv, ServerTypes
  <2> QED
    BY <1>2, <1>6, <1>7, <2>2, <2>3 DEF ServerInv
<1>10. CASE pending[j] # None
  <2>1. PICK c \in Connections : c = pending[j].connection
    BY <1>3, <1>10 DEF JoinEntry
  <2>2. PICK o : o = Response(c, status, j)
    OBVIOUS
  <2>3. output' = <<o>> /\ pending' = [pending EXCEPT ![j] = None]
    BY <1>1, <1>10, <2>1, <2>2 DEF complete
  <2>4. o \in Outputs /\ o.type = "Response" /\ o.connection = c /\ o.join = j
    BY <2>2 DEF Response, Outputs
  <2>5. /\ Owed(c)' = {1} /\ output'[1].join = j
        /\ \A d \in Connections : d # c => Owed(d)' = {}
    BY <2>3, <2>4 DEF Owed
  <2>6. \A d \in Connections : Owed(d) = {} /\ OneReply(d) /\ SameOrigin(d)
    BY <1>1 DEF Owed, ServerInv, Replied
  <2>7. j \in PendingOf(c)
    BY <1>10, <2>1 DEF PendingOf, PendingJoins
  <2>8. waiting[c] # 0 /\ PendingOf(c) = {j} /\ waiting[c] = origin[j]
    BY <2>6, <2>7 DEF OneReply, SameOrigin
  <2>9. PendingOf(c)' = {}
    <3>1. \A i \in Joins : i \in PendingOf(c)' => i # j /\ i \in PendingOf(c)
      BY <1>3, <2>3 DEF PendingOf, PendingJoins
    <3>2. PendingOf(c)' \subseteq Joins
      BY DEF PendingOf, PendingJoins
    <3> QED
      BY <2>8, <3>1, <3>2
  <2>10. ASSUME NEW d \in Connections, d # c PROVE PendingOf(d)' = PendingOf(d)
    BY <1>3, <2>1, <2>3, <2>10 DEF PendingOf, PendingJoins
  <2>11. Replied(c)'
    <3>1. OneReply(c)'
      BY <2>5, <2>8, <2>9 DEF OneReply
    <3>2. SameOrigin(c)'
      BY <2>5, <2>8, <2>9 DEF SameOrigin
    <3> QED
      BY <3>1, <3>2 DEF Replied
  <2>12. ASSUME NEW d \in Connections, d # c PROVE Replied(d)'
    <3>1. Owed(d) = {} /\ Owed(d)' = {} /\ PendingOf(d)' = PendingOf(d) /\ OneReply(d) /\ SameOrigin(d)
      BY <2>5, <2>6, <2>10, <2>12
    <3> QED
      BY <3>1 DEF Replied, OneReply, SameOrigin
  <2>13. output' \in Seq(Outputs)
    BY <2>3, <2>4
  <2> QED
    BY <1>1, <1>2, <1>6, <1>7, <1>8, <2>11, <2>12, <2>13 DEF ServerInv
<1> QED
  BY <1>9, <1>10

LEMMA HandleAnswerInv ==
  ASSUME ServerInv, HandleAnswer \/ HandleReject
  PROVE  ServerInv'
<1>0. PICK m : m = Head(commands)
  OBVIOUS
<1>1. ASSUME Take(m.type), m.type \in {"Answer", "Reject"}
      PROVE  m \in Commands
  BY <1>0, <1>1, QueueMoves DEF Take, ServerInv, ServerTypes
<1>2. CASE HandleAnswer
  <2>1. Take("Answer") /\ m.type = "Answer"
    BY <1>0, <1>2 DEF HandleAnswer, Take
  <2>2. m.join \in Joins
    BY <1>1, <2>1, CommandFields
  <2> QED
    BY <1>0, <1>2, <2>1, <2>2, CompleteInv DEF HandleAnswer, answer, Kinds
<1>3. CASE HandleReject
  <2>1. Take("Reject") /\ m.type = "Reject"
    BY <1>0, <1>3 DEF HandleReject, Take
  <2>2. m.join \in Joins /\ m.reason \in RejectReasons
    BY <1>1, <2>1, CommandFields
  <2>3. StatusOf[m.reason] \in Nat
    BY <2>2 DEF StatusOf, RejectReasons
  <2> QED
    BY <1>0, <1>3, <2>1, <2>2, <2>3, CompleteInv DEF HandleReject, reject, Kinds
<1> QED
  BY <1>2, <1>3

LEMMA HandleConfigureInv ==
  ASSUME ServerInv, HandleConfigure
  PROVE  ServerInv'
<1>1. PICK type : Take(type) /\ type \in {"SetServerData", "SetTokenTrust"}
  BY DEF HandleConfigure
<1>2. /\ UNCHANGED <<connections, per_address, pending, next_join, output>>
      /\ UNCHANGED <<task, awaited, requests, waiting, metadata, app, origin, running>>
  BY DEF HandleConfigure, set_server_data, set_token_trust
<1>3. /\ commands \in Seq(Commands) /\ commands # <<>> /\ commands' = Tail(commands)
      /\ Head(commands).type = type
  BY <1>1 DEF Take, ServerInv, ServerTypes
<1>4. commands' \in Seq(Commands) /\ Head(commands) \in Commands
  BY <1>3, QueueMoves
<1>5. server_data' \in BOOLEAN /\ token_trust' \in BOOLEAN
  <2>1. CASE Take("SetServerData") /\ set_server_data
    BY <2>1 DEF set_server_data, ServerInv, ServerTypes, TypeOK
  <2>2. CASE Take("SetTokenTrust") /\ set_token_trust(Head(commands).trust)
    BY <1>4, <2>2, CommandFields DEF Take, set_token_trust, ServerInv, ServerTypes, TypeOK
  <2> QED
    BY <2>1, <2>2 DEF HandleConfigure
<1>6. SignalerInv' /\ Fresh' /\ Awaits'
  BY <1>2, FewerJoinsInv DEF ServerInv, SignalerInv, SignalerTypes, Fresh, Awaits
<1>7. ServerTypes'
  BY <1>2, <1>4, <1>5, <1>6, DriverTypes DEF ServerInv, ServerTypes, TypeOK
<1>8. \A d \in Connections : Taken(d)'
  BY <1>1, <1>2, UntakenTaken DEF Kinds
<1>9. running => \A d \in Connections : Replied(d)'
  BY <1>2, RepliedFrame DEF ServerInv, PendingOf, PendingJoins
<1> QED
  BY <1>2, <1>6, <1>7, <1>8, <1>9 DEF ServerInv
\* A step of the signaler that no command caused leaves the turns alone.
LEMMA AsideInv ==
  ASSUME ServerInv, running, UNCHANGED serverVars,
         UNCHANGED <<connections, per_address, next_join, server_data, token_trust>>,
         pending' \in [Joins -> JoinEntry \cup {None}],
         \A j \in Joins : pending'[j] # None =>
            pending[j] # None /\ pending'[j].connection = pending[j].connection,
         output' \in Seq(Outputs), \A c \in Connections : Replied(c)'
  PROVE  ServerInv'
<1>1. UNCHANGED <<commands, task, awaited, requests, waiting, metadata, app, origin, running>>
  BY DEF serverVars
<1>2. SignalerInv'
  BY FewerJoinsInv DEF ServerInv
<1>3. Fresh' /\ Awaits'
  BY <1>1 DEF ServerInv, Fresh, Awaits
<1>4. ServerTypes'
  BY <1>1, <1>2, DriverTypes DEF ServerInv, ServerTypes, TypeOK
<1>5. \A c \in Connections : Taken(c)'
  BY <1>1, TakenFrame DEF ServerInv, Queued
<1> QED
  BY <1>2, <1>3, <1>4, <1>5 DEF ServerInv

\* Each overdue join is turned into one response: in an order that names every one
\* of them and is no longer than their number, none is named twice.
LEMMA HandleTimerInv ==
  ASSUME ServerInv, HandleTimer
  PROVE  ServerInv'
<1>1. /\ running /\ output = <<>> /\ UNCHANGED serverVars
      /\ UNCHANGED <<connections, per_address, next_join, server_data, token_trust>>
      /\ pending' = [j \in Joins |-> IF j \in Overdue THEN None ELSE pending[j]]
      /\ pending \in [Joins -> JoinEntry \cup {None}]
      /\ UNCHANGED <<waiting, origin>>
  BY DEF HandleTimer, handle_update, ServerInv, SignalerInv, SignalerTypes, serverVars
<1>2. PICK order \in [1 .. Cardinality(Overdue) -> Overdue] :
        /\ \A j \in Overdue : \E i \in DOMAIN order : order[i] = j
        /\ output' = output \o
             [i \in DOMAIN order |->
                Response(pending[order[i]].connection, StatusOf["Timeout"], order[i])]
  BY DEF HandleTimer, handle_update
<1>3. PICK n, late : n = Cardinality(Overdue) /\ late = Overdue
  OBVIOUS
<1>4. IsFiniteSet(late) /\ n \in Nat /\ late \subseteq PendingJoins
  BY <1>3, Finite, FS_Subset, FS_CardinalityType DEF Overdue
<1>5. order \in [1 .. n -> late] /\ \A j \in late : \E i \in 1 .. n : order[i] = j
  BY <1>2, <1>3
<1>6. \A i, k \in 1 .. n : order[i] = order[k] => i = k
  <2>1. IsFiniteSet(1 .. n) /\ Cardinality(1 .. n) = n
    BY <1>4, FS_Interval
  <2>2. order \in Surjection(1 .. n, late)
    BY <1>5 DEF Surjection
  <2>3. order \in Injection(1 .. n, late)
    BY <1>3, <1>4, <2>1, <2>2, FS_SurjSameCardinalityImpliesInj
  <2> QED
    BY <2>3 DEF Injection, IsInjective
<1>7. PICK replies : replies = [i \in 1 .. n |->
               Response(pending[order[i]].connection, StatusOf["Timeout"], order[i])]
  OBVIOUS
<1>8. ASSUME NEW i \in 1 .. n
      PROVE  /\ order[i] \in late /\ order[i] \in Joins /\ replies[i] \in Outputs
             /\ replies[i].type = "Response" /\ replies[i].join = order[i]
             /\ replies[i].connection = pending[order[i]].connection
  <2>1. order[i] \in late /\ order[i] \in Joins /\ pending[order[i]] \in JoinEntry
    BY <1>1, <1>4, <1>5 DEF PendingJoins
  <2> QED
    BY <1>7, <2>1 DEF Response, Outputs, StatusOf, JoinEntry
<1>9. replies \in Seq(Outputs) /\ output' = replies /\ DOMAIN output' = 1 .. n
  <2>1. replies \in [1 .. n -> Outputs]
    BY <1>7, <1>8
  <2>2. replies \in Seq(Outputs)
    BY <1>4, <2>1
  <2>3. DOMAIN order = 1 .. n /\ output' = <<>> \o replies
    BY <1>1, <1>2, <1>5, <1>7
  <2>4. output' = replies
    BY <2>2, <2>3, ConcatEmptySeq
  <2> QED
    BY <2>1, <2>2, <2>4
<1>10. \A c \in Connections : Owed(c)' = {i \in 1 .. n : pending[order[i]].connection = c}
  BY <1>8, <1>9 DEF Owed
<1>11. \A j \in Joins : pending'[j] = IF j \in late THEN None ELSE pending[j]
  BY <1>1, <1>3
<1>12. \A c \in Connections : PendingOf(c)' = PendingOf(c) \ late
  BY <1>11 DEF PendingOf, PendingJoins
<1>13. ASSUME NEW c \in Connections PROVE Replied(c)'
  <2>1. OneReply(c) /\ SameOrigin(c) /\ Owed(c) = {}
    BY <1>1 DEF ServerInv, Replied, Owed
  <2>2. \A i \in Owed(c)' : i \in 1 .. n /\ order[i] \in PendingOf(c) /\ output'[i].join = order[i]
    BY <1>4, <1>8, <1>9, <1>10 DEF PendingOf
  <2>3. SameOrigin(c)'
    BY <1>1, <1>12, <2>1, <2>2, <1>11 DEF SameOrigin
  <2>4. CASE PendingOf(c) = {}
    <3>1. Owed(c)' = {} /\ PendingOf(c)' = {}
      BY <1>12, <2>2, <2>4
    <3>2. waiting[c] = 0
      BY <2>1, <2>4 DEF OneReply
    <3> QED
      BY <1>1, <2>3, <3>1, <3>2 DEF Replied, OneReply
  <2>5. CASE PendingOf(c) # {}
    <3>1. PICK j : PendingOf(c) = {j}
      BY <2>1, <2>5 DEF OneReply
    <3>2. waiting[c] # 0
      BY <2>1, <2>5 DEF OneReply
    <3>3. CASE j \in late
      <4>1. PICK i \in 1 .. n : order[i] = j
        BY <1>5, <3>3
      <4>2. pending[j].connection = c
        BY <3>1 DEF PendingOf
      <4>3. Owed(c)' = {i}
        BY <1>6, <1>10, <2>2, <3>1, <4>1, <4>2
      <4>4. PendingOf(c)' = {}
        BY <1>12, <3>1, <3>3
      <4> QED
        BY <1>1, <2>3, <3>2, <4>3, <4>4 DEF Replied, OneReply
    <3>4. CASE j \notin late
      <4>1. Owed(c)' = {}
        BY <1>8, <2>2, <3>1, <3>4
      <4>2. PendingOf(c)' = {j}
        BY <1>12, <3>1, <3>4
      <4> QED
        BY <1>1, <2>3, <3>2, <4>1, <4>2 DEF Replied, OneReply
    <3> QED
      BY <3>3, <3>4
  <2> QED
    BY <2>4, <2>5
<1>14. pending' \in [Joins -> JoinEntry \cup {None}]
  BY <1>1
<1> QED
  BY <1>1, <1>9, <1>11, <1>13, <1>14, AsideInv
\* The output that leaves is the first; what is owed behind it moves up.
LEMMA DrainMoves ==
  ASSUME output \in Seq(Outputs), output # <<>>, output' = Tail(output)
  PROVE  /\ output' \in Seq(Outputs) /\ Head(output) \in Outputs
         /\ \A c \in Connections :
              /\ 1 \in Owed(c) <=> Head(output).type = "Response" /\ Head(output).connection = c
              /\ Owed(c) \subseteq Nat \ {0}
              /\ Owed(c)' = {i \in Nat \ {0} : i + 1 \in Owed(c)}
         /\ \A i \in DOMAIN output' : output'[i] = output[i + 1]
<1>1. /\ output' \in Seq(Outputs) /\ Len(output) \in Nat \ {0} /\ Head(output) \in Outputs
      /\ Len(output') = Len(output) - 1 /\ Head(output) = output[1]
      /\ DOMAIN output = 1 .. Len(output) /\ DOMAIN output' = 1 .. Len(output')
      /\ \A i \in 1 .. Len(output') : output'[i] = output[i + 1]
  BY HeadTailProperties, EmptySeq, LenProperties
<1>2. ASSUME NEW c \in Connections
      PROVE  Owed(c)' = {i \in Nat \ {0} : i + 1 \in Owed(c)}
  <2>1. \A i \in Nat \ {0} : i \in 1 .. Len(output') <=> i + 1 \in 1 .. Len(output)
    BY <1>1
  <2>2. \A i \in 1 .. Len(output') : i \in Nat \ {0}
    OBVIOUS
  <2> QED
    BY <1>1, <2>1, <2>2 DEF Owed
<1>3. ASSUME NEW c \in Connections PROVE Owed(c) \subseteq Nat \ {0}
  BY <1>1 DEF Owed
<1>4. ASSUME NEW c \in Connections
      PROVE  1 \in Owed(c) <=> Head(output).type = "Response" /\ Head(output).connection = c
  BY <1>1 DEF Owed
<1> QED
  BY <1>1, <1>2, <1>3, <1>4

\* A connection that the output is not a response to is owed what it was.
LEMMA DrainReplied ==
  ASSUME ServerInv, running, poll, NEW d \in Connections,
         Head(output).type = "Response" => Head(output).connection # d,
         waiting'[d] = waiting[d], origin' = origin
  PROVE  Replied(d)'
<1>1. /\ OneReply(d) /\ SameOrigin(d) /\ PendingOf(d)' = PendingOf(d)
      /\ Owed(d) \subseteq Nat \ {0} /\ 1 \notin Owed(d)
      /\ Owed(d)' = {i \in Nat \ {0} : i + 1 \in Owed(d)}
      /\ \A i \in DOMAIN output' : output'[i] = output[i + 1]
  BY DrainMoves DEF poll, ServerInv, ServerTypes, Replied, PendingOf, PendingJoins
<1>2. ASSUME NEW i \in Owed(d) PROVE i \in Nat /\ i - 1 \in Nat \ {0} /\ i - 1 + 1 = i
  BY <1>1
<1>3. \A i \in Owed(d) : i - 1 \in Owed(d)'
  BY <1>1, <1>2
<1>4. \A i \in Owed(d)' : i \in Nat \ {0} /\ i + 1 \in Owed(d) /\ output'[i] = output[i + 1]
  BY <1>1 DEF Owed
<1>5. ASSUME NEW i, Owed(d) = {i} PROVE Owed(d)' = {i - 1}
  <2>1. i \in Nat /\ i - 1 \in Owed(d)'
    BY <1>2, <1>3, <1>5
  <2>2. \A k \in Owed(d)' : k \in Nat /\ k + 1 = i
    BY <1>4, <1>5
  <2>3. \A k \in Owed(d)' : k = i - 1
    BY <2>1, <2>2
  <2> QED
    BY <2>1, <2>3
<1>6. Owed(d) = {} => Owed(d)' = {}
  BY <1>4
<1>7. OneReply(d)'
  <2>1. CASE waiting[d] = 0
    BY <1>1, <1>6, <2>1 DEF OneReply
  <2>2. CASE waiting[d] # 0
    <3>1. CASE \E i : Owed(d) = {i} /\ PendingOf(d) = {}
      BY <1>1, <1>5, <2>2, <3>1 DEF OneReply
    <3>2. CASE \E j : PendingOf(d) = {j} /\ Owed(d) = {}
      BY <1>1, <1>6, <2>2, <3>2 DEF OneReply
    <3> QED
      BY <1>1, <2>2, <3>1, <3>2 DEF OneReply
  <2> QED
    BY <2>1, <2>2
<1>8. SameOrigin(d)'
  <2>1. \A j \in PendingOf(d)' : waiting'[d] = origin'[j]
    BY <1>1 DEF SameOrigin
  <2>2. \A i \in Owed(d)' : output'[i].join # None => waiting'[d] = origin'[output'[i].join]
    BY <1>1, <1>4 DEF SameOrigin
  <2> QED
    BY <2>1, <2>2 DEF SameOrigin
<1> QED
  BY <1>7, <1>8 DEF Replied

\* A response uses up the reply sender; a task that hung up is not woken.
LEMMA DrainInv ==
  ASSUME ServerInv, Drain
  PROVE  ServerInv'
<1>0. PICK o : o = Head(output)
  OBVIOUS
<1>1. /\ running /\ poll /\ output \in Seq(Outputs) /\ output # <<>> /\ output' = Tail(output)
      /\ UNCHANGED <<connections, per_address, pending, next_join, server_data, token_trust>>
      /\ UNCHANGED <<commands, requests, origin, running>>
  BY DEF Drain, poll, ServerInv, ServerTypes
<1>2. o \in Outputs /\ output' \in Seq(Outputs)
  BY <1>0, <1>1, DrainMoves
<1>3. SignalerInv' /\ Fresh'
  BY <1>1, FewerJoinsInv DEF ServerInv, SignalerInv, SignalerTypes, Fresh
<1>4. /\ task \in [Connections -> TaskStates] /\ awaited \in [Connections -> 0 .. MaxRequests]
      /\ waiting \in [Connections -> 0 .. MaxRequests] /\ metadata \subseteq Joins
      /\ app \in [Joins -> AppStates] /\ next_join \in 1 .. MaxJoins + 1
      /\ server_data \in BOOLEAN /\ token_trust \in BOOLEAN
      /\ origin \in [Joins -> 0 .. MaxRequests] /\ commands \in Seq(Commands)
  BY DEF ServerInv, ServerTypes, TypeOK
<1>5. \A d \in Connections : \A k \in Kinds : Queued(k, d)' = Queued(k, d)
  BY <1>1 DEF Queued
<1>6. CASE /\ o.type = "Offer"
           /\ metadata' = metadata \cup {o.join}
           /\ \E heard \in BOOLEAN : app' = IF heard THEN [app EXCEPT ![o.join] = "offered"] ELSE app
           /\ UNCHANGED <<waiting, task, awaited>>
  <2>1. o.join \in Joins
    BY <1>2, <1>6 DEF Outputs
  <2>2. metadata' \subseteq Joins /\ app' \in [Joins -> AppStates]
    BY <1>4, <1>6, <2>1 DEF AppStates
  <2>3. ServerTypes'
    BY <1>1, <1>2, <1>3, <1>4, <1>6, <2>2, DriverTypes
  <2>4. \A d \in Connections : Replied(d)'
    BY <1>0, <1>1, <1>6, DrainReplied
  <2>5. \A d \in Connections : Taken(d)'
    BY <1>1, <1>5, <1>6, TakenFrame DEF ServerInv
  <2>6. Awaits'
    BY <1>6 DEF ServerInv, Awaits
  <2> QED
    BY <1>3, <2>3, <2>4, <2>5, <2>6 DEF ServerInv
<1>7. ASSUME NEW replied \in BOOLEAN, NEW c \in Connections, c = o.connection,
             replied <=> waiting[c] # 0 /\ awaited[c] = waiting[c],
             o.type = "Response",
             waiting' = [waiting EXCEPT ![c] = 0],
             task' = IF replied THEN [task EXCEPT ![c] = "idle"] ELSE task,
             awaited' = IF replied THEN [awaited EXCEPT ![c] = 0] ELSE awaited,
             UNCHANGED <<metadata, app>>
      PROVE  ServerInv'
  <2>1. /\ 1 \in Owed(c) /\ Owed(c)' = {i \in Nat \ {0} : i + 1 \in Owed(c)}
        /\ OneReply(c) /\ SameOrigin(c) /\ Taken(c)
    BY <1>0, <1>1, <1>7, DrainMoves DEF ServerInv, Replied
  <2>2. waiting[c] # 0 /\ Owed(c) = {1} /\ PendingOf(c) = {}
    BY <2>1 DEF OneReply
  <2>3. Owed(c)' = {} /\ PendingOf(c)' = {} /\ waiting'[c] = 0
    BY <1>1, <1>4, <1>7, <2>1, <2>2 DEF PendingOf, PendingJoins
  <2>4. Replied(c)'
    BY <2>3 DEF Replied, OneReply, SameOrigin
  <2>5. ASSUME NEW d \in Connections, d # c PROVE Replied(d)'
    BY <1>0, <1>1, <1>4, <1>7, <2>5, DrainReplied
  <2>6. Queued("Request", c) = {}
    BY <2>1, <2>2 DEF Taken, InTurn
  <2>7. Taken(c)'
    <3>1. /\ Queued("Request", c)' = {} /\ Queued("Closed", c)' = Queued("Closed", c)
          /\ Queued("Connected", c)' = Queued("Connected", c)
      BY <1>5, <2>6 DEF Kinds
    <3>2. CASE replied
      <4>1. task[c] = "awaiting" /\ connections'[c] # None
        BY <1>1, <1>7, <2>1, <2>2, <3>2 DEF ServerInv, Awaits, Taken, TaskHolds
      <4>2. task'[c] = "idle"
        BY <1>4, <1>7, <3>2
      <4>3. Queued("Connected", c)' = {} /\ Queued("Closed", c)' = {}
        BY <2>1, <3>1, <4>1 DEF Taken, InTurn
      <4> QED
        BY <2>3, <3>1, <4>1, <4>2, <4>3 DEF Taken, InTurn, TaskHolds
    <3>3. CASE ~ replied
      BY <1>1, <1>7, <2>1, <2>3, <3>1, <3>3 DEF Taken, InTurn, TaskHolds
    <3> QED
      BY <3>2, <3>3
  <2>8. ASSUME NEW d \in Connections, d # c PROVE Taken(d)'
    <3>1. task'[d] = task[d] /\ waiting'[d] = waiting[d] /\ connections'[d] = connections[d]
      BY <1>1, <1>4, <1>7, <2>8
    <3> QED
      BY <1>1, <1>5, <3>1, TakenFrame DEF ServerInv
  <2>9. Awaits'
    BY <1>4, <1>7 DEF ServerInv, Awaits
  <2>10. /\ task' \in [Connections -> TaskStates] /\ awaited' \in [Connections -> 0 .. MaxRequests]
         /\ waiting' \in [Connections -> 0 .. MaxRequests]
    BY <1>4, <1>7, ServerAssumption DEF TaskStates
  <2>11. ServerTypes'
    BY <1>1, <1>2, <1>3, <1>4, <1>7, <2>10, DriverTypes
  <2> QED
    BY <1>3, <2>4, <2>5, <2>7, <2>8, <2>9, <2>11 DEF ServerInv
<1>8. o.type = "Response" => o.connection \in Connections
  BY <1>2 DEF Outputs
<1>9. CASE /\ o.type = "Response"
           /\ waiting' = [waiting EXCEPT ![o.connection] = 0]
           /\ LET replied == waiting[o.connection] # 0 /\ awaited[o.connection] = waiting[o.connection]
              IN  /\ task' = IF replied THEN [task EXCEPT ![o.connection] = "idle"] ELSE task
                  /\ awaited' = IF replied THEN [awaited EXCEPT ![o.connection] = 0] ELSE awaited
           /\ UNCHANGED <<metadata, app>>
  <2>1. PICK c \in Connections : c = o.connection
    BY <1>8, <1>9
  <2>2. PICK replied \in BOOLEAN : replied = (waiting[c] # 0 /\ awaited[c] = waiting[c])
    OBVIOUS
  <2>3. /\ replied <=> waiting[c] # 0 /\ awaited[c] = waiting[c]
        /\ waiting' = [waiting EXCEPT ![c] = 0]
        /\ task' = IF replied THEN [task EXCEPT ![c] = "idle"] ELSE task
        /\ awaited' = IF replied THEN [awaited EXCEPT ![c] = 0] ELSE awaited
    BY <1>9, <2>1, <2>2
  <2> QED
    BY <1>7, <1>9, <2>1, <2>3
<1> QED
  BY <1>0, <1>6, <1>9 DEF Drain
LEMMA TickInv ==
  ASSUME ServerInv, Tick
  PROVE  ServerInv'
<1>1. /\ running /\ Elapse /\ UNCHANGED serverVars
      /\ UNCHANGED <<connections, per_address, next_join, server_data, token_trust, output>>
      /\ pending \in [Joins -> JoinEntry \cup {None}] /\ UNCHANGED <<waiting, origin>>
  BY DEF Tick, serverVars, ServerInv, SignalerInv, SignalerTypes
<1>2. ASSUME NEW j \in Joins
      PROVE  /\ pending'[j] \in JoinEntry \cup {None}
             /\ pending'[j] # None <=> pending[j] # None
             /\ pending[j] # None => pending'[j].connection = pending[j].connection
  <2>1. CASE pending[j] = None \/ pending[j].left = 0
    BY <1>1, <2>1 DEF Elapse
  <2>2. CASE pending[j] # None /\ pending[j].left # 0
    <3>1. pending'[j] = [pending[j] EXCEPT !.left = @ - 1] /\ pending[j] \in JoinEntry
      BY <1>1, <2>2 DEF Elapse
    <3>2. pending'[j] \in JoinEntry /\ pending'[j].connection = pending[j].connection
      BY <2>2, <3>1, SignalerAssumption DEF JoinEntry
    <3> QED
      BY <2>2, <3>2, SignalerAssumption DEF JoinEntry
  <2> QED
    BY <2>1, <2>2
<1>3. pending' \in [Joins -> JoinEntry \cup {None}]
  BY <1>1, <1>2 DEF Elapse
<1>4. \A c \in Connections : PendingOf(c)' = PendingOf(c)
  BY <1>2 DEF PendingOf, PendingJoins
<1>5. \A c \in Connections : Replied(c)'
  BY <1>1, <1>4, RepliedFrame DEF ServerInv
<1>6. output' \in Seq(Outputs)
  BY <1>1 DEF ServerInv, ServerTypes
<1> QED
  BY <1>1, <1>2, <1>3, <1>5, <1>6, AsideInv

LEMMA ShutdownInv ==
  ASSUME ServerInv, Shutdown
  PROVE  ServerInv'
<1>1. /\ connections' = [c \in Connections |-> None] /\ per_address' = [p \in Peers |-> 0]
      /\ pending' = [j \in Joins |-> None] /\ output' = <<>> /\ commands' = <<>>
      /\ running' = FALSE /\ next_join' = next_join
  BY DEF Shutdown
<1>2. SignalerTypes'
  BY <1>1 DEF ServerInv, SignalerInv, SignalerTypes
<1>3. \A p \in Peers : Counted(p)' = {}
  BY <1>1 DEF Counted
<1>4. PendingJoins' = {}
  BY <1>1 DEF PendingJoins
<1>5. CountsMatch'
  <2>1. \A p \in Peers : per_address'[p] = 0 /\ Cardinality(Counted(p)') = 0
    BY <1>1, <1>3, FS_EmptySet
  <2>2. \A p \in Peers : per_address'[p] = Cardinality(Counted(p)') /\ per_address'[p] <= MaxPerAddress
    BY <2>1, SignalerAssumption
  <2> QED
    BY <2>2 DEF CountsMatch, Counted
<1>6. PendingWithinLimit'
  <2>1. Cardinality(PendingJoins') = 0
    BY <1>4, FS_EmptySet
  <2> QED
    BY <1>4, <2>1, SignalerAssumption DEF PendingWithinLimit
<1>7. SignalerInv' /\ Fresh' /\ Awaits'
  BY <1>1, <1>2, <1>5, <1>6 DEF SignalerInv, Fresh, Awaits, Shutdown
<1>8. /\ task' \in [Connections -> TaskStates] /\ metadata' \subseteq Joins
      /\ awaited' \in [Connections -> 0 .. MaxRequests]
      /\ waiting' \in [Connections -> 0 .. MaxRequests]
  BY ServerAssumption DEF Shutdown, TaskStates
<1>9. /\ UNCHANGED <<next_join, server_data, token_trust, requests, app, origin>> /\ ServerTypes
      /\ running' \in BOOLEAN
  BY DEF Shutdown, ServerInv
<1>10. TypeOK'
  BY <1>2, <1>8, <1>9 DEF ServerTypes, TypeOK, SignalerTypes, ConnectionEntry, JoinEntry
<1>11. ServerTypes'
  BY <1>1, <1>9, <1>10 DEF ServerTypes
<1> QED
  BY <1>1, <1>7, <1>11 DEF ServerInv

LEMMA ServerInitInv == Init => ServerInv
<1> SUFFICES ASSUME Init PROVE ServerInv
  OBVIOUS
<1>1. SignalerInv
  BY InitInv DEF Init
<1>2. ServerTypes
  <2>1. /\ task \in [Connections -> TaskStates] /\ metadata \subseteq Joins
        /\ awaited \in [Connections -> 0 .. MaxRequests]
        /\ waiting \in [Connections -> 0 .. MaxRequests]
        /\ app \in [Joins -> AppStates] /\ origin \in [Joins -> 0 .. MaxRequests]
    BY ServerAssumption DEF Init, TaskStates, AppStates
  <2>2. next_join = 1 /\ requests = 0
    BY DEF Init, SignalerInit
  <2>3. next_join \in 1 .. MaxJoins + 1 /\ requests \in 0 .. MaxRequests
    BY <2>2, ServerAssumption, SignalerAssumption
  <2>4. server_data \in BOOLEAN /\ token_trust \in BOOLEAN /\ running \in BOOLEAN
    BY DEF Init, SignalerInit
  <2>5. commands \in Seq(Commands) /\ output \in Seq(Outputs)
    BY DEF Init, SignalerInit
  <2> QED
    BY <1>1, <2>1, <2>3, <2>4, <2>5
       DEF ServerTypes, TypeOK, SignalerInv, SignalerTypes, ConnectionEntry, JoinEntry
<1>3. Fresh /\ Awaits
  BY DEF Init, SignalerInit, Fresh, Awaits
<1>4. ASSUME NEW c \in Connections PROVE Replied(c) /\ Taken(c)
  <2>1. Owed(c) = {} /\ PendingOf(c) = {} /\ \A k : Queued(k, c) = {}
    BY DEF Init, SignalerInit, Owed, PendingOf, PendingJoins, Queued
  <2>2. task[c] = "new" /\ connections[c] = None /\ waiting[c] = 0
    BY DEF Init, SignalerInit
  <2> QED
    BY <2>1, <2>2 DEF Replied, OneReply, SameOrigin, Taken, InTurn, TaskHolds
<1> QED
  BY <1>1, <1>2, <1>3, <1>4 DEF ServerInv

LEMMA StutterInv ==
  ASSUME ServerInv, UNCHANGED vars
  PROVE  ServerInv'
<1>1. /\ UNCHANGED <<connections, per_address, pending, next_join, server_data, token_trust, output>>
      /\ UNCHANGED <<commands, task, awaited, requests, waiting, metadata, app, origin, running>>
  BY DEF vars, signalerVars, serverVars
<1>2. \A c \in Connections : Owed(c)' = Owed(c) /\ PendingOf(c)' = PendingOf(c)
  BY <1>1 DEF Owed, PendingOf, PendingJoins
<1>3. running => \A c \in Connections : Replied(c)'
  BY <1>1, <1>2, RepliedFrame DEF ServerInv
<1>4. running => \A c \in Connections : Taken(c)'
  BY <1>1, TakenFrame DEF ServerInv, Queued
<1>5. SignalerInv'
  BY <1>1, FewerJoinsInv DEF ServerInv, SignalerInv, SignalerTypes
<1>6. ServerTypes' /\ Fresh' /\ Awaits'
  BY <1>1 DEF ServerInv, ServerTypes, TypeOK, Fresh, Awaits
<1> QED
  BY <1>1, <1>3, <1>4, <1>5, <1>6 DEF ServerInv

LEMMA AppInv ==
  ASSUME ServerInv, NEW j \in Joins,
         AppAnswer(j) \/ \E reason \in AppReasons : AppReject(j, reason)
  PROVE  ServerInv'
<1>1. app \in [Joins -> AppStates]
  BY DEF ServerInv, ServerTypes, TypeOK
<1>2. CASE AppAnswer(j)
  <2>1. [type |-> "Answer", join |-> j] \in Commands
    BY DEF Commands
  <2>2. app' \in [Joins -> AppStates]
    BY <1>1, <1>2 DEF AppAnswer, AppSignal, AppStates
  <2> QED
    BY <1>2, <2>1, <2>2, AppCommandInv DEF AppAnswer, AppSignal, Kinds
<1>3. ASSUME NEW reason \in AppReasons, AppReject(j, reason) PROVE ServerInv'
  <2>1. [type |-> "Reject", join |-> j, reason |-> reason] \in Commands
    BY DEF Commands
  <2>2. app' \in [Joins -> AppStates]
    BY <1>1, <1>3 DEF AppReject, AppSignal, AppStates
  <2> QED
    BY <1>3, <2>1, <2>2, AppCommandInv DEF AppReject, AppSignal, Kinds
<1> QED
  BY <1>2, <1>3

LEMMA AppConfigureInv ==
  ASSUME ServerInv, NEW m \in Commands, m.type \notin Kinds, AppConfigure(m)
  PROVE  ServerInv'
BY AppCommandInv DEF AppConfigure, ServerInv, ServerTypes, TypeOK

\* Every step of the peers, the application, the driver and time keeps the
\* invariant.
LEMMA ServerStepInv == ServerInv /\ [Next]_vars => ServerInv'
<1> SUFFICES ASSUME ServerInv, [Next]_vars PROVE ServerInv'
  OBVIOUS
<1>1. CASE \E c \in Connections, p \in Peers : Accept(c, p)
  BY <1>1, AcceptInv
<1>2. CASE \E c \in Connections, r \in RequestKinds : SendRequest(c, r)
  BY <1>2, SendRequestInv
<1>3. CASE \E c \in Connections : HangUp(c)
  BY <1>3, HangUpInv
<1>4. CASE \E j \in Joins : AppAnswer(j) \/ \E reason \in AppReasons : AppReject(j, reason)
  BY <1>4, AppInv
<1>5. CASE AppConfigure([type |-> "SetServerData"])
  <2>1. [type |-> "SetServerData"] \in Commands
    BY DEF Commands
  <2> QED
    BY <1>5, <2>1, AppConfigureInv DEF Kinds
<1>6. ASSUME NEW b \in BOOLEAN, AppConfigure([type |-> "SetTokenTrust", trust |-> b])
      PROVE  ServerInv'
  <2>1. [type |-> "SetTokenTrust", trust |-> b] \in Commands
    BY DEF Commands
  <2> QED
    BY <1>6, <2>1, AppConfigureInv DEF Kinds
<1>7. CASE Driver
  BY <1>7, HandleConnectedInv, HandleRequestInv, HandleClosedInv, HandleAnswerInv,
     HandleConfigureInv, DrainInv DEF Driver
<1>8. CASE HandleTimer \/ Tick \/ Shutdown
  BY <1>8, HandleTimerInv, TickInv, ShutdownInv
<1>9. CASE UNCHANGED vars
  BY <1>9, StutterInv
<1> QED
  BY <1>1, <1>2, <1>3, <1>4, <1>5, <1>6, <1>7, <1>8, <1>9 DEF Next

LEMMA ServerInductive == Spec => []ServerInv
  BY ServerInitInv, ServerStepInv, PTL DEF Spec

\* The state of the server has its type, whatever peers and application send.
THEOREM ServerTypeCorrect == Spec => []TypeOK
<1>1. ServerInv => TypeOK
  BY DEF ServerInv, ServerTypes
<1> QED
  BY <1>1, ServerInductive, PTL

\* Under this driver too the counter of every peer address is exact: it opens a
\* connection once, and hands over no request behind its Closed command.
THEOREM ServerCountsAreExact == Spec => [](CountsMatch /\ PendingWithinLimit)
<1>1. ServerInv => CountsMatch /\ PendingWithinLimit
  BY DEF ServerInv, SignalerInv
<1> QED
  BY <1>1, ServerInductive, PTL

\* The reply sender held for a connection is that of the request which made its
\* pending join or its queued response, and there is exactly one such thing: a
\* late answer, a rejection or a timeout never completes a later request of the
\* same connection, and no sender is held that nothing will complete.
THEOREM RepliesAreMatched == Spec => []RepliesMatchRequests
<1>1. ServerInv => RepliesMatchRequests
  <2> SUFFICES ASSUME ServerInv, running PROVE RepliesMatchRequests
    BY DEF RepliesMatchRequests
  <2>1. \A c \in Connections : OneReply(c) /\ SameOrigin(c)
    BY DEF ServerInv, Replied
  <2>2. ASSUME NEW j \in PendingJoins PROVE waiting[pending[j].connection] = origin[j]
    <3>1. pending[j].connection \in Connections
      BY DEF ServerInv, SignalerInv, SignalerTypes, PendingJoins, JoinEntry
    <3>2. j \in PendingOf(pending[j].connection)
      BY DEF PendingOf
    <3> QED
      BY <2>1, <3>1, <3>2 DEF SameOrigin
  <2>3. ASSUME NEW c \in Connections, waiting[c] # 0
        PROVE  Cardinality(Owed(c)) + Cardinality(PendingOf(c)) = 1
    <3>1. CASE \E i : Owed(c) = {i} /\ PendingOf(c) = {}
      <4>1. Cardinality(Owed(c)) = 1 /\ Cardinality(PendingOf(c)) = 0
        BY <3>1, FS_EmptySet, FS_Singleton
      <4> QED
        BY <4>1
    <3>2. CASE \E j : PendingOf(c) = {j} /\ Owed(c) = {}
      <4>1. Cardinality(Owed(c)) = 0 /\ Cardinality(PendingOf(c)) = 1
        BY <3>2, FS_EmptySet, FS_Singleton
      <4> QED
        BY <4>1
    <3> QED
      BY <2>1, <2>3, <3>1, <3>2 DEF OneReply
  <2>4. \A c \in Connections : \A i \in Owed(c) :
          output[i].join # None => waiting[c] = origin[output[i].join]
    BY <2>1 DEF SameOrigin
  <2> QED
    BY <2>2, <2>3, <2>4 DEF RepliesMatchRequests, PendingOf
<1> QED
  BY <1>1, ServerInductive, PTL

\* Once the Closed command of an ended connection has been handled nothing of the
\* connection is left, also when it hung up with a request still in the channel.
THEOREM NothingIsLeft == Spec => []EndedLeavesNothing
<1>1. ServerInv => EndedLeavesNothing
  <2> SUFFICES ASSUME ServerInv, NEW c \in Connections, running, task[c] = "ended",
                      \A i \in DOMAIN commands :
                         commands[i].type = "Closed" => commands[i].connection # c
               PROVE  /\ connections[c] = None /\ waiting[c] = 0
                      /\ \A j \in PendingJoins : pending[j].connection # c
    BY DEF EndedLeavesNothing
  <2>1. Queued("Closed", c) = {}
    BY DEF Queued, ServerInv, ServerTypes
  <2>2. connections[c] = None /\ waiting[c] = 0
    BY <2>1 DEF ServerInv, Taken, TaskHolds
  <2>3. PendingOf(c) = {}
    BY <2>2 DEF ServerInv, Replied, OneReply
  <2> QED
    BY <2>2, <2>3 DEF PendingOf
<1> QED
  BY <1>1, ServerInductive, PTL
=============================================================================
