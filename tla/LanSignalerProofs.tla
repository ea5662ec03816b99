------------------------- MODULE LanSignalerProofs -------------------------
(***************************************************************************)
(* Proofs about LAN signaling, for every set of nodes, ids, addresses and  *)
(* signals, every interval and every number of retries.                    *)
(***************************************************************************)
EXTENDS LanSignaler, FiniteSetTheorems, TLAPS

\* The inductive invariant: a signal's count of sends is tied to its pending
\* entry, and a signal never handed over was never sent.
LanInv == TypeOK /\ DiscoveredReachable /\ SendsCounted

\* Absence is told apart from an address entry and from a pending one.
LEMMA EntriesNotNone == None \notin Entries /\ None \notin Attempts
  BY LanAssumption

\* What is discovered is finite, so that its number is a natural.
LEMMA FiniteDiscovered ==
  ASSUME NEW S \in SUBSET Ids
  PROVE  IsFiniteSet(S) /\ Cardinality(S) \in Nat
  BY LanAssumption, FS_Subset, FS_CardinalityType

\* The wait for the next retry, of an offer or of another signal.
LEMMA IntervalType ==
  ASSUME NEW s \in Signals
  PROVE  retry_interval(s) \in 0 .. RetryInterval + OfferInterval
  BY LanAssumption DEF retry_interval

\* Nothing is known, pending or sent when the signalers start.
LEMMA InitInv == Init => LanInv
<1> SUFFICES ASSUME Init PROVE LanInv
  OBVIOUS
<1>1. TypeOK
  BY LanAssumption DEF Init, TypeOK
<1>2. DiscoveredReachable
  BY LanAssumption, FS_EmptySet DEF Init, DiscoveredReachable
<1>3. SendsCounted
  BY LanAssumption DEF Init, SendsCounted
<1> QED
  BY <1>1, <1>2, <1>3 DEF LanInv

\* What sending D adds to the network is well formed when D is.
LEMMA SentType ==
  ASSUME TypeOK, NEW D, D \subseteq Datagrams
  PROVE  Sent(D) \subseteq Datagrams
  BY DEF Sent, TypeOK

\* The entry that hearing a peer leaves.
LEMMA HeardType ==
  ASSUME TypeOK, NEW n \in Nodes, NEW i \in Ids, NEW a \in Addrs, Heard(n, i, a)
  PROVE  /\ addresses' \in [Nodes -> [Ids -> Entries \cup {None}]]
         /\ \A m \in Nodes : Known(m) \subseteq Known(m)'
         /\ i \in Known(n)'
<1>1. [addr |-> a, quiet |-> 0] \in Entries
  BY LanAssumption DEF Entries
<1>2. addresses' = [addresses EXCEPT ![n] = [addresses[n] EXCEPT ![i] = [addr |-> a, quiet |-> 0]]]
  BY DEF Heard, TypeOK
<1>3. \A m \in Nodes, j \in Ids :
        addresses'[m][j] = IF m = n /\ j = i THEN [addr |-> a, quiet |-> 0] ELSE addresses[m][j]
  BY <1>2 DEF TypeOK
<1>4. addresses' \in [Nodes -> [Ids -> Entries \cup {None}]]
  BY <1>1, <1>2 DEF TypeOK
<1> QED
  BY <1>1, <1>3, <1>4, EntriesNotNone DEF Known

\* A datagram that is heard and changes nothing else, but the network.
LEMMA HeardInv ==
  ASSUME LanInv, NEW n \in Nodes, NEW i \in Ids, NEW a \in Addrs, Heard(n, i, a),
         network' \subseteq Datagrams,
         UNCHANGED <<discovered, pending, server_data, since_broadcast, handed, sends, received>>
  PROVE  LanInv'
<1>1. TypeOK'
  BY HeardType DEF LanInv, TypeOK
<1>2. DiscoveredReachable'
  BY HeardType DEF LanInv, DiscoveredReachable, TypeOK
<1>3. SendsCounted'
  BY DEF LanInv, SendsCounted
<1> QED
  BY <1>1, <1>2, <1>3 DEF LanInv

\* A request is answered with one response, to the address it came from.
LEMMA RequestInv ==
  ASSUME LanInv, NEW n \in Nodes, NEW i \in Ids, NEW a \in Addrs, handle_request(n, i, a)
  PROVE  LanInv'
<1>1. {ResponseTo(n, a)} \subseteq Datagrams
  BY LanAssumption DEF ResponseTo, Datagrams
<1>2. network' \subseteq Datagrams
  BY <1>1, SentType DEF handle_request, LanInv, TypeOK
<1> QED
  BY <1>2, HeardInv DEF handle_request

\* A response adds its sender to the discovered servers when there is room.
LEMMA ResponseInv ==
  ASSUME LanInv, NEW n \in Nodes, NEW i \in Ids, NEW a \in Addrs, handle_response(n, i, a)
  PROVE  LanInv'
<1> USE DEF LanInv
<1>1. Heard(n, i, a)
  BY DEF handle_response
<1>2. discovered' \in [Nodes -> SUBSET Ids]
  BY DEF handle_response, TypeOK
<1>3. TypeOK'
  BY <1>1, <1>2, HeardType DEF handle_response, TypeOK
<1>4. ASSUME NEW m \in Nodes
      PROVE  discovered'[m] \subseteq Known(m)' /\ Cardinality(discovered'[m]) <= MaxDiscovered
  <2>1. CASE discovered'[m] = discovered[m]
    BY <1>1, <2>1, HeardType DEF DiscoveredReachable
  <2>2. CASE discovered'[m] # discovered[m]
    <3>1. m = n /\ discovered'[m] = discovered[m] \cup {i} /\ i \notin discovered[m]
      BY <2>2 DEF handle_response, TypeOK
    <3>2. ~ Cardinality(discovered[m]) >= MaxDiscovered
      BY <2>2, <3>1 DEF handle_response
    <3>3. IsFiniteSet(discovered[m]) /\ Cardinality(discovered[m]) \in Nat
      BY FiniteDiscovered DEF TypeOK
    <3>4. Cardinality(discovered'[m]) = Cardinality(discovered[m]) + 1
      BY <3>1, <3>3, FS_AddElement
    <3>5. Cardinality(discovered'[m]) <= MaxDiscovered
      BY <3>2, <3>3, <3>4, LanAssumption
    <3> QED
      BY <1>1, <3>1, <3>5, HeardType DEF DiscoveredReachable
  <2> QED
    BY <2>1, <2>2
<1>5. DiscoveredReachable'
  BY <1>4 DEF DiscoveredReachable
<1>6. SendsCounted'
  BY DEF handle_response, SendsCounted
<1> QED
  BY <1>3, <1>5, <1>6

\* A signal heard only clears pending entries.
LEMMA MessageInv ==
  ASSUME LanInv, NEW n \in Nodes, NEW i \in Ids, NEW a \in Addrs, NEW c, NEW S \in SUBSET Signals,
         handle_message(n, i, a, c, S)
  PROVE  LanInv'
<1> USE DEF LanInv
<1>1. Heard(n, i, a)
  BY DEF handle_message
<1>2. pending' \in [Signals -> Attempts \cup {None}]
  BY DEF handle_message, TypeOK
<1>3. TypeOK'
  BY <1>1, <1>2, HeardType DEF handle_message, TypeOK
<1>4. DiscoveredReachable'
  BY <1>1, HeardType DEF handle_message, DiscoveredReachable
<1>5. \A s \in Signals : pending'[s] # None => pending'[s] = pending[s]
  BY DEF handle_message, TypeOK
<1>6. SendsCounted'
  BY <1>5 DEF handle_message, SendsCounted
<1> QED
  BY <1>3, <1>4, <1>6

\* The datagram of a node is one of the three kinds, from a known sender.
LEMMA DeliverInv ==
  ASSUME LanInv, NEW n \in Nodes, NEW d \in network, Deliver(n, d)
  PROVE  LanInv'
<1>1. d \in Datagrams
  BY DEF LanInv, TypeOK
<1>2. d.sender \in Ids /\ d.from \in Addrs
  BY <1>1, LanAssumption DEF Datagrams
<1>3. CASE d.kind = "request" /\ handle_request(n, d.sender, d.from)
  BY <1>2, <1>3, RequestInv
<1>4. CASE d.kind = "response" /\ handle_response(n, d.sender, d.from)
  BY <1>2, <1>4, ResponseInv
<1>5. CASE d.kind = "message" /\ handle_message(n, d.sender, d.from, d.signal.conn, {d.signal})
  <2>1. {d.signal} \subseteq Signals
    BY <1>1, <1>5 DEF Datagrams
  <2> QED
    BY <1>2, <1>5, <2>1, MessageInv
<1> QED
  BY <1>3, <1>4, <1>5 DEF Deliver

\* What a foreign host sends goes through the same handlers.
LEMMA ForeignInv ==
  ASSUME LanInv, NEW n \in Nodes, NEW f \in Foreign, HearForeign(n, f[1], f[2])
  PROVE  LanInv'
<1>1. f[1] \in Ids /\ f[2] \in Addrs
  BY LanAssumption
<1>2. CASE handle_request(n, f[1], f[2])
  BY <1>1, <1>2, RequestInv
<1>3. CASE handle_response(n, f[1], f[2])
  BY <1>1, <1>3, ResponseInv
<1>4. ASSUME NEW c \in {s.conn : s \in Signals}, handle_message(n, f[1], f[2], c, {})
      PROVE  LanInv'
  BY <1>1, <1>4, MessageInv
<1>5. CASE handle_other(n, f[1], f[2])
  BY <1>1, <1>5, HeardInv DEF handle_other, LanInv, TypeOK
<1> QED
  BY <1>2, <1>3, <1>4, <1>5 DEF HearForeign

\* A signal is handed over once, so its first datagram is its first attempt.
LEMMA SignalInv ==
  ASSUME LanInv, NEW s \in Signals, handle_signal(s)
  PROVE  LanInv'
<1> USE DEF LanInv
<1>1. addresses[s.from][s.to] \in Entries /\ s.from \in Nodes
  BY LanAssumption DEF handle_signal, TypeOK
<1>2. {Message(s, addresses[s.from][s.to].addr)} \subseteq Datagrams
  BY <1>1, LanAssumption DEF Message, Datagrams, Entries
<1>3. network' \subseteq Datagrams
  BY <1>2, SentType DEF handle_signal
<1>4. [attempts |-> 1, left |-> retry_interval(s)] \in Attempts
  BY IntervalType, LanAssumption DEF Attempts
<1>5. pending' \in [Signals -> Attempts \cup {None}]
  BY <1>4 DEF handle_signal, TypeOK
<1>6. sends' \in [Signals -> Nat] /\ sends'[s] = sends[s] + 1
  BY DEF handle_signal, TypeOK
<1>7. TypeOK'
  BY <1>3, <1>5, <1>6 DEF handle_signal, TypeOK
<1>8. DiscoveredReachable'
  BY DEF handle_signal, DiscoveredReachable, Known
<1>9. sends[s] = 0 /\ pending[s] = None
  BY EntriesNotNone DEF handle_signal, SendsCounted, TypeOK, Attempts
<1>10. ASSUME NEW t \in Signals
       PROVE  /\ sends'[t] <= Retries + 1
              /\ pending'[t] # None => sends'[t] = pending'[t].attempts
              /\ t \notin handed' => sends'[t] = 0
  <2>1. CASE t = s
    BY <1>6, <1>9, <2>1, LanAssumption DEF handle_signal, TypeOK
  <2>2. CASE t # s
    BY <2>2 DEF handle_signal, TypeOK, SendsCounted
  <2> QED
    BY <2>1, <2>2
<1> QED
  BY <1>7, <1>8, <1>10 DEF SendsCounted

\* Time ages the addresses and the pending signals and moves nothing else.
LEMMA TickTypes ==
  ASSUME TypeOK, Tick
  PROVE  /\ addresses' \in [Nodes -> [Ids -> Entries \cup {None}]]
         /\ pending' \in [Signals -> Attempts \cup {None}]
         /\ \A n \in Nodes, i \in Ids :
              /\ addresses'[n][i] = None <=> addresses[n][i] = None
              /\ addresses[n][i] # None => addresses'[n][i].addr = addresses[n][i].addr
         /\ \A s \in Signals :
              /\ pending'[s] = None <=> pending[s] = None
              /\ pending[s] # None => pending'[s].attempts = pending[s].attempts
<1>1. ASSUME NEW n \in Nodes, NEW i \in Ids
      PROVE  /\ addresses'[n][i] \in Entries \cup {None}
             /\ addresses'[n][i] = None <=> addresses[n][i] = None
             /\ addresses[n][i] # None => addresses'[n][i].addr = addresses[n][i].addr
  <2>1. addresses'[n][i] = IF addresses[n][i] # None /\ addresses[n][i].quiet < AddressTimeout
                           THEN [addresses[n][i] EXCEPT !.quiet = @ + 1] ELSE addresses[n][i]
    BY DEF Tick
  <2>2. CASE addresses[n][i] = None
    BY <2>1, <2>2
  <2>3. CASE addresses[n][i] # None
    <3>1. addresses[n][i] \in Entries
      BY <2>3 DEF TypeOK
    <3>2. addresses[n][i].quiet < AddressTimeout =>
            /\ [addresses[n][i] EXCEPT !.quiet = @ + 1] \in Entries
            /\ [addresses[n][i] EXCEPT !.quiet = @ + 1].addr = addresses[n][i].addr
      BY <3>1, LanAssumption DEF Entries
    <3> QED
      BY <2>1, <2>3, <3>1, <3>2, EntriesNotNone
  <2> QED
    BY <2>2, <2>3
<1>2. ASSUME NEW s \in Signals
      PROVE  /\ pending'[s] \in Attempts \cup {None}
             /\ pending'[s] = None <=> pending[s] = None
             /\ pending[s] # None => pending'[s].attempts = pending[s].attempts
  <2>1. pending'[s] = IF pending[s] # None /\ pending[s].left > 0
                      THEN [pending[s] EXCEPT !.left = @ - 1] ELSE pending[s]
    BY DEF Tick
  <2>2. CASE pending[s] = None
    BY <2>1, <2>2
  <2>3. CASE pending[s] # None
    <3>1. pending[s] \in Attempts
      BY <2>3 DEF TypeOK
    <3>2. pending[s].left > 0 =>
            /\ [pending[s] EXCEPT !.left = @ - 1] \in Attempts
            /\ [pending[s] EXCEPT !.left = @ - 1].attempts = pending[s].attempts
      <4>1. RetryInterval + OfferInterval \in Nat
        BY LanAssumption
      <4> QED
        BY <3>1, <4>1 DEF Attempts
    <3> QED
      BY <2>1, <2>3, <3>1, <3>2, EntriesNotNone
  <2> QED
    BY <2>2, <2>3
<1>3. addresses' \in [Nodes -> [Ids -> Entries \cup {None}]]
  <2>1. \A n \in Nodes : addresses'[n] \in [Ids -> Entries \cup {None}]
    BY <1>1 DEF Tick
  <2> QED
    BY <2>1 DEF Tick
<1>4. pending' \in [Signals -> Attempts \cup {None}]
  BY <1>2 DEF Tick
<1> QED
  BY <1>1, <1>2, <1>3, <1>4

\* The passing of time keeps the invariant.
LEMMA TickInv ==
  ASSUME LanInv, Tick
  PROVE  LanInv'
<1> USE DEF LanInv
<1>1. since_broadcast' \in [Nodes -> 0 .. BroadcastInterval]
  BY LanAssumption DEF Tick, TypeOK
<1>2. TypeOK'
  BY <1>1, TickTypes DEF Tick, TypeOK
<1>3. \A n \in Nodes : Known(n)' = Known(n)
  BY TickTypes DEF Known
<1>4. DiscoveredReachable'
  BY <1>3 DEF Tick, DiscoveredReachable
<1>5. SendsCounted'
  BY TickTypes DEF Tick, SendsCounted
<1> QED
  BY <1>2, <1>4, <1>5

\* retransmit: a due signal is sent once more and counted, or dropped.
LEMMA RetransmitCounts ==
  ASSUME LanInv, NEW n \in Nodes, retransmit(n)
  PROVE  /\ pending' \in [Signals -> Attempts \cup {None}]
         /\ sends' \in [Signals -> Nat]
         /\ \A s \in Signals :
              /\ sends'[s] <= Retries + 1
              /\ pending'[s] # None => sends'[s] = pending'[s].attempts
              /\ s \notin handed => sends'[s] = 0
<1> USE DEF LanInv
<1>1. ASSUME NEW s \in Signals
      PROVE  /\ pending'[s] \in Attempts \cup {None}
             /\ sends'[s] \in Nat
             /\ sends'[s] <= Retries + 1
             /\ pending'[s] # None => sends'[s] = pending'[s].attempts
             /\ s \notin handed => sends'[s] = 0
  <2>1. CASE s \in Due(n)
    <3>1. /\ pending[s] \in Attempts
          /\ pending[s].attempts \in 1 .. Retries
          /\ sends[s] = pending[s].attempts
      BY <2>1, LanAssumption DEF Due, TypeOK, Attempts, SendsCounted
    <3>2. s \in handed
      BY <3>1, LanAssumption DEF SendsCounted
    <3>3. s \notin Exhausted(n)
      BY <3>1, LanAssumption DEF Exhausted
    <3>4. [attempts |-> pending[s].attempts + 1, left |-> retry_interval(s)] \in Attempts
      BY <3>1, IntervalType, LanAssumption DEF Attempts
    <3>5. CASE s.to \in Known(n)
      <4>1. /\ pending'[s] = [attempts |-> pending[s].attempts + 1, left |-> retry_interval(s)]
            /\ sends'[s] = sends[s] + 1
        BY <2>1, <3>3, <3>5 DEF retransmit
      <4> QED
        BY <3>1, <3>2, <3>4, <4>1, LanAssumption
    <3>6. CASE s.to \notin Known(n)
      <4>1. pending'[s] = None /\ sends'[s] = sends[s]
        BY <2>1, <3>6 DEF retransmit
      <4> QED
        BY <3>2, <4>1 DEF SendsCounted, TypeOK
    <3> QED
      BY <3>5, <3>6
  <2>2. CASE s \notin Due(n)
    <3>1. (pending'[s] = None \/ pending'[s] = pending[s]) /\ sends'[s] = sends[s]
      BY <2>2 DEF retransmit
    <3> QED
      BY <3>1 DEF SendsCounted, TypeOK
  <2> QED
    BY <2>1, <2>2
<1>2. pending' \in [Signals -> Attempts \cup {None}] /\ sends' \in [Signals -> Nat]
  BY <1>1 DEF retransmit
<1> QED
  BY <1>1, <1>2

\* expire: only an address quiet for the whole timeout is forgotten, and what
\* was discovered there with it.
LEMMA ExpireEffect ==
  ASSUME TypeOK, NEW n \in Nodes, expire(n)
  PROVE  /\ addresses' \in [Nodes -> [Ids -> Entries \cup {None}]]
         /\ discovered' \in [Nodes -> SUBSET Ids]
         /\ \A m \in Nodes, i \in Ids :
              \/ addresses'[m][i] = addresses[m][i]
              \/ addresses'[m][i] = None /\ addresses[m][i].quiet = AddressTimeout
         /\ \A m \in Nodes : discovered'[m] \subseteq discovered[m]
         /\ \A m \in Nodes : discovered[m] \subseteq Known(m) => discovered'[m] \subseteq Known(m)'
<1> DEFINE kept == {i \in Known(n) : addresses[n][i].quiet < AddressTimeout}
<1>1. /\ addresses' = [addresses EXCEPT ![n] =
                         [i \in Ids |-> IF i \in kept THEN addresses[n][i] ELSE None]]
      /\ discovered' = [discovered EXCEPT ![n] = discovered[n] \cap kept]
  BY DEF expire, TypeOK
<1>2. \A i \in Ids : i \in kept \/ addresses[n][i] = None \/ addresses[n][i].quiet = AddressTimeout
  <2>1. ASSUME NEW i \in Ids, addresses[n][i] # None, addresses[n][i].quiet # AddressTimeout
        PROVE  i \in kept
    <3>1. addresses[n][i] \in Entries
      BY <2>1 DEF TypeOK
    <3>2. addresses[n][i].quiet < AddressTimeout
      BY <2>1, <3>1, LanAssumption DEF Entries
    <3> QED
      BY <2>1, <3>2 DEF Known
  <2> QED
    BY <2>1
<1>3. \A i \in kept : addresses[n][i] # None /\ i \in Ids
  BY DEF Known
<1> HIDE DEF kept
<1>4. addresses' \in [Nodes -> [Ids -> Entries \cup {None}]] /\ discovered' \in [Nodes -> SUBSET Ids]
  BY <1>1 DEF TypeOK
<1>5. \A m \in Nodes, i \in Ids :
        addresses'[m][i] = IF m = n THEN IF i \in kept THEN addresses[n][i] ELSE None
                           ELSE addresses[m][i]
  BY <1>1 DEF TypeOK
<1>6. \A m \in Nodes : discovered'[m] = IF m = n THEN discovered[n] \cap kept ELSE discovered[m]
  BY <1>1 DEF TypeOK
<1>7. \A m \in Nodes, i \in Ids :
        \/ addresses'[m][i] = addresses[m][i]
        \/ addresses'[m][i] = None /\ addresses[m][i].quiet = AddressTimeout
  BY <1>2, <1>5
<1>8. \A m \in Nodes : discovered[m] \subseteq Known(m) => discovered'[m] \subseteq Known(m)'
  BY <1>3, <1>5, <1>6 DEF Known
<1> QED
  BY <1>4, <1>6, <1>7, <1>8

\* A whole update: retransmit, broadcast, expire.
LEMMA UpdateInv ==
  ASSUME LanInv, NEW n \in Nodes, Update(n)
  PROVE  LanInv'
<1> USE DEF LanInv
<1>1. retransmit(n) /\ expire(n)
  BY DEF Update
<1>2. Retransmitted(n) \subseteq Datagrams
  <2>1. ASSUME NEW s \in Due(n), s.to \in Known(n)
        PROVE  Message(s, addresses[n][s.to].addr) \in Datagrams
    <3>1. s \in Signals /\ s.from \in Nodes /\ addresses[n][s.to] \in Entries
      BY <2>1, LanAssumption DEF Due, Known, TypeOK
    <3> QED
      BY <3>1, LanAssumption DEF Message, Datagrams, Entries
  <2> QED
    BY <2>1 DEF Retransmitted
<1>3. Broadcasted(n) \subseteq Datagrams
  BY LanAssumption DEF Broadcasted, Request, Datagrams
<1>4. network' \subseteq Datagrams
  <2>1. Retransmitted(n) \cup Broadcasted(n) \subseteq Datagrams
    BY <1>2, <1>3
  <2> QED
    BY <2>1, SentType DEF Update
<1>5. since_broadcast' \in [Nodes -> 0 .. BroadcastInterval]
  BY LanAssumption DEF Update, TypeOK
<1>6. TypeOK'
  BY <1>1, <1>4, <1>5, RetransmitCounts, ExpireEffect DEF Update, TypeOK
<1>7. SendsCounted'
  BY <1>1, RetransmitCounts DEF Update, SendsCounted
<1>8. ASSUME NEW m \in Nodes
      PROVE  discovered'[m] \subseteq Known(m)' /\ Cardinality(discovered'[m]) <= MaxDiscovered
  <2>1. discovered'[m] \subseteq discovered[m] /\ discovered'[m] \subseteq Known(m)'
    BY <1>1, ExpireEffect DEF DiscoveredReachable
  <2>2. discovered[m] \in SUBSET Ids /\ discovered'[m] \in SUBSET Ids
    BY <2>1 DEF TypeOK
  <2>3. IsFiniteSet(discovered[m]) /\ Cardinality(discovered[m]) \in Nat
    BY <2>2, FiniteDiscovered
  <2>4. Cardinality(discovered'[m]) \in Nat
    BY <2>2, FiniteDiscovered
  <2>5. Cardinality(discovered'[m]) <= Cardinality(discovered[m])
    BY <2>1, <2>3, FS_Subset
  <2>6. Cardinality(discovered[m]) <= MaxDiscovered
    BY DEF DiscoveredReachable
  <2> QED
    BY <2>1, <2>3, <2>4, <2>5, <2>6, LanAssumption
<1> QED
  BY <1>6, <1>7, <1>8 DEF DiscoveredReachable

\* Every step of the signalers and of the network keeps the invariant.
LEMMA NextInv == LanInv /\ [Next]_vars => LanInv'
<1> SUFFICES ASSUME LanInv, [Next]_vars PROVE LanInv'
  OBVIOUS
<1>1. ASSUME NEW n \in Nodes, SetServerData(n) PROVE LanInv'
  BY <1>1 DEF SetServerData, LanInv, TypeOK, DiscoveredReachable, Known, SendsCounted
<1>2. ASSUME NEW d \in network, Lose(d) PROVE LanInv'
  BY <1>2 DEF Lose, LanInv, TypeOK, DiscoveredReachable, Known, SendsCounted
<1>3. CASE UNCHANGED vars
  BY <1>3 DEF vars, LanInv, TypeOK, DiscoveredReachable, Known, SendsCounted
<1> QED
  BY <1>1, <1>2, <1>3, UpdateInv, DeliverInv, ForeignInv, SignalInv, TickInv DEF Next
-----------------------------------------------------------------------------
\* The inductive invariant holds throughout.
THEOREM LanInvariant == Spec => []LanInv
  BY InitInv, NextInv, PTL DEF Spec

\* Type correctness: addresses, pending signals and datagrams stay well formed
\* (LanSignaler, lan/mod.rs 28-54).
THEOREM LanTypeCorrect == Spec => []TypeOK
<1>1. LanInv => TypeOK
  BY DEF LanInv
<1> QED
  BY <1>1, LanInvariant, PTL

\* What is discovered can be signaled and stays within max_discovered, whatever
\* is broadcast at the node (handle_datagram 161-164, expire 319-320).
THEOREM DiscoveredStaysReachable == Spec => []DiscoveredReachable
<1>1. LanInv => DiscoveredReachable
  BY DEF LanInv
<1> QED
  BY <1>1, LanInvariant, PTL

\* No signal is sent more often than its retries allow, however updates, replies
\* and expiry interleave (handle_signal 219-227, retransmit 263-275).
THEOREM SendsStayCounted == Spec => []SendsCounted
<1>1. LanInv => SendsCounted
  BY DEF LanInv
<1> QED
  BY <1>1, LanInvariant, PTL

\* An entry that was not quiet for the whole timeout keeps its address.
LEMMA NextPins ==
  ASSUME TypeOK, [Next]_vars, NEW n \in Nodes, NEW i \in Ids, addresses[n][i] # None
  PROVE  \/ addresses'[n][i] # None /\ addresses'[n][i].addr = addresses[n][i].addr
         \/ addresses[n][i].quiet = AddressTimeout
<1> DEFINE Pin == \/ addresses'[n][i] # None /\ addresses'[n][i].addr = addresses[n][i].addr
                  \/ addresses[n][i].quiet = AddressTimeout
<1> SUFFICES Pin
  OBVIOUS
<1>1. CASE addresses' = addresses
  BY <1>1
<1>2. ASSUME NEW m \in Nodes, NEW j \in Ids, NEW a \in Addrs, Heard(m, j, a)
      PROVE  Pin
  <2>1. addresses[n][i] \in Entries
    BY DEF TypeOK
  <2>2. [addr |-> a, quiet |-> 0] \in Entries
    BY LanAssumption DEF Entries
  <2>3. addresses'[n][i] = IF n = m /\ i = j THEN [addr |-> a, quiet |-> 0] ELSE addresses[n][i]
    <3>1. addresses' = [addresses EXCEPT ![m] = [addresses[m] EXCEPT ![j] = [addr |-> a, quiet |-> 0]]]
      BY <1>2 DEF Heard, TypeOK
    <3> QED
      BY <3>1 DEF TypeOK
  <2>4. CASE n = m /\ i = j
    <3>1. addresses[n][i].addr = a \/ ~ addresses[n][i].quiet < AddressTimeout
      BY <1>2, <2>4 DEF Heard, Pinned
    <3>2. ~ addresses[n][i].quiet < AddressTimeout => addresses[n][i].quiet = AddressTimeout
      <4>1. addresses[n][i].quiet \in 0 .. AddressTimeout
        BY <2>1 DEF Entries
      <4>2. AddressTimeout \in Nat
        BY LanAssumption
      <4> QED
        BY <4>1, <4>2
    <3> QED
      BY <2>2, <2>3, <2>4, <3>1, <3>2, EntriesNotNone
  <2> QED
    BY <2>3, <2>4
<1>3. ASSUME NEW m \in Nodes, Update(m) PROVE Pin
  BY <1>3, ExpireEffect DEF Update
<1>4. ASSUME NEW m \in Nodes, NEW d \in network, Deliver(m, d) PROVE Pin
  <2>1. d.sender \in Ids /\ d.from \in Addrs
    BY LanAssumption DEF TypeOK, Datagrams
  <2>2. Heard(m, d.sender, d.from)
    BY <1>4 DEF Deliver, handle_request, handle_response, handle_message
  <2> QED
    BY <1>2, <2>1, <2>2
<1>5. ASSUME NEW m \in Nodes, NEW f \in Foreign, HearForeign(m, f[1], f[2]) PROVE Pin
  <2>1. f[1] \in Ids /\ f[2] \in Addrs
    BY LanAssumption
  <2>2. Heard(m, f[1], f[2])
    BY <1>5 DEF HearForeign, handle_request, handle_response, handle_message, handle_other
  <2> QED
    BY <1>2, <2>1, <2>2
<1>6. CASE Tick
  BY <1>6, TickTypes
<1>7. CASE UNCHANGED vars
  BY <1>1, <1>7 DEF vars
<1>8. ASSUME NEW m \in Nodes, SetServerData(m) PROVE Pin
  BY <1>1, <1>8 DEF SetServerData
<1>9. ASSUME NEW d \in network, Lose(d) PROVE Pin
  BY <1>1, <1>9 DEF Lose
<1>10. ASSUME NEW s \in Signals, handle_signal(s) PROVE Pin
  BY <1>1, <1>10 DEF handle_signal
<1> HIDE DEF Pin
<1> QED
  BY <1>3, <1>4, <1>5, <1>6, <1>7, <1>8, <1>9, <1>10 DEF Next

\* No datagram, of a node or of a foreign host that uses another's id, moves an
\* id from an address that was heard within the timeout (handle_datagram
\* 137-156, expire 315-320).
THEOREM PinsHold == Spec => PinnedUntilQuiet
<1>1. TypeOK /\ [Next]_vars =>
        [\A n \in Nodes, i \in Ids :
           /\ addresses[n][i] # None
           /\ addresses'[n][i] = None \/ addresses'[n][i].addr # addresses[n][i].addr
           => addresses[n][i].quiet = AddressTimeout]_vars
  BY NextPins
<1> QED
  BY <1>1, LanTypeCorrect, PTL DEF Spec, PinnedUntilQuiet
=============================================================================
