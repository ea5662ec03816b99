------------------------- MODULE NetherServerProofs -------------------------
(***************************************************************************)
(* Proofs about the tokio server, for every set of keys and networks, every*)
(* cap and any number of sessions.                                         *)
(***************************************************************************)
EXTENDS NetherServer, FiniteSetTheorems, TLAPS

\* The waiting sessions of a network.
Waiting(n) == {s \in waiting : NetworkOf[key[s]] = n}

\* Sessions are spawned in the order of their numbers, so that the one spawned
\* last is the newest of its key.
InOrder == \A s, t \in Sessions : t < s /\ key[s] # None => key[t] # None

\* The queue holds spawned sessions, takes none once close() drains it, and is
\* empty after that; the handler that has ended was not answering.
QueueClosed ==
  /\ \A i \in DOMAIN incoming : incoming[i] \in Spawned
  /\ closing \in {"drain", "join", "done", "dropped"} => ~ incoming_open
  /\ closing \in {"join", "done", "dropped"} => incoming = << >>
  /\ closing = "done" => ~ alive
  /\ ~ alive => answering = None

\* The counts are the slots held of each network id.
PerNetwork ==
  \A n \in Networks : counts[n] = Slots(n) /\ counts[n] <= MaxPendingOfNetwork

\* Their sum is the number of all slots held, which try_admit keeps below its
\* bound.
Pending == Cardinality(waiting) + (IF answering = None THEN 0 ELSE 1)
InTotal == IsFiniteSet(Counted) /\ Total = Pending /\ Pending <= MaxPending

\* The inductive invariant.
ServerInv == TypeOK /\ InOrder /\ QueueClosed /\ PerNetwork /\ InTotal /\ NewestIsSignaled

\* A set of sessions is finite and its size a natural.
LEMMA SessionsFinite ==
  ASSUME NEW S \in SUBSET Sessions
  PROVE  IsFiniteSet(S) /\ Cardinality(S) \in Nat
<1>1. IsFiniteSet(Sessions)
  BY NetherServerAssumption, FS_Interval DEF Sessions
<1> QED
  BY <1>1, FS_Subset, FS_CardinalityType

\* A slot that is taken is one more in the sum, one that is freed one less.
LEMMA TotalTakes ==
  ASSUME counts \in [Networks -> Nat], NEW n \in Networks, IsFiniteSet(Counted),
         counts' = [counts EXCEPT ![n] = @ + 1]
  PROVE  IsFiniteSet(Counted') /\ Total' = Total + 1
<1>1. /\ counts[n] \in Nat /\ counts'[n] = counts[n] + 1
      /\ \A m \in Networks : m # n => counts'[m] = counts[m]
  OBVIOUS
<1>2. PICK x : x = <<n, counts[n] + 1>>
  OBVIOUS
<1>3. x \notin Counted
  <2> SUFFICES ASSUME NEW m \in Networks, NEW i \in 1 .. counts[m], x = <<m, i>> PROVE FALSE
    BY DEF Counted
  <2>1. m = n /\ i = counts[n] + 1
    BY <1>2
  <2> QED
    BY <1>1, <2>1
<1>4. Counted' = Counted \cup {x}
  <2>1. ASSUME NEW m \in Networks, NEW i \in 1 .. counts'[m]
        PROVE  <<m, i>> \in Counted \cup {x}
    <3>1. CASE m # n \/ i # counts[n] + 1
      <4>1. i \in 1 .. counts[m]
        BY <1>1, <2>1, <3>1
      <4> QED
        BY <4>1 DEF Counted
    <3>2. CASE m = n /\ i = counts[n] + 1
      BY <1>2, <3>2
    <3> QED
      BY <3>1, <3>2
  <2>2. ASSUME NEW m \in Networks, NEW i \in 1 .. counts[m]
        PROVE  <<m, i>> \in Counted'
    <3>1. i \in 1 .. counts'[m]
      BY <1>1, <2>2
    <3> QED
      BY <3>1 DEF Counted
  <2>3. x \in Counted'
    <3>1. counts[n] + 1 \in 1 .. counts'[n]
      BY <1>1
    <3> QED
      BY <1>2, <3>1 DEF Counted
  <2>4. Counted' \subseteq Counted \cup {x}
    BY <2>1 DEF Counted
  <2>5. Counted \subseteq Counted'
    <3>1. \A y \in Counted : \E m \in Networks : \E i \in 1 .. counts[m] : y = <<m, i>>
      BY DEF Counted
    <3> QED
      BY <2>2, <3>1
  <2> QED
    BY <2>3, <2>4, <2>5
<1> QED
  BY <1>3, <1>4, FS_AddElement DEF Total

LEMMA TotalFrees ==
  ASSUME counts \in [Networks -> Nat], NEW n \in Networks, counts[n] > 0, IsFiniteSet(Counted),
         counts' = [counts EXCEPT ![n] = @ - 1]
  PROVE  IsFiniteSet(Counted') /\ Total' = Total - 1
<1>1. /\ counts[n] \in Nat /\ counts'[n] = counts[n] - 1
      /\ \A m \in Networks : m # n => counts'[m] = counts[m]
  OBVIOUS
<1>2. PICK x : x = <<n, counts[n]>>
  OBVIOUS
<1>3. x \in Counted
  <2>1. counts[n] \in 1 .. counts[n]
    BY <1>1
  <2> QED
    BY <1>2, <2>1 DEF Counted
<1>4. Counted' = Counted \ {x}
  <2>1. ASSUME NEW m \in Networks, NEW i \in 1 .. counts'[m]
        PROVE  <<m, i>> \in Counted /\ <<m, i>> # x
    <3>1. i \in 1 .. counts[m] /\ ~ (m = n /\ i = counts[n])
      BY <1>1, <2>1
    <3>2. <<m, i>> # x
      BY <1>2, <3>1
    <3> QED
      BY <3>1, <3>2 DEF Counted
  <2>2. ASSUME NEW m \in Networks, NEW i \in 1 .. counts[m], <<m, i>> # x
        PROVE  <<m, i>> \in Counted'
    <3>1. ~ (m = n /\ i = counts[n])
      BY <1>2, <2>2
    <3>2. i \in 1 .. counts'[m]
      BY <1>1, <2>2, <3>1
    <3> QED
      BY <3>2 DEF Counted
  <2>3. Counted' \subseteq Counted \ {x}
    BY <2>1 DEF Counted
  <2>4. Counted \ {x} \subseteq Counted'
    <3>1. \A y \in Counted : \E m \in Networks : \E i \in 1 .. counts[m] : y = <<m, i>>
      BY DEF Counted
    <3> QED
      BY <2>2, <3>1
  <2> QED
    BY <2>3, <2>4
<1> QED
  BY <1>3, <1>4, FS_RemoveElement DEF Total

\* Initially nothing is spawned and no slot is held.
LEMMA ServerInitInv == Init => ServerInv
<1> SUFFICES ASSUME Init PROVE ServerInv
  OBVIOUS
<1>1. TypeOK
  <2>1. /\ alive \in BOOLEAN /\ cancelled \in BOOLEAN /\ incoming_open \in BOOLEAN
        /\ config_cancelled \in BOOLEAN
    BY DEF Init
  <2>2. incoming \in Seq(Sessions)
    BY DEF Init
  <2>3. /\ dispatchers \in [Keys -> Sessions \cup {None}] /\ counts \in [Networks -> Nat]
        /\ key \in [Sessions -> Keys \cup {None}] /\ held \in [Sessions -> SUBSET Parts]
        /\ driver \in [Sessions -> {"none", "opening", "open", "blocked", "ended"}]
    BY DEF Init
  <2> QED
    BY <2>1, <2>2, <2>3 DEF Init, TypeOK
<1>2. InOrder /\ QueueClosed
  BY DEF Init, InOrder, QueueClosed
<1>3. NewestIsSignaled
  BY DEF Init, NewestIsSignaled
<1>4. PerNetwork
  <2>1. ASSUME NEW n \in Networks PROVE Slots(n) = 0
    <3>1. {s \in waiting : NetworkOf[key[s]] = n} = {}
      BY DEF Init
    <3> QED
      BY <3>1, FS_EmptySet DEF Slots, Init
  <2> QED
    BY <2>1, NetherServerAssumption DEF PerNetwork, Init
<1>5. InTotal
  <2>1. \A n \in Networks : \A i \in 1 .. counts[n] : FALSE
    BY DEF Init
  <2>2. Counted = {}
    BY <2>1 DEF Counted
  <2>3. Pending = 0
    BY FS_EmptySet DEF Init, Pending
  <2> QED
    BY <2>2, <2>3, FS_EmptySet, NetherServerAssumption DEF InTotal, Total
<1> QED
  BY <1>1, <1>2, <1>3, <1>4, <1>5 DEF ServerInv

\* The drivers and tokens a dropped guard leaves are of their types.
LEMMA GuardsType ==
  ASSUME TypeOK, NEW C \in SUBSET Sessions, Guards(C, driver)
  PROVE  /\ closed' \subseteq Sessions
         /\ driver' \in [Sessions -> {"none", "opening", "open", "blocked", "ended"}]
<1>1. Unguarded' \subseteq Sessions
  BY DEF Unguarded, Spawned
<1> QED
  BY <1>1 DEF Guards, TypeOK

\* A step that leaves slots and keys alone and starts no forwarder.
LEMMA SlotsAlone ==
  ASSUME ServerInv, UNCHANGED <<alive, answering, dispatchers, counts, key, waiting>>,
         forwarding' \subseteq forwarding
  PROVE  InOrder' /\ PerNetwork' /\ InTotal' /\ NewestIsSignaled'
<1>1. InOrder'
  BY DEF ServerInv, InOrder
<1>2. PerNetwork'
  BY DEF ServerInv, PerNetwork, Slots
<1>3. NewestIsSignaled'
  BY DEF ServerInv, NewestIsSignaled
<1>4. InTotal'
  BY DEF ServerInv, InTotal, Total, Counted, Pending
<1> QED
  BY <1>1, <1>2, <1>3, <1>4

\* A waiting session gives its slot back.
LEMMA FreeSlot ==
  ASSUME ServerInv, NEW s \in waiting, waiting' = waiting \ {s},
         counts' = [counts EXCEPT ![NetworkOf[key[s]]] = @ - 1],
         UNCHANGED <<answering, key>>
  PROVE  PerNetwork' /\ InTotal' /\ counts' \in [Networks -> Nat]
<1> USE DEF ServerInv
<1>1. s \in Sessions /\ key[s] \in Keys /\ NetworkOf[key[s]] \in Networks
  BY NetherServerAssumption DEF TypeOK, Spawned
<1>2. ASSUME NEW n \in Networks
      PROVE  counts'[n] = Slots(n)' /\ counts'[n] <= MaxPendingOfNetwork /\ counts'[n] \in Nat
  <2>1. IsFiniteSet(Waiting(n)) /\ Cardinality(Waiting(n)) \in Nat
    BY SessionsFinite DEF Waiting, TypeOK, Spawned
  <2>2. counts[n] \in Nat /\ counts[n] = Slots(n) /\ counts[n] <= MaxPendingOfNetwork
    BY DEF TypeOK, PerNetwork
  <2>3. CASE n = NetworkOf[key[s]]
    <3>1. Waiting(n)' = Waiting(n) \ {s} /\ s \in Waiting(n)
      BY <2>3 DEF Waiting
    <3>2. Cardinality(Waiting(n)') = Cardinality(Waiting(n)) - 1
      BY <2>1, <3>1, FS_RemoveElement
    <3>3. Cardinality(Waiting(n)) # 0
      BY <2>1, <3>1, FS_EmptySet
    <3>4. counts'[n] = counts[n] - 1
      BY <2>3 DEF TypeOK
    <3> QED
      BY <2>1, <2>2, <3>2, <3>3, <3>4, NetherServerAssumption DEF Slots, Waiting
  <2>4. CASE n # NetworkOf[key[s]]
    <3>1. Waiting(n)' = Waiting(n) /\ counts'[n] = counts[n]
      BY <2>4 DEF Waiting, TypeOK
    <3> QED
      BY <2>2, <3>1 DEF Slots, Waiting
  <2> QED
    BY <2>3, <2>4
<1>3. counts' \in [Networks -> Nat]
  BY <1>2 DEF TypeOK
<1>4. InTotal'
  <2>1. counts[NetworkOf[key[s]]] > 0
    BY <1>1, <1>2 DEF TypeOK
  <2>2. IsFiniteSet(Counted') /\ Total' = Total - 1
    BY <1>1, <2>1, TotalFrees DEF TypeOK, InTotal
  <2>3. IsFiniteSet(waiting) /\ Cardinality(waiting) \in Nat
    BY SessionsFinite DEF TypeOK, Spawned
  <2>4. Cardinality(waiting') = Cardinality(waiting) - 1
    BY <2>3, FS_RemoveElement
  <2>5. Pending \in Nat /\ Pending' = Pending - 1
    BY <2>3, <2>4 DEF Pending
  <2> QED
    BY <2>2, <2>5, NetherServerAssumption DEF InTotal
<1> QED
  BY <1>2, <1>3, <1>4 DEF PerNetwork

\* An offer takes a slot before it is answered.
LEMMA TakeOfferInv ==
  ASSUME ServerInv, NEW k \in Keys, TakeOffer(k)
  PROVE  ServerInv'
<1> USE DEF ServerInv
<1>1. dispatchers' \in [Keys -> Sessions \cup {None}]
  BY DEF TakeOffer, TypeOK
<1>2. NetworkOf[k] \in Networks
  BY NetherServerAssumption
<1>3. counts' \in [Networks -> Nat] /\ answering' \in Keys \cup {None}
  <2>1. counts \in [Networks -> Nat] /\ answering \in Keys \cup {None}
    BY DEF TypeOK
  <2>2. \/ UNCHANGED <<answering, counts>>
        \/ answering' = k /\ counts' = [counts EXCEPT ![NetworkOf[k]] = @ + 1]
    BY DEF TakeOffer
  <2> QED
    BY ONLY <1>2, <2>1, <2>2, k \in Keys
<1>4. TypeOK'
  BY <1>1, <1>3 DEF TakeOffer, TypeOK, serverVars, Spawned
<1>5. InOrder' /\ QueueClosed'
  BY DEF TakeOffer, InOrder, QueueClosed, serverVars, Spawned
<1>6. NewestIsSignaled'
  BY DEF TakeOffer, NewestIsSignaled, TypeOK, Spawned
<1>7. PerNetwork'
  <2>1. CASE Full(NetworkOf[k])
    BY <2>1 DEF TakeOffer, PerNetwork, Slots
  <2>2. CASE ~ Full(NetworkOf[k])
    <3>1. /\ counts' = [counts EXCEPT ![NetworkOf[k]] = @ + 1]
          /\ answering = None /\ answering' = k
          /\ waiting' = waiting /\ key' = key
      BY <2>2 DEF TakeOffer
    <3>2. ~ counts[NetworkOf[k]] >= MaxPendingOfNetwork
      BY <2>2 DEF Full
    <3>3. ASSUME NEW n \in Networks
          PROVE  counts'[n] = Slots(n)' /\ counts'[n] <= MaxPendingOfNetwork
      <4>1. Cardinality(Waiting(n)) \in Nat
        BY SessionsFinite DEF Waiting, TypeOK, Spawned
      <4>2. counts[n] \in Nat /\ counts[n] = Slots(n) /\ counts[n] <= MaxPendingOfNetwork
        BY DEF TypeOK, PerNetwork
      <4>3. Slots(n) = Cardinality(Waiting(n))
        BY <3>1, <4>1 DEF Slots, Waiting
      <4>4. Slots(n)' = Cardinality(Waiting(n)) + (IF NetworkOf[k] = n THEN 1 ELSE 0)
        BY <3>1, NetherServerAssumption DEF Slots, Waiting
      <4>5. counts'[n] = counts[n] + (IF NetworkOf[k] = n THEN 1 ELSE 0)
        BY <1>2, <3>1, <4>2 DEF TypeOK
      <4> QED
        BY <3>2, <4>1, <4>2, <4>3, <4>4, <4>5, NetherServerAssumption
    <3> QED
      BY <3>3 DEF PerNetwork
  <2> QED
    BY <2>1, <2>2
<1>8. InTotal'
  <2>1. CASE Full(NetworkOf[k])
    BY <2>1 DEF TakeOffer, InTotal, Total, Counted, Pending
  <2>2. CASE ~ Full(NetworkOf[k])
    <3>1. /\ counts' = [counts EXCEPT ![NetworkOf[k]] = @ + 1]
          /\ answering = None /\ answering' = k /\ waiting' = waiting
      BY <2>2 DEF TakeOffer
    <3>2. IsFiniteSet(Counted') /\ Total' = Total + 1
      BY <1>2, <3>1, TotalTakes DEF TypeOK, InTotal
    <3>3. Cardinality(waiting) \in Nat
      BY SessionsFinite DEF TypeOK, Spawned
    <3>4. Pending \in Nat /\ Pending' = Pending + 1
      BY <3>1, <3>3, NetherServerAssumption DEF Pending
    <3>5. ~ Total >= MaxPending
      BY <2>2 DEF Full
    <3> QED
      BY <3>2, <3>4, <3>5, NetherServerAssumption DEF InTotal
  <2> QED
    BY <2>1, <2>2
<1> QED
  BY <1>4, <1>5, <1>6, <1>7, <1>8

\* An offer that fails gives its slot back.
LEMMA RefuseOfferInv ==
  ASSUME ServerInv, RefuseOffer
  PROVE  ServerInv'
<1> USE DEF ServerInv
<1>1. answering \in Keys /\ NetworkOf[answering] \in Networks
  BY NetherServerAssumption DEF RefuseOffer, TypeOK
<1>2. ASSUME NEW n \in Networks
      PROVE  /\ counts'[n] \in Nat
             /\ counts'[n] = Slots(n)' /\ counts'[n] <= MaxPendingOfNetwork
  <2>1. Cardinality(Waiting(n)) \in Nat
    BY SessionsFinite DEF Waiting, TypeOK, Spawned
  <2>2. counts[n] \in Nat /\ counts[n] = Slots(n) /\ counts[n] <= MaxPendingOfNetwork
    BY DEF TypeOK, PerNetwork
  <2>3. Slots(n) = Cardinality(Waiting(n)) + (IF NetworkOf[answering] = n THEN 1 ELSE 0)
    BY DEF RefuseOffer, Slots, Waiting
  <2>4. Slots(n)' = Cardinality(Waiting(n))
    BY <2>1 DEF RefuseOffer, Slots, Waiting
  <2>5. counts'[n] = counts[n] - (IF NetworkOf[answering] = n THEN 1 ELSE 0)
    BY <1>1, <2>2 DEF RefuseOffer, TypeOK
  <2> QED
    BY <2>1, <2>2, <2>3, <2>4, <2>5, NetherServerAssumption
<1>3. counts' \in [Networks -> Nat]
  BY <1>2 DEF RefuseOffer, TypeOK
<1>4. TypeOK'
  BY <1>3 DEF RefuseOffer, TypeOK, serverVars, Spawned
<1>5. InOrder' /\ QueueClosed' /\ NewestIsSignaled'
  BY DEF RefuseOffer, InOrder, QueueClosed, NewestIsSignaled, serverVars, Spawned
<1>6. InTotal'
  <2>1. counts[NetworkOf[answering]] > 0
    <3>1. /\ counts'[NetworkOf[answering]] \in Nat /\ counts[NetworkOf[answering]] \in Nat
          /\ counts'[NetworkOf[answering]] = counts[NetworkOf[answering]] - 1
      BY <1>1, <1>2 DEF RefuseOffer, TypeOK
    <3> QED
      BY <3>1
  <2>2. IsFiniteSet(Counted') /\ Total' = Total - 1
    BY <1>1, <2>1, TotalFrees DEF TypeOK, InTotal, RefuseOffer
  <2>3. Cardinality(waiting) \in Nat
    BY SessionsFinite DEF TypeOK, Spawned
  <2>4. Pending \in Nat /\ Pending' = Pending - 1
    BY <2>3 DEF Pending, RefuseOffer
  <2> QED
    BY <2>2, <2>4, NetherServerAssumption DEF InTotal
<1> QED
  BY <1>2, <1>4, <1>5, <1>6 DEF PerNetwork

\* The slot of an answered offer goes to the session, which is the newest.
LEMMA AnswerOfferInv ==
  ASSUME ServerInv, NEW s \in Sessions, AnswerOffer(s)
  PROVE  ServerInv'
<1> USE DEF ServerInv
<1>1. answering \in Keys /\ s \notin Spawned
  BY DEF AnswerOffer, TypeOK, Spawned
<1>2. /\ key' \in [Sessions -> Keys \cup {None}]
      /\ key'[s] = answering
      /\ \A t \in Sessions : t # s => key'[t] = key[t]
  BY <1>1 DEF AnswerOffer, TypeOK
<1>3. Spawned' = Spawned \cup {s}
  BY <1>1, <1>2, NetherServerAssumption DEF Spawned
<1>4. /\ dispatchers' \in [Keys -> Sessions \cup {None}]
      /\ driver' \in [Sessions -> {"none", "opening", "open", "blocked", "ended"}]
      /\ held' \in [Sessions -> SUBSET Parts]
  BY <1>1 DEF AnswerOffer, TypeOK
<1>5. TypeOK'
  BY <1>2, <1>3, <1>4 DEF AnswerOffer, TypeOK, serverVars
<1>6. InOrder'
  BY <1>1, <1>2, NetherServerAssumption DEF AnswerOffer, InOrder
<1>7. QueueClosed'
  BY <1>3 DEF AnswerOffer, QueueClosed, serverVars
<1>8. NewestIsSignaled'
  <2> SUFFICES ASSUME NEW t \in forwarding', alive', \A u \in Sessions : u > t => key'[u] # key'[t]
               PROVE  dispatchers'[key'[t]] = t
    BY DEF NewestIsSignaled
  <2>1. dispatchers' = [dispatchers EXCEPT ![answering] = s]
    BY DEF AnswerOffer
  <2>2. CASE t = s
    BY <1>1, <1>2, <2>1, <2>2 DEF TypeOK
  <2>3. CASE t # s
    <3>1. t \in forwarding /\ t \in Sessions /\ key[t] \in Keys /\ key'[t] = key[t]
      BY <1>2, <2>3 DEF AnswerOffer, TypeOK, Spawned
    <3>2. t < s
      <4>1. ~ s < t
        BY <1>1, <3>1, NetherServerAssumption DEF InOrder, Spawned
      <4>2. s \in Nat /\ t \in Nat
        BY <3>1, NetherServerAssumption DEF Sessions
      <4> QED
        BY <2>3, <4>1, <4>2
    <3>3. s > t
      BY <3>2
    <3>4. key[t] # answering
      BY <1>2, <3>1, <3>3
    <3>5. \A u \in Sessions : u > t => key[u] # key[t]
      BY <1>1, <1>2, <3>1, NetherServerAssumption DEF Spawned
    <3>6. dispatchers[key[t]] = t
      BY <3>1, <3>5 DEF AnswerOffer, NewestIsSignaled
    <3> QED
      BY <2>1, <3>1, <3>4, <3>6 DEF TypeOK
  <2> QED
    BY <2>2, <2>3
<1>9. PerNetwork'
  <2>1. ASSUME NEW n \in Networks PROVE Slots(n)' = Slots(n)
    <3>1. IsFiniteSet(Waiting(n)) /\ Cardinality(Waiting(n)) \in Nat
      BY SessionsFinite DEF Waiting, TypeOK, Spawned
    <3>2. s \notin waiting /\ \A t \in waiting : t \in Sessions /\ t # s
      BY <1>1 DEF TypeOK, Spawned
    <3>3. Waiting(n)' = IF NetworkOf[answering] = n THEN Waiting(n) \cup {s} ELSE Waiting(n)
      BY <1>2, <3>2 DEF Waiting, AnswerOffer
    <3>4. s \notin Waiting(n)
      BY <3>2 DEF Waiting
    <3>5. Cardinality(Waiting(n)') =
            Cardinality(Waiting(n)) + (IF NetworkOf[answering] = n THEN 1 ELSE 0)
      <4>1. CASE NetworkOf[answering] = n
        BY <3>1, <3>3, <3>4, <4>1, FS_AddElement
      <4>2. CASE NetworkOf[answering] # n
        BY <3>1, <3>3, <4>2
      <4> QED
        BY <4>1, <4>2
    <3>6. Slots(n) = Cardinality(Waiting(n)) + (IF NetworkOf[answering] = n THEN 1 ELSE 0)
      BY DEF AnswerOffer, Slots, Waiting
    <3>7. Slots(n)' = Cardinality(Waiting(n)') + 0
      BY DEF AnswerOffer, Slots, Waiting
    <3> QED
      BY <3>1, <3>5, <3>6, <3>7
  <2> QED
    BY <2>1 DEF PerNetwork, AnswerOffer
<1>10. InTotal'
  <2>1. /\ UNCHANGED counts /\ answering # None /\ answering' = None
        /\ waiting' = waiting \cup {s} /\ s \notin waiting
    BY <1>1 DEF AnswerOffer, TypeOK
  <2>2. Counted' = Counted
    BY <2>1 DEF Counted
  <2>3. IsFiniteSet(waiting) /\ Cardinality(waiting) \in Nat
    BY SessionsFinite DEF TypeOK, Spawned
  <2>4. Cardinality(waiting') = Cardinality(waiting) + 1
    BY <2>1, <2>3, FS_AddElement
  <2>5. Pending' = Pending
    BY <2>1, <2>3, <2>4 DEF Pending
  <2> QED
    BY <2>2, <2>5 DEF InTotal, Total
<1> QED
  BY <1>5, <1>6, <1>7, <1>8, <1>9, <1>10

\* A signal for a key only removes a dispatcher whose forwarder is gone; the
\* loop that ends removes all.
LEMMA HandlerInv ==
  ASSUME ServerInv, Handler
  PROVE  ServerInv'
<1> USE DEF ServerInv
<1>1. ASSUME NEW k \in Keys, Dispatch(k) PROVE ServerInv'
  <2>1. dispatchers' \in [Keys -> Sessions \cup {None}]
    BY <1>1 DEF Dispatch, TypeOK
  <2>2. TypeOK'
    BY <1>1, <2>1 DEF Dispatch, TypeOK, serverVars, Spawned
  <2>3. InOrder' /\ QueueClosed' /\ PerNetwork' /\ InTotal'
    BY <1>1 DEF Dispatch, InOrder, QueueClosed, PerNetwork, Slots, serverVars, Spawned,
                InTotal, Total, Counted, Pending
  <2>4. NewestIsSignaled'
    BY <1>1 DEF Dispatch, NewestIsSignaled, TypeOK, Spawned
  <2> QED
    BY <2>2, <2>3, <2>4
<1>2. CASE StopHandler
  <2>1. TypeOK'
    BY <1>2 DEF StopHandler, TypeOK, serverVars, Spawned
  <2>2. InOrder' /\ QueueClosed' /\ PerNetwork' /\ NewestIsSignaled'
    BY <1>2 DEF StopHandler, InOrder, QueueClosed, PerNetwork, Slots, NewestIsSignaled,
                serverVars, Spawned
  <2>3. InTotal'
    BY <1>2 DEF StopHandler, InTotal, Total, Counted, Pending
  <2> QED
    BY <2>1, <2>2, <2>3
<1> QED
  BY <1>1, <1>2, TakeOfferInv, RefuseOfferInv, AnswerOfferInv DEF Handler

\* A session that is ready leaves its task for the queue, one that is given up
\* is dropped; both give the slot back.
LEMMA EstablishInv ==
  ASSUME ServerInv, NEW s \in Sessions, Establish(s) \/ GiveUp(s)
  PROVE  ServerInv'
<1> USE DEF ServerInv
<1>1. /\ s \in waiting /\ waiting' = waiting \ {s}
      /\ counts' = [counts EXCEPT ![NetworkOf[key[s]]] = @ - 1]
      /\ UNCHANGED <<alive, answering, dispatchers, key, forwarding, ready, accepted,
                     cancelled, incoming_open, closing, config_cancelled>>
  BY DEF Establish, GiveUp, serverVars
<1>2. PerNetwork' /\ InTotal' /\ counts' \in [Networks -> Nat]
  BY <1>1, FreeSlot
<1>3. Spawned' = Spawned /\ s \in Spawned
  BY <1>1 DEF Spawned, TypeOK
<1>4. held' \in [Sessions -> SUBSET Parts]
  BY DEF Establish, GiveUp, TypeOK
<1>5. /\ closed' \subseteq Sessions
      /\ driver' \in [Sessions -> {"none", "opening", "open", "blocked", "ended"}]
  BY GuardsType DEF Establish, GiveUp
<1>6. /\ incoming' \in Seq(Sessions)
      /\ incoming' = incoming \/ (incoming_open /\ incoming' = Append(incoming, s))
  <2>1. incoming' = incoming \/ (incoming_open /\ incoming' = Append(incoming, s))
    BY Zenon DEF Establish, GiveUp, serverVars
  <2>2. incoming \in Seq(Sessions) /\ Append(incoming, s) \in Seq(Sessions)
    BY DEF TypeOK
  <2> QED
    BY <2>1, <2>2
<1>7. TypeOK'
  BY <1>1, <1>2, <1>3, <1>4, <1>5, <1>6 DEF TypeOK
<1>8. QueueClosed'
  <2>1. CASE incoming' = incoming
    BY <1>1, <1>3, <2>1 DEF QueueClosed
  <2>2. CASE incoming_open /\ incoming' = Append(incoming, s)
    <3>1. \A i \in DOMAIN incoming' : incoming'[i] = s \/ (i \in DOMAIN incoming /\ incoming'[i] = incoming[i])
      BY <2>2 DEF TypeOK
    <3> QED
      BY <1>1, <1>3, <2>2, <3>1 DEF QueueClosed
  <2> QED
    BY <1>6, <2>1, <2>2
<1>9. InOrder' /\ NewestIsSignaled'
  BY <1>1 DEF InOrder, NewestIsSignaled
<1> QED
  BY <1>2, <1>7, <1>8, <1>9

\* The driver and the forwarder of a session touch nothing of the server.
LEMMA TasksInv ==
  ASSUME ServerInv, NEW s \in Sessions, Tasks(s)
  PROVE  ServerInv'
<1> USE DEF ServerInv
<1>1. CASE \/ DriverReady(s) \/ DriverFails(s) \/ DriverSeesClose(s) \/ DriverUnheard(s)
             \/ DriverBlocks(s) \/ DriverUnblocks(s)
  <2>1. /\ driver' \in [Sessions -> {"none", "opening", "open", "blocked", "ended"}]
        /\ closed' \subseteq Sessions /\ ready' \subseteq Sessions
        /\ UNCHANGED <<handlerVars, serverVars, config_cancelled, key, waiting, held, forwarding, accepted>>
    BY <1>1 DEF DriverReady, DriverFails, DriverSeesClose, DriverUnheard, DriverEnds, DriverBlocks,
              DriverUnblocks, TypeOK
  <2>2. TypeOK'
    BY <2>1 DEF TypeOK, handlerVars, serverVars, Spawned
  <2>3. QueueClosed'
    BY <2>1 DEF QueueClosed, handlerVars, serverVars, Spawned
  <2> QED
    BY <2>1, <2>2, <2>3, SlotsAlone DEF handlerVars
<1>2. CASE ForwarderEnds(s)
  <2>1. /\ forwarding' = forwarding \ {s}
        /\ UNCHANGED <<handlerVars, serverVars, config_cancelled, key, ready, waiting, held, accepted>>
        /\ Guards({}, driver)
    BY <1>2 DEF ForwarderEnds
  <2>2. TypeOK'
    BY <2>1, GuardsType DEF TypeOK, handlerVars, serverVars, Spawned
  <2>3. QueueClosed'
    BY <2>1 DEF QueueClosed, handlerVars, serverVars, Spawned
  <2> QED
    BY <2>1, <2>2, <2>3, SlotsAlone DEF handlerVars
<1> QED
  BY <1>1, <1>2, EstablishInv DEF Tasks

\* The application takes sessions from the queue, drops and closes them.
LEMMA SessionUseInv ==
  ASSUME ServerInv,
         \/ accept
         \/ \E s \in Sessions : Read(s) \/ CloseSession(s) \/ (\E p \in Parts : DropPart(s, p))
         \/ CancelConfig
  PROVE  ServerInv'
<1> USE DEF ServerInv
<1>1. CASE accept
  <2>1. /\ incoming' = Tail(incoming) /\ incoming # << >>
        /\ accepted' = accepted \cup {Head(incoming)} /\ closing = "no"
        /\ UNCHANGED <<handlerVars, cancelled, incoming_open, closing, config_cancelled, key, driver,
                       closed, ready, waiting, held, forwarding>>
    BY <1>1 DEF accept
  <2>2. /\ incoming' \in Seq(Sessions)
        /\ Head(incoming) \in Spawned
        /\ \A i \in DOMAIN incoming' : i + 1 \in DOMAIN incoming /\ incoming'[i] = incoming[i + 1]
    BY <2>1 DEF TypeOK, QueueClosed
  <2>3. TypeOK'
    BY <2>1, <2>2 DEF TypeOK, handlerVars, Spawned
  <2>4. QueueClosed'
    BY <2>1, <2>2 DEF QueueClosed, handlerVars, Spawned
  <2> QED
    BY <2>1, <2>3, <2>4, SlotsAlone DEF handlerVars
<1>2. ASSUME NEW s \in Sessions, Read(s) \/ CloseSession(s) PROVE ServerInv'
  <2>1. /\ driver' \in [Sessions -> {"none", "opening", "open", "blocked", "ended"}]
        /\ closed' \subseteq Sessions
        /\ UNCHANGED <<handlerVars, serverVars, config_cancelled, key, ready, waiting, held, forwarding, accepted>>
    BY <1>2 DEF Read, CloseSession, TypeOK
  <2>2. TypeOK' /\ QueueClosed'
    BY <2>1 DEF TypeOK, QueueClosed, handlerVars, serverVars, Spawned
  <2> QED
    BY <2>1, <2>2, SlotsAlone DEF handlerVars
<1>3. ASSUME NEW s \in Sessions, NEW p \in Parts, DropPart(s, p) PROVE ServerInv'
  <2>1. /\ held' \in [Sessions -> SUBSET Parts]
        /\ UNCHANGED <<handlerVars, serverVars, config_cancelled, key, ready, waiting, forwarding, accepted>>
        /\ Guards({}, driver)
    BY <1>3 DEF DropPart, TypeOK
  <2>2. TypeOK'
    BY <2>1, GuardsType DEF TypeOK, handlerVars, serverVars, Spawned
  <2>3. QueueClosed'
    BY <2>1 DEF QueueClosed, handlerVars, serverVars, Spawned
  <2> QED
    BY <2>1, <2>2, <2>3, SlotsAlone DEF handlerVars
<1>4. CASE CancelConfig
  <2>1. TypeOK' /\ QueueClosed'
    BY <1>4 DEF CancelConfig, TypeOK, QueueClosed, handlerVars, serverVars, Spawned
  <2> QED
    BY <1>4, <2>1, SlotsAlone DEF CancelConfig, handlerVars
<1> QED
  BY <1>1, <1>2, <1>3, <1>4

\* Each step of close(), and the drop of the server.
LEMMA CloseInv ==
  ASSUME ServerInv, CloseServer \/ DropServer
  PROVE  ServerInv'
<1> USE DEF ServerInv
<1>1. CASE CloseCancel \/ CloseIncoming \/ CloseJoin
  <2>1. /\ UNCHANGED <<handlerVars, incoming, config_cancelled, key, driver, closed, ready, waiting,
                       held, forwarding, accepted>>
        /\ cancelled' \in BOOLEAN /\ incoming_open' \in BOOLEAN
        /\ closing' \in {"cancelled", "drain", "join", "done"}
    BY <1>1 DEF CloseCancel, CloseIncoming, CloseJoin, TypeOK
  <2>2. TypeOK'
    BY <2>1 DEF TypeOK, handlerVars, Spawned
  <2>3. QueueClosed'
    BY <1>1 DEF CloseCancel, CloseIncoming, CloseJoin, QueueClosed, handlerVars, Spawned
  <2> QED
    BY <2>1, <2>2, <2>3, SlotsAlone DEF handlerVars
<1>2. CASE CloseDrain
  <2>1. /\ incoming' = Tail(incoming) /\ incoming # << >> /\ closing = "drain"
        /\ held' = [held EXCEPT ![Head(incoming)] = {}]
        /\ UNCHANGED <<handlerVars, cancelled, incoming_open, closing, config_cancelled, key, ready,
                       waiting, forwarding, accepted>>
        /\ Guards({Head(incoming)}, driver)
    BY <1>2 DEF CloseDrain
  <2>2. /\ incoming' \in Seq(Sessions)
        /\ Head(incoming) \in Sessions
        /\ \A i \in DOMAIN incoming' : i + 1 \in DOMAIN incoming /\ incoming'[i] = incoming[i + 1]
    BY <2>1 DEF TypeOK
  <2>3. held' \in [Sessions -> SUBSET Parts]
    BY <2>1 DEF TypeOK
  <2>4. TypeOK'
    BY <2>1, <2>2, <2>3, GuardsType DEF TypeOK, handlerVars, Spawned
  <2>5. QueueClosed'
    BY <2>1, <2>2 DEF QueueClosed, handlerVars, Spawned
  <2> QED
    BY <2>1, <2>4, <2>5, SlotsAlone DEF handlerVars
<1>3. CASE DropServer
  <2>1. /\ incoming' = << >> /\ closing' = "dropped" /\ incoming_open' = FALSE /\ cancelled' = TRUE
        /\ UNCHANGED <<handlerVars, config_cancelled, key, ready, waiting, forwarding, accepted>>
        /\ Guards({}, driver)
    BY <1>3 DEF DropServer
  <2>2. held' \in [Sessions -> SUBSET Parts]
    BY <1>3 DEF DropServer, TypeOK
  <2>3. incoming' \in Seq(Sessions)
    BY <2>1
  <2>4. TypeOK'
    BY <2>1, <2>2, <2>3, GuardsType DEF TypeOK, handlerVars, Spawned
  <2>5. QueueClosed'
    BY <2>1 DEF QueueClosed, handlerVars, Spawned
  <2> QED
    BY <2>1, <2>4, <2>5, SlotsAlone DEF handlerVars
<1> QED
  BY <1>1, <1>2, <1>3 DEF CloseServer

\* Every step of the handler, of a session's tasks and of the application keeps
\* the invariant.
LEMMA ServerNextInv == ServerInv /\ [Next]_vars => ServerInv'
<1> SUFFICES ASSUME ServerInv, [Next]_vars PROVE ServerInv'
  OBVIOUS
<1>1. CASE Handler
  BY <1>1, HandlerInv
<1>2. CASE Application
  BY <1>2, SessionUseInv, CloseInv DEF Application
<1>3. ASSUME NEW s \in Sessions, Tasks(s) PROVE ServerInv'
  BY <1>3, TasksInv
<1>4. CASE UNCHANGED vars
  <2>1. TypeOK' /\ QueueClosed'
    BY <1>4 DEF vars, ServerInv, TypeOK, QueueClosed, handlerVars, serverVars, Spawned
  <2> QED
    BY <1>4, <2>1, SlotsAlone DEF vars, handlerVars, ServerInv
<1> QED
  BY <1>1, <1>2, <1>3, <1>4 DEF Next
-----------------------------------------------------------------------------
\* The inductive invariant holds throughout.
THEOREM ServerInvariant == Spec => []ServerInv
  BY ServerInitInv, ServerNextInv, PTL DEF Spec

\* Slots are given back exactly once, no network id exceeds its cap and all of
\* them together not max_pending, however offers, timers, drops and closes
\* interleave (pending.rs 19-50, server.rs 202-213, 330).
THEOREM SlotsAreExact == Spec => []SlotsMatch
<1>1. ServerInv => SlotsMatch
  BY DEF ServerInv, PerNetwork, InTotal, Pending, SlotsMatch
<1> QED
  BY <1>1, ServerInvariant, PTL

\* The newest session of a key gets the key's signals while its forwarder runs,
\* for any number of repeated offers (server.rs 126, 146-153, 315-320).
THEOREM NewestStaysSignaled == Spec => []NewestIsSignaled
<1>1. ServerInv => NewestIsSignaled
  BY DEF ServerInv
<1> QED
  BY <1>1, ServerInvariant, PTL

\* What close() has drained stays empty, and it returns after the handler
\* (server.rs 364-379).
THEOREM CloseStaysFinal == Spec => []CloseIsFinal
<1>1. ServerInv => CloseIsFinal
  BY DEF ServerInv, QueueClosed, CloseIsFinal
<1> QED
  BY <1>1, ServerInvariant, PTL
=============================================================================
