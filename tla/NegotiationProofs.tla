-------------------------- MODULE NegotiationProofs -------------------------
(***************************************************************************)
(* Proofs about what a side takes from its peer: offers, answers and       *)
(* candidates, for any number of attempts and sessions, whatever the       *)
(* network repeats, reorders or loses, whatever strangers signal and       *)
(* whatever a client of another make answers; the keys tokens are held     *)
(* against; HTTP messages, in whatever pieces they come; discovery         *)
(* packets, status and pong.                                               *)
(***************************************************************************)
EXTENDS MCPeer, SequenceTheorems, TLAPS

\* What every signal on the network says of its sender: an offer and a
\* candidate of the client name the attempt in their id, its answer is another
\* description by the client of that attempt; an answer and a candidate of the
\* server name a session that was made for it.
SignalsAreTrue ==
  \A m \in net :
    /\ m.type = "Offer" => m.from = "client"
    /\ m.type = "Answer" /\ m.from = "client" => m.of = Other(m.id)
    /\ m.from = "client" /\ m.type \in {"Offer", "Candidate"} => m.of = m.id
    /\ m.from = "server" /\ m.type \in {"Answer", "Candidate"} =>
         m.of \in 1 .. created /\ session[m.of].id = m.id

\* The sessions of the server, listed or not, hold the client's side of the
\* attempt they were made for: its offer, found valid, or its answer.
SessionsMatch ==
  \A n \in 1 .. created :
    /\ session[n] \in ConnectionType
    /\ session[n].peer = "client"
    /\ \/ session[n].remote = session[n].id /\ (TokenTrust => session[n].identity)
       \/ session[n].remote = Other(session[n].id)
    /\ session[n].candidates \subseteq {session[n].id}

TableIsMade == \A i \in Ids : table[i] # None => table[i] \in 1 .. created

\* The client holds the server's side of its present attempt.
ClientMatches ==
  client # None =>
    LET c == client.connection
    IN  /\ c.peer = "server"
        /\ c.remote # None => c.remote \in 1 .. created /\ session[c.remote].id = c.id
        /\ \A n \in c.candidates : n \in 1 .. created /\ session[n].id = c.id
        /\ ServerTrust /\ c.remote # None => c.identity

NegotiationInv == TypeOK /\ SignalsAreTrue /\ SessionsMatch /\ TableIsMade /\ ClientMatches

\* The two signals of a description name its sender and its attempt.
LEMMA DescribeSignals ==
  ASSUME NEW type \in {"Offer", "Answer"}, NEW from \in Hosts,
         NEW id \in Ids, NEW of \in Nat, NEW trusted \in BOOLEAN, NEW valid \in BOOLEAN,
         NEW m \in describe(type, from, id, of, trusted, valid)
  PROVE  m \in SignalType /\ m.type \in {type, "Candidate"} /\ m.from = from /\ m.id = id /\ m.of = of
<1>1. m = Signal(type, from, id, of, trusted, valid) \/ m = Signal("Candidate", from, id, of, TRUE, TRUE)
  BY DEF describe
<1>2. CASE m = Signal(type, from, id, of, trusted, valid)
  BY <1>2 DEF Signal, SignalType
<1>3. CASE m = Signal("Candidate", from, id, of, TRUE, TRUE)
  BY <1>3 DEF Signal, SignalType
<1> QED
  BY <1>1, <1>2, <1>3

\* Only strangers and clients of another make have signals under way at the start.
LEMMA InitInv == Init => NegotiationInv
<1> SUFFICES ASSUME Init PROVE NegotiationInv
  OBVIOUS
<1> USE NegotiationAssumption DEF Init
<1>1. \A m \in net : /\ m \in SignalType
                     /\ \/ m.from = "stranger" /\ m.type \in {"Answer", "Candidate"}
                        \/ m.from = "client" /\ m.type = "Answer" /\ m.of = Other(m.id)
  <2>1. ASSUME NEW m \in Strangers
        PROVE  m \in SignalType /\ m.from = "stranger" /\ m.type \in {"Answer", "Candidate"}
    <3>1. PICK type \in {"Answer", "Candidate"}, id \in Ids :
            m = Signal(type, "stranger", id, 0, FALSE, TRUE)
      BY DEF Strangers, Signal
    <3> QED
      BY <3>1 DEF Signal, SignalType, Hosts
  <2>2. ASSUME NEW m \in Foreign
        PROVE  m \in SignalType /\ m.from = "client" /\ m.type = "Answer" /\ m.of = Other(m.id)
    <3>1. PICK id \in Ids : m = Signal("Answer", "client", id, Other(id), FALSE, TRUE)
      BY DEF Foreign, Signal
    <3>2. Other(id) \in Nat
      BY DEF Other, Ids
    <3> QED
      BY <3>1, <3>2 DEF Signal, SignalType, Hosts
  <2> QED
    BY <2>1, <2>2
<1>2. TypeOK
  BY <1>1 DEF TypeOK
<1>3. SignalsAreTrue
  BY <1>1 DEF SignalsAreTrue
<1> QED
  BY <1>2, <1>3 DEF NegotiationInv, SessionsMatch, TableIsMade, ClientMatches

\* A new attempt offers its own id; the connection before it is forgotten.
LEMMA AttemptInv ==
  ASSUME NegotiationInv, NEW trusted \in BOOLEAN, NEW valid \in BOOLEAN,
         begin_attempt(trusted, valid)
  PROVE  NegotiationInv'
<1> DEFINE id == attempts + 1
           new == describe("Offer", "client", id, id, trusted, valid)
<1> USE NegotiationAssumption DEF NegotiationInv
<1>1. /\ id \in Ids /\ id \in Nat /\ attempts' = id /\ id \in 0 .. MaxAttempts
      /\ net' = net \cup new
      /\ client' = [connection |-> Connection(id, "server", None, FALSE), answered |-> FALSE]
      /\ UNCHANGED <<table, session, created>>
  BY DEF begin_attempt, TypeOK, Ids
<1>2. \A m \in new : /\ m \in SignalType /\ m.from = "client" /\ m.of = m.id
                     /\ m.type \in {"Offer", "Candidate"}
  BY <1>1, DescribeSignals DEF Hosts
<1>3. client' \in ClientType
  BY <1>1 DEF Connection, ClientType, ConnectionType, Hosts
<1> HIDE DEF id, new
<1>4. TypeOK'
  BY <1>1, <1>2, <1>3 DEF TypeOK
<1>5. SignalsAreTrue'
  BY <1>1, <1>2 DEF SignalsAreTrue
<1>6. ClientMatches'
  BY <1>1 DEF ClientMatches, Connection
<1> QED
  BY <1>1, <1>4, <1>5, <1>6 DEF SessionsMatch, TableIsMade

\* An error that either end signals says nothing of a description.
LEMMA ErrorInv ==
  ASSUME NegotiationInv, NEW from \in {"client", "server"}, NEW id \in Ids,
         net' = net \cup {Signal("Error", from, id, 0, TRUE, TRUE)},
         UNCHANGED <<session, created>>
  PROVE  net' \subseteq SignalType /\ SignalsAreTrue'
<1>1. Signal("Error", from, id, 0, TRUE, TRUE) \in SignalType
  BY DEF Signal, SignalType, Hosts
<1>2. net' \subseteq SignalType
  BY <1>1 DEF NegotiationInv, TypeOK
<1>3. SignalsAreTrue'
  BY DEF NegotiationInv, SignalsAreTrue, Signal
<1> QED
  BY <1>2, <1>3

\* A refused answer ends the attempt or changes nothing.
LEMMA RefuseAnswerInv ==
  ASSUME NegotiationInv, NEW m \in net, RefuseAnswer(m)
  PROVE  NegotiationInv'
<1> USE NegotiationAssumption DEF NegotiationInv
<1>1. CASE client.answered
  <2>1. UNCHANGED vars
    BY <1>1 DEF RefuseAnswer, vars
  <2> QED
    BY <2>1 DEF TypeOK, SignalsAreTrue, SessionsMatch, TableIsMade, ClientMatches, vars
<1>2. CASE ~ client.answered
  <2>1. /\ client' = None /\ UNCHANGED <<attempts, table, session, created>>
        /\ net' = net \cup {Signal("Error", "client", m.id, 0, TRUE, TRUE)}
    BY <1>2 DEF RefuseAnswer
  <2>2. m.id \in Ids
    BY DEF TypeOK, SignalType
  <2>3. net' \subseteq SignalType /\ SignalsAreTrue'
    BY <2>1, <2>2, ErrorInv
  <2> QED
    BY <2>1, <2>3 DEF TypeOK, SessionsMatch, TableIsMade, ClientMatches
<1> QED
  BY <1>1, <1>2

\* A signal that reaches a Connection changes it only if it is its own.
LEMMA HandleSignal ==
  ASSUME NEW c \in ConnectionType, NEW m \in SignalType
  PROVE  LET d == handle_signal(c, m)
         IN  /\ d \in ConnectionType
             /\ d.id = c.id /\ d.peer = c.peer
             /\ \/ d = c
                \/ /\ m.id = c.id /\ m.from = c.peer /\ m.type = "Answer" /\ m.valid
                   /\ d.remote = m.of /\ d.identity = m.trusted /\ d.candidates = c.candidates
                \/ /\ m.id = c.id /\ m.from = c.peer /\ m.type = "Candidate"
                   /\ d.remote = c.remote /\ d.identity = c.identity
                   /\ d.candidates = c.candidates \cup {m.of}
<1>1. CASE Own(c, m) /\ m.type = "Answer" /\ m.valid
  <2>1. handle_signal(c, m) = [c EXCEPT !.remote = m.of, !.identity = m.trusted]
    BY <1>1 DEF handle_signal
  <2> QED
    BY <1>1, <2>1 DEF Own, ConnectionType, SignalType
<1>2. CASE Own(c, m) /\ m.type = "Candidate" /\ m.valid
  <2>1. handle_signal(c, m) = [c EXCEPT !.candidates = @ \cup {m.of}]
    BY <1>2 DEF handle_signal
  <2> QED
    BY <1>2, <2>1 DEF Own, ConnectionType, SignalType
<1>3. CASE ~ (Own(c, m) /\ m.valid /\ m.type \in {"Answer", "Candidate"})
  <2>1. handle_signal(c, m) = c
    BY <1>3 DEF handle_signal
  <2> QED
    BY <2>1
<1> QED
  BY <1>1, <1>2, <1>3

\* The client takes answers and candidates of its own attempt, from the server.
LEMMA ClientSignalInv ==
  ASSUME NegotiationInv, NEW m \in net, ClientSignal(m)
  PROVE  NegotiationInv'
<1> DEFINE c == client.connection
           d == handle_signal(c, m)
<1> USE NegotiationAssumption DEF NegotiationInv
<1>1. /\ client # None /\ client \in ClientType /\ c \in ConnectionType /\ m \in SignalType
      /\ client.answered \in BOOLEAN
  BY DEF ClientSignal, TypeOK, ClientType
<1>2. /\ client' = [connection |-> d, answered |-> client.answered \/ m.type = "Answer"]
      /\ UNCHANGED <<net, attempts, table, session, created>>
      /\ m.type = "Answer" => verify_answer(m)
  BY DEF ClientSignal
<1>3. /\ d \in ConnectionType /\ d.id = c.id /\ d.peer = c.peer
      /\ \/ d = c
         \/ /\ m.id = c.id /\ m.from = c.peer /\ m.type = "Answer" /\ m.valid
            /\ d.remote = m.of /\ d.identity = m.trusted /\ d.candidates = c.candidates
         \/ /\ m.id = c.id /\ m.from = c.peer /\ m.type = "Candidate"
            /\ d.remote = c.remote /\ d.identity = c.identity
            /\ d.candidates = c.candidates \cup {m.of}
  BY <1>1, HandleSignal
<1>4. /\ c.peer = "server"
      /\ c.remote # None => c.remote \in 1 .. created /\ session[c.remote].id = c.id
      /\ \A n \in c.candidates : n \in 1 .. created /\ session[n].id = c.id
      /\ ServerTrust /\ c.remote # None => c.identity
  BY <1>1 DEF ClientMatches
<1>5. m.from = "server" /\ m.type \in {"Answer", "Candidate"} =>
        m.of \in 1 .. created /\ session[m.of].id = m.id
  BY DEF SignalsAreTrue
<1> HIDE DEF c, d
<1>6. client'.connection = d /\ client' \in ClientType
  BY <1>1, <1>2, <1>3 DEF ClientType
<1>7. TypeOK'
  BY <1>2, <1>6 DEF TypeOK
<1>8. ClientMatches'
  <2>1. /\ d.peer = "server"
        /\ d.remote # None => d.remote \in 1 .. created /\ session[d.remote].id = d.id
        /\ \A n \in d.candidates : n \in 1 .. created /\ session[n].id = d.id
    BY <1>3, <1>4, <1>5
  <2>2. ServerTrust /\ d.remote # None => d.identity
    BY <1>2, <1>3, <1>4 DEF verify_answer
  <2> QED
    BY <1>2, <1>6, <2>1, <2>2 DEF ClientMatches
<1> QED
  BY <1>2, <1>7, <1>8 DEF SignalsAreTrue, SessionsMatch, TableIsMade

\* A refused offer has an error signaled back.
LEMMA RefuseOfferInv ==
  ASSUME NegotiationInv, NEW m \in net, RefuseOffer(m)
  PROVE  NegotiationInv'
<1> USE NegotiationAssumption DEF NegotiationInv
<1>1. /\ UNCHANGED <<client, attempts, table, session, created>>
      /\ net' = net \cup {Signal("Error", "server", m.id, 0, TRUE, TRUE)}
  BY DEF RefuseOffer
<1>2. m.id \in Ids
  BY DEF TypeOK, SignalType
<1>3. net' \subseteq SignalType /\ SignalsAreTrue'
  BY <1>1, <1>2, ErrorInv
<1> QED
  BY <1>1, <1>3 DEF TypeOK, SessionsMatch, TableIsMade, ClientMatches

\* An answer is made with a session of its own; the sessions before it stay as
\* they are.
LEMMA AnswerOfferInv ==
  ASSUME NegotiationInv, NEW m \in net, NEW trusted \in BOOLEAN, AnswerOffer(m, trusted)
  PROVE  NegotiationInv'
<1> DEFINE n == created + 1
           c == Connection(m.id, m.from, m.of, m.trusted)
           new == describe("Answer", "server", m.id, n, trusted, TRUE)
<1> USE NegotiationAssumption DEF NegotiationInv
<1>1. /\ created' = n /\ table' = [table EXCEPT ![m.id] = n]
      /\ session' = [session EXCEPT ![n] = c]
      /\ net' = net \cup new
      /\ UNCHANGED <<client, attempts>>
      /\ n \in Numbers /\ n \in 0 .. MaxSessions /\ n \in Nat
  BY DEF AnswerOffer, TypeOK, Numbers
<1>2. /\ m \in SignalType /\ m.id \in Ids /\ m.type = "Offer" /\ m.from = "client"
      /\ m.of = m.id /\ m.of \in Nat /\ (TokenTrust => m.trusted)
  BY DEF AnswerOffer, admit, TypeOK, SignalType, SignalsAreTrue
<1>3. /\ c \in ConnectionType /\ c.id = m.id /\ c.peer = "client" /\ c.remote = c.id
      /\ c.candidates = {} /\ c.identity = m.trusted
  BY <1>2 DEF Connection, ConnectionType, Hosts, SignalType
<1>4. \A k \in new : /\ k \in SignalType /\ k.from = "server" /\ k.of = n /\ k.id = m.id
                     /\ k.type \in {"Answer", "Candidate"}
  <2> SUFFICES ASSUME NEW k \in new
               PROVE  /\ k \in SignalType /\ k.from = "server" /\ k.of = n /\ k.id = m.id
                      /\ k.type \in {"Answer", "Candidate"}
    OBVIOUS
  <2>1. k = Signal("Answer", "server", m.id, n, trusted, TRUE)
          \/ k = Signal("Candidate", "server", m.id, n, TRUE, TRUE)
    BY DEF describe
  <2>2. CASE k = Signal("Answer", "server", m.id, n, trusted, TRUE)
    BY ONLY <1>1, <1>2, <2>2 DEF Signal, SignalType, Hosts
  <2>3. CASE k = Signal("Candidate", "server", m.id, n, TRUE, TRUE)
    BY ONLY <1>1, <1>2, <2>3 DEF Signal, SignalType, Hosts
  <2> QED
    BY <2>1, <2>2, <2>3
<1>5. \A k \in 1 .. created : session'[k] = session[k] /\ k \in 1 .. n /\ k # n
  BY <1>1 DEF TypeOK, Numbers
<1>6. session'[n] = c /\ n \in 1 .. created'
  BY <1>1 DEF TypeOK, Numbers
<1>7. \A k \in 1 .. created' : k \in 1 .. created \/ k = n
  BY <1>1 DEF TypeOK
<1> HIDE DEF n, c, new
<1>8. TypeOK'
  BY <1>1, <1>2, <1>3, <1>4 DEF TypeOK
<1>9. SignalsAreTrue'
  <2> SUFFICES ASSUME NEW k \in net'
               PROVE  /\ k.type = "Offer" => k.from = "client"
                      /\ k.type = "Answer" /\ k.from = "client" => k.of = Other(k.id)
                      /\ k.from = "client" /\ k.type \in {"Offer", "Candidate"} => k.of = k.id
                      /\ k.from = "server" /\ k.type \in {"Answer", "Candidate"} =>
                           k.of \in 1 .. created' /\ session'[k.of].id = k.id
    BY DEF SignalsAreTrue
  <2>1. CASE k \in net
    BY <1>1, <1>5, <2>1 DEF SignalsAreTrue
  <2>2. CASE k \in new
    BY <1>3, <1>4, <1>6, <2>2
  <2> QED
    BY <1>1, <2>1, <2>2
<1>10. SessionsMatch'
  BY <1>2, <1>3, <1>5, <1>6, <1>7 DEF SessionsMatch
<1>11. TableIsMade'
  BY <1>1, <1>2, <1>5, <1>6 DEF TableIsMade, TypeOK
<1>12. ClientMatches'
  BY <1>1, <1>5 DEF ClientMatches
<1> QED
  BY <1>8, <1>9, <1>10, <1>11, <1>12

\* A session takes candidates and answers of its own attempt, from the client.
LEMMA ServerSignalInv ==
  ASSUME NegotiationInv, NEW m \in net, ServerSignal(m)
  PROVE  NegotiationInv'
<1> DEFINE n == table[m.id]
           c == session[n]
           d == handle_signal(c, m)
<1> USE NegotiationAssumption DEF NegotiationInv
<1>1. m \in SignalType /\ m.id \in Ids /\ n \in 1 .. created /\ n \in Numbers
  BY DEF ServerSignal, TypeOK, SignalType, TableIsMade, Numbers
<1>2. /\ session' = [session EXCEPT ![n] = d]
      /\ UNCHANGED <<net, client, attempts, table, created>>
      /\ m.from = c.peer
  BY DEF ServerSignal
<1>3. /\ c \in ConnectionType /\ c.peer = "client" /\ c.candidates \subseteq {c.id}
      /\ (c.remote = c.id /\ (TokenTrust => c.identity)) \/ c.remote = Other(c.id)
  BY <1>1 DEF SessionsMatch
<1>4. /\ d \in ConnectionType /\ d.id = c.id /\ d.peer = c.peer
      /\ \/ d = c
         \/ /\ m.id = c.id /\ m.from = c.peer /\ m.type = "Answer" /\ m.valid
            /\ d.remote = m.of /\ d.identity = m.trusted /\ d.candidates = c.candidates
         \/ /\ m.id = c.id /\ m.from = c.peer /\ m.type = "Candidate"
            /\ d.remote = c.remote /\ d.identity = c.identity
            /\ d.candidates = c.candidates \cup {m.of}
  BY <1>1, <1>3, HandleSignal
<1>5. /\ m.type = "Answer" /\ m.from = "client" => m.of = Other(m.id)
      /\ m.from = "client" /\ m.type = "Candidate" => m.of = m.id
  BY DEF SignalsAreTrue
<1>6. session'[n] = d /\ \A k \in Numbers : k # n => session'[k] = session[k]
  BY <1>1, <1>2 DEF TypeOK
<1>7. \A k \in Numbers : session'[k].id = session[k].id
  BY <1>4, <1>6
<1>8. 1 .. created \subseteq Numbers
  BY DEF TypeOK, Numbers
<1> HIDE DEF c, d
<1>9. TypeOK'
  BY <1>1, <1>2, <1>4 DEF TypeOK
<1>10. SignalsAreTrue'
  BY <1>2, <1>7, <1>8 DEF SignalsAreTrue
<1>11. SessionsMatch'
  <2>1. /\ d \in ConnectionType /\ d.peer = "client" /\ d.candidates \subseteq {d.id}
        /\ (d.remote = d.id /\ (TokenTrust => d.identity)) \/ d.remote = Other(d.id)
    BY <1>3, <1>4, <1>5
  <2> QED
    BY <1>2, <1>6, <1>8, <2>1 DEF SessionsMatch
<1>12. ClientMatches'
  BY <1>2, <1>7, <1>8 DEF ClientMatches
<1> QED
  BY <1>2, <1>9, <1>10, <1>11, <1>12 DEF TableIsMade

\* Every step keeps the invariant.
LEMMA StepInv == NegotiationInv /\ [Next]_vars => NegotiationInv'
<1> SUFFICES ASSUME NegotiationInv, [Next]_vars PROVE NegotiationInv'
  OBVIOUS
<1> USE NegotiationAssumption
<1>1. CASE \E trusted, valid \in BOOLEAN : begin_attempt(trusted, valid)
  BY <1>1, AttemptInv
<1>2. CASE Leave
  BY <1>2 DEF Leave, NegotiationInv, TypeOK, SignalsAreTrue, SessionsMatch, TableIsMade,
              ClientMatches
<1>3. ASSUME NEW m \in net,
             \/ RefuseAnswer(m) \/ ClientSignal(m) \/ RefuseOffer(m)
             \/ \E trusted \in BOOLEAN : AnswerOffer(m, trusted)
             \/ ServerSignal(m)
      PROVE  NegotiationInv'
  BY <1>3, RefuseAnswerInv, ClientSignalInv, RefuseOfferInv, AnswerOfferInv, ServerSignalInv
<1>4. ASSUME NEW i \in Ids, Expire(i) PROVE NegotiationInv'
  BY <1>4 DEF Expire, NegotiationInv, TypeOK, SignalsAreTrue, SessionsMatch, TableIsMade,
              ClientMatches
<1>5. CASE UNCHANGED vars
  BY <1>5 DEF vars, NegotiationInv, TypeOK, SignalsAreTrue, SessionsMatch, TableIsMade,
              ClientMatches
<1> QED
  BY <1>1, <1>2, <1>3, <1>4, <1>5 DEF Next

\* The invariant holds in every reachable state.
LEMMA NegotiationInductive == Spec => []NegotiationInv
  BY InitInv, StepInv, PTL DEF Spec

\* Descriptions, tables and signals keep their types.
THEOREM NegotiationTypeCorrect == Spec => []TypeOK
<1>1. NegotiationInv => TypeOK
  BY DEF NegotiationInv
<1> QED
  BY <1>1, NegotiationInductive, PTL

\* Client and server never pair up across attempts: each end runs with a
\* description and the candidates of the other end of the same attempt,
\* whatever the network does (Connection::handle_signal).
THEOREM EndsBelongTogether == Spec => []PairsMatch
<1>1. NegotiationInv => PairsMatch
  <2> SUFFICES ASSUME NegotiationInv PROVE PairsMatch
    OBVIOUS
  <2>1. 1 .. created \subseteq Numbers
    BY NegotiationAssumption DEF NegotiationInv, TypeOK, Numbers
  <2> QED
    BY <2>1 DEF NegotiationInv, SessionsMatch, ClientMatches, PairsMatch, ReplacedByPeer
<1> QED
  BY <1>1, NegotiationInductive, PTL

\* Where trust is configured, the client never runs with a description whose
\* identity was not found valid (verify_answer), and the server of a game only
\* with one that its own peer, once admitted, put in the place of a valid one
\* (OfferPolicy::admit, Connection::handle_signal).
THEOREM RemotesAreTrusted == Spec => []RemoteIsTrusted
<1>1. NegotiationInv => RemoteIsTrusted
  BY DEF NegotiationInv, SessionsMatch, ClientMatches, RemoteIsTrusted, ReplacedByPeer
<1> QED
  BY <1>1, NegotiationInductive, PTL
-----------------------------------------------------------------------------
(* The keys that identities are held against                               *)

\* Who fetches holds the mutex alone, and took it when the keys were old enough.
KeysInv ==
  /\ age \in Nat
  /\ at \in [{"watch", "app"} -> {"sleep", "idle", "due", "lock", "fetch", "ended"}]
  /\ ~ (at["watch"] = "fetch" /\ at["app"] = "fetch")
  /\ at["watch"] = "fetch" \/ at["app"] = "fetch" => age >= MinInterval

LEMMA KeysInductive == MCSpec => []KeysInv
<1>1. MCInit => KeysInv
  BY KeysAssumption DEF MCInit, Jwk!Init, KeysInv
<1>2. KeysInv /\ [MCNext]_allVars => KeysInv'
  <2> SUFFICES ASSUME KeysInv, [MCNext]_allVars PROVE KeysInv'
    OBVIOUS
  <2>0. Jwk!Next \/ UNCHANGED jwkVars
    BY DEF MCNext, InHttp, InCodec, InSignals, InKeys, allVars
  <2>1. CASE UNCHANGED <<age, at>>
    BY <2>1 DEF KeysInv
  <2>2. CASE at' = at /\ age' \in Nat /\ age' >= age
    BY <2>2, KeysAssumption DEF KeysInv
  <2>3. ASSUME NEW c \in {"watch", "app"}, NEW to \in {"sleep", "idle", "due", "lock", "ended"},
               at' = [at EXCEPT ![c] = to], age' = age
        PROVE  KeysInv'
    BY <2>3 DEF KeysInv
  <2>4. ASSUME NEW c \in {"watch", "app"}, Jwk!Lock(c) PROVE KeysInv'
    <3>1. CASE Jwk!Young
      BY <2>3, <2>4, <3>1 DEF Jwk!Lock, Jwk!Goes, Jwk!Rest
    <3>2. CASE ~ Jwk!Young
      BY <2>4, <3>2, KeysAssumption
         DEF Jwk!Lock, Jwk!Goes, Jwk!Locked, Jwk!Callers, Jwk!Young, KeysInv
    <3> QED
      BY <3>1, <3>2
  <2>5. ASSUME NEW c \in {"watch", "app"}, Jwk!Store(c) PROVE KeysInv'
    BY <2>5 DEF Jwk!Store, Jwk!Goes, Jwk!Rest, KeysInv
  <2>6. ASSUME NEW c \in {"watch", "app"}, Jwk!FetchFails(c) PROVE KeysInv'
    BY <2>3, <2>6 DEF Jwk!FetchFails, Jwk!Goes, Jwk!Rest
  <2>7. CASE Jwk!Watching \/ Jwk!refresh
    BY <2>3, <2>7 DEF Jwk!Watching, Jwk!WatchEnds, Jwk!take_missed, Jwk!CheckDue, Jwk!refresh, Jwk!Goes
  <2>8. CASE Jwk!Tick
    BY <2>2, <2>8 DEF Jwk!Tick, KeysInv
  <2>9. CASE \/ \E ks \in SUBSET Keys : Jwk!Rotate(ks)
             \/ \E t : Jwk!Snapshot(t) \/ Jwk!Unfit(t)
             \/ Jwk!Validating \/ Jwk!DropHandles \/ Jwk!Serve \/ UNCHANGED jwkVars
    BY <2>1, <2>9 DEF Jwk!Rotate, Jwk!Snapshot, Jwk!Unfit, Jwk!Validating, Jwk!mark_missed,
                      Jwk!validate_sdp, Jwk!DropHandles, Jwk!Serve, jwkVars
  <2> QED
    BY <2>0, <2>4, <2>5, <2>6, <2>7, <2>8, <2>9 DEF Jwk!Next, Jwk!Fetching, Jwk!Callers
<1> QED
  BY <1>1, <1>2, PTL DEF MCSpec

\* However the watch task and the application interleave and whatever the endpoint
\* answers, keys are never stored while the present ones are younger than
\* MinInterval: the check is made under the mutex that the fetch keeps.
THEOREM FetchesStaySpaced == MCSpec => FetchesAreSpaced
<1>1. KeysInv /\ [MCNext]_allVars =>
        [\A c \in Jwk!Callers : Jwk!Store(c) => ~ Jwk!Young]_Jwk!vars
  BY KeysAssumption DEF KeysInv, Jwk!Callers, Jwk!Store, Jwk!Young
<1> QED
  BY <1>1, KeysInductive, PTL DEF MCSpec, FetchesAreSpaced, Jwk!FetchesAreSpaced
-----------------------------------------------------------------------------
(* HTTP messages with one Content-Length                                   *)

Units ==
  [type : {"line", "bad", "many", "end", "length", "badlength", "chunked", "other", "octet"},
   n : Nat]

OneLength(m) == \E n \in Nat : m.framing = <<Http!Unit("length", n)>>

\* What decides in a head is the first unit of its kind.
LEMMA StopIs ==
  ASSUME NEW p \in Seq(Units), NEW d \in Nat, d > 0,
         \A i \in 1 .. Len(p) : i < d => p[i].type \notin {"end", "bad", "many"},
         d <= Len(p) => p[d].type \in {"end", "bad", "many"}
  PROVE  Http!Stop(p) = IF d <= Len(p) THEN d ELSE 0
<1> DEFINE I == {i \in 1 .. Len(p) : p[i].type \in {"end", "bad", "many"}}
<1>1. Http!Stop(p) = IF I # {} THEN Http!Min(I) ELSE 0
  BY DEF Http!Stop, Http!SelectInSeq
<1>2. CASE ~ (d <= Len(p))
  <2>1. \A i \in 1 .. Len(p) : i < d
    BY <1>2
  <2>2. I = {}
    BY <2>1
  <2> QED
    BY <1>1, <1>2, <2>2
<1>3. CASE d <= Len(p)
  <2>1. d \in I /\ \A i \in I : d <= i
    BY <1>3
  <2>2. Http!Min(I) \in I /\ \A i \in I : Http!Min(I) <= i
    BY <2>1 DEF Http!Min
  <2>3. Http!Min(I) = d
    BY <2>1, <2>2
  <2> QED
    BY <1>1, <1>3, <2>1, <2>3
<1> QED
  BY <1>2, <1>3

LEMMA ConcatIs ==
  ASSUME NEW S, NEW s \in Seq(S), NEW t \in Seq(S)
  PROVE  /\ s \o t \in Seq(S) /\ Len(s \o t) = Len(s) + Len(t) /\ Len(s) \in Nat /\ Len(t) \in Nat
         /\ \A i \in 1 .. Len(s) + Len(t) :
              (s \o t)[i] = IF i <= Len(s) THEN s[i] ELSE t[i - Len(s)]
  BY ConcatProperties, LenProperties

\* The units of such a message: with a head that can be read, or with one that
\* cannot.
LEMMA WireIs ==
  ASSUME NEW m \in Http!MessageType, NEW n \in Nat, m.framing = <<Http!Unit("length", n)>>
  PROVE  /\ Http!Wire(m) \in Seq(Units) /\ Len(m.body) \in Nat
         /\ m.head \in {"ok", "unusable"} =>
              /\ Len(Http!Wire(m)) = Len(m.body) + 3
              /\ Http!Wire(m)[1] = Http!Unit("line", IF m.head = "ok" THEN 1 ELSE 0)
              /\ Http!Wire(m)[2] = Http!Unit("length", n)
              /\ Http!Wire(m)[3] = Http!End
              /\ \A i \in 4 .. Len(m.body) + 3 : Http!Wire(m)[i] = Http!Unit("octet", m.body[i - 3])
         /\ m.head \in {"bad", "many"} =>
              /\ Len(Http!Wire(m)) >= 2
              /\ Http!Wire(m)[1] = Http!Unit("line", 1)
              /\ Http!Wire(m)[2] = Http!Unit(m.head, 0)
<1> DEFINE O == Http!Octets(m.body)
<1>1. /\ m.head \in {"ok", "bad", "many", "unusable"} /\ m.body \in Seq(Nat)
  BY DEF Http!MessageType
<1>2. ~ \E i \in DOMAIN m.framing : m.framing[i].type = "chunked"
  BY DEF Http!Unit
<1>3. PICK b \in Nat : b = Len(m.body) /\ DOMAIN m.body = 1 .. b
  BY <1>1
<1>4. O \in Seq(Units) /\ Len(O) = b /\ \A i \in 1 .. b : O[i] = Http!Unit("octet", m.body[i])
  <2>1. \A i \in 1 .. b : Http!Unit("octet", m.body[i]) \in Units
    <3>1. \A i \in 1 .. b : m.body[i] \in Nat
      BY <1>1, <1>3
    <3> QED
      BY <3>1 DEF Http!Unit, Units
  <2>2. O = [i \in 1 .. b |-> Http!Unit("octet", m.body[i])]
    BY <1>3 DEF Http!Octets
  <2>3. O \in [1 .. b -> Units]
    BY <2>1, <2>2
  <2> QED
    BY <2>2, <2>3
<1> HIDE DEF O
<1> DEFINE Line == Http!Unit("line", IF m.head = "ok" THEN 1 ELSE 0)
           L == Http!Unit("length", n)
<1>0. Line = (IF m.head = "ok" THEN Http!Unit("line", 1) ELSE Http!Unit("line", 0))
  OBVIOUS
<1> HIDE DEF Line
<1>5. /\ Line \in Units /\ L \in Units /\ Http!End \in Units
      /\ Http!Unit("line", 1) \in Units
  BY <1>0, <1>1 DEF Http!Unit, Http!End, Units
<1>6. CASE m.head \in {"ok", "unusable"}
  <2>1. Http!Wire(m) = ((<<Line>> \o <<L>>) \o <<Http!End>>) \o O
    BY <1>2, <1>6 DEF Http!Wire, O, Line
  <2> HIDE DEF Line, L
  <2>2. PICK g, h : g = <<Line>> \o <<L>> /\ h = g \o <<Http!End>>
    OBVIOUS
  <2>3. h \in Seq(Units) /\ Len(h) = 3 /\ h[1] = Line /\ h[2] = L /\ h[3] = Http!End
    <3>1. g \in Seq(Units) /\ Len(g) = 2 /\ g[1] = Line /\ g[2] = L
      BY <1>5, <2>2
    <3> QED
      BY <1>5, <2>2, <3>1
  <2>4. /\ h \o O \in Seq(Units) /\ Len(h \o O) = 3 + b
        /\ \A i \in 1 .. 3 + b : (h \o O)[i] = IF i <= 3 THEN h[i] ELSE O[i - 3]
    <3>1. /\ h \o O \in Seq(Units) /\ Len(h \o O) = Len(h) + Len(O)
          /\ \A i \in 1 .. Len(h) + Len(O) : (h \o O)[i] = IF i <= Len(h) THEN h[i] ELSE O[i - Len(h)]
      BY ONLY <1>4, <2>3, ConcatIs
    <3> QED
      BY <1>4, <2>3, <3>1
  <2> QED
    BY <1>3, <1>4, <1>6, <2>1, <2>2, <2>3, <2>4 DEF Line, L
<1>7. CASE m.head \in {"bad", "many"}
  <2>1. Http!Wire(m) = ((<<Http!Unit("line", 1), Http!Unit(m.head, 0)>> \o <<L>>) \o <<Http!End>>) \o O
    BY <1>2, <1>7 DEF Http!Wire, O
  <2> HIDE DEF L
  <2>2. PICK f, g, h : /\ f = <<Http!Unit("line", 1), Http!Unit(m.head, 0)>>
                       /\ g = f \o <<L>> /\ h = g \o <<Http!End>>
    OBVIOUS
  <2>3. /\ h \in Seq(Units) /\ Len(h) = 4
        /\ h[1] = Http!Unit("line", 1) /\ h[2] = Http!Unit(m.head, 0)
    <3>0. f \in Seq(Units) /\ Len(f) = 2
      <4>1. Http!Unit(m.head, 0) \in Units
        BY <1>7 DEF Http!Unit, Units
      <4> QED
        BY <1>5, <2>2, <4>1
    <3>1. g \in Seq(Units) /\ Len(g) = 3 /\ g[1] = f[1] /\ g[2] = f[2]
      BY <1>5, <2>2, <3>0
    <3> QED
      BY <1>5, <2>2, <3>1
  <2>4. /\ h \o O \in Seq(Units) /\ Len(h \o O) = 4 + b
        /\ \A i \in 1 .. 4 + b : (h \o O)[i] = IF i <= 4 THEN h[i] ELSE O[i - 4]
    <3>1. /\ h \o O \in Seq(Units) /\ Len(h \o O) = Len(h) + Len(O)
          /\ \A i \in 1 .. Len(h) + Len(O) : (h \o O)[i] = IF i <= Len(h) THEN h[i] ELSE O[i - Len(h)]
      BY ONLY <1>4, <2>3, ConcatIs
    <3> QED
      BY <1>4, <2>3, <3>1
  <2> QED
    BY <1>3, <1>7, <2>1, <2>2, <2>3, <2>4
<1> QED
  BY <1>1, <1>6, <1>7

\* What the readers make of a head with one Content-Length.
LEMMA BodyIs ==
  ASSUME NEW h \in Seq(Units), Len(h) = 3, h[1].type = "line", NEW n \in Nat,
         h[2] = Http!Unit("length", n), h[3] = Http!End, NEW buf, NEW unframed
  PROVE  /\ Http!RequestBody(h, buf) = Http!read_body(h, buf, Http!Complete(<<>>))
         /\ Http!read_body(h, buf, unframed) =
              IF n > MaxBody THEN Http!Error("SizeExceeded")
              ELSE IF Len(buf) < n THEN Http!Partial
              ELSE Http!Complete(SubSeq(buf, 1, n))
<1>1. /\ DOMAIN h = 1 .. 3
      /\ h[2].type = "length" /\ h[2].n = n /\ h[3].type = "end"
  BY DEF Http!Unit, Http!End
<1>2. Http!Has(h, Http!lengths) /\ ~ Http!Has(h, Http!encodings)
  BY <1>1 DEF Http!Has, Http!lengths, Http!encodings
<1>3. Http!SelectInSeq(h, LAMBDA u : u.type \in Http!lengths) = 2
  <2> DEFINE I == {i \in 1 .. Len(h) : h[i].type \in Http!lengths}
  <2>1. I = {2}
    BY <1>1 DEF Http!lengths
  <2>2. Http!Min(I) \in I
    BY <2>1 DEF Http!Min
  <2> QED
    BY <2>1, <2>2 DEF Http!SelectInSeq
<1>4. Http!RequestBody(h, buf) = Http!read_body(h, buf, Http!Complete(<<>>))
  BY <1>2 DEF Http!RequestBody
<1> QED
  BY <1>1, <1>2, <1>3, <1>4 DEF Http!read_body

\* A part of such a message from its start.
Part(p, m) ==
  /\ p \in Seq(Units)
  /\ Len(p) <= Len(Http!Wire(m))
  /\ \A i \in 1 .. Len(p) : p[i] = Http!Wire(m)[i]

Parses(r, p) == r = Http!RequestReader(p) \/ r = Http!ResponseReader(p)

LEMMA UnitIs == \A t, k : Http!Unit(t, k).type = t /\ Http!Unit(t, k).n = k
  BY DEF Http!Unit

LEMMA HeadTypes ==
  ASSUME NEW m \in Http!MessageType, NEW n \in Nat, m.framing = <<Http!Unit("length", n)>>
  PROVE  /\ Http!Wire(m)[1].type = "line"
         /\ m.head \in {"ok", "unusable"} => Http!Wire(m)[2].type = "length"
         /\ m.head \in {"bad", "many"} => Http!Wire(m)[2].type = m.head
<1>1. CASE m.head \in {"ok", "unusable"}
  <2>1. /\ Http!Wire(m)[1] = Http!Unit("line", IF m.head = "ok" THEN 1 ELSE 0)
        /\ Http!Wire(m)[2] = Http!Unit("length", n)
    BY <1>1, WireIs
  <2> QED
    BY ONLY <1>1, <2>1, UnitIs
<1>2. CASE m.head \in {"bad", "many"}
  <2>1. /\ Http!Wire(m)[1] = Http!Unit("line", 1)
        /\ Http!Wire(m)[2] = Http!Unit(m.head, 0)
    BY <1>2, WireIs
  <2> QED
    BY ONLY <1>2, <2>1, UnitIs
<1> QED
  BY <1>1, <1>2 DEF Http!MessageType

\* Parsing waits for the end of the head, whichever reader it is.
LEMMA HeadIsAwaited ==
  ASSUME NEW m \in Http!MessageType, OneLength(m), NEW p, Part(p, m), NEW r, Parses(r, p),
         Len(p) < (IF m.head \in {"ok", "unusable"} THEN 3 ELSE 2)
  PROVE  r = Http!Partial
<1>1. PICK n \in Nat : m.framing = <<Http!Unit("length", n)>>
  BY DEF OneLength
<1>2. m.head \in {"ok", "unusable", "bad", "many"}
  BY DEF Http!MessageType
<1>3. \A i \in 1 .. Len(p) : p[i].type \in {"line", "length"}
  <2>1. /\ Http!Wire(m)[1].type = "line"
        /\ m.head \in {"ok", "unusable"} => Http!Wire(m)[2].type = "length"
    BY <1>1, HeadTypes
  <2>2. \A i \in 1 .. Len(p) : i = 1 \/ (i = 2 /\ m.head \in {"ok", "unusable"})
    BY <1>2 DEF Part
  <2> QED
    BY <2>1, <2>2 DEF Part
<1>4. Http!Stop(p) = 0
  <2>1. p \in Seq(Units) /\ Len(p) \in Nat
    BY DEF Part
  <2>2. \A i \in 1 .. Len(p) : p[i].type \notin {"end", "bad", "many"}
    BY <1>3
  <2>3. ~ (Len(p) + 1 <= Len(p)) /\ Len(p) + 1 \in Nat /\ Len(p) + 1 > 0
    BY <2>1
  <2> QED
    BY <2>1, <2>2, <2>3, StopIs
<1>5. Http!Parsed(p) = "Partial"
  BY <1>4 DEF Http!Parsed
<1> QED
  BY <1>5 DEF Parses, Http!RequestReader, Http!ResponseReader, Http!Parse, Http!Partial

LEMMA BadHeadIsRefused ==
  ASSUME NEW m \in Http!MessageType, OneLength(m), NEW p, Part(p, m), NEW r, Parses(r, p),
         m.head \in {"bad", "many"}, Len(p) >= 2
  PROVE  r = Http!Error(IF m.head = "bad" THEN "Malformed" ELSE "HeaderCountExceeded")
<1>1. PICK n \in Nat : m.framing = <<Http!Unit("length", n)>>
  BY DEF OneLength
<1>2. p \in Seq(Units) /\ Len(p) \in Nat /\ p[1].type = "line" /\ p[2].type = m.head
  <2>1. p \in Seq(Units) /\ Len(p) \in Nat
    BY DEF Part
  <2>2. 1 \in 1 .. Len(p) /\ 2 \in 1 .. Len(p)
    BY <2>1
  <2> QED
    BY <1>1, <2>1, <2>2, HeadTypes DEF Part
<1>3. Http!Stop(p) = 2
  BY <1>2, StopIs
<1>4. Http!Parsed(p) = (IF m.head = "bad" THEN "Malformed" ELSE "HeaderCountExceeded")
  BY <1>2, <1>3 DEF Http!Parsed
<1> QED
  BY <1>4 DEF Parses, Http!RequestReader, Http!ResponseReader, Http!Parse

\* Once the head is there, its Content-Length decides how much is awaited, and
\* the body is that of the message up to there.
LEMMA BodyIsRead ==
  ASSUME NEW m \in Http!MessageType, NEW n \in Nat, m.framing = <<Http!Unit("length", n)>>,
         NEW p, Part(p, m), NEW r, Parses(r, p), m.head \in {"ok", "unusable"}, Len(p) >= 3
  PROVE  /\ n > MaxBody => r = Http!Error("SizeExceeded")
         /\ n <= MaxBody /\ Len(p) - 3 < n => r = Http!Partial
         /\ n <= MaxBody /\ n <= Len(p) - 3 =>
              IF m.head = "unusable" THEN r = Http!Error("Malformed")
              ELSE r.type = "Complete" /\ Http!Values(r.body) = SubSeq(m.body, 1, n)
<1> DEFINE h == Http!HeadOf(p)
           buf == Http!AfterHead(p)
<1>1. p \in Seq(Units) /\ Len(p) \in Nat /\ MaxBody \in Nat
  BY HttpAssumption DEF Part
<1>2. /\ p[1] = Http!Wire(m)[1] /\ p[2] = Http!Wire(m)[2] /\ p[3] = Http!Wire(m)[3]
  <2>1. 1 \in 1 .. Len(p) /\ 2 \in 1 .. Len(p) /\ 3 \in 1 .. Len(p)
    BY <1>1
  <2> QED
    BY <2>1 DEF Part
<1>3. /\ p[1] = Http!Unit("line", IF m.head = "ok" THEN 1 ELSE 0)
      /\ p[2] = Http!Unit("length", n) /\ p[3] = Http!End
  BY <1>2, WireIs
<1>4. p[1].type = "line" /\ p[2].type = "length" /\ p[3].type = "end"
  BY ONLY <1>3, UnitIs DEF Http!End
<1>5. Http!Stop(p) = 3
  <2>1. \A i \in 1 .. Len(p) : i < 3 => p[i].type \notin {"end", "bad", "many"}
    BY <1>1, <1>4
  <2> QED
    BY <1>1, <1>4, <2>1, StopIs
<1>6. Http!Parsed(p) = "Complete"
  BY <1>4, <1>5 DEF Http!Parsed
<1>7. h \in Seq(Units) /\ Len(h) = 3 /\ h[1] = p[1] /\ h[2] = p[2] /\ h[3] = p[3]
  <2>1. h = SubSeq(p, 1, 3)
    BY <1>5 DEF Http!HeadOf
  <2>2. \A i \in 1 .. 3 : p[i] \in Units
    BY <1>1
  <2> QED
    BY <2>1, <2>2, SubSeqProperties
<1>8. buf \in Seq(Units) /\ Len(buf) = Len(p) - 3 /\ \A i \in 1 .. Len(p) - 3 : buf[i] = p[i + 3]
  <2>1. buf = SubSeq(p, 4, Len(p))
    BY <1>5 DEF Http!AfterHead
  <2>2. \A i \in 4 .. Len(p) : p[i] \in Units
    BY <1>1
  <2>3. PICK l \in Nat : l = Len(p) /\ l >= 3
    BY <1>1
  <2>4. /\ SubSeq(p, 4, l) \in Seq(Units)
        /\ Len(SubSeq(p, 4, l)) = (IF 4 <= l THEN l - 4 + 1 ELSE 0)
        /\ \A i \in 1 .. l - 4 + 1 : SubSeq(p, 4, l)[i] = p[4 + i - 1]
    BY <2>2, <2>3, SubSeqProperties
  <2> QED
    BY <2>1, <2>3, <2>4
<1> DEFINE body == IF n > MaxBody THEN Http!Error("SizeExceeded")
                   ELSE IF Len(buf) < n THEN Http!Partial
                   ELSE Http!Complete(SubSeq(buf, 1, n))
<1>9. Http!RequestBody(h, buf) = body /\ Http!ResponseBody(h, buf) = body
  <2> HIDE DEF h, buf
  <2> QED
    BY <1>3, <1>4, <1>7, BodyIs DEF Http!ResponseBody
<1>10. r = Http!Built(h, body)
  <2>1. r = Http!Parse(p, body)
    BY <1>9 DEF Parses, Http!RequestReader, Http!ResponseReader
  <2> QED
    BY <1>6, <2>1 DEF Http!Parse
<1> HIDE DEF h, buf
<1>11. CASE n > MaxBody
  <2>1. body = Http!Error("SizeExceeded")
    BY <1>11
  <2>2. r = Http!Error("SizeExceeded")
    BY <1>10, <2>1 DEF Http!Built, Http!Error
  <2> QED
    BY <1>1, <1>11, <2>2
<1>12. CASE n <= MaxBody /\ Len(p) - 3 < n
  <2>1. body = Http!Partial
    BY <1>1, <1>8, <1>12
  <2> QED
    BY <1>1, <1>10, <1>12, <2>1 DEF Http!Built, Http!Partial, Http!Error
<1>13. CASE n <= MaxBody /\ n <= Len(p) - 3
  <2>1. body = Http!Complete(SubSeq(buf, 1, n))
    BY <1>1, <1>8, <1>13
  <2>2. CASE m.head = "unusable"
    <3>1. h[1] = Http!Unit("line", 0)
      BY <1>3, <1>7, <2>2
    <3> QED
      BY <1>1, <1>10, <1>13, <2>1, <2>2, <3>1 DEF Http!Built, Http!Complete
  <2>3. CASE m.head = "ok"
    <3>1. h[1] = Http!Unit("line", 1)
      BY <1>3, <1>7, <2>3
    <3>2. h[1] # Http!Unit("line", 0)
      BY ONLY <3>1, UnitIs
    <3>3. r.type = "Complete" /\ r.body = SubSeq(buf, 1, n)
      BY <1>10, <2>1, <3>2 DEF Http!Built, Http!Complete
    <3>4. m.body \in Seq(Nat) /\ Len(m.body) \in Nat /\ n <= Len(m.body)
      <4>1. Len(m.body) \in Nat /\ Len(Http!Wire(m)) = Len(m.body) + 3
        BY <2>3, WireIs
      <4> QED
        BY <1>1, <1>13, <4>1 DEF Http!MessageType, Part
    <3>5. ASSUME NEW i \in 1 .. n
          PROVE  buf[i] \in Units /\ buf[i].n = m.body[i] /\ m.body[i] \in Nat
      <4>1. i \in 1 .. Len(p) - 3 /\ i + 3 \in 1 .. Len(p) /\ i + 3 \in 4 .. Len(m.body) + 3
            /\ (i + 3) - 3 = i
        BY <1>1, <1>13, <3>4
      <4>2. buf[i] = Http!Wire(m)[i + 3]
        BY <1>8, <4>1 DEF Part
      <4>3. Http!Wire(m)[i + 3] = Http!Unit("octet", m.body[i])
        BY <2>3, <4>1, WireIs
      <4>4. buf[i].n = m.body[i]
        BY ONLY <4>2, <4>3, UnitIs
      <4>5. buf[i] \in Units
        BY <1>8, <4>1
      <4>6. i \in 1 .. Len(m.body)
        BY <3>4
      <4>7. m.body[i] \in Nat
        BY <3>4, <4>6
      <4> QED
        BY <4>4, <4>5, <4>7
    <3>6. /\ SubSeq(buf, 1, n) \in Seq(Units) /\ Len(SubSeq(buf, 1, n)) = n
          /\ \A i \in 1 .. n : SubSeq(buf, 1, n)[i] = buf[i]
      BY <3>5, SubSeqProperties
    <3>7. /\ SubSeq(m.body, 1, n) \in Seq(Nat) /\ Len(SubSeq(m.body, 1, n)) = n
          /\ \A i \in 1 .. n : SubSeq(m.body, 1, n)[i] = m.body[i]
      BY <3>5, SubSeqProperties
    <3>8. /\ DOMAIN r.body = 1 .. n /\ \A i \in 1 .. n : r.body[i].n = m.body[i]
      BY <3>3, <3>5, <3>6
    <3>9. Http!Values(r.body) = [i \in 1 .. n |-> m.body[i]]
      BY <3>8 DEF Http!Values
    <3>10. SubSeq(m.body, 1, n) = [i \in 1 .. n |-> m.body[i]]
      BY <3>7
    <3> QED
      BY <1>1, <1>13, <2>3, <3>3, <3>9, <3>10
  <2> QED
    BY <2>2, <2>3
<1> QED
  BY <1>1, <1>11, <1>12, <1>13

Judges(v, r, p) ==
  \/ v = Http!ServerVerdict(p) /\ r = Http!RequestReader(p)
  \/ v = Http!ClientVerdict(p) /\ r = Http!ResponseReader(p)

\* What a server and a client make of what was parsed.
LEMMA VerdictOf ==
  ASSUME NEW v, NEW r, NEW p, Judges(v, r, p)
  PROVE  /\ r.type = "Complete" =>
              IF Http!IsText(Http!Values(r.body)) THEN v = Http!Message(Http!Values(r.body))
              ELSE v \in {Http!Refused(400), Http!Failed}
         /\ r = Http!Partial =>
              IF Len(p) > MaxBody THEN v \in {Http!Refused(413), Http!Failed} ELSE v = None
         /\ r = Http!Error("Malformed") => v \in {Http!Refused(400), Http!Failed}
         /\ r = Http!Error("HeaderCountExceeded") => v \in {Http!Refused(431), Http!Failed}
         /\ r = Http!Error("SizeExceeded") => v \in {Http!Refused(413), Http!Failed}
<1>1. CASE r.type = "Complete"
  BY <1>1 DEF Judges, Http!ServerVerdict, Http!ClientVerdict, Http!Partial, Http!Error
<1>2. CASE r = Http!Partial
  <2>1. r.type = "Partial"
    BY <1>2 DEF Http!Partial, Http!Error
  <2>2. IF Len(p) > MaxBody THEN v \in {Http!Refused(413), Http!Failed} ELSE v = None
    BY <2>1 DEF Judges, Http!ServerVerdict, Http!ClientVerdict
  <2> QED
    BY <1>2, <2>1, <2>2 DEF Http!Partial, Http!Error
<1>3. ASSUME NEW k \in {"Malformed", "HeaderCountExceeded", "SizeExceeded"}, r = Http!Error(k)
      PROVE  v \in {Http!Refused(Http!StatusOf[k]), Http!Failed}
  <2>1. r.type = k
    BY <1>3 DEF Http!Error
  <2> QED
    BY <2>1 DEF Judges, Http!ServerVerdict, Http!ClientVerdict
<1>4. /\ Http!StatusOf["Malformed"] = 400 /\ Http!StatusOf["HeaderCountExceeded"] = 431
      /\ Http!StatusOf["SizeExceeded"] = 413
  BY DEF Http!StatusOf
<1> QED
  BY <1>1, <1>2, <1>3, <1>4

\* What a message with one Content-Length means.
LEMMA MeantIs ==
  ASSUME NEW m \in Http!MessageType, NEW n \in Nat, m.framing = <<Http!Unit("length", n)>>
  PROVE  /\ Http!Announced(m) = n
         /\ n <= Len(m.body) =>
              Http!Body(m) = SubSeq(m.body, 1, n) /\ Len(Http!Body(m)) = n
         /\ Http!Proper(m) <=> /\ m.head = "ok" /\ Http!IsText(Http!Body(m))
                               /\ Len(Http!Body(m)) <= MaxBody /\ n = Len(Http!Body(m))
         /\ n > Len(m.body) => ~ Http!Proper(m)
         /\ Http!Unfinished(m) <=> m.head \in {"ok", "unusable"} /\ Len(m.body) < n
<1>1. m.body \in Seq(Nat) /\ Len(m.body) \in Nat
  BY DEF Http!MessageType
<1>2. Http!Announced(m) = n
  <2>1. m.framing # <<>> /\ m.framing[1] = Http!Unit("length", n)
    OBVIOUS
  <2> QED
    BY <2>1, UnitIs DEF Http!Announced
<1>3. ASSUME n <= Len(m.body)
      PROVE  Http!Body(m) = SubSeq(m.body, 1, n) /\ Len(Http!Body(m)) = n
  <2>1. Http!Body(m) = SubSeq(m.body, 1, n)
    BY <1>2, <1>3 DEF Http!Body
  <2>2. \A i \in 1 .. n : m.body[i] \in Nat
    BY <1>1, <1>3
  <2>3. Len(SubSeq(m.body, 1, n)) = n
    BY <2>2, SubSeqProperties
  <2> QED
    BY <2>1, <2>3
<1>4. ASSUME n > Len(m.body) PROVE Http!Body(m) = m.body
  BY <1>1, <1>2, <1>4 DEF Http!Body
<1>5. \A k : m.framing = <<Http!Unit("length", k)>> <=> n = k
  <2>1. ASSUME NEW k, <<Http!Unit("length", n)>> = <<Http!Unit("length", k)>> PROVE n = k
    <3>1. Http!Unit("length", n) = Http!Unit("length", k)
      BY <2>1
    <3> QED
      BY ONLY <3>1, UnitIs
  <2> QED
    BY <2>1
<1>6. m.framing # <<>> /\ m.framing # <<Http!Unit("chunked", 0)>>
  <2>1. ASSUME <<Http!Unit("length", n)>> = <<Http!Unit("chunked", 0)>> PROVE FALSE
    <3>1. Http!Unit("length", n) = Http!Unit("chunked", 0)
      BY <2>1
    <3>2. "length" = "chunked"
      BY ONLY <3>1, UnitIs
    <3> QED
      BY <3>2
  <2> QED
    BY <2>1
<1>7. Http!Proper(m) <=> /\ m.head = "ok" /\ Http!IsText(Http!Body(m))
                         /\ Len(Http!Body(m)) <= MaxBody /\ n = Len(Http!Body(m))
  BY <1>5, <1>6 DEF Http!Proper
<1>8. n > Len(m.body) => ~ Http!Proper(m)
  BY <1>1, <1>4, <1>7
<1>9. Http!Unfinished(m) <=> m.head \in {"ok", "unusable"} /\ Len(m.body) < n
  BY <1>2, <1>5 DEF Http!Unfinished
<1> QED
  BY <1>2, <1>3, <1>7, <1>8, <1>9

LEMMA FailedIs ==
  Http!Failed # None /\ Http!Failed.type # "Message" /\ Http!Failed # Http!Refused(413)
<1>1. <<>> \in Seq(Nat)
  BY EmptySeq
<1>2. Http!Failed \in [type : {"Message", "Refused", "Failed"}, status : Nat, body : Seq(Nat)]
  BY <1>1 DEF Http!Failed
<1>3. Http!Failed.type = "Failed" /\ Http!Refused(413).type = "Refused"
  BY DEF Http!Failed, Http!Refused
<1> QED
  BY ONLY <1>2, <1>3, HttpAssumption

LEMMA UnfinishedIsNotProper ==
  ASSUME NEW m \in Http!MessageType, OneLength(m), Http!Unfinished(m)
  PROVE  ~ Http!Proper(m)
<1>1. PICK n \in Nat : m.framing = <<Http!Unit("length", n)>>
  BY DEF OneLength
<1>2. Len(m.body) \in Nat /\ Len(m.body) < n
  <2>1. m.body \in Seq(Nat)
    BY DEF Http!MessageType
  <2>2. Http!Announced(m) = n
    BY <1>1, MeantIs
  <2> QED
    BY <2>1, <2>2 DEF Http!Unfinished
<1> QED
  BY <1>1, <1>2, MeantIs

\* A part of a message is judged as the message was meant, and the whole is
\* judged unless more was announced than was sent.
LEMMA JudgedAsMeant ==
  ASSUME NEW m \in Http!MessageType, OneLength(m), NEW p, Part(p, m), NEW v,
         v = Http!ServerVerdict(p) \/ v = Http!ClientVerdict(p)
  PROVE  /\ v # None =>
              /\ v.type = "Message" => Http!Proper(m) /\ v.body = Http!Body(m)
              /\ v.type # "Message" => ~ Http!Proper(m) \/ Http!TooLarge(m)
              /\ v = Http!Refused(413) => Http!TooLarge(m)
         /\ v = None /\ Len(p) = Len(Http!Wire(m)) => Http!Unfinished(m)
<1> DEFINE Good ==
      /\ v # None =>
           /\ v.type = "Message" => Http!Proper(m) /\ v.body = Http!Body(m)
           /\ v.type # "Message" => ~ Http!Proper(m) \/ Http!TooLarge(m)
           /\ v = Http!Refused(413) => Http!TooLarge(m)
      /\ v = None /\ Len(p) = Len(Http!Wire(m)) => Http!Unfinished(m)
<1>1. PICK n \in Nat : m.framing = <<Http!Unit("length", n)>>
  BY DEF OneLength
<1>2. PICK r : Judges(v, r, p)
  BY DEF Judges
<1>3. Parses(r, p)
  BY <1>2 DEF Judges, Parses
<1>4. /\ m.head \in {"ok", "unusable", "bad", "many"} /\ Len(p) \in Nat /\ MaxBody \in Nat
      /\ Len(m.body) \in Nat /\ Http!Wire(m) \in Seq(Units) /\ Len(Http!Wire(m)) \in Nat
      /\ Len(p) <= Len(Http!Wire(m))
  <2>1. m.head \in {"ok", "unusable", "bad", "many"} /\ m.body \in Seq(Nat)
    BY DEF Http!MessageType
  <2>2. Http!Wire(m) \in Seq(Units)
    BY <1>1, WireIs
  <2>3. p \in Seq(Units) /\ Len(p) <= Len(Http!Wire(m))
    BY DEF Part
  <2> QED
    BY <2>1, <2>2, <2>3, HttpAssumption
<1>5. /\ \A s \in {400, 413, 431} : Http!Refused(s) # None /\ Http!Refused(s).type # "Message"
      /\ Http!Failed # None /\ Http!Failed.type # "Message" /\ Http!Failed # Http!Refused(413)
      /\ Http!Refused(400) # Http!Refused(413) /\ Http!Refused(431) # Http!Refused(413)
  <2>1. <<>> \in Seq(Nat)
    BY EmptySeq
  <2>2. \A s \in Nat :
          Http!Refused(s) \in [type : {"Message", "Refused", "Failed"}, status : Nat, body : Seq(Nat)]
    BY <2>1 DEF Http!Refused
  <2>3. Http!Failed \in [type : {"Message", "Refused", "Failed"}, status : Nat, body : Seq(Nat)]
    BY <2>1 DEF Http!Failed
  <2>4. /\ \A s : Http!Refused(s).type = "Refused" /\ Http!Refused(s).status = s
        /\ Http!Failed.type = "Failed" /\ Http!Failed.status = 0
    BY DEF Http!Refused, Http!Failed
  <2>5. /\ \A s \in {400, 413, 431} : Http!Refused(s) # None
        /\ Http!Failed # None
    <3>1. ASSUME NEW s \in Nat PROVE Http!Refused(s) # None
      <4>1. Http!Refused(s) \in [type : {"Message", "Refused", "Failed"}, status : Nat, body : Seq(Nat)]
        BY <2>2
      <4> QED
        BY ONLY <4>1, HttpAssumption
    <3>2. Http!Failed # None
      BY ONLY <2>3, HttpAssumption
    <3> QED
      BY <3>1, <3>2
  <2> QED
    BY ONLY <2>4, <2>5
<1>6. ASSUME NEW s \in {400, 413, 431}, v \in {Http!Refused(s), Http!Failed},
             ~ Http!Proper(m) \/ Http!TooLarge(m), s = 413 => Http!TooLarge(m)
      PROVE  Good
  <2>1. v # None /\ v.type # "Message" /\ (v = Http!Refused(413) => s = 413)
    BY <1>5, <1>6
  <2> QED
    BY <1>6, <2>1
<1>7. ASSUME r = Http!Partial, Len(p) = Len(Http!Wire(m)) => Http!Unfinished(m)
      PROVE  Good
  <2>1. CASE Len(p) > MaxBody
    <3>1. Http!TooLarge(m)
      BY <1>4, <2>1 DEF Http!TooLarge
    <3>2. v \in {Http!Refused(413), Http!Failed}
      BY <1>2, <1>7, <2>1, VerdictOf
    <3> QED
      BY <1>6, <3>1, <3>2
  <2>2. CASE ~ (Len(p) > MaxBody)
    <3>1. v = None
      BY <1>2, <1>7, <2>2, VerdictOf
    <3> QED
      BY <1>7, <3>1
  <2> QED
    BY <2>1, <2>2
<1>8. CASE m.head \in {"bad", "many"}
  <2>1. Len(Http!Wire(m)) >= 2 /\ ~ Http!Proper(m)
    BY <1>1, <1>8, WireIs, MeantIs
  <2>2. CASE Len(p) < 2
    <3>1. r = Http!Partial
      BY <1>3, <1>8, <2>2, HeadIsAwaited
    <3>2. Len(p) # Len(Http!Wire(m))
      BY <1>4, <2>1, <2>2
    <3> QED
      BY <1>7, <3>1, <3>2
  <2>3. CASE Len(p) >= 2
    <3>1. r = Http!Error(IF m.head = "bad" THEN "Malformed" ELSE "HeaderCountExceeded")
      BY <1>3, <1>8, <2>3, BadHeadIsRefused
    <3>2. v \in {Http!Refused(400), Http!Failed} \/ v \in {Http!Refused(431), Http!Failed}
      <4>1. r = Http!Error("Malformed") \/ r = Http!Error("HeaderCountExceeded")
        BY <3>1
      <4> QED
        BY <1>2, <4>1, VerdictOf
    <3> QED
      BY <1>6, <2>1, <3>2
  <2> QED
    BY <1>4, <2>2, <2>3
<1>9. CASE m.head \in {"ok", "unusable"}
  <2>1. Len(Http!Wire(m)) = Len(m.body) + 3
    BY <1>1, <1>9, WireIs
  <2>2. CASE Len(p) < 3
    <3>1. r = Http!Partial
      BY <1>3, <1>9, <2>2, HeadIsAwaited
    <3>2. Len(p) # Len(Http!Wire(m))
      BY <1>4, <2>1, <2>2
    <3> QED
      BY <1>7, <3>1, <3>2
  <2>3. CASE Len(p) >= 3 /\ n > MaxBody
    <3>1. r = Http!Error("SizeExceeded")
      BY <1>1, <1>3, <1>9, <2>3, BodyIsRead
    <3>2. v \in {Http!Refused(413), Http!Failed}
      BY <1>2, <3>1, VerdictOf
    <3>3. Http!TooLarge(m)
      BY <1>1, <2>3, MeantIs DEF Http!TooLarge
    <3> QED
      BY <1>6, <3>2, <3>3
  <2>4. CASE Len(p) >= 3 /\ n <= MaxBody /\ Len(p) - 3 < n
    <3>1. r = Http!Partial
      BY <1>1, <1>3, <1>9, <2>4, BodyIsRead
    <3>2. ASSUME Len(p) = Len(Http!Wire(m)) PROVE Http!Unfinished(m)
      <4>1. Len(m.body) < n
        BY <1>4, <2>1, <2>4, <3>2
      <4> QED
        BY <1>1, <1>9, <4>1, MeantIs
    <3> QED
      BY <1>7, <3>1, <3>2
  <2>5. CASE Len(p) >= 3 /\ n <= MaxBody /\ n <= Len(p) - 3
    <3>1. n <= Len(m.body)
      BY <1>4, <2>1, <2>5
    <3>2. Http!Body(m) = SubSeq(m.body, 1, n) /\ Len(Http!Body(m)) = n
      BY <1>1, <3>1, MeantIs
    <3>3. CASE m.head = "unusable"
      <4>1. r = Http!Error("Malformed")
        BY <1>1, <1>3, <1>9, <2>5, <3>3, BodyIsRead
      <4>2. v \in {Http!Refused(400), Http!Failed}
        BY <1>2, <4>1, VerdictOf
      <4>3. ~ Http!Proper(m)
        BY <1>1, <3>3, MeantIs
      <4> QED
        BY <1>6, <4>2, <4>3
    <3>4. CASE m.head = "ok"
      <4>1. r.type = "Complete" /\ Http!Values(r.body) = Http!Body(m)
        BY <1>1, <1>3, <1>9, <2>5, <3>2, <3>4, BodyIsRead
      <4>2. Http!Proper(m) <=> Http!IsText(Http!Body(m))
        BY <1>1, <2>5, <3>2, <3>4, MeantIs
      <4>3. CASE Http!IsText(Http!Body(m))
        <5>1. v = Http!Message(Http!Body(m))
          BY <1>2, <4>1, <4>3, VerdictOf
        <5>2. v.type = "Message" /\ v.body = Http!Body(m) /\ v # Http!Refused(413)
          BY <5>1 DEF Http!Message, Http!Refused
        <5>3. Http!Body(m) \in Seq(Nat)
          <6>1. m.body \in Seq(Nat) /\ \A i \in 1 .. n : m.body[i] \in Nat
            BY <1>4, <3>1 DEF Http!MessageType
          <6> QED
            BY <3>2, <6>1, SubSeqProperties
        <5>4. v \in [type : {"Message", "Refused", "Failed"}, status : Nat, body : Seq(Nat)]
          BY <5>1, <5>3 DEF Http!Message
        <5>5. v # None
          BY <5>4, HttpAssumption
        <5> QED
          BY <4>2, <4>3, <5>2, <5>5
      <4>4. CASE ~ Http!IsText(Http!Body(m))
        <5>1. v \in {Http!Refused(400), Http!Failed}
          BY <1>2, <4>1, <4>4, VerdictOf
        <5> QED
          BY <1>6, <4>2, <4>4, <5>1
      <4> QED
        BY <4>3, <4>4
    <3> QED
      BY <1>9, <3>3, <3>4
  <2> QED
    BY <1>4, <2>2, <2>3, <2>4, <2>5
<1> QED
  BY <1>4, <1>8, <1>9

\* This crate's writers put out such messages.
LEMMA SerializeIs ==
  ASSUME NEW m \in Http!MessageType, m = Http!Written(m.body)
  PROVE  Http!serialize(m.body) = Http!Wire(m)
<1> DEFINE O == Http!Octets(m.body)
           h == <<Http!Unit("line", 1), Http!Unit("length", Len(m.body)), Http!End>>
<1>1. m.head = "ok" /\ m.framing = <<Http!Unit("length", Len(m.body))>>
  BY DEF Http!Written
<1>2. ~ \E i \in DOMAIN m.framing : m.framing[i].type = "chunked"
  <2>1. \A i \in DOMAIN m.framing : m.framing[i] = Http!Unit("length", Len(m.body))
    BY <1>1
  <2> QED
    BY <2>1, UnitIs
<1>3. Http!Wire(m) = ((<<Http!Unit("line", 1)>> \o <<Http!Unit("length", Len(m.body))>>) \o <<Http!End>>) \o O
  BY <1>1, <1>2 DEF Http!Wire
<1>4. (<<Http!Unit("line", 1)>> \o <<Http!Unit("length", Len(m.body))>>) \o <<Http!End>> = h
  <2>1. PICK x \in Units, y \in Units, z \in Units :
          x = Http!Unit("line", 1) /\ y = Http!Unit("length", Len(m.body)) /\ z = Http!End
    <3>1. m.body \in Seq(Nat)
      BY DEF Http!MessageType
    <3>2. Len(m.body) \in Nat
      BY <3>1
    <3> QED
      BY <3>2 DEF Http!Unit, Http!End, Units
  <2>2. PICK f, g : f = <<x>> \o <<y>> /\ g = f \o <<z>>
    OBVIOUS
  <2>3. f \in Seq(Units) /\ Len(f) = 2 /\ f[1] = x /\ f[2] = y
    BY <2>2
  <2>4. g \in Seq(Units) /\ Len(g) = 3 /\ g[1] = x /\ g[2] = y /\ g[3] = z
    BY <2>2, <2>3
  <2>5. <<x, y, z>> \in Seq(Units) /\ Len(<<x, y, z>>) = 3
    OBVIOUS
  <2>6. \A i \in 1 .. Len(g) : g[i] = <<x, y, z>>[i]
    BY <2>4
  <2>7. g = <<x, y, z>>
    BY <2>4, <2>5, <2>6, SeqEqual
  <2> QED
    BY <2>1, <2>2, <2>7
<1> QED
  BY <1>3, <1>4 DEF Http!serialize

LEMMA Associative ==
  ASSUME NEW a \in Seq(Units), NEW b \in Seq(Units), NEW c \in Seq(Units)
  PROVE  (a \o b) \o c = a \o (b \o c)
<1>1. PICK ab, bc : ab = a \o b /\ bc = b \o c
  OBVIOUS
<1>2. PICK i \in Nat, j \in Nat, k \in Nat : i = Len(a) /\ j = Len(b) /\ k = Len(c)
  OBVIOUS
<1>3. /\ ab \in Seq(Units) /\ Len(ab) = i + j
      /\ \A x \in 1 .. i + j : ab[x] = IF x <= i THEN a[x] ELSE b[x - i]
  BY <1>1, <1>2, ConcatIs
<1>4. /\ bc \in Seq(Units) /\ Len(bc) = j + k
      /\ \A x \in 1 .. j + k : bc[x] = IF x <= j THEN b[x] ELSE c[x - j]
  BY <1>1, <1>2, ConcatIs
<1>5. /\ ab \o c \in Seq(Units) /\ Len(ab \o c) = (i + j) + k
      /\ \A x \in 1 .. (i + j) + k : (ab \o c)[x] = IF x <= i + j THEN ab[x] ELSE c[x - (i + j)]
  <2>1. /\ ab \o c \in Seq(Units) /\ Len(ab \o c) = Len(ab) + Len(c)
        /\ \A x \in 1 .. Len(ab) + Len(c) :
             (ab \o c)[x] = IF x <= Len(ab) THEN ab[x] ELSE c[x - Len(ab)]
    BY ONLY <1>3, c \in Seq(Units), ConcatIs
  <2> QED
    BY <1>2, <1>3, <2>1
<1>6. /\ a \o bc \in Seq(Units) /\ Len(a \o bc) = i + (j + k)
      /\ \A x \in 1 .. i + (j + k) : (a \o bc)[x] = IF x <= i THEN a[x] ELSE bc[x - i]
  <2>1. /\ a \o bc \in Seq(Units) /\ Len(a \o bc) = Len(a) + Len(bc)
        /\ \A x \in 1 .. Len(a) + Len(bc) :
             (a \o bc)[x] = IF x <= Len(a) THEN a[x] ELSE bc[x - Len(a)]
    BY ONLY <1>4, a \in Seq(Units), ConcatIs
  <2> QED
    BY <1>2, <1>4, <2>1
<1>7. ASSUME NEW x \in 1 .. (i + j) + k PROVE (ab \o c)[x] = (a \o bc)[x]
  <2>1. CASE x <= i
    BY <1>3, <1>5, <1>6, <2>1
  <2>2. CASE ~ (x <= i) /\ x <= i + j
    <3>1. /\ x - i \in 1 .. j + k /\ x - i <= j /\ x \in 1 .. i + j /\ x \in 1 .. i + (j + k)
      BY <2>2
    <3>2. (ab \o c)[x] = ab[x] /\ ab[x] = b[x - i]
      BY <1>3, <1>5, <2>2, <3>1
    <3>3. (a \o bc)[x] = bc[x - i] /\ bc[x - i] = b[x - i]
      BY <1>4, <1>6, <2>2, <3>1
    <3> QED
      BY <3>2, <3>3
  <2>3. CASE ~ (x <= i + j)
    <3>1. /\ x - i \in 1 .. j + k /\ ~ (x - i <= j) /\ (x - i) - j = x - (i + j) /\ ~ (x <= i)
          /\ x \in 1 .. i + (j + k)
      BY <2>3
    <3>2. (ab \o c)[x] = c[x - (i + j)]
      BY <1>5, <2>3
    <3>3. (a \o bc)[x] = bc[x - i] /\ bc[x - i] = c[(x - i) - j]
      BY <1>4, <1>6, <3>1
    <3> QED
      BY <3>1, <3>2, <3>3
  <2> QED
    BY <2>1, <2>2, <2>3
<1>8. (i + j) + k = i + (j + k)
  OBVIOUS
<1>9. ab \o c = a \o bc
  BY <1>5, <1>6, <1>7, <1>8, SeqEqual
<1> QED
  BY <1>1, <1>9

\* Units go on in two parts.
LEMMA Parting ==
  ASSUME NEW c \in Seq(Units), NEW k \in 0 .. Len(c)
  PROVE  /\ Http!Prefix(c, k) \in Seq(Units) /\ Http!Rest(c, k) \in Seq(Units)
         /\ Http!Prefix(c, k) \o Http!Rest(c, k) = c
<1>1. PICK P, R : P = SubSeq(c, 1, k) /\ R = SubSeq(c, k + 1, Len(c))
  OBVIOUS
<1>2. Http!Prefix(c, k) = P /\ Http!Rest(c, k) = R
  BY <1>1 DEF Http!Prefix, Http!Rest
<1>3. Len(c) \in Nat /\ k \in Nat /\ \A i \in 1 .. Len(c) : c[i] \in Units
  OBVIOUS
<1>4. P \in Seq(Units) /\ R \in Seq(Units)
  <2>1. (\A i \in 1 .. k : c[i] \in Units) /\ (\A i \in k + 1 .. Len(c) : c[i] \in Units)
    BY <1>3
  <2> QED
    BY <1>1, <1>3, <2>1, SubSeqProperties
<1>5. P \o R = c
  <2>1. 1 \in 1 .. Len(c) + 1 /\ k \in 1 - 1 .. Len(c) /\ Len(c) \in k .. Len(c)
    BY <1>3
  <2>2. P \o R = SubSeq(c, 1, Len(c))
    BY <1>1, <2>1, ConcatAdjacentSubSeq
  <2> QED
    BY <2>2, SubSeqFull
<1> QED
  BY <1>2, <1>4, <1>5
-----------------------------------------------------------------------------
Sent == Http!Wire(message)
Passed == IF outbound = <<>> THEN Len(Sent) ELSE written
Judged(p) == IF role = "server" THEN Http!ServerVerdict(p) ELSE Http!ClientVerdict(p)

\* Between the writer's buffer and the reader's nothing is lost, doubled or
\* reordered.
InTransit ==
  /\ inbound \in Seq(Units) /\ network \in Seq(Units) /\ buffered \in Seq(Units)
  /\ outbound \in {<<>>, Sent}
  /\ written \in 0 .. Len(Sent)
  /\ (inbound \o network) \o buffered = SubSeq(Sent, 1, Passed)

\* A stream that is closed has been written to its end; without TLS nothing is
\* held back.
Ending ==
  /\ ~ tls => buffered = <<>>
  /\ writer \in {"closing", "closed"} => outbound = <<>>
  /\ writer = "closed" => buffered = <<>>

\* The verdict is that on what was read, or the stream ended before there was
\* one.
Verdict ==
  \/ parsed = Judged(inbound)
  \/ /\ parsed = Http!Failed /\ Judged(inbound) = None
     /\ writer = "cut" \/ (writer = "closed" /\ network = <<>>)

WireInv ==
  /\ message \in Http!MessageType
  /\ OneLength(message) => InTransit /\ Ending /\ Verdict

LEMMA InboundIsPart ==
  ASSUME message \in Http!MessageType, OneLength(message), InTransit
  PROVE  /\ Part(inbound, message)
         /\ outbound = <<>> /\ network = <<>> /\ buffered = <<>> => inbound = Sent
<1>1. Sent \in Seq(Units) /\ Len(Sent) \in Nat
  <2>1. PICK n \in Nat : message.framing = <<Http!Unit("length", n)>>
    BY DEF OneLength
  <2>2. Sent \in Seq(Units)
    BY <2>1, WireIs DEF Sent
  <2> QED
    BY <2>2
<1>2. PICK k \in 0 .. Len(Sent) : k = Passed
  BY <1>1 DEF InTransit, Passed
<1>3. PICK q : q = network \o buffered
  OBVIOUS
<1>4. inbound \in Seq(Units) /\ q \in Seq(Units)
  BY <1>3, ConcatIs DEF InTransit
<1>5. inbound \o q = SubSeq(Sent, 1, k)
  <2>1. (inbound \o network) \o buffered = inbound \o (network \o buffered)
    <3>1. inbound \in Seq(Units) /\ network \in Seq(Units) /\ buffered \in Seq(Units)
      BY DEF InTransit
    <3> QED
      BY <3>1, Associative
  <2> QED
    BY <1>2, <1>3, <2>1 DEF InTransit
<1>6. Len(SubSeq(Sent, 1, k)) = k /\ \A i \in 1 .. k : SubSeq(Sent, 1, k)[i] = Sent[i]
  <2>1. \A i \in 1 .. k : Sent[i] \in Units
    BY <1>1, <1>2
  <2> QED
    BY <1>1, <1>2, <2>1, SubSeqProperties
<1>7. /\ Len(inbound) \in Nat /\ Len(q) \in Nat /\ Len(inbound \o q) = Len(inbound) + Len(q)
      /\ \A i \in 1 .. Len(inbound) + Len(q) :
           (inbound \o q)[i] = IF i <= Len(inbound) THEN inbound[i] ELSE q[i - Len(inbound)]
  BY <1>4, ConcatIs
<1>8. Len(inbound) <= k /\ \A i \in 1 .. Len(inbound) : inbound[i] = Sent[i]
  BY <1>2, <1>5, <1>6, <1>7
<1>9. Part(inbound, message)
  BY <1>1, <1>2, <1>4, <1>8 DEF Part, Sent
<1>10. ASSUME outbound = <<>>, network = <<>>, buffered = <<>> PROVE inbound = Sent
  <2>1. k = Len(Sent)
    BY <1>2, <1>10 DEF Passed
  <2>2. q = <<>>
    BY <1>3, <1>10
  <2>3. inbound \o q = inbound
    BY <1>4, <2>2, ConcatEmptySeq
  <2> QED
    BY <1>1, <1>5, <2>1, <2>3, SubSeqFull
<1> QED
  BY <1>9, <1>10

LEMMA SentIs ==
  ASSUME message \in Http!MessageType, OneLength(message)
  PROVE  Sent \in Seq(Units) /\ Len(Sent) \in Nat /\ Sent # <<>>
<1>1. PICK n \in Nat : message.framing = <<Http!Unit("length", n)>>
  BY DEF OneLength
<1>2. Sent \in Seq(Units) /\ Len(Sent) >= 2
  <2>1. Sent \in Seq(Units) /\ Len(message.body) \in Nat
    BY <1>1, WireIs DEF Sent
  <2>2. CASE message.head \in {"ok", "unusable"}
    <3>1. Len(Sent) = Len(message.body) + 3
      BY <1>1, <2>2, WireIs DEF Sent
    <3> QED
      BY <2>1, <3>1
  <2>3. CASE message.head \in {"bad", "many"}
    BY <1>1, <2>1, <2>3, WireIs DEF Sent
  <2> QED
    BY <2>2, <2>3 DEF Http!MessageType
<1> QED
  BY <1>2

LEMMA WireInit == Http!Init => WireInv
<1> SUFFICES ASSUME Http!Init PROVE WireInv
  OBVIOUS
<1>1. message \in Http!MessageType
  BY HttpAssumption DEF Http!Init
<1> SUFFICES ASSUME OneLength(message) PROVE InTransit /\ Ending /\ Verdict
  BY <1>1 DEF WireInv
<1>2. Sent \in Seq(Units) /\ Len(Sent) \in Nat /\ Sent # <<>>
  BY <1>1, SentIs
<1>3. /\ outbound = Sent /\ written = 0 /\ buffered = <<>> /\ network = <<>> /\ inbound = <<>>
      /\ writer = "open" /\ parsed = None
  BY <1>1, SerializeIs DEF Http!Init, Sent
<1>4. InTransit
  <2>1. <<>> \in Seq(Units)
    BY EmptySeq
  <2>2. (<<>> \o <<>>) \o <<>> = <<>>
    BY <2>1, ConcatEmptySeq
  <2>3. SubSeq(Sent, 1, 0) = <<>>
    OBVIOUS
  <2> QED
    BY <1>2, <1>3, <2>1, <2>2, <2>3 DEF InTransit, Passed
<1>5. Ending
  BY <1>3 DEF Ending
<1>6. Verdict
  <2>1. Part(inbound, message)
    BY <1>1, <1>4, InboundIsPart
  <2>2. PICK r : Judges(Judged(inbound), r, inbound)
    BY DEF Judges, Judged
  <2>3. Parses(r, inbound)
    BY <2>2 DEF Judges, Parses
  <2>4. Len(inbound) = 0
    BY <1>3
  <2>5. r = Http!Partial
    BY <1>1, <2>1, <2>3, <2>4, HeadIsAwaited
  <2>6. ~ (Len(inbound) > MaxBody)
    BY <2>4, HttpAssumption
  <2>7. Judged(inbound) = None
    BY <2>2, <2>5, <2>6, VerdictOf
  <2> QED
    BY <1>3, <2>7 DEF Verdict
<1> QED
  BY <1>4, <1>5, <1>6

\* The writer passes on what comes next.
LEMMA DrainInv ==
  ASSUME message \in Http!MessageType, OneLength(message), InTransit, Ending, Verdict,
         NEW n \in Nat, NEW k \in Nat, Http!drain(n, k)
  PROVE  InTransit' /\ Ending' /\ Verdict'
<1> DEFINE acc == SubSeq(outbound, written + 1, written + n)
<1>1. Sent \in Seq(Units) /\ Len(Sent) \in Nat /\ Sent # <<>>
  BY SentIs
<1>2. /\ writer = "open" /\ n \in 1 .. Len(outbound) - written
      /\ UNCHANGED <<role, tls, message, inbound, parsed>>
  BY DEF Http!drain
<1>3. outbound = Sent /\ written \in Nat /\ written + n <= Len(Sent) /\ n >= 1
  <2>1. outbound \in {<<>>, Sent} /\ written \in 0 .. Len(Sent)
    BY DEF InTransit
  <2>2. outbound # <<>>
    BY <1>2, <2>1
  <2> QED
    BY <1>1, <1>2, <2>1, <2>2
<1>4. Sent' = Sent
  BY <1>2 DEF Sent
<1>5. acc \in Seq(Units)
  <2>1. \A i \in written + 1 .. written + n : Sent[i] \in Units
    BY <1>1, <1>3
  <2> QED
    BY <1>3, <2>1, SubSeqProperties
<1>6. /\ outbound' = (IF written + n = Len(outbound) THEN <<>> ELSE outbound)
      /\ written' = (IF written + n = Len(outbound) THEN 0 ELSE written + n)
      /\ writer' = (IF written + n = Len(outbound) /\ role = "client" THEN "closing" ELSE writer)
  BY DEF Http!drain
<1>7. Passed = written /\ Passed' = written + n
  <2>1. Passed = written
    BY <1>1, <1>3 DEF Passed
  <2>2. CASE written + n = Len(outbound)
    BY <1>3, <1>4, <1>6, <2>2 DEF Passed
  <2>3. CASE written + n # Len(outbound)
    BY <1>1, <1>3, <1>4, <1>6, <2>3 DEF Passed
  <2> QED
    BY <2>1, <2>2, <2>3
<1> HIDE DEF acc
<1>8. /\ inbound \in Seq(Units) /\ network \in Seq(Units) /\ buffered \in Seq(Units)
      /\ (inbound \o network) \o buffered = SubSeq(Sent, 1, written)
  BY <1>7 DEF InTransit
<1>9. ((inbound \o network) \o buffered) \o acc = SubSeq(Sent, 1, written + n)
  <2>1. 1 \in 1 .. Len(Sent) + 1 /\ written \in 1 - 1 .. Len(Sent) /\ written + n \in written .. Len(Sent)
    BY <1>1, <1>3
  <2>2. SubSeq(Sent, 1, written) \o SubSeq(Sent, written + 1, written + n) = SubSeq(Sent, 1, written + n)
    BY <1>1, <2>1, ConcatAdjacentSubSeq
  <2> QED
    BY <1>3, <1>8, <2>2 DEF acc
<1>10. PICK b : b = inbound \o network
  OBVIOUS
<1>11. b \in Seq(Units) /\ buffered \o acc \in Seq(Units)
  BY <1>5, <1>8, <1>10, ConcatIs
<1>12. b \o (buffered \o acc) = SubSeq(Sent, 1, written + n)
  <2>1. (b \o buffered) \o acc = b \o (buffered \o acc)
    BY ONLY <1>5, <1>8, <1>11, Associative
  <2> QED
    BY <1>9, <1>10, <2>1
<1>13. /\ network' \in Seq(Units) /\ buffered' \in Seq(Units)
       /\ (inbound \o network') \o buffered' = SubSeq(Sent, 1, written + n)
  <2>1. CASE tls
    <3>1. /\ k \in 0 .. Len(buffered) + n
          /\ buffered' = Http!Rest(buffered \o acc, k)
          /\ network' = network \o Http!Prefix(buffered \o acc, k)
      BY <2>1 DEF Http!drain, Http!Flushed, acc
    <3>2. k \in 0 .. Len(buffered \o acc)
      <4>1. Len(acc) = n
        <5>1. \A i \in written + 1 .. written + n : Sent[i] \in Units
          BY <1>1, <1>3
        <5>2. Len(acc) = (IF written + 1 <= written + n THEN (written + n) - (written + 1) + 1 ELSE 0)
          BY <1>3, <5>1, SubSeqProperties DEF acc
        <5> QED
          BY <1>3, <5>2
      <4>2. Len(buffered \o acc) = Len(buffered) + Len(acc)
        BY <1>5, <1>8, ConcatIs
      <4> QED
        BY <3>1, <4>1, <4>2
    <3>3. PICK c \in Seq(Units) : c = buffered \o acc
      BY <1>11
    <3>4. k \in 0 .. Len(c)
      BY <3>2, <3>3
    <3>5. PICK x \in Seq(Units), y \in Seq(Units) : x = inbound /\ y = network
      BY <1>8
    <3>6. /\ y \o Http!Prefix(c, k) \in Seq(Units) /\ Http!Rest(c, k) \in Seq(Units)
          /\ (x \o (y \o Http!Prefix(c, k))) \o Http!Rest(c, k) = (x \o y) \o c
      <4>1. /\ Http!Prefix(c, k) \in Seq(Units) /\ Http!Rest(c, k) \in Seq(Units)
            /\ Http!Prefix(c, k) \o Http!Rest(c, k) = c
        BY <3>4, Parting
      <4>2. PICK P \in Seq(Units), R \in Seq(Units) : P = Http!Prefix(c, k) /\ R = Http!Rest(c, k)
        BY <4>1
      <4>3. (x \o (y \o P)) \o R = (x \o y) \o (P \o R)
        <5>1. x \o (y \o P) = (x \o y) \o P
          BY ONLY x \in Seq(Units), y \in Seq(Units), P \in Seq(Units), Associative
        <5>2. PICK d \in Seq(Units) : d = x \o y
          BY ONLY x \in Seq(Units), y \in Seq(Units), ConcatIs
        <5>3. (d \o P) \o R = d \o (P \o R)
          BY ONLY d \in Seq(Units), P \in Seq(Units), R \in Seq(Units), Associative
        <5> QED
          BY <5>1, <5>2, <5>3
      <4>4. y \o P \in Seq(Units)
        BY ONLY y \in Seq(Units), P \in Seq(Units), ConcatIs
      <4> QED
        BY <4>1, <4>2, <4>3, <4>4
    <3> QED
      BY <1>10, <1>12, <3>1, <3>3, <3>5, <3>6
  <2>2. CASE ~ tls
    <3>1. network' = network \o acc /\ buffered' = buffered
      BY <2>2 DEF Http!drain, acc
    <3>2. buffered = <<>>
      BY <2>2 DEF Ending
    <3>3. <<>> \o acc = acc
      BY <1>5, ConcatEmptySeq
    <3>4. b \o acc = SubSeq(Sent, 1, written + n)
      BY <1>12, <3>2, <3>3
    <3>5. network \o acc \in Seq(Units) /\ inbound \o (network \o acc) \in Seq(Units)
      <4>1. network \o acc \in Seq(Units)
        BY <1>5, <1>8, ConcatIs
      <4> QED
        BY <1>8, <4>1, ConcatIs
    <3>6. inbound \o (network \o acc) = b \o acc
      BY <1>5, <1>8, <1>10, Associative
    <3>7. (inbound \o (network \o acc)) \o <<>> = inbound \o (network \o acc)
      BY <3>5, ConcatEmptySeq
    <3> QED
      BY <1>8, <3>1, <3>2, <3>4, <3>5, <3>6, <3>7
  <2> QED
    BY <2>1, <2>2
<1>14. InTransit'
  BY <1>1, <1>2, <1>3, <1>4, <1>6, <1>7, <1>8, <1>13 DEF InTransit
<1>15. Ending'
  <2>1. writer' \in {"open", "closing"} /\ (writer' = "closing" => outbound' = <<>>)
    BY <1>2, <1>6
  <2>2. ~ tls' => buffered' = <<>>
    BY <1>2 DEF Ending, Http!drain
  <2> QED
    BY <2>1, <2>2 DEF Ending
<1>16. Verdict'
  <2>1. parsed = Judged(inbound)
    BY <1>2 DEF Verdict
  <2> QED
    BY <1>2, <2>1 DEF Verdict, Judged
<1> QED
  BY <1>14, <1>15, <1>16

\* The TLS session passes on what it holds.
LEMMA FlushInv ==
  ASSUME message \in Http!MessageType, OneLength(message), InTransit, Ending, Verdict,
         NEW k \in Nat, Http!flush(k)
  PROVE  InTransit' /\ Ending' /\ Verdict'
<1>1. /\ writer # "cut" /\ k \in 1 .. Len(buffered)
      /\ buffered' = Http!Rest(buffered, k) /\ network' = network \o Http!Prefix(buffered, k)
      /\ UNCHANGED <<role, tls, message, outbound, written, writer, inbound, parsed>>
  BY DEF Http!flush, Http!Flushed
<1>2. Sent' = Sent /\ Passed' = Passed
  BY <1>1 DEF Sent, Passed
<1>3. PICK x \in Seq(Units), y \in Seq(Units), c \in Seq(Units) :
        x = inbound /\ y = network /\ c = buffered
  BY DEF InTransit
<1>4. k \in 0 .. Len(c)
  BY <1>1, <1>3
<1>5. /\ y \o Http!Prefix(c, k) \in Seq(Units) /\ Http!Rest(c, k) \in Seq(Units)
      /\ (x \o (y \o Http!Prefix(c, k))) \o Http!Rest(c, k) = (x \o y) \o c
  <2>1. /\ Http!Prefix(c, k) \in Seq(Units) /\ Http!Rest(c, k) \in Seq(Units)
        /\ Http!Prefix(c, k) \o Http!Rest(c, k) = c
    BY <1>4, Parting
  <2>2. PICK P \in Seq(Units), R \in Seq(Units) : P = Http!Prefix(c, k) /\ R = Http!Rest(c, k)
    BY <2>1
  <2>3. (x \o (y \o P)) \o R = (x \o y) \o (P \o R)
    <3>1. x \o (y \o P) = (x \o y) \o P
      BY ONLY x \in Seq(Units), y \in Seq(Units), P \in Seq(Units), Associative
    <3>2. PICK d \in Seq(Units) : d = x \o y
      BY ONLY x \in Seq(Units), y \in Seq(Units), ConcatIs
    <3>3. (d \o P) \o R = d \o (P \o R)
      BY ONLY d \in Seq(Units), P \in Seq(Units), R \in Seq(Units), Associative
    <3> QED
      BY <3>1, <3>2, <3>3
  <2>4. y \o P \in Seq(Units)
    BY ONLY y \in Seq(Units), P \in Seq(Units), ConcatIs
  <2> QED
    BY <2>1, <2>2, <2>3, <2>4
<1>6. buffered # <<>>
  BY <1>1
<1>7. /\ network' = y \o Http!Prefix(c, k) /\ buffered' = Http!Rest(c, k) /\ inbound' = x
      /\ (x \o y) \o c = SubSeq(Sent, 1, Passed)
  BY <1>1, <1>3 DEF InTransit
<1>8. (inbound' \o network') \o buffered' = SubSeq(Sent', 1, Passed')
  BY <1>2, <1>5, <1>7
<1>9. InTransit'
  <2>1. inbound' \in Seq(Units) /\ network' \in Seq(Units) /\ buffered' \in Seq(Units)
    BY <1>5, <1>7
  <2>2. outbound' \in {<<>>, Sent'} /\ written' \in 0 .. Len(Sent')
    BY <1>1, <1>2 DEF InTransit
  <2> QED
    BY <1>8, <2>1, <2>2 DEF InTransit
<1>10. Ending'
  BY <1>1, <1>6 DEF Ending
<1>11. Verdict'
  <2>1. parsed = Judged(inbound)
    BY <1>1, <1>6 DEF Verdict, Ending
  <2> QED
    BY <1>1, <2>1 DEF Verdict, Judged
<1> QED
  BY <1>9, <1>10, <1>11

\* The reader takes what comes next, and judges all it has.
LEMMA FillInv ==
  ASSUME message \in Http!MessageType, OneLength(message), InTransit, Ending, Verdict,
         NEW n \in Nat, Http!fill(n)
  PROVE  InTransit' /\ Ending' /\ Verdict'
<1>1. /\ n <= Len(network)
      /\ inbound' = inbound \o Http!Prefix(network, n) /\ network' = Http!Rest(network, n)
      /\ UNCHANGED <<role, tls, message, outbound, written, buffered, writer>>
  BY DEF Http!fill
<1>2. Sent' = Sent /\ Passed' = Passed
  BY <1>1 DEF Sent, Passed
<1>3. PICK x \in Seq(Units), y \in Seq(Units), z \in Seq(Units) :
        x = inbound /\ y = network /\ z = buffered
  BY DEF InTransit
<1>4. n \in 0 .. Len(y)
  BY <1>1, <1>3
<1>5. /\ Http!Prefix(y, n) \in Seq(Units) /\ Http!Rest(y, n) \in Seq(Units)
      /\ Http!Prefix(y, n) \o Http!Rest(y, n) = y
  BY <1>4, Parting
<1>6. PICK P \in Seq(Units), R \in Seq(Units) : P = Http!Prefix(y, n) /\ R = Http!Rest(y, n)
  BY <1>5
<1>7. x \o P \in Seq(Units) /\ (x \o P) \o R = x \o y
  <2>1. (x \o P) \o R = x \o (P \o R)
    BY ONLY x \in Seq(Units), P \in Seq(Units), R \in Seq(Units), Associative
  <2>2. x \o P \in Seq(Units)
    BY ONLY x \in Seq(Units), P \in Seq(Units), ConcatIs
  <2> QED
    BY <1>5, <1>6, <2>1, <2>2
<1>8. /\ inbound' = x \o P /\ network' = R /\ buffered' = z
      /\ (x \o y) \o z = SubSeq(Sent, 1, Passed)
  BY <1>1, <1>3, <1>6 DEF InTransit
<1>9. (inbound' \o network') \o buffered' = SubSeq(Sent', 1, Passed')
  BY <1>2, <1>7, <1>8
<1>10. InTransit'
  <2>1. inbound' \in Seq(Units) /\ network' \in Seq(Units) /\ buffered' \in Seq(Units)
    BY <1>7, <1>8
  <2>2. outbound' \in {<<>>, Sent'} /\ written' \in 0 .. Len(Sent')
    BY <1>1, <1>2 DEF InTransit
  <2> QED
    BY <1>9, <2>1, <2>2 DEF InTransit
<1>11. Ending'
  BY <1>1 DEF Ending
<1>12. Verdict'
  <2>1. parsed' = IF role = "server" THEN Http!ServerVerdict(inbound') ELSE Http!ClientVerdict(inbound')
    BY DEF Http!fill
  <2> QED
    BY <1>1, <2>1 DEF Verdict, Judged
<1> QED
  BY <1>10, <1>11, <1>12

\* The stream ends.
LEMMA EndInv ==
  ASSUME message \in Http!MessageType, OneLength(message), InTransit, Ending, Verdict,
         Http!close \/ Http!Cut \/ Http!Closed
  PROVE  InTransit' /\ Ending' /\ Verdict'
<1>1. UNCHANGED <<role, tls, message, outbound, written, buffered, network, inbound>>
  BY DEF Http!close, Http!Cut, Http!Closed
<1>2. InTransit'
  BY <1>1 DEF InTransit, Sent, Passed
<1>3. CASE Http!close
  <2>1. /\ writer = "closing" /\ buffered = <<>> /\ writer' = "closed" /\ parsed' = parsed
    BY <1>3 DEF Http!close
  <2>2. Ending'
    BY <1>1, <2>1 DEF Ending
  <2>3. Verdict'
    BY <1>1, <2>1 DEF Verdict, Judged
  <2> QED
    BY <1>2, <2>2, <2>3
<1>4. CASE Http!Cut
  <2>1. writer \in {"open", "closing"} /\ writer' = "cut" /\ parsed' = parsed
    BY <1>4 DEF Http!Cut
  <2>2. Ending'
    BY <1>1, <2>1 DEF Ending
  <2>3. Verdict'
    BY <1>1, <2>1 DEF Verdict, Judged
  <2> QED
    BY <1>2, <2>2, <2>3
<1>5. CASE Http!Closed
  <2>1. /\ parsed = None /\ network = <<>> /\ writer \in {"closed", "cut"}
        /\ parsed' = Http!Failed /\ writer' = writer
    BY <1>5 DEF Http!Closed
  <2>2. Ending'
    BY <1>1, <2>1 DEF Ending
  <2>3. Http!Failed # None
    BY FailedIs
  <2>4. Judged(inbound) = None
    BY <2>1, <2>3 DEF Verdict
  <2>5. Verdict'
    BY <1>1, <2>1, <2>4 DEF Verdict, Judged
  <2> QED
    BY <1>2, <2>2, <2>5
<1> QED
  BY <1>3, <1>4, <1>5

LEMMA WireStep == WireInv /\ [MCNext]_allVars => WireInv'
<1> SUFFICES ASSUME WireInv, [MCNext]_allVars PROVE WireInv'
  OBVIOUS
<1>1. ASSUME UNCHANGED httpVars PROVE WireInv'
  BY <1>1 DEF WireInv, httpVars, InTransit, Ending, Verdict, Sent, Passed, Judged, OneLength
<1>2. ASSUME Http!Next PROVE WireInv'
  <2>1. message' = message
    BY <1>2 DEF Http!Next, Http!drain, Http!flush, Http!close, Http!Cut, Http!fill, Http!Closed
  <2>2. message \in Http!MessageType
    BY DEF WireInv
  <2> SUFFICES ASSUME OneLength(message) PROVE InTransit' /\ Ending' /\ Verdict'
    BY <2>1, <2>2 DEF WireInv, OneLength
  <2>3. InTransit /\ Ending /\ Verdict
    BY DEF WireInv
  <2>4. Len(outbound) \in Nat /\ Len(buffered) \in Nat
    BY <2>2, <2>3, SentIs DEF InTransit
  <2>5. CASE \E n \in 1 .. Len(outbound), k \in 0 .. Len(outbound) : Http!drain(n, k)
    BY <2>2, <2>3, <2>4, <2>5, DrainInv
  <2>6. CASE \E k \in 1 .. Len(buffered) : Http!flush(k)
    BY <2>2, <2>3, <2>4, <2>6, FlushInv
  <2>7. CASE \E n \in 1 .. ReadChunk : Http!fill(n)
    BY <2>2, <2>3, <2>7, FillInv, HttpAssumption
  <2>8. CASE Http!close \/ Http!Cut \/ Http!Closed
    BY <2>2, <2>3, <2>8, EndInv
  <2> QED
    BY <1>2, <2>5, <2>6, <2>7, <2>8 DEF Http!Next
<1>3. CASE InHttp(Http!Next)
  BY <1>2, <1>3 DEF InHttp
<1>4. CASE ~ InHttp(Http!Next)
  <2>1. UNCHANGED httpVars
    BY <1>4 DEF MCNext, allVars, InCodec, InSignals, InKeys
  <2> QED
    BY <1>1, <2>1
<1> QED
  BY <1>3, <1>4

\* A message whose body is framed by one Content-Length, as every message is
\* that this crate writes, is read as it was meant, in whatever pieces it
\* comes; nothing of it is lost when the writer closes the stream, and no
\* reader waits for more than was sent (RequestReader::parse,
\* ResponseReader::parse, HttpStream::drain, flush, fill and close).
THEOREM LengthedMessagesAreRead == MCSpec => [](OneLength(message) => MessagesAreRead)
<1>1. MCInit => WireInv
  BY WireInit DEF MCInit
<1>2. WireInv /\ [MCNext]_allVars => WireInv'
  BY WireStep
<1>3. WireInv => (OneLength(message) => MessagesAreRead)
  <2> SUFFICES ASSUME WireInv, OneLength(message) PROVE MessagesAreRead
    OBVIOUS
  <2>1. message \in Http!MessageType /\ InTransit /\ Ending /\ Verdict
    BY DEF WireInv
  <2>2. /\ Part(inbound, message)
        /\ outbound = <<>> /\ network = <<>> /\ buffered = <<>> => inbound = Sent
    BY <2>1, InboundIsPart
  <2>3. PICK v : v = Judged(inbound)
    OBVIOUS
  <2>4. v = Http!ServerVerdict(inbound) \/ v = Http!ClientVerdict(inbound)
    BY <2>3 DEF Judged
  <2>5. /\ v # None =>
              /\ v.type = "Message" => Http!Proper(message) /\ v.body = Http!Body(message)
              /\ v.type # "Message" => ~ Http!Proper(message) \/ Http!TooLarge(message)
              /\ v = Http!Refused(413) => Http!TooLarge(message)
        /\ v = None /\ Len(inbound) = Len(Http!Wire(message)) => Http!Unfinished(message)
    BY <2>1, <2>2, <2>4, JudgedAsMeant
  <2>6. Http!Failed # None /\ Http!Failed.type # "Message" /\ Http!Failed # Http!Refused(413)
    BY FailedIs
  <2>7. CASE parsed = v
    BY <2>5, <2>7 DEF MessagesAreRead, Http!ReadAsMeant, Http!WholeIsDecided
  <2>8. CASE parsed # v
    <3>1. /\ parsed = Http!Failed /\ v = None
          /\ writer = "cut" \/ (writer = "closed" /\ network = <<>>)
      BY <2>1, <2>3, <2>8 DEF Verdict
    <3>2. ASSUME writer # "cut" PROVE ~ Http!Proper(message)
      <4>1. inbound = Http!Wire(message)
        BY <2>1, <2>2, <3>1, <3>2 DEF Ending, Sent
      <4>2. Http!Unfinished(message)
        BY <2>5, <3>1, <4>1
      <4> QED
        BY <2>1, <4>2, UnfinishedIsNotProper
    <3> QED
      BY <2>6, <3>1, <3>2 DEF MessagesAreRead, Http!ReadAsMeant, Http!WholeIsDecided
  <2> QED
    BY <2>7, <2>8
<1> QED
  BY <1>1, <1>2, <1>3, PTL DEF MCSpec
-----------------------------------------------------------------------------
(* Discovery packets, status and pong                                      *)

\* What encrypt adds: the padding tells its own length.
LEMMA EncryptIs ==
  ASSUME NEW p \in Seq(Nat)
  PROVE  \E n \in 1 .. 4 :
           /\ Codec!encrypt(p) \in Seq(Nat) /\ Len(Codec!encrypt(p)) = Len(p) + n
           /\ (Len(p) + n) % 4 = 0
           /\ \A i \in 1 .. Len(p) : Codec!encrypt(p)[i] = p[i]
           /\ \A i \in Len(p) + 1 .. Len(p) + n : Codec!encrypt(p)[i] = n
<1>1. PICK k \in Nat : k = Len(p)
  OBVIOUS
<1>2. PICK n \in 1 .. 4 : n = 4 - (k % 4)
  OBVIOUS
<1>3. (k + n) % 4 = 0
  BY <1>2
<1>4. PICK t : t = [i \in 1 .. n |-> n]
  OBVIOUS
<1>5. t \in Seq(Nat) /\ Len(t) = n /\ \A i \in 1 .. n : t[i] = n
  BY <1>4
<1>6. Codec!encrypt(p) = p \o t
  BY <1>1, <1>2, <1>4 DEF Codec!encrypt, Codec!Block
<1>7. /\ p \o t \in Seq(Nat) /\ Len(p \o t) = k + n
      /\ \A i \in 1 .. k + n : (p \o t)[i] = IF i <= k THEN p[i] ELSE t[i - k]
  BY <1>1, <1>5, ConcatIs
<1>8. \A i \in k + 1 .. k + n : i - k \in 1 .. n /\ ~ (i <= k) /\ i \in 1 .. k + n
  BY <1>1, <1>2
<1>9. \A i \in k + 1 .. k + n : (p \o t)[i] = n
  BY <1>5, <1>7, <1>8
<1>10. \A i \in 1 .. k : (p \o t)[i] = p[i]
  BY <1>7
<1> QED
  BY <1>1, <1>3, <1>6, <1>7, <1>9, <1>10

\* A packet opens as it was sealed, and no other does that has its checksum.
LEMMA OpensAsSealed ==
  ASSUME NEW p \in Seq(Nat), NEW d, d.checksum = p, d.body \in Seq(Nat),
         Len(d.body) = Len(Codec!encrypt(p))
  PROVE  Codec!opens(d) <=> d.body = Codec!encrypt(p)
<1>1. PICK b, e, k : b = d.body /\ e = Codec!encrypt(p) /\ k = Len(p)
  OBVIOUS
<1>2. b \in Seq(Nat) /\ k \in Nat
  BY <1>1
<1>3. PICK n \in 1 .. 4 :
        /\ e \in Seq(Nat) /\ Len(e) = k + n /\ (k + n) % 4 = 0
        /\ \A i \in 1 .. k : e[i] = p[i]
        /\ \A i \in k + 1 .. k + n : e[i] = n
  <2>1. \E n \in 1 .. 4 :
           /\ Codec!encrypt(p) \in Seq(Nat) /\ Len(Codec!encrypt(p)) = Len(p) + n
           /\ (Len(p) + n) % 4 = 0
           /\ \A i \in 1 .. Len(p) : Codec!encrypt(p)[i] = p[i]
           /\ \A i \in Len(p) + 1 .. Len(p) + n : Codec!encrypt(p)[i] = n
    BY EncryptIs
  <2> QED
    BY <1>1, <2>1
<1>4. PICK z \in Nat : z = k + n
  BY <1>2
<1>5. z >= 4 /\ z % 4 = 0 /\ k = z - n /\ k < z
  <2>1. z % 4 = 0 /\ z >= 1
    BY <1>2, <1>3, <1>4
  <2>2. z \notin {1, 2, 3}
    <3>1. 1 % 4 = 1 /\ 2 % 4 = 2 /\ 3 % 4 = 3
      OBVIOUS
    <3> QED
      BY <2>1, <3>1
  <2>3. k = z - n /\ k < z
    BY <1>2, <1>4
  <2> QED
    BY <2>1, <2>2, <2>3
<1>6. /\ Len(b) = z /\ Len(e) = z /\ \A i \in 1 .. z : b[i] \in Nat
      /\ \A i \in k + 1 .. z : e[i] = n
  BY <1>1, <1>2, <1>3, <1>4
<1>7. PICK c : c = b[z]
  OBVIOUS
<1>8. Codec!opens(d) <=>
        /\ z > 0 /\ z % 4 = 0 /\ c \in 1 .. 4
        /\ \A i \in z - c + 1 .. z : b[i] = c
        /\ p = SubSeq(b, 1, z - c)
  BY <1>1, <1>6, <1>7 DEF Codec!opens, Codec!Padding, Codec!Block
<1>9. ASSUME b = e PROVE Codec!opens(d)
  <2>1. z \in k + 1 .. z
    BY <1>2, <1>5
  <2>2. c = n
    BY <1>6, <1>7, <1>9, <2>1
  <2>3. /\ SubSeq(b, 1, k) \in Seq(Nat) /\ Len(SubSeq(b, 1, k)) = k
        /\ \A i \in 1 .. k : SubSeq(b, 1, k)[i] = b[i]
    BY <1>2, <1>5, <1>6, SubSeqProperties
  <2>4. p = SubSeq(b, 1, k)
    BY <1>1, <1>3, <1>9, <2>3, SeqEqual
  <2>5. \A i \in k + 1 .. z : b[i] = n
    BY <1>6, <1>9
  <2>6. z > 0 /\ z - c = k /\ c \in 1 .. 4
    BY <1>5, <2>2
  <2> QED
    BY <1>5, <1>8, <2>2, <2>4, <2>5, <2>6
<1>10. ASSUME Codec!opens(d) PROVE b = e
  <2>1. c \in 1 .. 4 /\ p = SubSeq(b, 1, z - c) /\ \A i \in z - c + 1 .. z : b[i] = c
    BY <1>8, <1>10
  <2>2. PICK j \in Nat : j = z - c
    BY <1>5, <2>1
  <2>3. j <= z
    BY <2>1, <2>2
  <2>4. Len(SubSeq(b, 1, j)) = j /\ \A i \in 1 .. j : SubSeq(b, 1, j)[i] = b[i]
    BY <1>6, <2>3, SubSeqProperties
  <2>5. p = SubSeq(b, 1, j)
    BY <2>1, <2>2
  <2>6. j = k
    BY <1>1, <2>4, <2>5
  <2>7. c = n
    BY <1>5, <2>1, <2>2, <2>6
  <2>8. \A i \in 1 .. k : b[i] = e[i]
    BY <1>3, <2>4, <2>5, <2>6
  <2>9. \A i \in k + 1 .. z : b[i] = e[i]
    BY <1>6, <2>1, <2>2, <2>6, <2>7
  <2>10. \A i \in 1 .. z : b[i] = e[i]
    <3>1. ASSUME NEW i \in 1 .. z PROVE b[i] = e[i]
      <4>1. i \in 1 .. k \/ i \in k + 1 .. z
        BY <1>2
      <4> QED
        BY <2>8, <2>9, <4>1
    <3> QED
      BY <3>1
  <2> QED
    BY <1>2, <1>3, <1>6, <2>10, SeqEqual
<1> QED
  BY <1>1, <1>9, <1>10

LEMMA WordIs ==
  ASSUME NEW v \in Nat
  PROVE  /\ Codec!write_i32(v) \in Seq(Nat) /\ Len(Codec!write_i32(v)) = 2
         /\ v < 256 => Codec!write_i32(v)[1] + 16 * Codec!write_i32(v)[2] = v
<1>1. PICK w \in Nat : w = v % 256
  OBVIOUS
<1>2. w % 16 \in Nat /\ w \div 16 \in Nat /\ (w % 16) + 16 * (w \div 16) = w
  OBVIOUS
<1>3. Codec!write_i32(v) = <<w % 16, w \div 16>>
  BY <1>1 DEF Codec!write_i32, Codec!Word, Codec!Byte
<1>4. v < 256 => w = v
  BY <1>1
<1>5. PICK x \in Nat, y \in Nat : x = w % 16 /\ y = w \div 16
  BY <1>2
<1>6. Codec!write_i32(v) = <<x, y>> /\ x + 16 * y = w
  BY <1>2, <1>3, <1>5
<1>7. <<x, y>> \in Seq(Nat) /\ Len(<<x, y>>) = 2 /\ <<x, y>>[1] = x /\ <<x, y>>[2] = y
  OBVIOUS
<1> QED
  BY <1>4, <1>6, <1>7

\* A packet and its body.
LEMMA PayloadIs ==
  ASSUME NEW id \in Nat, NEW body \in Seq(Nat)
  PROVE  LET p == Codec!payload(id, body)
         IN  /\ p \in Seq(Nat) /\ Len(p) = 5 + Len(body) /\ p[3] = id
             /\ \A i \in 1 .. Len(body) : p[5 + i] = body[i]
<1>1. PICK w, h : w = Codec!write_i32(3 + Len(body)) /\ h = <<id, 1, 0>>
  OBVIOUS
<1>2. w \in Seq(Nat) /\ Len(w) = 2
  <2>1. 3 + Len(body) \in Nat
    OBVIOUS
  <2> QED
    BY <1>1, <2>1, WordIs
<1>3. h \in Seq(Nat) /\ Len(h) = 3 /\ h[1] = id
  BY <1>1
<1>4. PICK g : g = w \o h
  OBVIOUS
<1>5. g \in Seq(Nat) /\ Len(g) = 5 /\ g[3] = id
  <2>1. /\ w \o h \in Seq(Nat) /\ Len(w \o h) = Len(w) + Len(h)
        /\ \A i \in 1 .. Len(w) + Len(h) : (w \o h)[i] = IF i <= Len(w) THEN w[i] ELSE h[i - Len(w)]
    BY ONLY <1>2, <1>3, ConcatIs
  <2> QED
    BY <1>2, <1>3, <1>4, <2>1
<1>6. Codec!payload(id, body) = g \o body
  BY <1>1, <1>4 DEF Codec!payload
<1>7. /\ g \o body \in Seq(Nat) /\ Len(g \o body) = Len(g) + Len(body)
      /\ \A i \in 1 .. Len(g) + Len(body) : (g \o body)[i] = IF i <= Len(g) THEN g[i] ELSE body[i - Len(g)]
  BY ONLY <1>5, body \in Seq(Nat), ConcatIs
<1>8. PICK k \in Nat : k = Len(body)
  OBVIOUS
<1>9. ASSUME NEW i \in 1 .. k PROVE (g \o body)[5 + i] = body[i]
  <2>1. 5 + i \in 1 .. 5 + k /\ ~ (5 + i <= 5) /\ (5 + i) - 5 = i
    OBVIOUS
  <2> QED
    BY <1>5, <1>7, <1>8, <2>1
<1>10. (g \o body)[3] = id
  <2>1. 3 \in 1 .. 5 + k /\ 3 <= 5
    OBVIOUS
  <2> QED
    BY <1>5, <1>7, <1>8, <2>1
<1> QED
  BY <1>5, <1>6, <1>7, <1>8, <1>9, <1>10

LEMMA MessageBodyIs ==
  ASSUME NEW bytes \in Seq(Nat), Len(bytes) < 256
  PROVE  LET m == Codec!MessageBody(3, bytes)
         IN  /\ m \in Seq(Nat) /\ Len(m) = 3 + Len(bytes) /\ m[2] + 16 * m[3] = Len(bytes)
             /\ \A i \in 1 .. Len(bytes) : m[3 + i] = bytes[i]
<1>1. PICK k \in Nat : k = Len(bytes)
  OBVIOUS
<1>2. PICK w, h : w = Codec!write_i32(k) /\ h = <<3>>
  OBVIOUS
<1>3. w \in Seq(Nat) /\ Len(w) = 2 /\ w[1] + 16 * w[2] = k
  BY <1>1, <1>2, WordIs
<1>4. h \in Seq(Nat) /\ Len(h) = 1
  BY <1>2
<1>5. PICK g : g = h \o w
  OBVIOUS
<1>6. g \in Seq(Nat) /\ Len(g) = 3 /\ g[2] = w[1] /\ g[3] = w[2]
  <2>1. /\ h \o w \in Seq(Nat) /\ Len(h \o w) = Len(h) + Len(w)
        /\ \A i \in 1 .. Len(h) + Len(w) : (h \o w)[i] = IF i <= Len(h) THEN h[i] ELSE w[i - Len(h)]
    BY ONLY <1>3, <1>4, ConcatIs
  <2>2. 2 \in 1 .. 1 + 2 /\ 3 \in 1 .. 1 + 2 /\ 2 - 1 = 1 /\ 3 - 1 = 2 /\ ~ (2 <= 1) /\ ~ (3 <= 1)
    OBVIOUS
  <2> QED
    BY <1>3, <1>4, <1>5, <2>1, <2>2
<1>7. Codec!MessageBody(3, bytes) = g \o bytes
  BY <1>1, <1>2, <1>5 DEF Codec!MessageBody
<1>8. /\ g \o bytes \in Seq(Nat) /\ Len(g \o bytes) = Len(g) + Len(bytes)
      /\ \A i \in 1 .. Len(g) + Len(bytes) :
           (g \o bytes)[i] = IF i <= Len(g) THEN g[i] ELSE bytes[i - Len(g)]
  BY ONLY <1>6, bytes \in Seq(Nat), ConcatIs
<1>9. ASSUME NEW i \in 1 .. k PROVE (g \o bytes)[3 + i] = bytes[i]
  <2>1. 3 + i \in 1 .. 3 + k /\ ~ (3 + i <= 3) /\ (3 + i) - 3 = i
    OBVIOUS
  <2> QED
    BY <1>1, <1>6, <1>8, <2>1
<1>10. (g \o bytes)[2] = w[1] /\ (g \o bytes)[3] = w[2]
  <2>1. 2 \in 1 .. 3 + k /\ 2 <= 3 /\ 3 \in 1 .. 3 + k /\ 3 <= 3
    OBVIOUS
  <2> QED
    BY <1>1, <1>6, <1>8, <2>1
<1> QED
  BY <1>1, <1>3, <1>6, <1>7, <1>8, <1>9, <1>10

LEMMA DropIs ==
  ASSUME NEW s \in Seq(Nat), NEW n \in Nat, n <= Len(s)
  PROVE  /\ Codec!Drop(s, n) \in Seq(Nat) /\ Len(Codec!Drop(s, n)) = Len(s) - n
         /\ \A i \in 1 .. Len(s) - n : Codec!Drop(s, n)[i] = s[n + i]
<1>1. PICK k \in Nat : k = Len(s)
  OBVIOUS
<1>2. \A i \in n + 1 .. k : s[i] \in Nat
  BY <1>1
<1>3. /\ SubSeq(s, n + 1, k) \in Seq(Nat)
      /\ Len(SubSeq(s, n + 1, k)) = IF n + 1 <= k THEN k - (n + 1) + 1 ELSE 0
      /\ \A i \in 1 .. k - (n + 1) + 1 : SubSeq(s, n + 1, k)[i] = s[(n + 1) + i - 1]
  BY <1>2, SubSeqProperties
<1>4. k - (n + 1) + 1 = k - n /\ \A i \in Int : (n + 1) + i - 1 = n + i
  OBVIOUS
<1>5. Len(SubSeq(s, n + 1, k)) = k - n
  BY <1>1, <1>3
<1>6. \A i \in 1 .. k - n : SubSeq(s, n + 1, k)[i] = s[n + i]
  BY <1>3, <1>4
<1> QED
  BY <1>1, <1>3, <1>5, <1>6 DEF Codec!Drop

LEMMA CursorIs ==
  /\ \A l, v : Codec!Cursor(l, v).ok /\ Codec!Cursor(l, v).left = l /\ Codec!Cursor(l, v).value = v
  /\ ~ Codec!Failure.ok
  BY DEF Codec!Cursor, Codec!Failure

LEMMA EmptyIs ==
  ASSUME NEW s \in Seq(Nat)
  PROVE  s = <<>> <=> Len(s) = 0
  OBVIOUS

\* A request is read if it ends with its header.
LEMMA RequestOpens ==
  ASSUME NEW q \in Seq(Nat), NEW d, d.checksum = q, Len(q) >= 5 => q[3] = 0
  PROVE  Codec!open(d).ok <=> Codec!opens(d) /\ Len(q) = 5
<1>1. PICK z \in Nat : z = Len(q)
  OBVIOUS
<1>2. CASE ~ Codec!opens(d) \/ z < 5
  <2>1. Codec!open(d) = Codec!Failure
    BY <1>1, <1>2 DEF Codec!open
  <2>2. ~ Codec!open(d).ok
    BY <2>1, CursorIs
  <2>3. z < 5 => z # 5
    OBVIOUS
  <2> QED
    BY <1>1, <1>2, <2>2, <2>3
<1>3. CASE Codec!opens(d) /\ z >= 5
  <2>1. PICK body : body = Codec!Drop(q, 5)
    OBVIOUS
  <2>2. 5 <= Len(q) /\ ~ (Len(q) < 5) /\ q[3] = 0
    BY <1>1, <1>3
  <2>3. body \in Seq(Nat) /\ Len(body) = z - 5
    <3>1. Codec!Drop(q, 5) \in Seq(Nat) /\ Len(Codec!Drop(q, 5)) = Len(q) - 5
      BY ONLY q \in Seq(Nat), <2>2, DropIs
    <3> QED
      BY <1>1, <2>1, <3>1
  <2>4. PICK r : r = Codec!Cursor(body, <<>>)
    OBVIOUS
  <2>5. Codec!open(d) = IF r.ok /\ r.left # <<>> THEN Codec!Failure ELSE r
    BY <1>3, <2>1, <2>2, <2>4 DEF Codec!open, Codec!Ids
  <2>6. r.ok /\ r.left = body
    BY <2>4, CursorIs
  <2>7. body = <<>> <=> z = 5
    <3>1. body = <<>> <=> Len(body) = 0
      BY ONLY <2>3, EmptyIs
    <3> QED
      BY <2>3, <3>1
  <2> QED
    BY <1>1, <1>3, <2>5, <2>6, <2>7, CursorIs
<1> QED
  BY <1>2, <1>3

\* The packet of a message of k bytes, or what is left of it.
Says(q, k) ==
  /\ Len(q) >= 5 => q[3] = 2
  /\ Len(q) >= 8 => q[7] + 16 * q[8] = k

\* A message is read if it ends where it says, and then is the text it holds.
LEMMA MessageOpens ==
  ASSUME NEW q \in Seq(Nat), NEW d, d.checksum = q, NEW k \in Nat, Says(q, k)
  PROVE  /\ Codec!open(d).ok => Codec!opens(d) /\ Len(q) = 8 + k
         /\ (/\ Codec!opens(d) /\ Len(q) = 8 + k /\ k <= MaxBytes
             /\ \A i \in 1 .. k : q[8 + i] # 15)
            => /\ Codec!open(d).ok /\ Codec!open(d).value \in Seq(Nat)
               /\ Len(Codec!open(d).value) = k
               /\ \A i \in 1 .. k : Codec!open(d).value[i] = q[8 + i]
<1>1. PICK z \in Nat : z = Len(q)
  OBVIOUS
<1>2. CASE ~ Codec!opens(d) \/ z < 5
  <2>1. Codec!open(d) = Codec!Failure
    BY <1>1, <1>2 DEF Codec!open
  <2>2. ~ Codec!open(d).ok
    BY <2>1, CursorIs
  <2>3. z < 5 => z # 8 + k
    OBVIOUS
  <2> QED
    BY <1>1, <1>2, <2>2, <2>3
<1>3. CASE Codec!opens(d) /\ z >= 5
  <2>1. PICK body, t, u, b, x :
          /\ body = Codec!Drop(q, 5) /\ t = Tail(body) /\ u = Codec!read_u32(t)
          /\ b = Codec!read_len_bytes(u) /\ x = Codec!text(b)
    OBVIOUS
  <2>2. 5 <= Len(q) /\ ~ (Len(q) < 5) /\ q[3] = 2
    BY <1>1, <1>3 DEF Says
  <2>3. /\ body \in Seq(Nat) /\ Len(body) = z - 5
        /\ \A i \in 1 .. z - 5 : body[i] = q[5 + i]
    <3>1. /\ Codec!Drop(q, 5) \in Seq(Nat) /\ Len(Codec!Drop(q, 5)) = Len(q) - 5
          /\ \A i \in 1 .. Len(q) - 5 : Codec!Drop(q, 5)[i] = q[5 + i]
      BY ONLY q \in Seq(Nat), <2>2, DropIs
    <3> QED
      BY <1>1, <2>1, <3>1
  <2>4. PICK y : y = IF body = <<>> THEN Codec!Failure ELSE x
    OBVIOUS
  <2>5. Codec!open(d) = IF y.ok /\ y.left # <<>> THEN Codec!Failure ELSE y
    BY <1>3, <2>1, <2>2, <2>4 DEF Codec!open, Codec!Ids
  <2>6. CASE z < 8
    <3>1. y = Codec!Failure
      <4>1. CASE body = <<>>
        BY <2>4, <4>1
      <4>2. CASE body # <<>>
        <5>1. t \in Seq(Nat) /\ Len(t) = Len(body) - 1
          BY ONLY <2>1, <2>3, <4>2, HeadTailProperties
        <5>2. Len(t) < 2
          BY <2>3, <2>6, <5>1
        <5>3. u = Codec!Failure
          BY <2>1, <5>2 DEF Codec!read_u32
        <5>4. b = Codec!Failure
          BY <2>1, <5>3, CursorIs DEF Codec!read_len_bytes
        <5>5. x = Codec!Failure
          BY <2>1, <5>4, CursorIs DEF Codec!text
        <5> QED
          BY <2>4, <4>2, <5>5
      <4> QED
        BY <4>1, <4>2
    <3>2. ~ Codec!open(d).ok
      BY <2>5, <3>1, CursorIs
    <3>3. z # 8 + k
      BY <2>6
    <3> QED
      BY <1>1, <3>2, <3>3
  <2>7. CASE z >= 8
    <3>1. body # <<>>
      <4>1. Len(body) # 0
        BY <2>3, <2>7
      <4> QED
        BY ONLY <2>3, <4>1, EmptyIs
    <3>2. y = x
      BY <2>4, <3>1
    <3>3. /\ t \in Seq(Nat) /\ Len(t) = z - 6
          /\ \A i \in 1 .. z - 6 : t[i] = q[6 + i]
      <4>1. /\ t \in Seq(Nat) /\ Len(t) = Len(body) - 1
            /\ \A i \in 1 .. Len(t) : t[i] = body[i + 1]
        BY ONLY <2>1, <2>3, <3>1, HeadTailProperties
      <4>2. Len(t) = z - 6
        BY <2>3, <4>1
      <4>3. ASSUME NEW i \in 1 .. z - 6 PROVE t[i] = q[6 + i]
        <5>1. i + 1 \in 1 .. z - 5 /\ 5 + (i + 1) = 6 + i
          OBVIOUS
        <5> QED
          BY <2>3, <4>1, <4>2, <5>1
      <4> QED
        BY <4>1, <4>2, <4>3
    <3>4. 2 <= Len(t) /\ ~ (Len(t) < 2)
      BY <2>7, <3>3
    <3>5. PICK l : l = Codec!Drop(t, 2)
      OBVIOUS
    <3>6. /\ l \in Seq(Nat) /\ Len(l) = z - 8
          /\ \A i \in 1 .. z - 8 : l[i] = q[8 + i]
      <4>1. /\ Codec!Drop(t, 2) \in Seq(Nat) /\ Len(Codec!Drop(t, 2)) = Len(t) - 2
            /\ \A i \in 1 .. Len(t) - 2 : Codec!Drop(t, 2)[i] = t[2 + i]
        BY ONLY <3>3, <3>4, DropIs
      <4>2. ASSUME NEW i \in 1 .. z - 8 PROVE l[i] = q[8 + i]
        <5>1. i \in 1 .. (z - 6) - 2 /\ 2 + i \in 1 .. z - 6 /\ 6 + (2 + i) = 8 + i
          OBVIOUS
        <5> QED
          BY <3>3, <3>5, <4>1, <5>1
      <4>3. l \in Seq(Nat) /\ Len(l) = z - 8
        BY <3>3, <3>5, <4>1
      <4> QED
        BY <4>2, <4>3
    <3>7. t[1] + 16 * t[2] = k
      <4>1. 1 \in 1 .. z - 6 /\ 2 \in 1 .. z - 6
        BY <2>7
      <4>2. t[1] = q[7] /\ t[2] = q[8]
        BY <3>3, <4>1
      <4> QED
        BY <1>1, <2>7, <4>2 DEF Says
    <3>8. u = Codec!Cursor(l, k)
      BY <2>1, <3>4, <3>5, <3>7 DEF Codec!read_u32, Codec!Byte
    <3>9. u.ok /\ u.left = l /\ u.value = k
      BY <3>8, CursorIs
    <3>10. CASE k > MaxBytes \/ k > Len(l)
      <4>1. b = Codec!Failure
        BY <2>1, <3>9, <3>10 DEF Codec!read_len_bytes
      <4>2. x = Codec!Failure
        BY <2>1, <4>1, CursorIs DEF Codec!text
      <4>3. ~ (k <= MaxBytes) \/ z # 8 + k
        <5>1. k > z - 8 => z # 8 + k
          OBVIOUS
        <5>2. k > MaxBytes => ~ (k <= MaxBytes)
          BY CodecAssumption
        <5> QED
          BY <3>6, <3>10, <5>1, <5>2
      <4>4. ~ Codec!open(d).ok
        BY <2>5, <3>2, <4>2, CursorIs
      <4> QED
        BY <1>1, <4>3, <4>4
    <3>11. CASE ~ (k > MaxBytes) /\ ~ (k > Len(l))
      <4>1. PICK e, v : e = Codec!Drop(l, k) /\ v = SubSeq(l, 1, k)
        OBVIOUS
      <4>2. b = Codec!Cursor(e, v)
        BY <2>1, <3>9, <3>11, <4>1 DEF Codec!read_len_bytes
      <4>3. b.ok /\ b.left = e /\ b.value = v
        BY <4>2, CursorIs
      <4>4. k <= Len(l) /\ k <= z - 8
        BY <3>6, <3>11
      <4>5. e \in Seq(Nat) /\ Len(e) = (z - 8) - k
        <5>1. Codec!Drop(l, k) \in Seq(Nat) /\ Len(Codec!Drop(l, k)) = Len(l) - k
          BY ONLY <3>6, <4>4, k \in Nat, DropIs
        <5> QED
          BY <3>6, <4>1, <5>1
      <4>6. e = <<>> <=> z = 8 + k
        <5>1. e = <<>> <=> Len(e) = 0
          BY ONLY <4>5, EmptyIs
        <5> QED
          BY <4>5, <5>1
      <4>7. v \in Seq(Nat) /\ Len(v) = k /\ \A i \in 1 .. k : v[i] = q[8 + i]
        <5>1. \A i \in 1 .. k : i \in 1 .. z - 8
          BY <4>4
        <5>2. \A i \in 1 .. z - 8 : l[i] \in Nat
          BY <3>6
        <5>3. \A i \in 1 .. k : l[i] \in Nat
          BY <5>1, <5>2
        <5>4. v \in Seq(Nat) /\ Len(v) = k /\ \A i \in 1 .. k : v[i] = l[i]
          BY <4>1, <5>3, SubSeqProperties
        <5> QED
          BY <3>6, <5>1, <5>4
      <4>8. x = b \/ x = Codec!Failure
        BY <2>1 DEF Codec!text
      <4>9. Codec!open(d).ok => z = 8 + k
        BY <2>5, <3>2, <4>3, <4>6, <4>8, CursorIs
      <4>10. ASSUME z = 8 + k, \A i \in 1 .. k : q[8 + i] # 15
             PROVE  Codec!open(d).ok /\ Codec!open(d).value = v
        <5>1. DOMAIN v = 1 .. k
          BY <4>7
        <5>2. \A i \in DOMAIN v : v[i] # 15
          BY <4>7, <4>10, <5>1
        <5>3. x = b
          BY <2>1, <4>3, <5>2 DEF Codec!text, Codec!Byte
        <5> QED
          BY <2>5, <3>2, <4>3, <4>6, <4>10, <5>3
      <4> QED
        BY <1>1, <1>3, <4>7, <4>9, <4>10
    <3> QED
      BY <3>10, <3>11
  <2> QED
    BY <2>6, <2>7
<1> QED
  BY <1>2, <1>3

Packet == Codec!payload(Codec!Ids[channel], Codec!Body(Codec!Bytes))

\* What is under way: what was said, or something that was damaged in a way the
\* reader can see.
OnItsWay ==
  /\ channel = "status" =>
       \/ damage = "none" /\ wire = Codec!to_json(data)
       \/ damage # "none" /\ DOMAIN wire # Codec!StatusFields
  /\ channel = "pong" =>
       \/ damage = "none" /\ wire = Codec!Pong(data)
       \/ damage # "none" /\ Len(wire) < 9
  /\ channel \in {"request", "message"} =>
       \/ damage = "none" /\ wire = Codec!seal(Packet) /\ Codec!Fits(Packet)
       \/ damage = "packet" /\ \E p \in Codec!Misshapen(Packet) : wire = Codec!seal(p)
       \/ /\ damage = "corrupt" /\ wire.checksum = Packet /\ wire.body \in Seq(Nat)
          /\ Len(wire.body) = Len(Codec!encrypt(Packet)) /\ wire.body # Codec!encrypt(Packet)

CodecInv ==
  /\ channel \in Codec!Channels
  /\ data \in Records
  /\ channel # "response" =>
       /\ stage = "made" => damage = "none"
       /\ stage = "sent" => OnItsWay
       /\ ReadIsSaid

LEMMA AnswerIs ==
  /\ \A v : Codec!Accepted(v).ok /\ Codec!Accepted(v).value = v
  /\ ~ Codec!Refused.ok
  BY DEF Codec!Accepted, Codec!Refused

LEMMA NameIs ==
  ASSUME data \in Records
  PROVE  /\ data.server_name \in Seq(Nat) /\ Len(data.server_name) \in Nat
         /\ Len(data.server_name) < 256
         /\ \A i \in 1 .. Len(data.server_name) : data.server_name[i] # 15
<1>1. data["server_name"] \in Seq(0 .. 14) /\ Len(data.server_name) < 256
  <2>1. Codec!IsRecord(data) /\ Len(data.server_name) < Codec!Word
    BY CodecAssumption
  <2> QED
    BY <2>1 DEF Codec!IsRecord, Codec!Byte, Codec!Word
<1>2. PICK s \in Seq(0 .. 14) : s = data.server_name
  BY <1>1
<1>3. \A i \in 1 .. Len(s) : s[i] \in 0 .. 14
  OBVIOUS
<1>4. s \in Seq(Nat)
  OBVIOUS
<1>5. \A i \in 1 .. Len(s) : s[i] # 15
  BY <1>3
<1> QED
  BY <1>1, <1>2, <1>4, <1>5

LEMMA PacketIs ==
  ASSUME data \in Records, channel \in {"request", "message"}
  PROVE  /\ Packet \in Seq(Nat)
         /\ channel = "request" => Len(Packet) = 5 /\ Packet[3] = 0
         /\ channel = "message" =>
              /\ Len(Packet) = 8 + Len(data.server_name) /\ Packet[3] = 2
              /\ Packet[7] + 16 * Packet[8] = Len(data.server_name)
              /\ \A i \in 1 .. Len(data.server_name) : Packet[8 + i] = data.server_name[i]
<1>1. CASE channel = "request"
  <2>1. Packet = Codec!payload(0, <<>>)
    BY <1>1 DEF Packet, Codec!Ids, Codec!Body
  <2>2. <<>> \in Seq(Nat) /\ Len(<<>>) = 0
    BY EmptySeq
  <2>3. PICK e \in Seq(Nat) : e = <<>> /\ Len(e) = 0
    BY <2>2
  <2>4. /\ Codec!payload(0, e) \in Seq(Nat) /\ Len(Codec!payload(0, e)) = 5 + Len(e)
        /\ Codec!payload(0, e)[3] = 0
    BY ONLY e \in Seq(Nat), PayloadIs
  <2> QED
    BY <1>1, <2>1, <2>3, <2>4
<1>2. CASE channel = "message"
  <2>1. PICK s \in Seq(Nat), k \in Nat : s = data.server_name /\ k = Len(s)
    BY NameIs
  <2>2. PICK m : m = Codec!MessageBody(3, s)
    OBVIOUS
  <2>3. Packet = Codec!payload(2, m)
    BY <1>2, <2>1, <2>2 DEF Packet, Codec!Ids, Codec!Body, Codec!Bytes
  <2>4. Len(s) < 256
    BY <2>1, NameIs
  <2>5. /\ m \in Seq(Nat) /\ Len(m) = 3 + k /\ m[2] + 16 * m[3] = k
        /\ \A i \in 1 .. k : m[3 + i] = s[i]
    BY <2>1, <2>2, <2>4, MessageBodyIs
  <2>6. PICK p : p = Codec!payload(2, m)
    OBVIOUS
  <2>7. /\ p \in Seq(Nat) /\ Len(p) = 5 + Len(m) /\ p[3] = 2
        /\ \A i \in 1 .. Len(m) : p[5 + i] = m[i]
    <3>1. 2 \in Nat /\ m \in Seq(Nat)
      BY <2>5
    <3> QED
      BY ONLY <2>6, <3>1, PayloadIs
  <2>8. p[7] = m[2] /\ p[8] = m[3] /\ Len(p) = 8 + k
    <3>1. 2 \in 1 .. 3 + k /\ 3 \in 1 .. 3 + k /\ 5 + 2 = 7 /\ 5 + 3 = 8 /\ 5 + (3 + k) = 8 + k
      OBVIOUS
    <3> QED
      BY <2>5, <2>7, <3>1
  <2>9. ASSUME NEW i \in 1 .. k PROVE p[8 + i] = s[i]
    <3>1. 3 + i \in 1 .. 3 + k /\ 5 + (3 + i) = 8 + i
      OBVIOUS
    <3> QED
      BY <2>5, <2>7, <3>1
  <2> QED
    BY <1>2, <2>1, <2>3, <2>5, <2>6, <2>7, <2>8, <2>9
<1> QED
  BY <1>1, <1>2

\* A misshapen packet has another length, and what is left of its first bytes is
\* as it was.
LEMMA MisshapenIs ==
  ASSUME NEW p \in Seq(Nat), NEW q \in Codec!Misshapen(p)
  PROVE  /\ q \in Seq(Nat) /\ Len(q) # Len(p)
         /\ \A i \in 1 .. Len(p) : i <= Len(q) => q[i] = p[i]
<1>1. PICK k \in Nat : k = Len(p)
  OBVIOUS
<1>2. CASE \E n \in 0 .. k - 1 : q = SubSeq(p, 1, n)
  <2>1. PICK n \in 0 .. k - 1 : q = SubSeq(p, 1, n)
    BY <1>2
  <2>2. n \in Nat /\ n < k /\ \A i \in 1 .. n : p[i] \in Nat
    BY <1>1
  <2>3. q \in Seq(Nat) /\ Len(q) = n /\ \A i \in 1 .. n : q[i] = p[i]
    BY <2>1, <2>2, SubSeqProperties
  <2>4. \A i \in 1 .. k : i <= n => i \in 1 .. n
    BY <2>2
  <2> QED
    BY <1>1, <2>2, <2>3, <2>4
<1>3. CASE \E b \in {0, 15} : q = p \o <<b>>
  <2>1. PICK b \in {0, 15} : q = p \o <<b>>
    BY <1>3
  <2>2. PICK t : t = <<b>>
    OBVIOUS
  <2>3. t \in Seq(Nat) /\ Len(t) = 1
    BY <2>2
  <2>4. /\ p \o t \in Seq(Nat) /\ Len(p \o t) = Len(p) + Len(t)
        /\ \A i \in 1 .. Len(p) + Len(t) : (p \o t)[i] = IF i <= Len(p) THEN p[i] ELSE t[i - Len(p)]
    BY ONLY <2>3, p \in Seq(Nat), ConcatIs
  <2>5. \A i \in 1 .. k : i \in 1 .. k + 1 /\ i <= k
    OBVIOUS
  <2> QED
    BY <1>1, <2>1, <2>2, <2>3, <2>4, <2>5
<1> QED
  BY <1>1, <1>2, <1>3 DEF Codec!Misshapen, Codec!Byte

LEMMA SealIs ==
  ASSUME NEW p \in Seq(Nat)
  PROVE  Codec!opens(Codec!seal(p)) /\ Codec!seal(p).checksum = p
<1>1. Codec!seal(p).checksum = p /\ Codec!seal(p).body = Codec!encrypt(p)
  BY DEF Codec!seal
<1>2. Codec!encrypt(p) \in Seq(Nat)
  BY EncryptIs
<1> QED
  BY <1>1, <1>2, OpensAsSealed

\* A datagram is read as it was sent, or refused.
LEMMA DatagramIsRead ==
  ASSUME data \in Records, channel \in {"request", "message"}, OnItsWay
  PROVE  /\ damage # "none" => ~ Codec!open(wire).ok
         /\ damage = "none" => Codec!open(wire).ok
         /\ damage = "none" /\ channel = "message" => Codec!open(wire).value = data.server_name
<1>1. PICK P \in Seq(Nat) : P = Packet
  BY PacketIs
<1>2. PICK s \in Seq(Nat), k \in Nat :
        s = data.server_name /\ k = Len(s) /\ \A i \in 1 .. k : s[i] # 15
  BY NameIs
<1>3. /\ channel = "request" => Len(P) = 5 /\ P[3] = 0
      /\ channel = "message" =>
           /\ Len(P) = 8 + k /\ P[3] = 2 /\ P[7] + 16 * P[8] = k
           /\ \A i \in 1 .. k : P[8 + i] = s[i]
  BY <1>1, <1>2, PacketIs
<1>4. \/ damage = "none" /\ wire = Codec!seal(P) /\ Codec!Fits(P)
      \/ damage = "packet" /\ \E p \in Codec!Misshapen(P) : wire = Codec!seal(p)
      \/ /\ damage = "corrupt" /\ wire.checksum = P /\ wire.body \in Seq(Nat)
         /\ Len(wire.body) = Len(Codec!encrypt(P)) /\ wire.body # Codec!encrypt(P)
  BY <1>1 DEF OnItsWay
<1>5. ASSUME NEW q \in Seq(Nat), wire.checksum = q,
             \A i \in 1 .. Len(P) : i <= Len(q) => q[i] = P[i]
      PROVE  /\ channel = "request" => (Codec!open(wire).ok <=> Codec!opens(wire) /\ Len(q) = Len(P))
             /\ channel = "message" => (Codec!open(wire).ok => Codec!opens(wire) /\ Len(q) = Len(P))
  <2>1. CASE channel = "request"
    <3>1. Len(q) >= 5 => q[3] = 0
      <4>1. ASSUME Len(q) >= 5 PROVE q[3] = P[3]
        <5>1. Len(P) = 5 /\ Len(q) \in Nat
          BY <1>3, <2>1
        <5>2. 3 \in 1 .. Len(P)
          BY <5>1
        <5>3. 3 <= Len(q)
          BY <4>1, <5>1
        <5> QED
          BY <1>5, <5>2, <5>3
      <4> QED
        BY <1>3, <2>1, <4>1
    <3>2. Codec!open(wire).ok <=> Codec!opens(wire) /\ Len(q) = 5
      BY <1>5, <3>1, RequestOpens
    <3> QED
      BY <1>3, <2>1, <3>2
  <2>2. CASE channel = "message"
    <3>1. Len(q) >= 5 => q[3] = 2
      <4>1. ASSUME Len(q) >= 5 PROVE q[3] = P[3]
        <5>1. Len(P) = 8 + k /\ Len(q) \in Nat
          BY <1>3, <2>2
        <5>2. 3 \in 1 .. Len(P)
          BY <5>1
        <5>3. 3 <= Len(q)
          BY <4>1, <5>1
        <5> QED
          BY <1>5, <5>2, <5>3
      <4> QED
        BY <1>3, <2>2, <4>1
    <3>2. Len(q) >= 8 => q[7] + 16 * q[8] = k
      <4>1. ASSUME Len(q) >= 8 PROVE q[7] = P[7] /\ q[8] = P[8]
        <5>1. 7 \in 1 .. Len(P) /\ 8 \in 1 .. Len(P)
          BY <1>3, <2>2
        <5> QED
          BY <1>5, <4>1, <5>1
      <4> QED
        BY <1>3, <2>2, <4>1
    <3>3. Codec!open(wire).ok => Codec!opens(wire) /\ Len(q) = 8 + k
      <4>1. Says(q, k)
        BY <3>1, <3>2 DEF Says
      <4> QED
        BY <1>5, <4>1, MessageOpens
    <3> QED
      BY <1>3, <2>2, <3>3
  <2> QED
    BY <2>1, <2>2
<1>6. CASE damage = "none" /\ wire = Codec!seal(P) /\ Codec!Fits(P)
  <2>1. Codec!opens(wire) /\ wire.checksum = P
    BY <1>6, SealIs
  <2>2. CASE channel = "request"
    <3>1. \A i \in 1 .. Len(P) : i <= Len(P) => P[i] = P[i]
      OBVIOUS
    <3>2. Codec!open(wire).ok
      BY <1>5, <2>1, <2>2, <3>1
    <3> QED
      BY <1>6, <2>2, <3>2
  <2>3. CASE channel = "message"
    <3>1. k <= MaxBytes
      <4>1. Len(P) - 2 <= MaxBytes
        BY <1>6 DEF Codec!Fits
      <4>2. Len(P) = 8 + k /\ MaxBytes \in Nat
        BY <1>3, <2>3, CodecAssumption
      <4> QED
        BY <4>1, <4>2
    <3>2. /\ Len(P) = 8 + k /\ P[3] = 2 /\ P[7] + 16 * P[8] = k
          /\ \A i \in 1 .. k : P[8 + i] = s[i] /\ P[8 + i] # 15
      BY <1>2, <1>3, <2>3
    <3>3. /\ Codec!open(wire).ok /\ Codec!open(wire).value \in Seq(Nat)
          /\ Len(Codec!open(wire).value) = k
          /\ \A i \in 1 .. k : Codec!open(wire).value[i] = P[8 + i]
      <4>1. Says(P, k) /\ \A i \in 1 .. k : P[8 + i] # 15
        BY <3>2 DEF Says
      <4> QED
        <5>1. PICK d : d = wire
          OBVIOUS
        <5>2. d.checksum = P /\ Codec!opens(d) /\ Len(P) = 8 + k /\ k <= MaxBytes
          BY <2>1, <3>1, <3>2, <5>1
        <5>3. /\ Codec!open(d).ok /\ Codec!open(d).value \in Seq(Nat)
              /\ Len(Codec!open(d).value) = k
              /\ \A i \in 1 .. k : Codec!open(d).value[i] = P[8 + i]
          BY ONLY P \in Seq(Nat), k \in Nat, <4>1, <5>2, MessageOpens
        <5> QED
          BY <5>1, <5>3
    <3>4. PICK v \in Seq(Nat) : v = Codec!open(wire).value
      BY <3>3
    <3>5. Len(v) = k /\ \A i \in 1 .. k : v[i] = s[i]
      BY <3>2, <3>3, <3>4
    <3>6. v = s
      BY <1>2, <3>5, SeqEqual
    <3> QED
      BY <1>2, <1>6, <3>3, <3>4, <3>6
  <2> QED
    BY <2>2, <2>3
<1>7. CASE damage = "packet" /\ \E p \in Codec!Misshapen(P) : wire = Codec!seal(p)
  <2>1. PICK q \in Codec!Misshapen(P) : wire = Codec!seal(q)
    BY <1>7
  <2>2. /\ q \in Seq(Nat) /\ Len(q) # Len(P)
        /\ \A i \in 1 .. Len(P) : i <= Len(q) => q[i] = P[i]
    BY MisshapenIs
  <2>3. wire.checksum = q
    BY <2>1 DEF Codec!seal
  <2>4. ~ Codec!open(wire).ok
    BY <1>5, <2>2, <2>3
  <2> QED
    BY <1>7, <2>4
<1>8. CASE /\ damage = "corrupt" /\ wire.checksum = P /\ wire.body \in Seq(Nat)
           /\ Len(wire.body) = Len(Codec!encrypt(P)) /\ wire.body # Codec!encrypt(P)
  <2>1. ~ Codec!opens(wire)
    BY <1>8, OpensAsSealed
  <2>2. \A i \in 1 .. Len(P) : i <= Len(P) => P[i] = P[i]
    OBVIOUS
  <2>3. ~ Codec!open(wire).ok
    BY <1>5, <1>8, <2>1, <2>2
  <2> QED
    BY <1>8, <2>3
<1> QED
  BY <1>4, <1>6, <1>7, <1>8

LEMMA StatusIsRead ==
  ASSUME NEW r, r = Codec!from_json(Codec!to_json(data))
  PROVE  r.ok /\ \A f \in DOMAIN Codec!new :
                   r.value[f] = IF f \in Codec!StatusFields THEN data[f] ELSE Codec!new[f]
<1>1. PICK v : v = [f \in DOMAIN Codec!new |-> IF f \in Codec!StatusFields THEN Codec!to_json(data)[f]
                                                 ELSE Codec!new[f]]
  OBVIOUS
<1>2. DOMAIN Codec!to_json(data) = Codec!StatusFields
  BY DEF Codec!to_json
<1>3. r = Codec!Accepted(v)
  BY <1>1, <1>2 DEF Codec!from_json
<1>4. \A f \in Codec!StatusFields : Codec!to_json(data)[f] = data[f]
  BY DEF Codec!to_json
<1> QED
  BY <1>1, <1>3, <1>4, AnswerIs

\* The game type goes through its name.
LEMMA ModeIs ==
  ASSUME NEW g
  PROVE  LET m == Codec!ModeOf(g)
             t == IF m \in DOMAIN Codec!Modes THEN Codec!Modes[m] ELSE 0
         IN  t = g \/ (g \notin {0, 1, 2, 6} /\ t = 0)
<1>1. /\ DOMAIN Codec!Modes = {"survival", "creative", "adventure", "spectator"}
      /\ Codec!Modes["survival"] = 0 /\ Codec!Modes["creative"] = 1
      /\ Codec!Modes["adventure"] = 2 /\ Codec!Modes["spectator"] = 6
  BY DEF Codec!Modes
<1>2. CASE \E m \in DOMAIN Codec!Modes : Codec!Modes[m] = g
  <2>1. Codec!ModeOf(g) \in DOMAIN Codec!Modes /\ Codec!Modes[Codec!ModeOf(g)] = g
    BY <1>2 DEF Codec!ModeOf
  <2> QED
    BY <2>1
<1>3. CASE ~ \E m \in DOMAIN Codec!Modes : Codec!Modes[m] = g
  <2>1. Codec!ModeOf(g) = "other"
    BY <1>3 DEF Codec!ModeOf
  <2>2. g \notin {0, 1, 2, 6}
    BY <1>1, <1>3
  <2> QED
    BY <1>1, <2>1, <2>2
<1> QED
  BY <1>2, <1>3

LEMMA PongIsRead ==
  ASSUME NEW r, r = Codec!from_pong_data(Codec!Pong(data))
  PROVE  /\ r.ok
         /\ \A f \in DOMAIN Codec!new :
              \/ r.value[f] = IF f \in Codec!StatusFields THEN data[f] ELSE Codec!new[f]
              \/ f = "game_type" /\ data[f] \notin {0, 1, 2, 6} /\ r.value[f] = 0
<1>1. PICK p : p = Codec!Pong(data)
  OBVIOUS
<1>2. /\ Len(p) = 9 /\ p[2] = data.server_name /\ p[3] = data.protocol_version
      /\ p[4] = data.game_version /\ p[5] = data.player_count /\ p[6] = data.max_player_count
      /\ p[8] = data.level_name /\ p[9] = Codec!ModeOf(data.game_type)
  BY <1>1 DEF Codec!Pong, Codec!PongFields
<1>3. PICK t : t = IF p[9] \in DOMAIN Codec!Modes THEN Codec!Modes[p[9]] ELSE 0
  OBVIOUS
<1>4. t = data.game_type \/ (data.game_type \notin {0, 1, 2, 6} /\ t = 0)
  BY <1>2, <1>3, ModeIs
<1>5. PICK v : v = [Codec!new EXCEPT !.server_name = p[2], !.protocol_version = p[3],
                       !.game_version = p[4], !.player_count = p[5],
                       !.max_player_count = p[6], !.level_name = p[8], !.game_type = t]
  OBVIOUS
<1>6. r = Codec!Accepted(v)
  BY <1>1, <1>2, <1>3, <1>5 DEF Codec!from_pong_data
<1>7. ASSUME NEW f \in DOMAIN Codec!new
      PROVE  \/ v[f] = IF f \in Codec!StatusFields THEN data[f] ELSE Codec!new[f]
             \/ f = "game_type" /\ data[f] \notin {0, 1, 2, 6} /\ v[f] = 0
  BY <1>2, <1>4, <1>5 DEF Codec!new, Codec!StatusFields
<1> QED
  BY <1>6, <1>7, AnswerIs

LEMMA CodecInit == Codec!Init => CodecInv
  BY DEF Codec!Init, CodecInv, ReadIsSaid, Codec!ReadIsSaid

\* What the reader makes of it.
LEMMA ReceiveInv ==
  ASSUME CodecInv, channel # "response", Codec!Receive
  PROVE  ReadIsSaid'
<1>1. /\ stage = "sent" /\ OnItsWay /\ data \in Records
      /\ channel \in {"request", "message", "status", "pong"}
  <2>1. DOMAIN Codec!Ids = {"request", "response", "message"}
    BY DEF Codec!Ids
  <2>2. stage = "sent"
    BY DEF Codec!Receive
  <2> QED
    BY <2>1, <2>2 DEF CodecInv, Codec!Channels
<1>2. UNCHANGED <<data, channel, spoken, damage, wire>>
  BY DEF Codec!Receive
<1>3. PICK D : D = Codec!open(wire)
  OBVIOUS
<1>4. /\ channel = "message" =>
           result' = IF D.ok THEN Codec!Accepted([Codec!new EXCEPT !.server_name = D.value])
                     ELSE Codec!Refused
      /\ channel = "request" => result' = IF D.ok THEN Codec!Accepted(Codec!new) ELSE Codec!Refused
      /\ channel = "status" => result' = Codec!from_json(wire)
      /\ channel = "pong" => result' = Codec!from_pong_data(wire)
  BY <1>3 DEF Codec!Receive
<1>5. SUFFICES IF damage # "none" THEN ~ result'.ok
               ELSE /\ result'.ok
                    /\ \A f \in DOMAIN Codec!new :
                         \/ result'.value[f] = IF f \in Codec!Carried THEN data[f] ELSE Codec!new[f]
                         \/ /\ channel = "pong" /\ f = "game_type"
                            /\ data[f] \notin {0, 1, 2, 6} /\ result'.value[f] = 0
  BY <1>2 DEF ReadIsSaid, Codec!ReadIsSaid, Codec!Carried
<1>6. CASE channel \in {"request", "message"}
  <2>1. /\ damage # "none" => ~ D.ok
        /\ damage = "none" => D.ok
        /\ damage = "none" /\ channel = "message" => D.value = data.server_name
    BY <1>1, <1>3, <1>6, DatagramIsRead
  <2>2. CASE channel = "request"
    <3>1. Codec!Carried = {}
      BY <2>2 DEF Codec!Carried
    <3> QED
      BY <1>4, <2>1, <2>2, <3>1, AnswerIs
  <2>3. CASE channel = "message"
    <3>1. Codec!Carried = {"server_name"}
      BY <2>3 DEF Codec!Carried
    <3>2. CASE damage # "none"
      BY <1>4, <2>1, <2>3, <3>2, AnswerIs
    <3>3. CASE damage = "none"
      <4>1. PICK v : v = [Codec!new EXCEPT !.server_name = data.server_name]
        OBVIOUS
      <4>2. result' = Codec!Accepted(v)
        BY <1>4, <2>1, <2>3, <3>3, <4>1
      <4>3. \A f \in DOMAIN Codec!new :
              v[f] = IF f = "server_name" THEN data["server_name"] ELSE Codec!new[f]
        BY <4>1 DEF Codec!new
      <4> QED
        BY <3>1, <3>3, <4>2, <4>3, AnswerIs
    <3> QED
      BY <3>2, <3>3
  <2> QED
    BY <1>6, <2>2, <2>3
<1>7. CASE channel = "status"
  <2>1. Codec!Carried = Codec!StatusFields
    BY <1>7 DEF Codec!Carried
  <2>2. CASE damage # "none"
    <3>1. result' = Codec!Refused
      BY <1>1, <1>4, <1>7, <2>2 DEF OnItsWay, Codec!from_json
    <3> QED
      BY <2>2, <3>1, AnswerIs
  <2>3. CASE damage = "none"
    <3>1. result' = Codec!from_json(Codec!to_json(data))
      BY <1>1, <1>4, <1>7, <2>3 DEF OnItsWay
    <3> QED
      BY <2>1, <2>3, <3>1, StatusIsRead
  <2> QED
    BY <2>2, <2>3
<1>8. CASE channel = "pong"
  <2>1. Codec!Carried = Codec!StatusFields
    BY <1>8 DEF Codec!Carried
  <2>2. CASE damage # "none"
    <3>1. result' = Codec!Refused
      BY <1>1, <1>4, <1>8, <2>2 DEF OnItsWay, Codec!from_pong_data
    <3> QED
      BY <2>2, <3>1, AnswerIs
  <2>3. CASE damage = "none"
    <3>1. result' = Codec!from_pong_data(Codec!Pong(data))
      BY <1>1, <1>4, <1>8, <2>3 DEF OnItsWay
    <3> QED
      BY <1>8, <2>1, <2>3, <3>1, PongIsRead
  <2> QED
    BY <2>2, <2>3
<1> QED
  BY <1>1, <1>6, <1>7, <1>8

\* What is put on its way.
LEMMA SendInv ==
  ASSUME CodecInv, channel # "response", Codec!Send \/ Codec!SendMisshapen
  PROVE  OnItsWay' /\ stage' = "sent" /\ UNCHANGED <<data, channel, spoken>>
<1>1. channel \in {"request", "message", "status", "pong"}
  <2>1. DOMAIN Codec!Ids = {"request", "response", "message"}
    BY DEF Codec!Ids
  <2> QED
    BY <2>1 DEF CodecInv, Codec!Channels
<1>2. stage' = "sent" /\ UNCHANGED <<data, channel, spoken>>
  BY DEF Codec!Send, Codec!SendMisshapen, Codec!Sent
<1>3. Packet' = Packet
  BY <1>2 DEF Packet, Codec!Body, Codec!Bytes
<1>4. CASE channel \in {"request", "message"}
  <2>1. \/ damage' = "none" /\ wire' = Codec!seal(Packet) /\ Codec!Fits(Packet)
        \/ damage' = "packet" /\ \E p \in Codec!Misshapen(Packet) : wire' = Codec!seal(p)
    BY <1>4 DEF Codec!Send, Codec!SendMisshapen, Codec!Sent, Packet
  <2> QED
    BY <1>2, <1>3, <1>4, <2>1 DEF OnItsWay
<1>5. CASE channel = "status"
  <2>1. ~ Codec!OnLan
    BY <1>5 DEF Codec!OnLan, Codec!Ids
  <2>2. \/ damage' = "none" /\ wire' = Codec!to_json(data)
        \/ /\ damage' = "status"
           /\ \E f \in Codec!StatusFields : wire' = [g \in Codec!StatusFields \ {f} |-> data[g]]
    BY <1>5, <2>1 DEF Codec!Send, Codec!SendMisshapen, Codec!Sent
  <2>3. damage' # "none" => DOMAIN wire' # Codec!StatusFields
    BY <2>2
  <2> QED
    BY <1>2, <1>5, <2>2, <2>3 DEF OnItsWay, Codec!to_json
<1>6. CASE channel = "pong"
  <2>1. ~ Codec!OnLan
    BY <1>6 DEF Codec!OnLan, Codec!Ids
  <2>2. \/ damage' = "none" /\ wire' = Codec!Pong(data)
        \/ damage' = "pong" /\ \E n \in 0 .. 8 : wire' = SubSeq(Codec!Pong(data), 1, n)
    BY <1>6, <2>1 DEF Codec!Send, Codec!SendMisshapen, Codec!Sent
  <2>3. damage' # "none" => Len(wire') < 9
    <3>1. ASSUME NEW n \in 0 .. 8 PROVE Len(SubSeq(Codec!Pong(data), 1, n)) < 9
      <4>1. n \in Int /\ \A i \in 1 .. n : Codec!Pong(data)[i] \in {Codec!Pong(data)[j] : j \in 1 .. n}
        OBVIOUS
      <4>2. Len(SubSeq(Codec!Pong(data), 1, n)) = IF 1 <= n THEN n - 1 + 1 ELSE 0
        BY <4>1, SubSeqProperties
      <4> QED
        BY <4>2
    <3>2. CASE damage' = "none"
      BY <3>2
    <3>3. CASE damage' = "pong" /\ \E n \in 0 .. 8 : wire' = SubSeq(Codec!Pong(data), 1, n)
      BY <3>1, <3>3
    <3> QED
      BY <2>2, <3>2, <3>3
  <2> QED
    BY <1>2, <1>6, <2>2, <2>3 DEF OnItsWay, Codec!Pong
<1> QED
  BY <1>1, <1>2, <1>4, <1>5, <1>6

\* A byte that changes on the way.
LEMMA CorruptInv ==
  ASSUME CodecInv, channel # "response", NEW i, NEW b,
         i \in DOMAIN wire.body, b = (wire.body[i] + 1) % Codec!Byte, Codec!Corrupt(i, b)
  PROVE  OnItsWay'
<1>1. /\ stage = "sent" /\ damage = "none" /\ wire.body[i] # b /\ Codec!OnLan
      /\ wire' = [wire EXCEPT !.body[i] = b] /\ damage' = "corrupt"
      /\ UNCHANGED <<data, channel, spoken, stage, result>>
  BY DEF Codec!Corrupt
<1>2. channel \in {"request", "message"} /\ OnItsWay /\ data \in Records
  BY <1>1 DEF CodecInv, Codec!OnLan, Codec!Ids
<1>3. PICK P \in Seq(Nat) : P = Packet
  BY <1>2, PacketIs
<1>4. wire = Codec!seal(P)
  BY <1>1, <1>2, <1>3 DEF OnItsWay
<1>5. PICK e \in Seq(Nat) : e = Codec!encrypt(P)
  BY EncryptIs
<1>6. wire = [checksum |-> P, body |-> e]
  BY <1>4, <1>5 DEF Codec!seal
<1>7. wire.body = e /\ wire' = [checksum |-> P, body |-> [e EXCEPT ![i] = b]]
  BY <1>1, <1>6
<1>8. i \in 1 .. Len(e) /\ e[i] \in Nat /\ e[i] # b
  BY <1>1, <1>7
<1>9. b \in Nat
  <2>1. b = (e[i] + 1) % 16
    BY <1>7 DEF Codec!Byte
  <2> QED
    BY <1>8, <2>1
<1>10. PICK f : f = [e EXCEPT ![i] = b]
  OBVIOUS
<1>11. f \in Seq(Nat) /\ Len(f) = Len(e) /\ f # e
  <2>1. f \in Seq(Nat) /\ Len(f) = Len(e) /\ f[i] = b
    BY <1>8, <1>9, <1>10
  <2> QED
    BY <1>8, <2>1
<1>12. wire'.checksum = P /\ wire'.body = f
  BY <1>7, <1>10
<1>13. Packet' = Packet
  BY <1>1 DEF Packet, Codec!Body, Codec!Bytes
<1>14. /\ damage' = "corrupt" /\ wire'.checksum = Packet' /\ wire'.body \in Seq(Nat)
       /\ Len(wire'.body) = Len(Codec!encrypt(Packet')) /\ wire'.body # Codec!encrypt(Packet')
  BY <1>1, <1>3, <1>5, <1>11, <1>12, <1>13
<1> QED
  BY <1>1, <1>2, <1>14 DEF OnItsWay

LEMMA CodecStep == CodecInv /\ [MCNext]_allVars => CodecInv'
<1> SUFFICES ASSUME CodecInv, [MCNext]_allVars PROVE CodecInv'
  OBVIOUS
<1>1. ASSUME UNCHANGED codecVars PROVE CodecInv'
  BY <1>1 DEF CodecInv, codecVars, OnItsWay, Packet, Codec!Body, Codec!Bytes, ReadIsSaid,
              Codec!ReadIsSaid, Codec!Carried
<1>2. ASSUME Codec!Next PROVE CodecInv'
  <2>1. UNCHANGED <<data, channel, spoken>>
    BY <1>2 DEF Codec!Next, Codec!Send, Codec!SendMisshapen, Codec!Sent, Codec!Corrupt, Codec!Receive
  <2>2. channel \in Codec!Channels /\ data \in Records
    BY DEF CodecInv
  <2> SUFFICES ASSUME channel # "response"
               PROVE  /\ stage' = "made" => damage' = "none"
                      /\ stage' = "sent" => OnItsWay'
                      /\ ReadIsSaid'
    BY <2>1, <2>2 DEF CodecInv
  <2>3. stage' = "sent" => ReadIsSaid'
    BY DEF ReadIsSaid, Codec!ReadIsSaid
  <2>4. CASE Codec!Send \/ Codec!SendMisshapen
    <3>1. OnItsWay' /\ stage' = "sent"
      BY <2>4, SendInv
    <3> QED
      BY <2>3, <3>1
  <2>5. CASE \E i \in DOMAIN wire.body : Codec!Corrupt(i, (wire.body[i] + 1) % Codec!Byte)
    <3>1. PICK i \in DOMAIN wire.body : Codec!Corrupt(i, (wire.body[i] + 1) % Codec!Byte)
      BY <2>5
    <3>2. OnItsWay'
      BY <3>1, CorruptInv
    <3>3. stage' = "sent"
      BY <3>1 DEF Codec!Corrupt
    <3> QED
      BY <2>3, <3>2, <3>3
  <2>6. CASE Codec!Receive
    <3>1. ReadIsSaid' /\ stage' = "read"
      BY <2>6, ReceiveInv DEF Codec!Receive
    <3> QED
      BY <3>1
  <2> QED
    BY <1>2, <2>4, <2>5, <2>6 DEF Codec!Next
<1>3. CASE InCodec(Codec!Next)
  BY <1>2, <1>3 DEF InCodec
<1>4. CASE ~ InCodec(Codec!Next)
  <2>1. UNCHANGED codecVars
    BY <1>4 DEF MCNext, allVars, InHttp, InSignals, InKeys
  <2> QED
    BY <1>1, <2>1
<1> QED
  BY <1>3, <1>4

\* A discovery request, a message on the LAN, a status and a pong are read as
\* they were said, whatever the server says of itself; one that ends early, goes
\* on after its end or has a byte changed is refused (packet::encode and decode,
\* encrypt, to_json and from_json, from_pong_data).
THEOREM PacketsAreReadAsSaid == MCSpec => [](channel # "response" => ReadIsSaid)
<1>1. MCInit => CodecInv
  BY CodecInit DEF MCInit
<1>2. CodecInv => (channel # "response" => ReadIsSaid)
  BY DEF CodecInv
<1> QED
  BY <1>1, <1>2, CodecStep, PTL DEF MCSpec
=============================================================================
