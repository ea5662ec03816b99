----------------------------- MODULE Negotiation ----------------------------
(***************************************************************************)
(* Offer, answer and candidates between the LAN client and the LAN server  *)
(* of a game: Connection (nethernet/src/connection.rs), the admission of   *)
(* an offer (admission.rs), and what the two ends do with the signals      *)
(* (handle_signal in bevy-nethernet/src/client.rs and server.rs).          *)
(*                                                                         *)
(* The network is the set of signals ever sent: any of them may arrive at  *)
(* any time, in any order, more than once or never.  LanSignaler gives the *)
(* sender of a signal its network id, so that a stranger cannot sign as    *)
(* the server, but it can use any connection id.  A client of another make *)
(* may signal an answer too, to a session it was admitted to by an offer.  *)
(* A description is named by the attempt or the session that made it, that *)
(* of such an answer by Other, a stranger's by 0; candidates are trickled, *)
(* one for each end, so that an SDP holds none to infer others from.       *)
(***************************************************************************)
EXTENDS Naturals

CONSTANTS
  None,         \* absence
  TokenTrust,   \* whether the server has a token_trust
  ServerTrust,  \* whether the client has a server_trust
  MaxAttempts,  \* bound: attempts of the client, each with an id of its own
  MaxSessions   \* bound: sessions of the server

Ids == 1 .. MaxAttempts
Numbers == 1 .. MaxSessions
Hosts == {"client", "server", "stranger"}

ConnectionType ==
  [id : Ids, peer : Hosts, remote : Nat \cup {None}, identity : BOOLEAN, candidates : SUBSET Nat]
ClientType == [connection : ConnectionType, answered : BOOLEAN]

ASSUME NegotiationAssumption ==
  /\ MaxAttempts \in Nat
  /\ MaxSessions \in Nat
  /\ TokenTrust \in BOOLEAN
  /\ ServerTrust \in BOOLEAN
  /\ None \notin Nat \cup ConnectionType \cup ClientType

SignalType ==
  [type : {"Offer", "Answer", "Candidate", "Error"}, from : Hosts, id : Ids, of : Nat,
   trusted : BOOLEAN, valid : BOOLEAN]

\* of names the description, or the one that a candidate belongs to.
Signal(type, from, id, of, trusted, valid) ==
  [type |-> type, from |-> from, id |-> id, of |-> of, trusted |-> trusted, valid |-> valid]

\* Another host of the LAN signals to the client, with any connection id.
Strangers ==
  {Signal(type, "stranger", id, 0, FALSE, TRUE) : type \in {"Answer", "Candidate"}, id \in Ids}

\* What the client of an attempt describes in an answer, other than its offer.
Other(id) == MaxAttempts + id

\* A client of another make answers, as this one never does, under the id of an
\* offer it made; nobody has found the identity valid.  While there is no such
\* session the signal is dropped, so that it may as well have been sent before.
Foreign == {Signal("Answer", "client", id, Other(id), FALSE, TRUE) : id \in Ids}

VARIABLES
  net,       \* signals sent so far
  client,    \* the client's Connection and whether it was answered, or None
  attempts,  \* attempts so far: the ids used
  table,     \* id -> number of the server's session for it, or None
  session,   \* number -> the server's Connection, or None
  created    \* sessions of the server so far

vars == <<net, client, attempts, table, session, created>>

Init ==
  /\ net = Strangers \cup Foreign
  /\ client = None
  /\ attempts = 0
  /\ table = [i \in Ids |-> None]
  /\ session = [n \in Numbers |-> None]
  /\ created = 0
-----------------------------------------------------------------------------
(* Connection                                                              *)

\* Connection::connect and accept: the description first, then a candidate.
describe(type, from, id, of, trusted, valid) ==
  {Signal(type, from, id, of, trusted, valid), Signal("Candidate", from, id, of, TRUE, TRUE)}

\* Mutant: the connection id of a signal is not looked at.
Own_any(c, m) == m.from = c.peer

\* The signals a Connection takes.
Own(c, m) == m.id = c.id /\ m.from = c.peer

\* Connection::handle_signal.  A later answer replaces an earlier one; an Error
\* and what cannot be parsed are errors, which the pool logs.
handle_signal(c, m) ==
  CASE ~ Own(c, m) -> c
    [] Own(c, m) /\ m.type = "Answer" /\ m.valid ->
         [c EXCEPT !.remote = m.of, !.identity = m.trusted]
    [] Own(c, m) /\ m.type = "Candidate" /\ m.valid -> [c EXCEPT !.candidates = @ \cup {m.of}]
    [] OTHER -> c

Connection(id, peer, remote, identity) ==
  [id |-> id, peer |-> peer, remote |-> remote, identity |-> identity, candidates |-> {}]
-----------------------------------------------------------------------------
(* The client                                                              *)

\* begin_attempt: the connection before it is dropped.  Its identity may not
\* satisfy the server, and a foreign client may offer what does not parse.
begin_attempt(trusted, valid) ==
  /\ attempts < MaxAttempts
  /\ attempts' = attempts + 1
  /\ client' = [connection |-> Connection(attempts + 1, "server", None, FALSE),
                answered |-> FALSE]
  /\ net' = net \cup describe("Offer", "client", attempts + 1, attempts + 1, trusted, valid)
  /\ UNCHANGED <<table, session, created>>

\* disconnect, a failed session or a deadline.
Leave ==
  /\ client # None
  /\ client' = None
  /\ UNCHANGED <<net, attempts, table, session, created>>

\* Mutant: the identity of an answer is not verified.
verify_answer_any(m) == TRUE

verify_answer(m) == ServerTrust => m.trusted /\ m.valid

\* An answer that cannot be trusted ends an attempt that was not answered,
\* whichever connection and peer it names.
RefuseAnswer(m) ==
  /\ client # None
  /\ m.type = "Answer"
  /\ m.from # "client"
  /\ ~ verify_answer(m)
  /\ client' = IF client.answered THEN client ELSE None
  /\ net' = IF client.answered THEN net
            ELSE net \cup {Signal("Error", "client", m.id, 0, TRUE, TRUE)}
  /\ UNCHANGED <<attempts, table, session, created>>

ClientSignal(m) ==
  /\ client # None
  /\ m.type \in {"Answer", "Candidate", "Error"}
  /\ m.from # "client"
  /\ m.type = "Answer" => verify_answer(m)
  /\ client' = [connection |-> handle_signal(client.connection, m),
                answered |-> client.answered \/ m.type = "Answer"]
  /\ UNCHANGED <<net, attempts, table, session, created>>
-----------------------------------------------------------------------------
(* The server                                                              *)

\* OfferPolicy::admit: the offer parses, and its identity is trusted.
admit(m) == m.valid /\ (TokenTrust => m.trusted)

\* The offer is refused: not admitted, too many pending, or the answer could
\* not be made or signed.
RefuseOffer(m) ==
  /\ m.type = "Offer"
  /\ table[m.id] = None
  /\ net' = net \cup {Signal("Error", "server", m.id, 0, TRUE, TRUE)}
  /\ UNCHANGED <<client, attempts, table, session, created>>

\* answer_advertising; an id that is in use is ignored.  The answer may carry
\* an identity that the client does not trust.
AnswerOffer(m, trusted) ==
  /\ m.type = "Offer"
  /\ table[m.id] = None
  /\ admit(m)
  /\ created < MaxSessions
  /\ created' = created + 1
  /\ table' = [table EXCEPT ![m.id] = created + 1]
  /\ session' = [session EXCEPT ![created + 1] = Connection(m.id, m.from, m.of, m.trusted)]
  /\ net' = net \cup describe("Answer", "server", m.id, created + 1, trusted, TRUE)
  /\ UNCHANGED <<client, attempts>>

\* A signal for a session that is not listed is dropped.  An answer of the
\* session's peer goes to the Connection like a candidate: only offers pass the
\* policy.
ServerSignal(m) ==
  /\ m.type \in {"Answer", "Candidate", "Error"}
  /\ m.from # "server"
  /\ table[m.id] # None
  /\ m.from = session[table[m.id]].peer
  /\ session' = [session EXCEPT ![table[m.id]] = handle_signal(@, m)]
  /\ UNCHANGED <<net, client, attempts, table, created>>

\* The session failed, expired or was disconnected.
Expire(i) ==
  /\ table[i] # None
  /\ table' = [table EXCEPT ![i] = None]
  /\ UNCHANGED <<net, client, attempts, session, created>>

Next ==
  \/ \E trusted, valid \in BOOLEAN : begin_attempt(trusted, valid)
  \/ Leave
  \/ \E m \in net :
       \/ RefuseAnswer(m)
       \/ ClientSignal(m)
       \/ RefuseOffer(m)
       \/ \E trusted \in BOOLEAN : AnswerOffer(m, trusted)
       \/ ServerSignal(m)
  \/ \E i \in Ids : Expire(i)

Spec == Init /\ [][Next]_vars
-----------------------------------------------------------------------------
TypeOK ==
  /\ net \subseteq SignalType
  /\ client \in ClientType \cup {None}
  /\ attempts \in 0 .. MaxAttempts
  /\ table \in [Ids -> Numbers \cup {None}]
  /\ session \in [Numbers -> ConnectionType \cup {None}]
  /\ created \in 0 .. MaxSessions

\* The session holds what its own peer described in an answer, instead of the
\* offer that the session was made for.
ReplacedByPeer(n) == session[n].peer = "client" /\ session[n].remote = Other(session[n].id)

\* The two ends of a connection belong together: the client runs with the
\* description of a session the server made for this very attempt, and that
\* session with the attempt's, unless the client itself has replaced it;
\* candidates are those of the peer and of the attempt, whatever was left over
\* from earlier ones (Connection::handle_signal).
PairsMatch ==
  /\ client # None =>
       LET c == client.connection
       IN  /\ c.remote # None => /\ c.remote \in Numbers
                                 /\ session[c.remote].id = c.id
           /\ \A n \in c.candidates : n \in Numbers /\ session[n].id = c.id
  /\ \A n \in 1 .. created : /\ session[n].remote = session[n].id \/ ReplacedByPeer(n)
                             /\ session[n].candidates \subseteq {session[n].id}

\* A client that asks for identities runs only with a description whose identity
\* was found valid, whatever strangers signal and however late (verify_answer).
\* The server of a game asks at admission only (OfferPolicy::admit): its session
\* runs with a valid one, or with what the admitted peer put in its place by an
\* answer, which nobody looks at.
RemoteIsTrusted ==
  /\ ServerTrust /\ client # None /\ client.connection.remote # None =>
       client.connection.identity
  /\ TokenTrust => \A n \in 1 .. created : session[n].identity \/ ReplacedByPeer(n)
=============================================================================
