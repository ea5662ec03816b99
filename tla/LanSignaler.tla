---------------------------- MODULE LanSignaler ----------------------------
(***************************************************************************)
(* LAN signaling (nethernet/src/signaling/lan/mod.rs): discovery requests  *)
(* and responses, the table of peer addresses, and the retransmission of   *)
(* signals until the peer is heard on their connection.                    *)
(*                                                                         *)
(* Several signalers (Nodes) exchange datagrams over UDP: a datagram in    *)
(* flight may be delivered any number of times, late, or never.  A foreign *)
(* implementation may send a node anything under any network id.  Instants *)
(* are kept as the time since, or left until, the event; Tick moves them.  *)
(* A driver feeds Update at the latest when the last Wait asked for it,    *)
(* and may feed it earlier or later (its timer is capped by MAX_IDLE).     *)
(***************************************************************************)
EXTENDS Naturals, FiniteSets

CONSTANTS
  Nodes,              \* network ids of the signalers modelled
  Ids,                \* every network id
  Addrs,              \* socket addresses
  Home,               \* node -> the address its datagrams come from
  Broadcasts,         \* the nodes configured with a broadcast address
  Signals,            \* signals: records [from, to, conn, type]
  After,              \* signal -> the signals its sender must have received first
  None,               \* absence
  AddressTimeout,     \* config.address_timeout
  BroadcastInterval,  \* config.broadcast_interval
  RetryInterval,      \* config.signal_retry_interval
  OfferInterval,      \* config.offer_retry_interval
  Retries,            \* config.signal_retries
  MaxDiscovered,      \* config.max_discovered
  Foreign             \* the (id, address) pairs foreign datagrams come from

SignalTypes == {"offer", "answer", "candidate", "error"}
Entries == [addr : Addrs, quiet : 0 .. AddressTimeout]
Attempts == [attempts : 1 .. Retries + 1, left : 0 .. RetryInterval + OfferInterval]

ASSUME LanAssumption ==
  /\ Nodes \subseteq Ids
  /\ Home \in [Nodes -> Addrs]
  /\ Broadcasts \subseteq Nodes
  /\ Signals \subseteq [from : Nodes, to : Ids, conn : Nat, type : SignalTypes]
  /\ After \in [Signals -> SUBSET Signals]
  /\ Foreign \subseteq Ids \X Addrs
  /\ AddressTimeout \in Nat \ {0}
  /\ BroadcastInterval \in Nat
  /\ RetryInterval \in Nat \ {0}
  /\ OfferInterval \in Nat \ {0}
  /\ Retries \in Nat
  /\ MaxDiscovered \in Nat
  /\ None \notin Entries \cup Attempts
  /\ IsFiniteSet(Ids)

VARIABLES
  addresses,        \* node -> id -> where and how long ago it was heard, or None
  discovered,       \* node -> ids of the servers found
  pending,          \* signal -> its attempts and the time to the next, or None
  server_data,      \* nodes that have server data to answer with
  since_broadcast,  \* node -> time since last_broadcast, BroadcastInterval if none
  network,          \* datagrams in flight
  handed,           \* history: signals given to their signaler and accepted
  sends,            \* history: signal -> datagrams sent for it
  received          \* history: signals delivered to their target

vars == <<addresses, discovered, pending, server_data, since_broadcast, network,
          handed, sends, received>>

Init ==
  /\ addresses = [n \in Nodes |-> [i \in Ids |-> None]]
  /\ discovered = [n \in Nodes |-> {}]
  /\ pending = [s \in Signals |-> None]
  /\ server_data = {}
  /\ since_broadcast = [n \in Nodes |-> BroadcastInterval]
  /\ network = {}
  /\ handed = {}
  /\ sends = [s \in Signals |-> 0]
  /\ received = {}

\* The packets a node sends; "other" stands for what is heard and ignored: a
\* ping, an empty or malformed message, one for another recipient, a response
\* whose data does not decode.
Request(n, to) == [kind |-> "request", sender |-> n, from |-> Home[n], to |-> to]
ResponseTo(n, to) == [kind |-> "response", sender |-> n, from |-> Home[n], to |-> to]
Message(s, to) ==
  [kind |-> "message", sender |-> s.from, from |-> Home[s.from], to |-> to, signal |-> s]

Datagrams ==
  [kind : {"request", "response"}, sender : Nodes, from : Addrs, to : Addrs]
    \cup [kind : {"message"}, sender : Nodes, from : Addrs, to : Addrs, signal : Signals]

\* The network after the datagrams D are sent: those for a host that is not
\* modelled leave the model, and a node ignores its own.
Sent(D) == network \cup {d \in D : \E n \in Nodes : n # d.sender /\ Home[n] = d.to}

retry_interval(s) == IF s.type = "offer" THEN OfferInterval ELSE RetryInterval

Known(n) == {i \in Ids : addresses[n][i] # None}
-----------------------------------------------------------------------------
(* Datagrams                                                               *)

\* Mutant: the pin is given up one unit early.
Pinned_short(n, sender, from) ==
  /\ addresses[n][sender] # None
  /\ addresses[n][sender].addr # from
  /\ addresses[n][sender].quiet + 1 < AddressTimeout

\* Another address answers for an id that was heard more recently than the
\* timeout: the id stays where it is.
Pinned(n, sender, from) ==
  /\ addresses[n][sender] # None
  /\ addresses[n][sender].addr # from
  /\ addresses[n][sender].quiet < AddressTimeout

Heard(n, sender, from) ==
  /\ sender # n
  /\ ~ Pinned(n, sender, from)
  /\ addresses' = [addresses EXCEPT ![n][sender] = [addr |-> from, quiet |-> 0]]

\* Mutant: only the first request of a peer is answered.
handle_request_once(n, sender, from) ==
  /\ Heard(n, sender, from)
  /\ network' = IF n \in server_data /\ addresses[n][sender] = None
                THEN Sent({ResponseTo(n, from)}) ELSE network
  /\ UNCHANGED <<discovered, pending, server_data, since_broadcast, handed, sends, received>>

handle_request(n, sender, from) ==
  /\ Heard(n, sender, from)
  /\ network' = IF n \in server_data THEN Sent({ResponseTo(n, from)}) ELSE network
  /\ UNCHANGED <<discovered, pending, server_data, since_broadcast, handed, sends, received>>

handle_response(n, sender, from) ==
  /\ Heard(n, sender, from)
  /\ discovered' = IF Cardinality(discovered[n]) >= MaxDiscovered /\ sender \notin discovered[n]
                   THEN discovered
                   ELSE [discovered EXCEPT ![n] = @ \cup {sender}]
  /\ UNCHANGED <<pending, server_data, since_broadcast, network, handed, sends, received>>

\* Any signal of the sender on a connection ends the retransmission of every
\* signal to that sender on the connection.
handle_message(n, sender, from, conn, s) ==
  /\ Heard(n, sender, from)
  /\ pending' = [p \in Signals |->
       IF p.from = n /\ p.to = sender /\ p.conn = conn THEN None ELSE pending[p]]
  /\ received' = received \cup s
  /\ UNCHANGED <<discovered, server_data, since_broadcast, network, handed, sends>>

handle_other(n, sender, from) ==
  /\ Heard(n, sender, from)
  /\ UNCHANGED <<discovered, pending, server_data, since_broadcast, network, handed, sends, received>>

\* A datagram of a node reaches another; it may reach it again later.
Deliver(n, d) ==
  /\ d \in network
  /\ d.to = Home[n]
  /\ \/ d.kind = "request" /\ handle_request(n, d.sender, d.from)
     \/ d.kind = "response" /\ handle_response(n, d.sender, d.from)
     \/ d.kind = "message" /\ d.signal.to = n
          /\ handle_message(n, d.sender, d.from, d.signal.conn, {d.signal})

Lose(d) ==
  /\ d \in network
  /\ network' = network \ {d}
  /\ UNCHANGED <<addresses, discovered, pending, server_data, since_broadcast,
                 handed, sends, received>>

\* A datagram of a host that is not modelled.
HearForeign(n, sender, from) ==
  \/ handle_request(n, sender, from)
  \/ handle_response(n, sender, from)
  \/ \E conn \in {s.conn : s \in Signals} : handle_message(n, sender, from, conn, {})
  \/ handle_other(n, sender, from)
-----------------------------------------------------------------------------
(* Signals                                                                 *)

\* handle_signal: refused, with nothing kept, when the target's address is not
\* known.  A signal is handed over once: connection ids are random and the
\* candidates of a connection differ.  An answer is given to an offer received.
handle_signal(s) ==
  /\ s \notin handed
  /\ After[s] \subseteq received
  /\ addresses[s.from][s.to] # None
  /\ handed' = handed \cup {s}
  /\ network' = Sent({Message(s, addresses[s.from][s.to].addr)})
  /\ sends' = [sends EXCEPT ![s] = @ + 1]
  /\ pending' = IF Retries > 0
                THEN [pending EXCEPT ![s] = [attempts |-> 1, left |-> retry_interval(s)]]
                ELSE pending
  /\ UNCHANGED <<addresses, discovered, server_data, since_broadcast, received>>

SetServerData(n) ==
  /\ server_data' = server_data \cup {n}
  /\ UNCHANGED <<addresses, discovered, pending, since_broadcast, network, handed, sends, received>>
-----------------------------------------------------------------------------
(* Update: retransmit, then broadcast, then expire                         *)

Due(n) ==
  {s \in Signals : s.from = n /\ pending[s] # None /\ pending[s].left = 0
                     /\ pending[s].attempts <= Retries}

\* Mutant: a signal that was retried for the last time is not recognised.
Exhausted_off_by_one(n) ==
  {s \in Signals : s.from = n /\ pending[s] # None /\ pending[s].left = 0
                     /\ pending[s].attempts > Retries + 1}

Exhausted(n) ==
  {s \in Signals : s.from = n /\ pending[s] # None /\ pending[s].left = 0
                     /\ pending[s].attempts > Retries}

\* A due signal whose target is no longer known is dropped.
retransmit(n) ==
  /\ pending' = [s \in Signals |->
       IF s \in Exhausted(n) \/ (s \in Due(n) /\ s.to \notin Known(n)) THEN None
       ELSE IF s \in Due(n)
       THEN [attempts |-> pending[s].attempts + 1, left |-> retry_interval(s)]
       ELSE pending[s]]
  /\ sends' = [s \in Signals |->
       IF s \in Due(n) /\ s.to \in Known(n) THEN sends[s] + 1 ELSE sends[s]]

Retransmitted(n) ==
  {Message(s, addresses[n][s.to].addr) : s \in {t \in Due(n) : t.to \in Known(n)}}

BroadcastDue(n) == n \in Broadcasts /\ since_broadcast[n] >= BroadcastInterval

\* The broadcast, with its copy to the loopback address, reaches every host.
Broadcasted(n) == IF BroadcastDue(n) THEN {Request(n, a) : a \in Addrs} ELSE {}

\* Mutant: what was discovered is not expired with the address.
expire_keeps_discovered(n) ==
  LET kept == {i \in Known(n) : addresses[n][i].quiet < AddressTimeout}
  IN  /\ addresses' = [addresses EXCEPT ![n] = [i \in Ids |-> IF i \in kept THEN @[i] ELSE None]]
      /\ UNCHANGED discovered

expire(n) ==
  LET kept == {i \in Known(n) : addresses[n][i].quiet < AddressTimeout}
  IN  /\ addresses' = [addresses EXCEPT ![n] = [i \in Ids |-> IF i \in kept THEN @[i] ELSE None]]
      /\ discovered' = [discovered EXCEPT ![n] = @ \cap kept]

Update(n) ==
  /\ retransmit(n)
  /\ network' = Sent(Retransmitted(n) \cup Broadcasted(n))
  /\ since_broadcast' = IF BroadcastDue(n) THEN [since_broadcast EXCEPT ![n] = 0] ELSE since_broadcast
  /\ expire(n)
  /\ UNCHANGED <<server_data, handed, received>>

\* One unit of time; times past their limit are all alike.
Tick ==
  /\ addresses' = [n \in Nodes |-> [i \in Ids |->
       IF addresses[n][i] # None /\ addresses[n][i].quiet < AddressTimeout
       THEN [addresses[n][i] EXCEPT !.quiet = @ + 1] ELSE addresses[n][i]]]
  /\ pending' = [s \in Signals |->
       IF pending[s] # None /\ pending[s].left > 0
       THEN [pending[s] EXCEPT !.left = @ - 1] ELSE pending[s]]
  /\ since_broadcast' = [n \in Nodes |->
       IF since_broadcast[n] < BroadcastInterval THEN since_broadcast[n] + 1 ELSE since_broadcast[n]]
  /\ UNCHANGED <<discovered, server_data, network, handed, sends, received>>

Next ==
  \/ \E n \in Nodes : Update(n) \/ SetServerData(n)
  \/ \E n \in Nodes, d \in network : Deliver(n, d)
  \/ \E d \in network : Lose(d)
  \/ \E n \in Nodes, f \in Foreign : HearForeign(n, f[1], f[2])
  \/ \E s \in Signals : handle_signal(s)
  \/ Tick

Spec == Init /\ [][Next]_vars

\* Drivers keep updating their signalers and time passes.
FairSpec == Spec /\ WF_vars(Tick) /\ \A n \in Nodes : WF_vars(Update(n))

\* Besides, a packet that is sent again and again is delivered now and then.
FairNetworkSpec ==
  /\ FairSpec
  /\ \A n \in Nodes, kind \in {"request", "response"} :
       SF_vars(\E d \in network : d.kind = kind /\ Deliver(n, d))
-----------------------------------------------------------------------------
TypeOK ==
  /\ addresses \in [Nodes -> [Ids -> Entries \cup {None}]]
  /\ discovered \in [Nodes -> SUBSET Ids]
  /\ pending \in [Signals -> Attempts \cup {None}]
  /\ server_data \subseteq Nodes
  /\ since_broadcast \in [Nodes -> 0 .. BroadcastInterval]
  /\ network \subseteq Datagrams
  /\ handed \subseteq Signals
  /\ received \subseteq Signals
  /\ sends \in [Signals -> Nat]

\* A server is listed as discovered only while its address is known, so that
\* it can be signaled, and the list stays within its limit (expire 319-320,
\* handle_datagram 161-164).
DiscoveredReachable ==
  \A n \in Nodes :
    /\ discovered[n] \subseteq Known(n)
    /\ Cardinality(discovered[n]) <= MaxDiscovered

\* A signal is sent at most once more than the configured retries, and while
\* it is pending its attempts are exactly the datagrams sent for it
\* (handle_signal 219-227, retransmit 263-275).
SendsCounted ==
  \A s \in Signals :
    /\ sends[s] <= Retries + 1
    /\ pending[s] # None => sends[s] = pending[s].attempts
    /\ s \notin handed => sends[s] = 0

\* An id moves to another address only after its address was quiet for the
\* whole timeout, also across a forgetting in between ("stays pinned to the
\* address it was last heard from until that address goes quiet").
PinnedUntilQuiet ==
  [][\A n \in Nodes, i \in Ids :
       /\ addresses[n][i] # None
       /\ addresses'[n][i] = None \/ addresses'[n][i].addr # addresses[n][i].addr
       => addresses[n][i].quiet = AddressTimeout]_vars

\* A peer that never answers does not keep a signal alive: its retransmission
\* ends, and once every signal is out nothing is pending for ever.
RetransmissionEnds == \A s \in Signals : pending[s] # None ~> pending[s] = None

\* A node that broadcasts finds every server that has data to show, and finds
\* it again after it forgot it: requests and responses are repeated, and what
\* is heard of a server outlives the wait for the next response.
ServersAreFound ==
  \A n \in Broadcasts, m \in Nodes :
    n # m => (m \in server_data ~> m \in discovered[n])

\* "It repeats until the target replies on that connection": a signal whose
\* target is known leaves the retransmission queue only when its attempts are
\* used up or the target has it.
RepeatsUntilReply ==
  [][\A s \in Signals :
       pending[s] # None /\ pending'[s] = None =>
         \/ pending[s].attempts > Retries
         \/ s.to \notin Known(s.from)
         \/ s \in received]_vars
=============================================================================
