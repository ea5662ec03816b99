---------------------------- MODULE SharedSocket ----------------------------
(***************************************************************************)
(* The shared UDP socket of the tokio server                               *)
(* (nethernet-tokio/src/transport/shared.rs) and the part of the session   *)
(* driver (nethernet-tokio/src/session/mod.rs) that uses it.               *)
(*                                                                         *)
(* Every access to the router happens under one mutex, so each access is   *)
(* one atomic action; the drivers, the dispatch task and the drops of      *)
(* routes interleave between accesses.  ICE itself is external: a driver   *)
(* may find, after any wake-up, that ICE selected the address it has just  *)
(* heard a STUN datagram from.                                             *)
(***************************************************************************)
EXTENDS Naturals, Sequences

CONSTANTS
  Hosts,        \* peer endpoints (address and port) in their plain form
  Addrs,        \* endpoints as the socket reports them: <<host, form>>
  Ufrags,       \* STUN username fragments
  None,         \* absence of an address, a fragment or a session
  MaxSessions,  \* bound on the sessions registered in a behaviour
  Capacity      \* ROUTE_CHANNEL_CAPACITY

\* A dual-stack socket reports an IPv4 peer in the mapped form.
Forms == {"plain", "mapped"}

ASSUME SocketAssumption ==
  /\ MaxSessions \in Nat
  /\ Capacity \in Nat \ {0}
  /\ None \notin Nat
  /\ Addrs \subseteq Hosts \X Forms
  /\ None \notin Hosts \cup Addrs
  /\ None \notin Ufrags

\* What the router reads of a datagram: whether it is STUN, and then the
\* local fragment of its USERNAME (a response carries none).  What a channel
\* carries to the driver is the datagram without that routing hint.
Datagrams ==
  [from : Addrs, stun : {TRUE}, ufrag : Ufrags \cup {None}]
    \cup [from : Addrs, stun : {FALSE}, ufrag : {None}]
Packets == [from : Addrs, stun : BOOLEAN]

Ids == 0 .. MaxSessions - 1

VARIABLES
  next_id,      \* State.next_id
  sessions,     \* keys of State.sessions: the routes not yet dropped
  packets,      \* id -> the datagrams queued in its channel
  by_addr,      \* Router.by_addr: host -> owning session or None
  provisional,  \* Router.provisional: host -> sessions that sent to it
  by_ufrag,     \* Router.by_ufrag: fragment -> session or None
  local_ufrag,  \* SharedRoute.local_ufrag, kept after the drop
  remote_addr,  \* SharedRoute.remote_addr: the claimed address or None
  selected,     \* connection.remote_addr(): the pair ICE selected or None
  in_loop       \* drivers between their select! and the end of the iteration

router == <<by_addr, provisional, by_ufrag>>
vars == <<next_id, sessions, packets, by_addr, provisional, by_ufrag,
          local_ufrag, remote_addr, selected, in_loop>>

Init ==
  /\ next_id = 0
  /\ sessions = {}
  /\ packets = [id \in Ids |-> <<>>]
  /\ by_addr = [h \in Hosts |-> None]
  /\ provisional = [h \in Hosts |-> {}]
  /\ by_ufrag = [u \in Ufrags |-> None]
  /\ local_ufrag = [id \in Ids |-> None]
  /\ remote_addr = [id \in Ids |-> None]
  /\ selected = [id \in Ids |-> None]
  /\ in_loop = {}

canonical(addr) == addr[1]
-----------------------------------------------------------------------------
(* Router                                                                  *)

\* The sessions a datagram is handed to.
RouteTo(d) ==
  LET h == canonical(d.from) IN
  IF by_addr[h] # None THEN {by_addr[h]}
  ELSE IF ~ d.stun THEN {}
  ELSE IF d.ufrag # None /\ by_ufrag[d.ufrag] # None THEN {by_ufrag[d.ufrag]}
  ELSE provisional[h]

\* The owner of each host after id claims addr: the first claimer keeps it.
claim_addr(addr, id) ==
  [by_addr EXCEPT ![canonical(addr)] = IF @ = None THEN id ELSE @]

note_sent(addr, id) == [provisional EXCEPT ![canonical(addr)] = @ \cup {id}]

\* Mutant of release_ufrag: removes the entry without looking at its owner.
release_ufrag_unguarded(id) ==
  [u \in Ufrags |-> IF u = local_ufrag[id] THEN None ELSE by_ufrag[u]]

release_ufrag(id) ==
  [u \in Ufrags |-> IF u = local_ufrag[id] /\ by_ufrag[u] = id THEN None ELSE by_ufrag[u]]

release_addr(id) ==
  [h \in Hosts |->
     IF remote_addr[id] # None /\ h = canonical(remote_addr[id]) /\ by_addr[h] = id
     THEN None ELSE by_addr[h]]

\* Mutant of release_provisional: the sessions that sent stay noted.
release_provisional_kept(id) == provisional

release_provisional(id) == [h \in Hosts |-> provisional[h] \ {id}]
-----------------------------------------------------------------------------
(* SharedSocket                                                            *)

\* SharedSocket::route: a new session registers under its fragment.  The
\* fragment is random; nothing excludes one that is already in use.
Route(u) ==
  /\ next_id < MaxSessions
  /\ next_id' = next_id + 1
  /\ sessions' = sessions \cup {next_id}
  /\ by_ufrag' = [by_ufrag EXCEPT ![u] = next_id]
  /\ local_ufrag' = [local_ufrag EXCEPT ![next_id] = u]
  /\ UNCHANGED <<packets, by_addr, provisional, remote_addr, selected, in_loop>>

\* One datagram through SharedSocket::dispatch; a full channel drops it.
Dispatch(d) ==
  /\ packets' = [id \in Ids |->
       IF id \in RouteTo(d) \cap sessions /\ Len(packets[id]) < Capacity
       THEN Append(packets[id], [from |-> d.from, stun |-> d.stun]) ELSE packets[id]]
  /\ UNCHANGED <<next_id, sessions, router, local_ufrag, remote_addr, selected, in_loop>>
-----------------------------------------------------------------------------
(* The driver of one session                                               *)

\* The biased select! takes a queued datagram before it takes a command or
\* the timer; after a STUN datagram ICE may have selected its sender.
Wake(id) ==
  /\ id \in sessions \ in_loop
  /\ in_loop' = in_loop \cup {id}
  /\ \/ /\ packets[id] # <<>>
        /\ packets' = [packets EXCEPT ![id] = Tail(@)]
        /\ \/ UNCHANGED selected
           \/ /\ Head(packets[id]).stun
              /\ selected' = [selected EXCEPT ![id] = Head(packets[id]).from]
     \/ packets[id] = <<>> /\ UNCHANGED <<packets, selected>>
  /\ UNCHANGED <<next_id, sessions, router, local_ufrag, remote_addr>>

\* SharedRoute::send_to for a SessionOutput::Send of the iteration.
SendTo(id, addr) ==
  /\ id \in sessions \cap in_loop
  /\ provisional' = IF remote_addr[id] = None THEN note_sent(addr, id) ELSE provisional
  /\ UNCHANGED <<next_id, sessions, packets, by_addr, by_ufrag,
                 local_ufrag, remote_addr, selected, in_loop>>

\* Mutant of Claim: the address is remembered although another session has it.
Claim_without_owning(id, addr) ==
  IF remote_addr[id] = None
  THEN /\ by_addr' = claim_addr(addr, id)
       /\ remote_addr' = [remote_addr EXCEPT ![id] = addr]
  ELSE UNCHANGED <<by_addr, remote_addr>>

\* SharedRoute::claim.
Claim(id, addr) ==
  IF remote_addr[id] = None
  THEN /\ by_addr' = claim_addr(addr, id)
       /\ remote_addr' = IF by_addr'[canonical(addr)] = id
                         THEN [remote_addr EXCEPT ![id] = addr]
                         ELSE remote_addr
  ELSE UNCHANGED <<by_addr, remote_addr>>

\* The end of the driver's iteration.
EndLoop(id) ==
  /\ id \in sessions \cap in_loop
  /\ in_loop' = in_loop \ {id}
  /\ IF selected[id] # None
     THEN Claim(id, selected[id])
     ELSE UNCHANGED <<by_addr, remote_addr>>
  /\ UNCHANGED <<next_id, sessions, packets, provisional, by_ufrag, local_ufrag, selected>>

\* The driver ends (closed, failed, or never spawned) and drops its route.
Drop(id) ==
  /\ id \in sessions
  /\ sessions' = sessions \ {id}
  /\ packets' = [packets EXCEPT ![id] = <<>>]
  /\ in_loop' = in_loop \ {id}
  /\ by_ufrag' = release_ufrag(id)
  /\ by_addr' = release_addr(id)
  /\ provisional' = release_provisional(id)
  /\ remote_addr' = [remote_addr EXCEPT ![id] = None]
  /\ selected' = [selected EXCEPT ![id] = None]
  /\ UNCHANGED <<next_id, local_ufrag>>

Next ==
  \/ \E u \in Ufrags : Route(u)
  \/ \E d \in Datagrams : Dispatch(d)
  \/ \E id \in Ids : Wake(id) \/ EndLoop(id) \/ Drop(id)
  \/ \E id \in Ids, addr \in Addrs : SendTo(id, addr)

Spec == Init /\ [][Next]_vars

\* The runtime polls every driver, and a driver's timer fires within MAX_IDLE.
FairSpec == Spec /\ \A id \in Ids : WF_vars(Wake(id)) /\ WF_vars(EndLoop(id))
-----------------------------------------------------------------------------
TypeOK ==
  /\ next_id \in 0 .. MaxSessions
  /\ sessions \subseteq 0 .. next_id - 1
  /\ packets \in [Ids -> Seq(Packets)]
  /\ by_addr \in [Hosts -> Ids \cup {None}]
  /\ provisional \in [Hosts -> SUBSET Ids]
  /\ by_ufrag \in [Ufrags -> Ids \cup {None}]
  /\ local_ufrag \in [Ids -> Ufrags \cup {None}]
  /\ remote_addr \in [Ids -> Addrs \cup {None}]
  /\ selected \in [Ids -> Addrs \cup {None}]
  /\ in_loop \subseteq sessions

\* The address table and the routes agree: a host is owned by a session
\* exactly when that session is alive and its route remembers having claimed
\* the host, in either form, so what a route believes it owns is what its
\* drop will free (claim 139-143, release 208-216).
OwnersMatchClaims ==
  \A h \in Hosts, id \in Ids :
    by_addr[h] = id <=>
      id \in sessions /\ remote_addr[id] # None /\ canonical(remote_addr[id]) = h

\* A dropped session is in no table of the router, so no datagram can be
\* routed to it and no host or fragment stays bound to it (Drop 146-154).
NoTraceOfDropped ==
  \A id \in Ids \ sessions :
    /\ \A h \in Hosts : by_addr[h] # id /\ id \notin provisional[h]
    /\ \A u \in Ufrags : by_ufrag[u] # id

\* The last session registered under a fragment stays reachable by it for as
\* long as it lives, whatever an older session with the same fragment does,
\* its release in particular (the ownership test of line 209).
NewestHoldsUfrag ==
  \A id \in sessions :
    (\A other \in Ids : local_ufrag[other] = local_ufrag[id] => other <= id)
      => by_ufrag[local_ufrag[id]] = id

\* An owned host is never handed from one session to another in one step: the
\* owner has to let go first (claim_addr, "the first session to claim an
\* address keeps it").
NoTakeover ==
  [][\A h \in Hosts : by_addr[h] # None => by_addr'[h] \in {by_addr[h], None}]_vars

\* A live session whose selected host nobody owns, while it owns nothing.
Stranded(id, h) ==
  /\ id \in sessions
  /\ selected[id] # None
  /\ canonical(selected[id]) = h
  /\ by_addr[h] = None
  /\ \A g \in Hosts : by_addr[g] # id

\* A session that lost the race for its host gets it once the winner is gone:
\* no session stays deaf with its host free (claim is "retried while another
\* session holds addr").
FreedHostIsReclaimed ==
  \A id \in Ids, h \in Hosts : Stranded(id, h) ~> ~ Stranded(id, h)
=============================================================================
