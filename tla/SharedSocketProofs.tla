------------------------- MODULE SharedSocketProofs -------------------------
(***************************************************************************)
(* Proofs of the safety properties of SharedSocket for every set of hosts, *)
(* fragments and addresses, every number of sessions and every channel     *)
(* capacity.                                                               *)
(***************************************************************************)
EXTENDS SharedSocket, TLAPS

\* The fragment of a route is set exactly for the sessions registered so far.
UfragOfRegistered ==
  \A id \in Ids : local_ufrag[id] # None <=> id < next_id

\* A fragment leads to a session that registered under it.
UfragMatches ==
  \A u \in Ufrags, id \in Ids : by_ufrag[u] = id => local_ufrag[id] = u

\* A session that is not alive remembers no claim.
ClaimsOfLive ==
  \A id \in Ids \ sessions : remote_addr[id] = None

\* The inductive invariant: NewestHoldsUfrag needs to know that the session
\* being registered is newer than every session with a fragment, and
\* OwnersMatchClaims that it has claimed nothing yet.
IInv ==
  /\ TypeOK
  /\ OwnersMatchClaims
  /\ NoTraceOfDropped
  /\ UfragOfRegistered
  /\ NewestHoldsUfrag
  /\ ClaimsOfLive
  /\ UfragMatches

\* Every address has its host among the hosts.
LEMMA CanonicalType ==
  ASSUME NEW addr \in Addrs PROVE canonical(addr) \in Hosts
  BY SocketAssumption DEF canonical, Forms

\* Every record of Datagrams, without its hint, can be queued.
LEMMA DatagramType ==
  ASSUME NEW d \in Datagrams
  PROVE  d.from \in Addrs /\ [from |-> d.from, stun |-> d.stun] \in Packets
  BY DEF Datagrams, Packets

\* The initial state satisfies the inductive invariant.
LEMMA InitIInv == Init => IInv
<1> SUFFICES ASSUME Init PROVE IInv
  OBVIOUS
<1> USE SocketAssumption DEF Init
<1>1. TypeOK
  BY DEF TypeOK, Ids
<1>2. OwnersMatchClaims
  BY DEF OwnersMatchClaims, Ids
<1>3. NoTraceOfDropped
  BY DEF NoTraceOfDropped, Ids
<1>4. UfragOfRegistered
  BY DEF UfragOfRegistered, Ids
<1>5. NewestHoldsUfrag /\ ClaimsOfLive /\ UfragMatches
  BY DEF NewestHoldsUfrag, ClaimsOfLive, UfragMatches, Ids
<1> QED
  BY <1>1, <1>2, <1>3, <1>4, <1>5 DEF IInv

\* Registering a session keeps the inductive invariant.
LEMMA RoutePreserves ==
  ASSUME IInv, NEW u \in Ufrags, Route(u) PROVE IInv'
<1> USE SocketAssumption DEF IInv, Route, Ids
<1>1. TypeOK'
  BY DEF TypeOK
<1>2. OwnersMatchClaims' /\ ClaimsOfLive'
  BY DEF TypeOK, OwnersMatchClaims, ClaimsOfLive
<1>3. NoTraceOfDropped'
  BY DEF TypeOK, NoTraceOfDropped
<1>4. UfragOfRegistered'
  BY DEF TypeOK, UfragOfRegistered
<1>5. UfragMatches'
  BY DEF TypeOK, NoTraceOfDropped, UfragOfRegistered, UfragMatches
<1>6. NewestHoldsUfrag'
  <2> SUFFICES ASSUME NEW id \in sessions',
                      \A other \in Ids : local_ufrag'[other] = local_ufrag'[id] => other <= id
               PROVE  by_ufrag'[local_ufrag'[id]] = id
    BY DEF NewestHoldsUfrag
  <2>1. CASE id = next_id
    BY <2>1 DEF TypeOK
  <2>2. CASE id # next_id
    <3>1. id \in sessions /\ id < next_id /\ id \in Ids /\ next_id \in Ids
      BY <2>2 DEF TypeOK
    <3>2. local_ufrag[id] \in Ufrags /\ local_ufrag'[id] = local_ufrag[id]
      BY <2>2, <3>1 DEF TypeOK, UfragOfRegistered
    <3>3. local_ufrag[id] # u
      BY <3>1, <3>2 DEF TypeOK
    <3>4. \A other \in Ids : local_ufrag[other] = local_ufrag[id] => other <= id
      BY <3>1, <3>2 DEF TypeOK, UfragOfRegistered
    <3>5. by_ufrag[local_ufrag[id]] = id
      BY <3>1, <3>4 DEF NewestHoldsUfrag
    <3> QED
      BY <3>2, <3>3, <3>5 DEF TypeOK
  <2> QED
    BY <2>1, <2>2
<1> QED
  BY <1>1, <1>2, <1>3, <1>4, <1>5, <1>6

\* A datagram changes the channels only.
LEMMA DispatchPreserves ==
  ASSUME IInv, NEW d \in Datagrams, Dispatch(d) PROVE IInv'
<1> USE DEF IInv, Dispatch, router
<1>1. packets' \in [Ids -> Seq(Packets)]
  BY DatagramType DEF TypeOK
<1>2. TypeOK'
  BY <1>1 DEF TypeOK
<1>3. OwnersMatchClaims' /\ NoTraceOfDropped' /\ UfragOfRegistered' /\ NewestHoldsUfrag' /\ ClaimsOfLive' /\ UfragMatches'
  BY DEF OwnersMatchClaims, NoTraceOfDropped, UfragOfRegistered, NewestHoldsUfrag, ClaimsOfLive, UfragMatches
<1> QED
  BY <1>2, <1>3

\* A wake-up may move the selected pair; it leaves the router alone.
LEMMA WakePreserves ==
  ASSUME IInv, NEW id \in Ids, Wake(id) PROVE IInv'
<1> USE DEF IInv, Wake, router
<1> USE DEF TypeOK
<1>1. ASSUME packets[id] # <<>>
      PROVE  Head(packets[id]).from \in Addrs /\ Tail(packets[id]) \in Seq(Packets)
  <2>1. Head(packets[id]) \in Packets /\ Tail(packets[id]) \in Seq(Packets)
    BY <1>1
  <2> QED
    BY <2>1 DEF Packets
<1>2. packets' \in [Ids -> Seq(Packets)] /\ selected' \in [Ids -> Addrs \cup {None}]
  <2>1. CASE packets[id] # <<>>
    <3>1. PICK q, a : q = Tail(packets[id]) /\ a = Head(packets[id]).from
      OBVIOUS
    <3>2. packets' = [packets EXCEPT ![id] = q]
      BY <2>1, <3>1
    <3>3. selected' = selected \/ selected' = [selected EXCEPT ![id] = a]
      BY <2>1, <3>1
    <3>4. q \in Seq(Packets) /\ a \in Addrs
      BY <1>1, <2>1, <3>1
    <3>5. packets \in [Ids -> Seq(Packets)] /\ selected \in [Ids -> Addrs \cup {None}]
      OBVIOUS
    <3> QED
      BY ONLY <3>2, <3>3, <3>4, <3>5
  <2>2. CASE packets[id] = <<>>
    BY <2>2
  <2> QED
    BY <2>1, <2>2
<1>3. TypeOK'
  BY <1>2
<1>4. OwnersMatchClaims' /\ NoTraceOfDropped' /\ UfragOfRegistered' /\ NewestHoldsUfrag' /\ ClaimsOfLive' /\ UfragMatches'
  BY DEF OwnersMatchClaims, NoTraceOfDropped, UfragOfRegistered, NewestHoldsUfrag, ClaimsOfLive, UfragMatches
<1> QED
  BY <1>3, <1>4

\* Only a live session is noted as having sent.
LEMMA SendToPreserves ==
  ASSUME IInv, NEW id \in Ids, NEW addr \in Addrs, SendTo(id, addr) PROVE IInv'
<1> USE CanonicalType DEF IInv, SendTo, note_sent
<1>1. TypeOK'
  BY DEF TypeOK
<1>2. NoTraceOfDropped'
  BY DEF TypeOK, NoTraceOfDropped
<1>3. OwnersMatchClaims' /\ UfragOfRegistered' /\ NewestHoldsUfrag' /\ ClaimsOfLive' /\ UfragMatches'
  BY DEF OwnersMatchClaims, UfragOfRegistered, NewestHoldsUfrag, ClaimsOfLive, UfragMatches
<1> QED
  BY <1>1, <1>2, <1>3

\* The end of an iteration: the claim writes the owner and the route together.
LEMMA EndLoopPreserves ==
  ASSUME IInv, NEW id \in Ids, EndLoop(id) PROVE IInv'
<1> USE DEF IInv, EndLoop
<1>1. CASE selected[id] = None \/ remote_addr[id] # None
  <2>1. UNCHANGED <<by_addr, remote_addr>>
    BY <1>1 DEF Claim
  <2> QED
    BY <2>1 DEF TypeOK, OwnersMatchClaims, NoTraceOfDropped, UfragOfRegistered, NewestHoldsUfrag, ClaimsOfLive, UfragMatches
<1>2. CASE selected[id] # None /\ remote_addr[id] = None
  <2> DEFINE addr == selected[id]
             h == canonical(addr)
  <2>1. addr \in Addrs /\ h \in Hosts
    BY <1>2, CanonicalType DEF TypeOK
  <2>2. /\ by_addr' = [by_addr EXCEPT ![h] = IF @ = None THEN id ELSE @]
        /\ remote_addr' = IF by_addr'[h] = id
                          THEN [remote_addr EXCEPT ![id] = addr] ELSE remote_addr
    BY <1>2 DEF Claim, claim_addr
  <2>3. TypeOK'
    BY <2>1, <2>2 DEF TypeOK
  <2>4. by_addr[h] # id
    BY <1>2, <2>1 DEF OwnersMatchClaims
  <2>5. CASE by_addr[h] = None
    <3>1. /\ by_addr' = [by_addr EXCEPT ![h] = id]
          /\ remote_addr' = [remote_addr EXCEPT ![id] = addr]
      BY <2>1, <2>2, <2>5 DEF TypeOK
    <3>2. OwnersMatchClaims'
      BY <1>2, <2>1, <2>5, <3>1, SocketAssumption DEF TypeOK, OwnersMatchClaims, Ids
    <3>3. NoTraceOfDropped'
      BY <2>1, <3>1 DEF TypeOK, NoTraceOfDropped
    <3>4. ClaimsOfLive'
      BY <2>1, <3>1 DEF TypeOK, ClaimsOfLive
    <3> QED
      BY <2>3, <3>2, <3>3, <3>4 DEF UfragOfRegistered, NewestHoldsUfrag, UfragMatches
  <2>6. CASE by_addr[h] # None
    <3>1. UNCHANGED <<by_addr, remote_addr>>
      BY <2>1, <2>2, <2>4, <2>6 DEF TypeOK
    <3> QED
      BY <2>3, <3>1 DEF OwnersMatchClaims, NoTraceOfDropped, UfragOfRegistered, NewestHoldsUfrag, ClaimsOfLive, UfragMatches
  <2> QED
    BY <2>5, <2>6
<1> QED
  BY <1>1, <1>2

\* Dropping a route frees exactly what the session held.
LEMMA DropPreserves ==
  ASSUME IInv, NEW id \in Ids, Drop(id) PROVE IInv'
<1> USE DEF IInv, Drop
<1>1. TypeOK'
  BY DEF TypeOK, release_ufrag, release_addr, release_provisional
<1>2. \A h \in Hosts : by_addr'[h] = IF by_addr[h] = id THEN None ELSE by_addr[h]
  BY DEF OwnersMatchClaims, release_addr
<1>3. OwnersMatchClaims'
  BY <1>2, SocketAssumption DEF TypeOK, OwnersMatchClaims, Ids
<1>4. \A u \in Ufrags : by_ufrag'[u] = IF by_ufrag[u] = id THEN None ELSE by_ufrag[u]
  BY DEF UfragMatches, release_ufrag
<1>5. NoTraceOfDropped'
  BY <1>2, <1>4, SocketAssumption
     DEF TypeOK, NoTraceOfDropped, release_provisional, Ids
<1>6. UfragOfRegistered' /\ ClaimsOfLive' /\ UfragMatches'
  BY <1>4, SocketAssumption DEF TypeOK, UfragOfRegistered, ClaimsOfLive, UfragMatches, Ids
<1>7. NewestHoldsUfrag'
  <2> SUFFICES ASSUME NEW other \in sessions',
                      \A any \in Ids : local_ufrag'[any] = local_ufrag'[other] => any <= other
               PROVE  by_ufrag'[local_ufrag'[other]] = other
    BY DEF NewestHoldsUfrag
  <2>1. other \in sessions /\ other # id /\ other \in Ids
    BY SocketAssumption DEF TypeOK, Ids
  <2>2. other < next_id /\ local_ufrag[other] \in Ufrags
    BY <2>1, SocketAssumption DEF TypeOK, UfragOfRegistered
  <2>3. by_ufrag[local_ufrag[other]] = other
    BY <2>1 DEF NewestHoldsUfrag
  <2> QED
    BY <1>4, <2>1, <2>2, <2>3
<1> QED
  BY <1>1, <1>3, <1>5, <1>6, <1>7

\* Every step keeps the inductive invariant.
LEMMA NextPreserves == IInv /\ [Next]_vars => IInv'
<1> SUFFICES ASSUME IInv, [Next]_vars PROVE IInv'
  OBVIOUS
<1>1. CASE UNCHANGED vars
  BY <1>1 DEF vars, IInv, TypeOK, OwnersMatchClaims, NoTraceOfDropped, UfragOfRegistered,
              NewestHoldsUfrag, ClaimsOfLive, UfragMatches
<1>2. CASE Next
  BY <1>2, RoutePreserves, DispatchPreserves, WakePreserves, SendToPreserves,
     EndLoopPreserves, DropPreserves DEF Next
<1> QED
  BY <1>1, <1>2

\* The inductive invariant holds in every reachable state.
LEMMA Inductive == Spec => []IInv
  BY InitIInv, NextPreserves, PTL DEF Spec

\* Every variable of the socket and of its routes keeps its type.
THEOREM TypeCorrect == Spec => []TypeOK
<1>1. IInv => TypeOK
  BY DEF IInv
<1> QED
  BY <1>1, Inductive, PTL

\* The address table and the claims of the live routes agree: no host is owned
\* by a session that does not know it or that is gone.
THEOREM OwnershipCorrect == Spec => []OwnersMatchClaims
<1>1. IInv => OwnersMatchClaims
  BY DEF IInv
<1> QED
  BY <1>1, Inductive, PTL

\* The drop of a route removes its session from every table of the router.
THEOREM DropLeavesNoTrace == Spec => []NoTraceOfDropped
<1>1. IInv => NoTraceOfDropped
  BY DEF IInv
<1> QED
  BY <1>1, Inductive, PTL

\* The newest session under a fragment is reachable by it while it lives.
THEOREM NewestReachable == Spec => []NewestHoldsUfrag
<1>1. IInv => NewestHoldsUfrag
  BY DEF IInv
<1> QED
  BY <1>1, Inductive, PTL

\* No step hands an owned host from one session to another: a claim takes a
\* free host, and only the owner's release frees one.
THEOREM FirstClaimerKeeps == Spec => NoTakeover
<1>1. IInv /\ [Next]_vars =>
        [\A h \in Hosts : by_addr[h] # None => by_addr'[h] \in {by_addr[h], None}]_vars
  <2> SUFFICES ASSUME IInv, Next, NEW h \in Hosts, by_addr[h] # None
               PROVE  by_addr'[h] \in {by_addr[h], None}
    OBVIOUS
  <2> USE DEF IInv, TypeOK
  <2>1. CASE \E u \in Ufrags : Route(u)
    BY <2>1 DEF Route
  <2>2. CASE \E d \in Datagrams : Dispatch(d)
    BY <2>2 DEF Dispatch, router
  <2>3. CASE \E id \in Ids : Wake(id)
    BY <2>3 DEF Wake, router
  <2>4. CASE \E id \in Ids : EndLoop(id)
    <3> PICK id \in Ids : EndLoop(id)
      BY <2>4
    <3>1. by_addr' = by_addr \/ by_addr' = claim_addr(selected[id], id)
      BY DEF EndLoop, Claim
    <3> QED
      BY <3>1 DEF claim_addr
  <2>5. CASE \E id \in Ids : Drop(id)
    BY <2>5 DEF Drop, release_addr
  <2>6. CASE \E id \in Ids, addr \in Addrs : SendTo(id, addr)
    BY <2>6 DEF SendTo
  <2> QED
    BY <2>1, <2>2, <2>3, <2>4, <2>5, <2>6 DEF Next
<1> QED
  BY <1>1, Inductive, PTL DEF Spec, NoTakeover
=============================================================================
