----------------------------- MODULE GameProofs -----------------------------
(***************************************************************************)
(* Proofs about the servers of a game: the LAN server and its pool of      *)
(* sessions, for every set of session ids and addresses and every limit,   *)
(* and the HTTP server, for every set of connections and every bound.      *)
(***************************************************************************)
EXTENDS MCGame, FiniteSetTheorems, SequenceTheorems, TLAPS

-----------------------------------------------------------------------------
(* The pool and the LAN server                                             *)

\* What the thread has still to do in a round belongs to its place in it.
Rounds ==
  /\ pool_at \in {"receive", "commands"} => todo = {} /\ failed = {}
  /\ pool_at = "fail" => todo = {}

\* The game waits for the one session it adds; the Add is the last command.
Adding ==
  /\ game_at = "add" <=> adding # None
  /\ adding # None => adding \notin Open /\ admits_offer(adding) /\ created \in Gens
  /\ adding # None /\ commands # <<>> =>
       commands[Len(commands)] = [kind |-> "Add", key |-> adding, gen |-> created]
  /\ \A i \in DOMAIN commands : commands[i].kind = "Add" => adding # None /\ i = Len(commands)

\* The number of the Connection that is handed over is new to the pool.
Numbered ==
  \A k \in Live :
    /\ entries[k].gen <= created
    /\ adding # None /\ commands # <<>> => entries[k].gen # created

\* The session g of k that the server has, or waits for once its Add is executed.
Wanted(k, g) == Holds(k, g) \/ (adding = k /\ commands = <<>> /\ g = created)

\* The pool runs what is wanted or has said that it failed, and what is not wanted
\* it is told to remove; a session the server has is never in that queue, so that
\* the Remove of an earlier session does not reach a later one of the same id.
Agree(k) ==
  /\ \A g \in Gens : Wanted(k, g) => Runs(k, g) \/ Queued(events, "Failed", k)
  /\ \A g \in Gens : Runs(k, g) => Wanted(k, g) \/ Queued(commands, "Remove", k)
  /\ k \in Open => ~ Queued(commands, "Remove", k)

GameInv ==
  /\ Adding
  /\ Numbered
  /\ \A k \in Keys : Agree(k)
  /\ PendingWithinLimits
  /\ ToldWhatIsListed

\* The inductive invariant of the LAN server and its pool.
LanInv == TypeOK /\ Rounds /\ RouterNamesTheLiving /\ GameInv

LEMMA QueuedAppend ==
  ASSUME NEW S, NEW q \in Seq(S), NEW c \in S, NEW kind, NEW k
  PROVE  Queued(Append(q, c), kind, k) <=> Queued(q, kind, k) \/ (c.kind = kind /\ c.key = k)
<1>1. /\ Len(q) \in Nat /\ DOMAIN q = 1 .. Len(q) /\ Append(q, c) \in Seq(S)
      /\ DOMAIN Append(q, c) = 1 .. Len(q) + 1 /\ Append(q, c)[Len(q) + 1] = c
      /\ \A i \in 1 .. Len(q) : Append(q, c)[i] = q[i]
  BY AppendProperties, LenProperties
<1>2. \A i : i \in 1 .. Len(q) + 1 <=> i \in 1 .. Len(q) \/ i = Len(q) + 1
  BY <1>1
<1> QED
  BY <1>1, <1>2 DEF Queued

LEMMA QueuedTail ==
  ASSUME NEW S, NEW q \in Seq(S), q # <<>>, NEW kind, NEW k
  PROVE  Queued(q, kind, k) <=>
           (Head(q).kind = kind /\ Head(q).key = k) \/ Queued(Tail(q), kind, k)
<1>1. /\ Len(q) \in Nat \ {0} /\ DOMAIN q = 1 .. Len(q) /\ Head(q) = q[1]
      /\ DOMAIN Tail(q) = 1 .. Len(q) - 1
      /\ \A i \in 1 .. Len(q) - 1 : Tail(q)[i] = q[i + 1]
  BY HeadTailProperties, EmptySeq, LenProperties
<1>2. \A i \in 1 .. Len(q) - 1 : i + 1 \in 1 .. Len(q)
  BY <1>1
<1>3. \A i \in 1 .. Len(q) : i = 1 \/ (i - 1 \in 1 .. Len(q) - 1 /\ i - 1 + 1 = i)
  BY <1>1
<1>4. 1 \in 1 .. Len(q)
  BY <1>1
<1>5. ASSUME Queued(q, kind, k)
      PROVE  (Head(q).kind = kind /\ Head(q).key = k) \/ Queued(Tail(q), kind, k)
  <2>1. PICK i \in 1 .. Len(q) : q[i].kind = kind /\ q[i].key = k
    BY <1>1, <1>5 DEF Queued
  <2>2. CASE i = 1
    BY <1>1, <2>1, <2>2
  <2>3. CASE i # 1
    <3>1. i - 1 \in DOMAIN Tail(q) /\ Tail(q)[i - 1] = q[i]
      BY <1>1, <1>3, <2>3
    <3> QED
      BY <2>1, <3>1 DEF Queued
  <2> QED
    BY <2>2, <2>3
<1>6. ASSUME Queued(Tail(q), kind, k) PROVE Queued(q, kind, k)
  BY <1>1, <1>2, <1>6 DEF Queued
<1>7. ASSUME Head(q).kind = kind, Head(q).key = k PROVE Queued(q, kind, k)
  BY <1>1, <1>4, <1>7 DEF Queued
<1> QED
  BY <1>5, <1>6, <1>7

LEMMA QueuedConcat ==
  ASSUME NEW S, NEW q \in Seq(S), NEW r \in Seq(S), NEW kind, NEW k
  PROVE  Queued(q \o r, kind, k) <=> Queued(q, kind, k) \/ Queued(r, kind, k)
<1>1. /\ Len(q) \in Nat /\ DOMAIN q = 1 .. Len(q) /\ Len(r) \in Nat /\ DOMAIN r = 1 .. Len(r)
      /\ DOMAIN (q \o r) = 1 .. Len(q) + Len(r)
      /\ \A i \in 1 .. Len(q) + Len(r) :
           (q \o r)[i] = IF i <= Len(q) THEN q[i] ELSE r[i - Len(q)]
  BY ConcatProperties, LenProperties
<1>2. \A i \in 1 .. Len(q) : i \in 1 .. Len(q) + Len(r) /\ i <= Len(q)
  BY <1>1
<1>3. \A i \in 1 .. Len(r) :
        i + Len(q) \in 1 .. Len(q) + Len(r) /\ ~ (i + Len(q) <= Len(q)) /\ i + Len(q) - Len(q) = i
  BY <1>1
<1>4. \A i \in 1 .. Len(q) + Len(r) : i \in 1 .. Len(q) \/ (~ (i <= Len(q)) /\ i - Len(q) \in 1 .. Len(r))
  BY <1>1
<1>5. ASSUME Queued(q \o r, kind, k) PROVE Queued(q, kind, k) \/ Queued(r, kind, k)
  BY <1>1, <1>2, <1>4, <1>5 DEF Queued
<1>6. ASSUME Queued(q, kind, k) PROVE Queued(q \o r, kind, k)
  BY <1>1, <1>2, <1>6 DEF Queued
<1>7. ASSUME Queued(r, kind, k) PROVE Queued(q \o r, kind, k)
  <2>1. PICK i \in 1 .. Len(r) : r[i].kind = kind /\ r[i].key = k
    BY <1>1, <1>7 DEF Queued
  <2>2. (q \o r)[i + Len(q)] = r[i]
    BY <1>1, <1>3
  <2> QED
    BY <1>1, <1>3, <2>1, <2>2 DEF Queued
<1> QED
  BY <1>5, <1>6, <1>7

\* Pending sessions are finite in number.
LEMMA PendingFinite ==
  /\ IsFiniteSet(Pending) /\ Cardinality(Pending) \in Nat
  /\ \A S : S \subseteq Pending =>
       IsFiniteSet(S) /\ Cardinality(S) \in Nat /\ Cardinality(S) <= Cardinality(Pending)
<1>1. Pending \subseteq Keys
  BY DEF Pending, Open
<1>2. IsFiniteSet(Pending)
  BY <1>1, PoolAssumption, FS_Subset
<1> QED
  BY <1>2, FS_Subset, FS_CardinalityType

\* Fewer pending sessions stay within the limits, and leave room for an offer.
LEMMA FewerPending ==
  ASSUME PendingWithinLimits, Pending' \subseteq Pending
  PROVE  PendingWithinLimits' /\ \A k \in Keys : admits_offer(k) => admits_offer(k)'
<1>1. IsFiniteSet(Pending) /\ Cardinality(Pending) \in Nat
  BY PendingFinite
<1>2. Cardinality(Pending') \in Nat /\ Cardinality(Pending') <= Cardinality(Pending)
  BY <1>1, FS_Subset, FS_CardinalityType
<1>3. ASSUME NEW k \in Keys
      PROVE  /\ Cardinality({j \in Pending' : NetworkOf[j] = NetworkOf[k]}) \in Nat
             /\ Cardinality({j \in Pending : NetworkOf[j] = NetworkOf[k]}) \in Nat
             /\ Cardinality({j \in Pending' : NetworkOf[j] = NetworkOf[k]})
                  <= Cardinality({j \in Pending : NetworkOf[j] = NetworkOf[k]})
  <2> DEFINE S == {j \in Pending : NetworkOf[j] = NetworkOf[k]}
             T == {j \in Pending' : NetworkOf[j] = NetworkOf[k]}
  <2>1. IsFiniteSet(S) /\ T \subseteq S
    BY <1>1, FS_Subset
  <2> QED
    BY <2>1, FS_Subset, FS_CardinalityType
<1>4. Cardinality(Pending') <= MaxPending
  BY <1>1, <1>2, ServerAssumption DEF PendingWithinLimits
<1>5. ASSUME NEW k \in Keys
      PROVE  /\ Cardinality({j \in Pending' : NetworkOf[j] = NetworkOf[k]}) <= MaxPendingOfNetwork
             /\ admits_offer(k) => admits_offer(k)'
  <2>1. PICK n, m \in Nat :
          /\ n = Cardinality({j \in Pending : NetworkOf[j] = NetworkOf[k]})
          /\ m = Cardinality({j \in Pending' : NetworkOf[j] = NetworkOf[k]}) /\ m <= n
    BY <1>3
  <2>2. n <= MaxPendingOfNetwork
    BY <2>1 DEF PendingWithinLimits
  <2>3. m <= MaxPendingOfNetwork
    BY <2>1, <2>2, ServerAssumption
  <2>4. ASSUME admits_offer(k) PROVE admits_offer(k)'
    <3>1. Cardinality(Pending) < MaxPending /\ n < MaxPendingOfNetwork
      BY <2>1, <2>4 DEF admits_offer
    <3>2. Cardinality(Pending') < MaxPending /\ m < MaxPendingOfNetwork
      BY <1>1, <1>2, <2>1, <3>1, ServerAssumption
    <3> QED
      BY <2>1, <3>2 DEF admits_offer
  <2> QED
    BY <2>1, <2>3, <2>4
<1> QED
  BY <1>4, <1>5 DEF PendingWithinLimits
\* The server's side of a step of the pool's thread that executes no command: no
\* session appears, and of one that goes the game is told.
LEMMA PoolAside ==
  ASSUME GameInv, UNCHANGED <<commands, gameVars>>,
         \A k \in Keys : entries'[k] # None => entries[k] # None /\ entries'[k].gen = entries[k].gen,
         \A k \in Keys : entries[k] # None => entries'[k] # None \/ Queued(events, "Failed", k)',
         \A k \in Keys : Queued(events, "Failed", k) => Queued(events, "Failed", k)'
  PROVE  GameInv'
<1>1. UNCHANGED <<commands, sessions, game_at, adding, created, told>>
  BY DEF gameVars
<1>2. Open' = Open /\ Pending' = Pending
  BY <1>1 DEF Open, Pending
<1>3. Adding' /\ PendingWithinLimits' /\ ToldWhatIsListed'
  BY <1>1, <1>2 DEF GameInv, Adding, admits_offer, PendingWithinLimits, ToldWhatIsListed
<1>4. Numbered'
  BY <1>1 DEF GameInv, Numbered, Live
<1>5. ASSUME NEW k \in Keys PROVE Agree(k)'
  <2>1. \A g \in Gens : Wanted(k, g)' <=> Wanted(k, g)
    BY <1>1, <1>2 DEF Wanted, Holds
  <2>2. \A kind : Queued(commands, kind, k)' <=> Queued(commands, kind, k)
    BY <1>1 DEF Queued
  <2>3. \A g \in Gens : Runs(k, g)' => Runs(k, g)
    BY DEF Runs, Live
  <2>4. \A g \in Gens : Runs(k, g) => Runs(k, g)' \/ Queued(events, "Failed", k)'
    BY DEF Runs, Live
  <2>5. Agree(k)
    BY DEF GameInv
  <2> QED
    BY <1>2, <2>1, <2>2, <2>3, <2>4, <2>5 DEF Agree
<1> QED
  BY <1>3, <1>4, <1>5 DEF GameInv

\* What release leaves of the router names the sessions that are left.
LEMMA ReleaseClean ==
  ASSUME PoolTypeOK, RouterNamesTheLiving, NEW k \in Live, release(k),
         entries' = [entries EXCEPT ![k] = None]
  PROVE  /\ RouterNamesTheLiving' /\ Live' = Live \ {k}
         /\ entries' \in [Keys -> EntryType \cup {None}]
         /\ by_addr' \in [Addrs -> Keys \cup {None}]
         /\ provisional' \in [Addrs -> SUBSET Keys]
         /\ by_ufrag' \in [Gens -> Keys \cup {None}]
<1>1. /\ k \in Keys /\ entries[k] \in EntryType /\ entries[k].gen \in Gens
      /\ entries \in [Keys -> EntryType \cup {None}] /\ by_addr \in [Addrs -> Keys \cup {None}]
      /\ provisional \in [Addrs -> SUBSET Keys] /\ by_ufrag \in [Gens -> Keys \cup {None}]
  BY DEF PoolTypeOK, Live, EntryType
<1>2. \A x \in Keys : x # k => entries'[x] = entries[x]
  BY <1>1
<1>3. Live' = Live \ {k}
  BY <1>1, <1>2 DEF Live
<1>4. /\ entries' \in [Keys -> EntryType \cup {None}]
      /\ by_addr' \in [Addrs -> Keys \cup {None}]
      /\ provisional' \in [Addrs -> SUBSET Keys]
      /\ by_ufrag' \in [Gens -> Keys \cup {None}]
  BY <1>1 DEF release
<1>5. ASSUME NEW a \in Addrs
      PROVE  /\ provisional'[a] \subseteq Live'
             /\ by_addr'[a] # None => by_addr'[a] \in Live' /\ entries'[by_addr'[a]].remote = a
  <2>1. provisional'[a] \subseteq Live'
    BY <1>1, <1>3 DEF release, RouterNamesTheLiving
  <2>2. by_addr'[a] = IF a = entries[k].remote /\ by_addr[a] = k THEN None ELSE by_addr[a]
    BY DEF release
  <2>3. ASSUME by_addr'[a] # None PROVE by_addr'[a] \in Live' /\ entries'[by_addr'[a]].remote = a
    <3>1. by_addr'[a] = by_addr[a] /\ by_addr[a] \in Live /\ entries[by_addr[a]].remote = a
      BY <2>2, <2>3 DEF RouterNamesTheLiving
    <3>2. by_addr[a] # k
      BY <2>2, <2>3, <3>1
    <3> QED
      BY <1>2, <1>3, <3>1, <3>2 DEF Live
  <2> QED
    BY <2>1, <2>3
<1>6. ASSUME NEW g \in Gens, NEW x \in Keys
      PROVE  by_ufrag'[g] = x <=> x \in Live' /\ entries'[x].gen = g
  <2>1. /\ by_ufrag[g] = x <=> x \in Live /\ entries[x].gen = g
        /\ by_ufrag[entries[k].gen] = k
    BY <1>1 DEF RouterNamesTheLiving
  <2>2. by_ufrag'[g] = IF g = entries[k].gen THEN None ELSE by_ufrag[g]
    BY <1>1 DEF release
  <2>3. x # None
    BY PoolAssumption
  <2> QED
    BY <1>2, <1>3, <2>1, <2>2, <2>3
<1> QED
  BY <1>3, <1>4, <1>5, <1>6 DEF RouterNamesTheLiving

LEMMA ReceiveInv ==
  ASSUME LanInv, UNCHANGED gameVars,
         ReceiveTimeout \/ \E a \in Addrs, d \in Datagrams : Receive(a, d)
  PROVE  LanInv'
<1>1. /\ pool_at = "receive" /\ pool_at' = "commands"
      /\ UNCHANGED <<commands, events, by_addr, provisional, by_ufrag, todo, failed>>
  BY DEF ReceiveTimeout, Receive, router
<1>2. PoolTypeOK /\ entries \in [Keys -> EntryType \cup {None}]
  BY DEF LanInv, TypeOK, PoolTypeOK
<1>3. /\ entries' \in [Keys -> EntryType \cup {None}]
      /\ \A k \in Keys : entries'[k] # None <=> entries[k] # None
      /\ \A k \in Keys : entries[k] # None =>
           entries'[k].gen = entries[k].gen /\ entries'[k].remote = entries[k].remote
  <2>1. CASE entries' = entries
    BY <1>2, <2>1
  <2>2. ASSUME NEW a \in Addrs, NEW d \in Datagrams, Receive(a, d)
        PROVE  <1>3!:
    <3>1. PICK taken \in SUBSET (route(a, d) \cap Live) :
            entries' = [k \in Keys |-> IF k \in taken THEN Advanced(entries[k], a, d) ELSE entries[k]]
      BY <2>2 DEF Receive
    <3>2. ASSUME NEW e \in EntryType
          PROVE  /\ Advanced(e, a, d) \in EntryType /\ Advanced(e, a, d).gen = e.gen
                 /\ Advanced(e, a, d).remote = e.remote
      BY DEF Advanced, EntryType, Phases
    <3>3. \A k \in taken : entries[k] \in EntryType
      BY <1>2 DEF Live
    <3>4. ASSUME NEW k \in Keys
          PROVE  /\ entries'[k] \in EntryType \cup {None}
                 /\ entries'[k] # None <=> entries[k] # None
                 /\ entries[k] # None =>
                      entries'[k].gen = entries[k].gen /\ entries'[k].remote = entries[k].remote
      <4>1. CASE k \in taken
        BY <3>1, <3>2, <3>3, <4>1, PoolAssumption
      <4>2. CASE k \notin taken
        BY <1>2, <3>1, <4>2
      <4> QED
        BY <4>1, <4>2
    <3> QED
      BY <3>1, <3>4
  <2> QED
    BY <2>1, <2>2 DEF ReceiveTimeout
<1>4. Live' = Live
  BY <1>3 DEF Live
<1>5. RouterNamesTheLiving'
  BY <1>1, <1>3, <1>4 DEF LanInv, RouterNamesTheLiving, Live
<1>6. TypeOK' /\ Rounds'
  BY <1>1, <1>3, <1>4 DEF LanInv, TypeOK, PoolTypeOK, Rounds, gameVars
<1>7. \A k \in Keys : Queued(events, "Failed", k)' <=> Queued(events, "Failed", k)
  BY <1>1 DEF Queued
<1>8. GameInv'
  BY <1>1, <1>3, <1>7, PoolAside DEF LanInv
<1> QED
  BY <1>5, <1>6, <1>8 DEF LanInv
LEMMA EndCommandsInv ==
  ASSUME LanInv, UNCHANGED gameVars, EndCommands
  PROVE  LanInv'
<1>1. /\ pool_at = "commands" /\ pool_at' = IF Live = {} THEN "receive" ELSE "poll"
      /\ UNCHANGED <<commands, events, entries, by_addr, provisional, by_ufrag, failed>>
      /\ todo' = Live /\ failed = {}
  BY DEF EndCommands, router, LanInv, Rounds
<1>2. Live' = Live
  BY <1>1 DEF Live
<1>3. RouterNamesTheLiving'
  BY <1>1, <1>2 DEF LanInv, RouterNamesTheLiving
<1>4. TypeOK' /\ Rounds'
  BY <1>1, <1>2 DEF LanInv, TypeOK, PoolTypeOK, Rounds, gameVars
<1>5. GameInv'
  BY <1>1, PoolAside DEF LanInv, Queued
<1> QED
  BY <1>3, <1>4, <1>5 DEF LanInv

\* A session claims the address it selected before it is known by it.
LEMMA PollInv ==
  ASSUME LanInv, UNCHANGED gameVars, NEW k \in Keys, NEW out \in {"none", "Ready"} \cup Reports,
         NEW to \in Addrs \cup {None}, NEW fails \in BOOLEAN, Poll(k, out, to, fails)
  PROVE  LanInv'
<1>0. PICK e, remote : e = entries[k] /\ remote = IF e.remote = None THEN e.selected ELSE e.remote
  OBVIOUS
<1>1. /\ pool_at = "poll" /\ k \in todo /\ out \in Outputs(e) /\ todo' = todo \ {k}
      /\ by_addr' = IF e.remote = None /\ e.selected # None
                    THEN claim_addr(e.selected, k) ELSE by_addr
      /\ provisional' = IF remote = None /\ to # None THEN note_sent(to, k) ELSE provisional
      /\ entries' = [entries EXCEPT ![k] =
           [e EXCEPT !.remote = remote,
                     !.phase = IF out = "Ready" THEN "open" ELSE e.phase,
                     !.reported = e.reported \cup ({out} \cap Reports)]]
      /\ events' = IF out = "none" THEN events
                   ELSE Append(events, [kind |-> out, key |-> k, gen |-> e.gen])
      /\ failed' = IF fails THEN failed \cup {k} ELSE failed
      /\ pool_at' = IF todo' # {} THEN "poll" ELSE IF failed' # {} THEN "fail" ELSE "receive"
      /\ UNCHANGED <<commands, by_ufrag>>
  BY <1>0 DEF Poll, Event, LanInv, TypeOK, PoolTypeOK
<1>2. /\ PoolTypeOK /\ entries \in [Keys -> EntryType \cup {None}] /\ k \in Live
      /\ by_addr \in [Addrs -> Keys \cup {None}] /\ provisional \in [Addrs -> SUBSET Keys]
      /\ events \in Seq(EventType)
  BY <1>1 DEF LanInv, TypeOK, PoolTypeOK
<1>3. e \in EntryType /\ remote \in Addrs \cup {None} /\ e.selected \in Addrs \cup {None}
  BY <1>0, <1>2 DEF Live, EntryType
<1>4. PICK f : f = [e EXCEPT !.remote = remote,
                             !.phase = IF out = "Ready" THEN "open" ELSE e.phase,
                             !.reported = e.reported \cup ({out} \cap Reports)]
  OBVIOUS
<1>5. f \in EntryType /\ f.gen = e.gen /\ f.remote = remote /\ f # None
  <2>1. f \in EntryType /\ f.gen = e.gen /\ f.remote = remote
    BY <1>3, <1>4 DEF EntryType, Phases
  <2> QED
    BY <2>1, PoolAssumption
<1>6. entries' = [entries EXCEPT ![k] = f]
  BY <1>1, <1>4
<1>7. /\ entries' \in [Keys -> EntryType \cup {None}] /\ entries'[k] = f
      /\ \A x \in Keys : x # k => entries'[x] = entries[x]
  BY <1>2, <1>5, <1>6
<1>8. Live' = Live
  BY <1>2, <1>5, <1>7 DEF Live
<1>9. /\ \A x \in Keys : entries'[x] # None <=> entries[x] # None
      /\ \A x \in Keys : entries[x] # None => entries'[x].gen = entries[x].gen
  BY <1>0, <1>2, <1>5, <1>7 DEF Live
<1>10. ASSUME NEW a \in Addrs
       PROVE  by_addr'[a] # None => by_addr'[a] \in Live /\ entries'[by_addr'[a]].remote = a
  <2>1. by_addr[a] # None => by_addr[a] \in Live /\ entries[by_addr[a]].remote = a
    BY DEF LanInv, RouterNamesTheLiving
  <2>2. by_addr[a] = k => e.remote = a /\ remote = a
    BY <1>0, <1>3, <2>1, PoolAssumption
  <2>3. by_addr[a] # None => by_addr[a] \in Live /\ entries'[by_addr[a]].remote = a
    BY <1>5, <1>7, <2>1, <2>2 DEF Live
  <2>4. CASE by_addr'[a] = by_addr[a]
    BY <2>3, <2>4
  <2>5. CASE e.remote = None /\ e.selected = a /\ a # None /\ by_addr'[a] = k
    <3>1. remote = a
      BY <1>0, <2>5
    <3> QED
      BY <1>2, <1>5, <1>7, <2>5, <3>1
  <2> QED
    BY <1>1, <1>2, <2>4, <2>5 DEF claim_addr
<1>11. \A a \in Addrs : provisional'[a] \subseteq Live
  <2>1. \A a \in Addrs : provisional[a] \subseteq Live
    BY DEF LanInv, RouterNamesTheLiving
  <2> QED
    BY <1>1, <1>2, <2>1 DEF note_sent
<1>12. RouterNamesTheLiving'
  BY <1>1, <1>8, <1>9, <1>10, <1>11 DEF LanInv, RouterNamesTheLiving, Live
<1>13. by_addr' \in [Addrs -> Keys \cup {None}] /\ provisional' \in [Addrs -> SUBSET Keys]
  BY <1>1, <1>2 DEF claim_addr, note_sent
<1>14. PICK v : v = [kind |-> out, key |-> k, gen |-> e.gen]
  OBVIOUS
<1>15. out # "none" => v \in EventType /\ v.kind = out
  BY <1>3, <1>14 DEF EventType, EntryType
<1>16. out # "Failed"
  BY PoolAssumption
<1>17. /\ events' \in Seq(EventType)
       /\ \A x \in Keys : Queued(events, "Failed", x)' <=> Queued(events, "Failed", x)
  <2>1. CASE out = "none"
    BY <1>1, <1>2, <2>1 DEF Queued
  <2>2. CASE out # "none"
    <3>1. events' = Append(events, v)
      BY <1>1, <1>14, <2>2
    <3>2. \A x \in Keys : Queued(events', "Failed", x) <=> Queued(events, "Failed", x)
      BY <1>2, <1>15, <1>16, <2>2, <3>1, QueuedAppend
    <3>3. \A x \in Keys : Queued(events, "Failed", x)' <=> Queued(events', "Failed", x)
      BY DEF Queued
    <3> QED
      BY <1>2, <1>15, <2>2, <3>1, <3>2, <3>3
  <2> QED
    BY <2>1, <2>2
<1>18. /\ todo' \subseteq Live' /\ failed' \subseteq Live'
       /\ pool_at' \in {"receive", "commands", "poll", "fail"}
  BY <1>1, <1>2, <1>8 DEF PoolTypeOK
<1>19. PoolTypeOK'
  BY <1>1, <1>2, <1>7, <1>13, <1>17, <1>18 DEF PoolTypeOK
<1>20. TypeOK'
  BY <1>19 DEF LanInv, TypeOK, gameVars
<1>21. Rounds'
  BY <1>1 DEF Rounds
<1>22. GameInv'
  BY <1>1, <1>9, <1>17, PoolAside DEF LanInv
<1> QED
  BY <1>12, <1>20, <1>21, <1>22 DEF LanInv

\* A session that failed leaves the router, and the game is told.
LEMMA DropFailedInv ==
  ASSUME LanInv, UNCHANGED gameVars, NEW k \in Keys, DropFailed(k)
  PROVE  LanInv'
<1>0. PICK v : v = [kind |-> "Failed", key |-> k, gen |-> entries[k].gen]
  OBVIOUS
<1>1. /\ pool_at = "fail" /\ k \in failed /\ failed' = failed \ {k}
      /\ entries' = [entries EXCEPT ![k] = None] /\ release(k)
      /\ events' = Append(events, v)
      /\ pool_at' = IF failed' # {} THEN "fail" ELSE "receive"
      /\ UNCHANGED <<commands, todo>>
  BY <1>0 DEF DropFailed, Event
<1>2. /\ PoolTypeOK /\ entries \in [Keys -> EntryType \cup {None}] /\ k \in Live
      /\ events \in Seq(EventType) /\ todo = {}
  BY <1>1 DEF LanInv, TypeOK, PoolTypeOK, Rounds
<1>3. /\ RouterNamesTheLiving' /\ Live' = Live \ {k}
      /\ entries' \in [Keys -> EntryType \cup {None}] /\ by_addr' \in [Addrs -> Keys \cup {None}]
      /\ provisional' \in [Addrs -> SUBSET Keys] /\ by_ufrag' \in [Gens -> Keys \cup {None}]
  BY <1>1, <1>2, ReleaseClean DEF LanInv
<1>4. v \in EventType /\ v.kind = "Failed" /\ v.key = k
  BY <1>0, <1>2 DEF EventType, Live, EntryType
<1>5. ASSUME NEW x \in Keys
      PROVE  Queued(events, "Failed", x)' <=> Queued(events, "Failed", x) \/ x = k
  <2>1. Queued(Append(events, v), "Failed", x) <=> Queued(events, "Failed", x) \/ x = k
    BY <1>2, <1>4, QueuedAppend
  <2> QED
    BY <1>1, <2>1 DEF Queued
<1>6. PoolTypeOK'
  BY <1>1, <1>2, <1>3, <1>4 DEF PoolTypeOK
<1>7. TypeOK' /\ Rounds'
  BY <1>1, <1>2, <1>6 DEF LanInv, TypeOK, Rounds, gameVars
<1>8. \A x \in Keys : x # k => entries'[x] = entries[x]
  BY <1>1, <1>2
<1>9. \A x \in Keys : entries'[x] # None => entries[x] # None /\ entries'[x].gen = entries[x].gen
  BY <1>1, <1>2, <1>8
<1>10. \A x \in Keys : entries[x] # None => entries'[x] # None \/ Queued(events, "Failed", x)'
  BY <1>5, <1>8
<1>11. GameInv'
  BY <1>1, <1>5, <1>9, <1>10, PoolAside DEF LanInv
<1> QED
  BY <1>3, <1>7, <1>11 DEF LanInv
\* A command that is executed leaves the others in their order.
LEMMA ExecuteMoves ==
  ASSUME LanInv, UNCHANGED gameVars, commands # <<>>, commands' = Tail(commands)
  PROVE  /\ Head(commands) \in CommandType /\ commands' \in Seq(CommandType)
         /\ \A kind, k : Queued(commands, kind, k) <=>
              (Head(commands).kind = kind /\ Head(commands).key = k) \/ Queued(commands, kind, k)'
         /\ Adding'
         /\ Head(commands).kind = "Add" =>
              /\ adding # None /\ commands' = <<>>
              /\ Head(commands) = [kind |-> "Add", key |-> adding, gen |-> created]
         /\ Head(commands).kind # "Add" /\ adding # None => commands' # <<>>
<1>1. /\ commands \in Seq(CommandType) /\ Adding
      /\ UNCHANGED <<sessions, game_at, adding, created, told>>
  BY DEF LanInv, TypeOK, PoolTypeOK, GameInv, gameVars
<1>2. /\ commands' \in Seq(CommandType) /\ Len(commands) \in Nat \ {0}
      /\ Head(commands) \in CommandType /\ Head(commands) = commands[1]
      /\ Len(commands') = Len(commands) - 1
      /\ DOMAIN commands = 1 .. Len(commands) /\ DOMAIN commands' = 1 .. Len(commands')
      /\ \A i \in 1 .. Len(commands') : commands'[i] = commands[i + 1]
  BY <1>1, HeadTailProperties, EmptySeq, LenProperties
<1>3. commands' = <<>> <=> Len(commands) = 1
  BY <1>2, EmptySeq
<1>4. ASSUME NEW kind, NEW k
      PROVE  Queued(commands, kind, k) <=>
               (Head(commands).kind = kind /\ Head(commands).key = k) \/ Queued(commands, kind, k)'
  <2>1. Queued(commands, kind, k) <=>
          (Head(commands).kind = kind /\ Head(commands).key = k) \/ Queued(Tail(commands), kind, k)
    BY <1>1, QueuedTail
  <2> QED
    BY <2>1 DEF Queued
<1>5. Adding'
  <2>1. Open' = Open /\ \A k : admits_offer(k)' <=> admits_offer(k)
    BY <1>1 DEF Open, Pending, admits_offer
  <2>2. ASSUME adding # None, commands' # <<>>
        PROVE  commands'[Len(commands')] = [kind |-> "Add", key |-> adding, gen |-> created]
    <3>1. Len(commands') \in 1 .. Len(commands') /\ Len(commands') + 1 = Len(commands)
      BY <1>2, <1>3, <2>2
    <3> QED
      BY <1>1, <1>2, <2>2, <3>1 DEF Adding
  <2>3. ASSUME NEW i \in DOMAIN commands', commands'[i].kind = "Add"
        PROVE  adding # None /\ i = Len(commands')
    <3>1. i \in Nat /\ i + 1 \in DOMAIN commands /\ commands[i + 1].kind = "Add"
      BY <1>2, <2>3
    <3>2. adding # None /\ i + 1 = Len(commands)
      BY <1>1, <3>1 DEF Adding
    <3> QED
      BY <1>2, <3>1, <3>2
  <2> QED
    BY <1>1, <2>1, <2>2, <2>3 DEF Adding
<1>6. ASSUME Head(commands).kind = "Add"
      PROVE  /\ adding # None /\ commands' = <<>>
             /\ Head(commands) = [kind |-> "Add", key |-> adding, gen |-> created]
  <2>1. 1 \in DOMAIN commands /\ commands[1].kind = "Add"
    BY <1>2, <1>6
  <2>2. adding # None /\ 1 = Len(commands)
    BY <1>1, <2>1 DEF Adding
  <2> QED
    BY <1>1, <1>2, <1>3, <2>2 DEF Adding
<1>7. ASSUME Head(commands).kind # "Add", adding # None PROVE commands' # <<>>
  <2>1. commands[Len(commands)].kind = "Add"
    BY <1>1, <1>7 DEF Adding
  <2> QED
    BY <1>2, <1>3, <1>7, <2>1
<1> QED
  BY <1>2, <1>4, <1>5, <1>6, <1>7

LEMMA SameGame ==
  ASSUME GameInv, UNCHANGED gameVars
  PROVE  PendingWithinLimits' /\ ToldWhatIsListed' /\ Open' = Open
<1>1. UNCHANGED <<sessions, told>>
  BY DEF gameVars
<1>2. Open' = Open /\ Pending' = Pending
  BY <1>1 DEF Open, Pending
<1> QED
  BY <1>1, <1>2 DEF GameInv, PendingWithinLimits, ToldWhatIsListed

\* A Remove takes away the session that was left, and no other; the rest change
\* nothing.
LEMMA ExecuteOthers ==
  ASSUME LanInv, UNCHANGED gameVars, commands # <<>>, commands' = Tail(commands),
         events' = events, Head(commands).kind # "Add",
         \A k \in Keys :
            IF Head(commands).kind = "Remove" /\ Head(commands).key = k
            THEN entries'[k] = None ELSE entries'[k] = entries[k]
  PROVE  GameInv'
<1>1. /\ UNCHANGED <<sessions, game_at, adding, created, told>> /\ GameInv
  BY DEF gameVars, LanInv
<1>2. /\ \A kind, k : Queued(commands, kind, k) <=>
           (Head(commands).kind = kind /\ Head(commands).key = k) \/ Queued(commands, kind, k)'
      /\ Adding' /\ (adding # None => commands' # <<>>)
  BY ExecuteMoves
<1>3. PendingWithinLimits' /\ ToldWhatIsListed' /\ Open' = Open
  BY <1>1, SameGame
<1>4. Numbered'
  BY <1>1 DEF GameInv, Numbered, Live
<1>5. ASSUME NEW k \in Keys PROVE Agree(k)'
  <2>1. Agree(k) /\ \A g \in Gens : (Wanted(k, g) <=> Holds(k, g)) /\ (Wanted(k, g)' <=> Holds(k, g))
    BY <1>1, <1>2, <1>3, PoolAssumption DEF GameInv, Wanted, Holds
  <2>2. \A x : Queued(events, "Failed", x)' <=> Queued(events, "Failed", x)
    BY DEF Queued
  <2>3. CASE Head(commands).kind = "Remove" /\ Head(commands).key = k
    <3>1. Queued(commands, "Remove", k)
      BY <1>2, <2>3
    <3>2. k \notin Open
      BY <2>1, <3>1 DEF Agree
    <3>3. k \notin Live'
      BY <2>3 DEF Live
    <3> QED
      BY <1>3, <2>1, <3>2, <3>3 DEF Agree, Runs, Holds
  <2>4. CASE ~ (Head(commands).kind = "Remove" /\ Head(commands).key = k)
    <3>1. Queued(commands, "Remove", k)' <=> Queued(commands, "Remove", k)
      BY <1>2, <2>4
    <3>2. \A g \in Gens : Runs(k, g)' <=> Runs(k, g)
      BY <2>4 DEF Runs, Live
    <3> QED
      BY <1>3, <2>1, <2>2, <3>1, <3>2 DEF Agree
  <2> QED
    BY <2>3, <2>4
<1> QED
  BY <1>2, <1>3, <1>4, <1>5 DEF GameInv

\* An Add comes when the pool has nothing of the id any more, and under a number
\* that no session has.
LEMMA ExecuteAdd ==
  ASSUME LanInv, UNCHANGED <<gameVars, events, pool_at, todo, failed, by_addr, provisional>>,
         pool_at = "commands", commands # <<>>, commands' = Tail(commands),
         Head(commands).kind = "Add",
         by_ufrag' = [by_ufrag EXCEPT ![Head(commands).gen] = Head(commands).key],
         entries' = [entries EXCEPT ![Head(commands).key] = NewEntry(Head(commands).gen)]
  PROVE  LanInv'
<1>1. /\ UNCHANGED <<sessions, game_at, adding, created, told>> /\ GameInv /\ PoolTypeOK
      /\ todo = {} /\ failed = {}
  BY DEF gameVars, LanInv, TypeOK, Rounds
<1>2. /\ Head(commands) \in CommandType /\ adding # None /\ commands' = <<>> /\ Adding'
      /\ Head(commands) = [kind |-> "Add", key |-> adding, gen |-> created]
      /\ \A kind, k : Queued(commands, kind, k) <=>
           (Head(commands).kind = kind /\ Head(commands).key = k) \/ Queued(commands, kind, k)'
  BY ExecuteMoves
<1>3. adding \in Keys /\ created \in Gens
  BY <1>2 DEF CommandType
<1>4. PICK e : e = NewEntry(created)
  OBVIOUS
<1>5. /\ e \in EntryType /\ e.gen = created /\ e # None
      /\ entries' = [entries EXCEPT ![adding] = e] /\ by_ufrag' = [by_ufrag EXCEPT ![created] = adding]
  <2>1. e \in EntryType /\ e.gen = created
    BY <1>3, <1>4 DEF NewEntry, EntryType, Phases
  <2>2. e # None
    BY <2>1, PoolAssumption
  <2>3. Head(commands).gen = created /\ Head(commands).key = adding
    BY <1>2
  <2> QED
    BY <1>4, <2>1, <2>2, <2>3
<1>6. adding \notin Open
  BY <1>1, <1>2 DEF GameInv, Adding
<1>7. \A k : ~ Queued(commands, "Remove", k) /\ ~ Queued(commands, "Remove", k)'
  <2>1. \A k : ~ Queued(commands, "Remove", k)'
    BY <1>2 DEF Queued
  <2> QED
    BY <1>2, <2>1
<1>8. adding \notin Live
  <2> SUFFICES ASSUME adding \in Live PROVE FALSE
    OBVIOUS
  <2>1. entries[adding].gen \in Gens /\ Runs(adding, entries[adding].gen) /\ Agree(adding)
    BY <1>1, <1>3 DEF PoolTypeOK, Live, EntryType, Runs, GameInv
  <2>2. ~ Wanted(adding, entries[adding].gen)
    BY <1>6 DEF Wanted, Holds
  <2> QED
    BY <1>7, <2>1, <2>2 DEF Agree
<1>9. \A k \in Live : entries[k].gen # created
  BY <1>1, <1>2 DEF GameInv, Numbered
<1>10. /\ entries \in [Keys -> EntryType \cup {None}] /\ by_ufrag \in [Gens -> Keys \cup {None}]
  BY <1>1 DEF PoolTypeOK
<1>11. /\ entries' \in [Keys -> EntryType \cup {None}] /\ by_ufrag' \in [Gens -> Keys \cup {None}]
       /\ entries'[adding] = e /\ by_ufrag'[created] = adding
       /\ \A k \in Keys : k # adding => entries'[k] = entries[k]
       /\ \A g \in Gens : g # created => by_ufrag'[g] = by_ufrag[g]
  <2>1. PICK k0, g0 : k0 = adding /\ g0 = created
    OBVIOUS
  <2>2. /\ entries' = [entries EXCEPT ![k0] = e] /\ by_ufrag' = [by_ufrag EXCEPT ![g0] = k0]
        /\ k0 \in Keys /\ g0 \in Gens /\ e \in EntryType
    BY <1>3, <1>5, <2>1
  <2>3. /\ entries' \in [Keys -> EntryType \cup {None}] /\ entries'[k0] = e
        /\ \A k \in Keys : k # k0 => entries'[k] = entries[k]
    BY <1>10, <2>2
  <2>4. /\ by_ufrag' \in [Gens -> Keys \cup {None}] /\ by_ufrag'[g0] = k0
        /\ \A g \in Gens : g # g0 => by_ufrag'[g] = by_ufrag[g]
    BY <1>10, <2>2
  <2> QED
    BY <2>1, <2>3, <2>4
<1>12. Live' = Live \cup {adding}
  BY <1>3, <1>5, <1>11 DEF Live
<1>13. RouterNamesTheLiving'
  <2>1. ASSUME NEW a \in Addrs
        PROVE  /\ provisional'[a] \subseteq Live'
               /\ by_addr'[a] # None => by_addr'[a] \in Live' /\ entries'[by_addr'[a]].remote = a
    BY <1>8, <1>11, <1>12 DEF LanInv, RouterNamesTheLiving, Live
  <2>2. ASSUME NEW g \in Gens, NEW k \in Keys
        PROVE  by_ufrag'[g] = k <=> k \in Live' /\ entries'[k].gen = g
    <3>1. by_ufrag[g] = k <=> k \in Live /\ entries[k].gen = g
      BY DEF LanInv, RouterNamesTheLiving
    <3> QED
      BY <1>5, <1>8, <1>9, <1>11, <1>12, <3>1
  <2> QED
    BY <2>1, <2>2 DEF RouterNamesTheLiving
<1>14. PoolTypeOK'
  BY <1>1, <1>2, <1>11 DEF PoolTypeOK
<1>15. TypeOK' /\ Rounds'
  BY <1>1, <1>14 DEF LanInv, TypeOK, Rounds
<1>16. PendingWithinLimits' /\ ToldWhatIsListed' /\ Open' = Open
  BY <1>1, SameGame
<1>17. Numbered'
  <2>1. created <= created
    BY <1>3 DEF Gens
  <2> QED
    BY <1>1, <1>2, <1>5, <1>11, <1>12, <2>1 DEF GameInv, Numbered, Live
<1>18. ASSUME NEW k \in Keys PROVE Agree(k)'
  <2>1. \A x : Queued(events, "Failed", x)' <=> Queued(events, "Failed", x)
    BY DEF Queued
  <2>2. Agree(k)
    BY <1>1 DEF GameInv
  <2>3. \A g : Holds(k, g)' <=> Holds(k, g)
    BY <1>1, <1>16 DEF Holds
  <2>4. CASE k = adding
    <3>1. \A g \in Gens : Runs(k, g)' <=> g = created
      BY <1>5, <1>11, <1>12, <2>4 DEF Runs
    <3>2. \A g \in Gens : Wanted(k, g)' <=> g = created
      BY <1>1, <1>2, <1>6, <2>3, <2>4 DEF Wanted, Holds
    <3> QED
      BY <1>6, <1>16, <2>4, <3>1, <3>2 DEF Agree
  <2>5. CASE k # adding
    <3>1. \A g \in Gens : Runs(k, g)' <=> Runs(k, g)
      BY <1>11, <1>12, <2>5 DEF Runs
    <3>2. \A g \in Gens : Wanted(k, g)' <=> Wanted(k, g)
      BY <1>1, <2>3, <2>5 DEF Wanted
    <3> QED
      BY <1>7, <1>16, <2>1, <2>2, <3>1, <3>2 DEF Agree
  <2> QED
    BY <2>4, <2>5
<1> QED
  BY <1>2, <1>13, <1>15, <1>16, <1>17, <1>18 DEF LanInv, GameInv

LEMMA ExecuteInv ==
  ASSUME LanInv, UNCHANGED gameVars, Execute
  PROVE  LanInv'
<1>0. PICK c : c = Head(commands)
  OBVIOUS
<1>1. /\ pool_at = "commands" /\ commands # <<>> /\ commands' = Tail(commands)
      /\ UNCHANGED <<events, pool_at, todo, failed>>
  BY DEF Execute
<1>2. /\ c \in CommandType /\ commands' \in Seq(CommandType) /\ PoolTypeOK
      /\ entries \in [Keys -> EntryType \cup {None}] /\ todo = {} /\ failed = {}
  BY <1>0, <1>1, ExecuteMoves DEF LanInv, TypeOK, PoolTypeOK, Rounds
<1>3. CASE c.kind = "Add"
  BY <1>0, <1>1, <1>3, ExecuteAdd DEF Execute
<1>4. CASE c.kind = "Remove" /\ c.key \in Live
  <2>1. entries' = [entries EXCEPT ![c.key] = None] /\ release(c.key)
    BY <1>0, <1>4 DEF Execute
  <2>2. /\ RouterNamesTheLiving' /\ Live' = Live \ {c.key}
        /\ entries' \in [Keys -> EntryType \cup {None}] /\ by_addr' \in [Addrs -> Keys \cup {None}]
        /\ provisional' \in [Addrs -> SUBSET Keys] /\ by_ufrag' \in [Gens -> Keys \cup {None}]
    BY <1>2, <1>4, <2>1, ReleaseClean DEF LanInv
  <2>3. TypeOK' /\ Rounds'
    BY <1>1, <1>2, <2>2 DEF LanInv, TypeOK, PoolTypeOK, Rounds, gameVars
  <2>4. GameInv'
    BY <1>0, <1>1, <1>2, <1>4, <2>1, ExecuteOthers
  <2> QED
    BY <2>2, <2>3, <2>4 DEF LanInv
<1>5. CASE c.kind # "Add" /\ ~ (c.kind = "Remove" /\ c.key \in Live)
  <2>1. UNCHANGED <<entries, by_addr, provisional, by_ufrag>>
    BY <1>0, <1>5 DEF Execute, router
  <2>2. Live' = Live
    BY <2>1 DEF Live
  <2>3. TypeOK' /\ Rounds' /\ RouterNamesTheLiving'
    BY <1>1, <1>2, <2>1, <2>2 DEF LanInv, TypeOK, PoolTypeOK, Rounds, gameVars, RouterNamesTheLiving
  <2>4. GameInv'
    BY <1>0, <1>1, <1>5, <2>1, ExecuteOthers DEF Live
  <2> QED
    BY <2>3, <2>4 DEF LanInv
<1> QED
  BY <1>3, <1>4, <1>5
\* The game changes nothing of the pool but its queues.
LEMMA PoolFrame ==
  ASSUME LanInv, UNCHANGED <<entries, by_addr, provisional, by_ufrag, pool_at, todo, failed>>,
         commands' \in Seq(CommandType), events' \in Seq(EventType)
  PROVE  PoolTypeOK' /\ Rounds' /\ RouterNamesTheLiving' /\ Live' = Live
<1>1. Live' = Live
  BY DEF Live
<1> QED
  BY <1>1 DEF LanInv, TypeOK, PoolTypeOK, Rounds, RouterNamesTheLiving

LEMMA CommandSent ==
  ASSUME LanInv, adding = None, NEW c \in CommandType, c.kind # "Add",
         commands' = Append(commands, c), adding' = adding, game_at' # "add"
  PROVE  /\ Adding' /\ commands' \in Seq(CommandType)
         /\ \A kind, k : Queued(commands, kind, k)' <=>
              Queued(commands, kind, k) \/ (c.kind = kind /\ c.key = k)
<1>1. /\ commands \in Seq(CommandType) /\ \A i \in DOMAIN commands : commands[i].kind # "Add"
  BY DEF LanInv, TypeOK, PoolTypeOK, GameInv, Adding
<1>2. ASSUME NEW kind, NEW k
      PROVE  Queued(commands, kind, k)' <=> Queued(commands, kind, k) \/ (c.kind = kind /\ c.key = k)
  <2>1. Queued(Append(commands, c), kind, k) <=>
          Queued(commands, kind, k) \/ (c.kind = kind /\ c.key = k)
    BY <1>1, QueuedAppend
  <2> QED
    BY <2>1 DEF Queued
<1>3. /\ commands' \in Seq(CommandType) /\ Len(commands) \in Nat
      /\ DOMAIN commands = 1 .. Len(commands) /\ DOMAIN commands' = 1 .. Len(commands) + 1
      /\ commands'[Len(commands) + 1] = c
      /\ \A i \in 1 .. Len(commands) : commands'[i] = commands[i]
  BY <1>1, AppendProperties, LenProperties
<1>4. \A i \in DOMAIN commands' : commands'[i].kind # "Add"
  <2>1. \A i \in 1 .. Len(commands) + 1 : i \in 1 .. Len(commands) \/ i = Len(commands) + 1
    BY <1>3
  <2> QED
    BY <1>1, <1>3, <2>1
<1> QED
  BY <1>2, <1>3, <1>4 DEF Adding

LEMMA NotAdding ==
  ASSUME LanInv, game_at # "add"
  PROVE  /\ adding = None
         /\ \A k \in Keys : \A g : Wanted(k, g) <=> Holds(k, g)
BY PoolAssumption DEF LanInv, GameInv, Adding, Wanted

LEMMA SendInv ==
  ASSUME LanInv, NEW k \in Keys, send_on(k) \/ handle_signal(k)
  PROVE  LanInv'
<1>1. ASSUME NEW kind \in {"Send", "Signal"}, game_at # "add", k \in Open,
             commands' = Append(commands, Command(kind, k)),
             UNCHANGED <<events, entries, router, pool_at, todo, failed, gameVars>>
      PROVE  LanInv'
  <2>0. PICK m : m = Command(kind, k)
    OBVIOUS
  <2>1. m \in CommandType /\ m.kind = kind
    BY <1>1, <2>0 DEF Command, CommandType, LanInv, TypeOK, Open, SessionType
  <2>2. UNCHANGED <<sessions, game_at, adding, created, told>> /\ GameInv
    BY <1>1 DEF gameVars, LanInv
  <2>3. adding = None /\ \A x \in Keys : \A g : Wanted(x, g) <=> Holds(x, g)
    BY <1>1, NotAdding
  <2>4. /\ Adding' /\ commands' \in Seq(CommandType)
        /\ \A x : Queued(commands, "Remove", x)' <=> Queued(commands, "Remove", x)
    BY <1>1, <2>0, <2>1, <2>2, <2>3, CommandSent
  <2>5. PoolTypeOK' /\ Rounds' /\ RouterNamesTheLiving' /\ Live' = Live
    BY <1>1, <2>4, PoolFrame DEF router, LanInv, TypeOK, PoolTypeOK
  <2>6. PendingWithinLimits' /\ ToldWhatIsListed' /\ Open' = Open
    BY <1>1, <2>2, SameGame
  <2>7. Numbered'
    BY <1>1, <2>2, <2>3, <2>5 DEF GameInv, Numbered
  <2>8. ASSUME NEW x \in Keys PROVE Agree(x)'
    <3>1. \A g \in Gens : Wanted(x, g)' <=> Wanted(x, g)
      BY <2>2, <2>3, <2>6, PoolAssumption DEF Wanted, Holds
    <3>2. \A g \in Gens : Runs(x, g)' <=> Runs(x, g)
      BY <1>1, <2>5 DEF Runs
    <3>3. Queued(events, "Failed", x)' <=> Queued(events, "Failed", x)
      BY <1>1 DEF Queued
    <3> QED
      BY <2>2, <2>4, <2>6, <3>1, <3>2, <3>3 DEF Agree, GameInv
  <2>9. TypeOK'
    BY <2>2, <2>5 DEF LanInv, TypeOK
  <2> QED
    BY <2>4, <2>5, <2>6, <2>7, <2>8, <2>9 DEF LanInv, GameInv
<1> QED
  BY <1>1 DEF send_on, handle_signal

LEMMA DisconnectInv ==
  ASSUME LanInv, NEW k \in Keys, disconnect(k)
  PROVE  LanInv'
<1>0. PICK m : m = Command("Remove", k)
  OBVIOUS
<1>1. /\ game_at = "app" /\ k \in Open /\ sessions' = [sessions EXCEPT ![k] = None]
      /\ commands' = Append(commands, m) /\ told' = told \ {k}
      /\ UNCHANGED <<events, entries, by_addr, provisional, by_ufrag, pool_at, todo, failed>>
      /\ UNCHANGED <<game_at, adding, created>>
      /\ GameInv /\ sessions \in [Keys -> SessionType \cup {None}]
  BY <1>0 DEF disconnect, router, LanInv, TypeOK
<1>2. m \in CommandType /\ m.kind = "Remove" /\ m.key = k
  BY <1>0, <1>1 DEF Command, CommandType, Open, SessionType
<1>3. adding = None /\ \A x \in Keys : \A g : Wanted(x, g) <=> Holds(x, g)
  BY <1>1, NotAdding
<1>4. /\ Adding' /\ commands' \in Seq(CommandType)
      /\ \A x : Queued(commands, "Remove", x)' <=> Queued(commands, "Remove", x) \/ x = k
  BY <1>1, <1>2, <1>3, CommandSent
<1>5. PoolTypeOK' /\ Rounds' /\ RouterNamesTheLiving' /\ Live' = Live
  BY <1>1, <1>4, PoolFrame DEF LanInv, TypeOK, PoolTypeOK
<1>6. /\ sessions'[k] = None /\ \A x \in Keys : x # k => sessions'[x] = sessions[x]
      /\ sessions' \in [Keys -> SessionType \cup {None}]
  BY <1>1
<1>7. Open' = Open \ {k} /\ Pending' \subseteq Pending
  BY <1>6 DEF Open, Pending
<1>8. PendingWithinLimits'
  BY <1>1, <1>7, FewerPending DEF GameInv
<1>9. ToldWhatIsListed'
  BY <1>1, <1>6, <1>7 DEF GameInv, ToldWhatIsListed, Open
<1>10. Numbered'
  BY <1>1, <1>3, <1>5 DEF GameInv, Numbered
<1>11. ASSUME NEW x \in Keys PROVE Agree(x)'
  <2>1. \A g \in Gens : Wanted(x, g)' <=> Wanted(x, g) /\ x # k
    BY <1>1, <1>3, <1>6, <1>7, PoolAssumption DEF Wanted, Holds
  <2>2. \A g \in Gens : Runs(x, g)' <=> Runs(x, g)
    BY <1>1, <1>5 DEF Runs
  <2>3. Queued(events, "Failed", x)' <=> Queued(events, "Failed", x)
    BY <1>1 DEF Queued
  <2> QED
    BY <1>1, <1>4, <1>7, <2>1, <2>2, <2>3 DEF Agree, GameInv
<1>12. TypeOK'
  BY <1>1, <1>5, <1>6 DEF LanInv, TypeOK
<1> QED
  BY <1>4, <1>5, <1>8, <1>9, <1>10, <1>11, <1>12 DEF LanInv, GameInv

LEMMA BeginUpdateInv ==
  ASSUME LanInv, BeginUpdate
  PROVE  LanInv'
<1>1. /\ game_at = "app" /\ game_at' = "update"
      /\ UNCHANGED <<commands, events, entries, by_addr, provisional, by_ufrag, pool_at, todo, failed>>
      /\ UNCHANGED <<sessions, adding, created, told>>
  BY DEF BeginUpdate, poolVars, router
<1>2. Open' = Open /\ Pending' = Pending /\ Live' = Live
  BY <1>1 DEF Open, Pending, Live
<1>3. PoolTypeOK' /\ Rounds' /\ RouterNamesTheLiving'
  BY <1>1, PoolFrame DEF LanInv, TypeOK, PoolTypeOK
<1>4. Adding' /\ Numbered' /\ PendingWithinLimits' /\ ToldWhatIsListed'
  BY <1>1, <1>2 DEF LanInv, GameInv, Adding, Numbered, PendingWithinLimits, ToldWhatIsListed
<1>5. ASSUME NEW x \in Keys PROVE Agree(x)'
  BY <1>1, <1>2 DEF LanInv, GameInv, Agree, Wanted, Holds, Runs, Queued
<1> QED
  BY <1>1, <1>3, <1>4, <1>5 DEF LanInv, GameInv, TypeOK
LEMMA HandleOfferInv ==
  ASSUME LanInv, NEW k \in Keys, handle_offer(k)
  PROVE  LanInv'
<1>0. PICK n : n = created + 1
  OBVIOUS
<1>1. PICK m : m = [kind |-> "Add", key |-> k, gen |-> n]
  OBVIOUS
<1>2. /\ game_at = "update" /\ k \notin Open /\ admits_offer(k) /\ created < MaxSessions
      /\ created' = n /\ commands' = Append(commands, m) /\ adding' = k /\ game_at' = "add"
      /\ UNCHANGED <<events, entries, by_addr, provisional, by_ufrag, pool_at, todo, failed>>
      /\ UNCHANGED <<sessions, told>> /\ GameInv
  BY <1>0, <1>1 DEF handle_offer, router, LanInv
<1>3. n \in Gens /\ created \in Nat /\ created \in 0 .. MaxSessions
  BY <1>0, <1>2, PoolAssumption DEF LanInv, TypeOK, Gens
<1>4. m \in CommandType /\ m.kind = "Add" /\ m.key = k
  BY <1>1, <1>3 DEF CommandType
<1>5. adding = None /\ \A x \in Keys : \A g : Wanted(x, g) <=> Holds(x, g)
  BY <1>2, NotAdding
<1>6. /\ commands \in Seq(CommandType) /\ \A i \in DOMAIN commands : commands[i].kind # "Add"
  BY <1>5 DEF LanInv, TypeOK, PoolTypeOK, GameInv, Adding
<1>7. /\ commands' \in Seq(CommandType) /\ Len(commands) \in Nat
      /\ DOMAIN commands = 1 .. Len(commands) /\ DOMAIN commands' = 1 .. Len(commands) + 1
      /\ Len(commands') = Len(commands) + 1 /\ commands'[Len(commands) + 1] = m
      /\ \A i \in 1 .. Len(commands) : commands'[i] = commands[i]
  BY <1>2, <1>4, <1>6, AppendProperties, LenProperties
<1>8. commands' # <<>>
  BY <1>7, EmptySeq
<1>9. PoolTypeOK' /\ Rounds' /\ RouterNamesTheLiving' /\ Live' = Live
  BY <1>2, <1>7, PoolFrame DEF LanInv, TypeOK, PoolTypeOK
<1>10. Open' = Open /\ Pending' = Pending
  BY <1>2 DEF Open, Pending
<1>11. Adding'
  <2>1. \A i \in DOMAIN commands' : commands'[i].kind = "Add" => i = Len(commands')
    <3>1. \A i \in 1 .. Len(commands) + 1 : i \in 1 .. Len(commands) \/ i = Len(commands) + 1
      BY <1>7
    <3> QED
      BY <1>6, <1>7, <3>1
  <2>2. commands'[Len(commands')] = [kind |-> "Add", key |-> k, gen |-> n]
    BY <1>1, <1>7
  <2>3. k # None
    BY PoolAssumption
  <2> QED
    BY <1>2, <1>3, <1>10, <2>1, <2>2, <2>3 DEF Adding, admits_offer
<1>12. PendingWithinLimits' /\ ToldWhatIsListed'
  BY <1>2, <1>10 DEF GameInv, PendingWithinLimits, ToldWhatIsListed
<1>13. Numbered'
  <2> SUFFICES ASSUME NEW x \in Live PROVE entries[x].gen <= n /\ entries[x].gen # n
    BY <1>2, <1>9 DEF Numbered
  <2>1. entries[x].gen \in Nat /\ entries[x].gen <= created
    BY <1>2 DEF GameInv, Numbered, LanInv, TypeOK, PoolTypeOK, Live, EntryType, Gens
  <2> QED
    BY <1>0, <1>3, <2>1
<1>14. ASSUME NEW x \in Keys PROVE Agree(x)'
  <2>1. \A g \in Gens : Wanted(x, g)' <=> Wanted(x, g)
    BY <1>2, <1>5, <1>8, <1>10 DEF Wanted, Holds
  <2>2. \A g \in Gens : Runs(x, g)' <=> Runs(x, g)
    BY <1>2, <1>9 DEF Runs
  <2>3. Queued(events, "Failed", x)' <=> Queued(events, "Failed", x)
    BY <1>2 DEF Queued
  <2>4. Queued(commands, "Remove", x)' <=> Queued(commands, "Remove", x)
    <3>1. Queued(Append(commands, m), "Remove", x) <=> Queued(commands, "Remove", x)
      BY <1>4, <1>6, QueuedAppend
    <3> QED
      BY <1>2, <3>1 DEF Queued
  <2> QED
    BY <1>2, <1>10, <2>1, <2>2, <2>3, <2>4 DEF Agree, GameInv
<1>15. TypeOK'
  BY <1>2, <1>3, <1>9 DEF LanInv, TypeOK, Gens
<1> QED
  BY <1>9, <1>11, <1>12, <1>13, <1>14, <1>15 DEF LanInv, GameInv

\* The session takes the place that was free when it was offered.
LEMMA AddedInv ==
  ASSUME LanInv, Added
  PROVE  LanInv'
<1>0. PICK k, n, s : /\ k = adding /\ n = created
                     /\ s = [gen |-> n, ready |-> FALSE, age |-> 0, rtt |-> FALSE]
  OBVIOUS
<1>1. /\ game_at = "add" /\ game_at' = "update" /\ commands = <<>> /\ adding' = None
      /\ sessions' = [sessions EXCEPT ![k] = s]
      /\ UNCHANGED <<commands, events, entries, by_addr, provisional, by_ufrag, pool_at, todo, failed>>
      /\ UNCHANGED <<created, told>> /\ GameInv /\ sessions \in [Keys -> SessionType \cup {None}]
  BY <1>0 DEF Added, poolVars, router, LanInv, TypeOK
<1>2. k # None /\ k \notin Open /\ admits_offer(k) /\ n \in Gens /\ k \in Keys
  BY <1>0, <1>1 DEF LanInv, TypeOK, GameInv, Adding
<1>3. s \in SessionType /\ s # None /\ s.gen = n /\ ~ s.ready
  <2>1. s \in SessionType /\ s.gen = n /\ ~ s.ready
    BY <1>0, <1>2, ServerAssumption DEF SessionType
  <2> QED
    BY <2>1, ServerAssumption
<1>4. /\ sessions' \in [Keys -> SessionType \cup {None}] /\ sessions'[k] = s
      /\ \A x \in Keys : x # k => sessions'[x] = sessions[x]
  BY <1>1, <1>2, <1>3
<1>5. Open' = Open \cup {k} /\ Pending' = Pending \cup {k} /\ k \notin Pending
  BY <1>2, <1>3, <1>4 DEF Open, Pending
<1>6. PoolTypeOK' /\ Rounds' /\ RouterNamesTheLiving' /\ Live' = Live
  BY <1>1, PoolFrame DEF LanInv, TypeOK, PoolTypeOK
<1>7. Adding' /\ Numbered'
  BY <1>1, <1>6 DEF GameInv, Adding, Numbered
<1>8. ToldWhatIsListed'
  BY <1>1, <1>2, <1>3, <1>4, <1>5 DEF GameInv, ToldWhatIsListed, Open
<1>9. PendingWithinLimits'
  <2>1. IsFiniteSet(Pending) /\ Cardinality(Pending) \in Nat
    BY PendingFinite
  <2>2. Cardinality(Pending') = Cardinality(Pending) + 1
    BY <1>5, <2>1, FS_AddElement
  <2>3. Cardinality(Pending') <= MaxPending
    BY <1>2, <2>1, <2>2, ServerAssumption DEF admits_offer
  <2>4. ASSUME NEW x \in Keys
        PROVE  Cardinality({j \in Pending' : NetworkOf[j] = NetworkOf[x]}) <= MaxPendingOfNetwork
    <3> DEFINE S == {j \in Pending : NetworkOf[j] = NetworkOf[x]}
    <3>1. IsFiniteSet(S) /\ Cardinality(S) \in Nat /\ Cardinality(S) <= MaxPendingOfNetwork
      BY <1>1, <2>1, FS_Subset, FS_CardinalityType DEF GameInv, PendingWithinLimits
    <3>2. CASE NetworkOf[k] = NetworkOf[x]
      <4>1. {j \in Pending' : NetworkOf[j] = NetworkOf[x]} = S \cup {k} /\ k \notin S
        BY <1>5, <3>2
      <4>2. Cardinality(S) < MaxPendingOfNetwork
        BY <1>2, <3>2 DEF admits_offer
      <4>3. Cardinality(S \cup {k}) = Cardinality(S) + 1
        BY <3>1, <4>1, FS_AddElement
      <4> QED
        BY <3>1, <4>1, <4>2, <4>3, ServerAssumption
    <3>3. CASE NetworkOf[k] # NetworkOf[x]
      <4>1. {j \in Pending' : NetworkOf[j] = NetworkOf[x]} = S
        BY <1>5, <3>3
      <4> QED
        BY <3>1, <4>1
    <3> QED
      BY <3>2, <3>3
  <2> QED
    BY <2>3, <2>4 DEF PendingWithinLimits
<1>10. ASSUME NEW x \in Keys PROVE Agree(x)'
  <2>1. \A g \in Gens : Wanted(x, g)' <=> Wanted(x, g)
    <3>1. CASE x = k
      BY <1>0, <1>1, <1>2, <1>3, <1>4, <1>5, <3>1 DEF Wanted, Holds
    <3>2. CASE x # k
      BY <1>0, <1>1, <1>2, <1>4, <1>5, <3>2, PoolAssumption DEF Wanted, Holds
    <3> QED
      BY <3>1, <3>2
  <2>2. \A g \in Gens : Runs(x, g)' <=> Runs(x, g)
    BY <1>1, <1>6 DEF Runs
  <2>3. Queued(events, "Failed", x)' <=> Queued(events, "Failed", x)
    BY <1>1 DEF Queued
  <2>4. ~ Queued(commands, "Remove", x) /\ ~ Queued(commands, "Remove", x)'
    BY <1>1 DEF Queued
  <2> QED
    BY <1>1, <2>1, <2>2, <2>3, <2>4 DEF Agree, GameInv
<1>11. TypeOK'
  BY <1>1, <1>4, <1>6 DEF LanInv, TypeOK
<1> QED
  BY <1>6, <1>7, <1>8, <1>9, <1>10, <1>11 DEF LanInv, GameInv

LEMMA LanTickInv ==
  ASSUME LanInv, Tick
  PROVE  LanInv'
<1>1. /\ game_at = "app"
      /\ sessions' = [k \in Keys |->
           IF k \in Pending /\ sessions[k].age < Establish
           THEN [sessions[k] EXCEPT !.age = @ + 1] ELSE sessions[k]]
      /\ UNCHANGED <<commands, events, entries, by_addr, provisional, by_ufrag, pool_at, todo, failed>>
      /\ UNCHANGED <<game_at, adding, created, told>> /\ GameInv
      /\ sessions \in [Keys -> SessionType \cup {None}]
  BY DEF Tick, poolVars, router, LanInv, TypeOK
<1>2. ASSUME NEW k \in Keys
      PROVE  /\ sessions'[k] \in SessionType \cup {None} /\ (sessions'[k] # None <=> sessions[k] # None)
             /\ sessions[k] # None => /\ sessions'[k].gen = sessions[k].gen
                                      /\ sessions'[k].ready = sessions[k].ready
  <2>1. CASE k \in Pending /\ sessions[k].age < Establish
    <3>1. sessions[k] \in SessionType /\ sessions'[k] = [sessions[k] EXCEPT !.age = @ + 1]
      BY <1>1, <2>1 DEF Pending, Open
    <3>2. /\ sessions'[k] \in SessionType /\ sessions'[k].gen = sessions[k].gen
          /\ sessions'[k].ready = sessions[k].ready
      BY <2>1, <3>1, ServerAssumption DEF SessionType
    <3> QED
      BY <3>1, <3>2, ServerAssumption
  <2>2. CASE ~ (k \in Pending /\ sessions[k].age < Establish)
    BY <1>1, <2>2
  <2> QED
    BY <2>1, <2>2
<1>3. sessions' \in [Keys -> SessionType \cup {None}]
  BY <1>1, <1>2
<1>4. Open' = Open /\ Pending' = Pending
  BY <1>2 DEF Open, Pending
<1>5. PoolTypeOK' /\ Rounds' /\ RouterNamesTheLiving' /\ Live' = Live
  BY <1>1, PoolFrame DEF LanInv, TypeOK, PoolTypeOK
<1>6. Adding' /\ Numbered'
  BY <1>1, <1>4, <1>5 DEF GameInv, Adding, Numbered, admits_offer
<1>7. PendingWithinLimits' /\ ToldWhatIsListed'
  BY <1>1, <1>2, <1>4 DEF GameInv, PendingWithinLimits, ToldWhatIsListed, Open
<1>8. ASSUME NEW x \in Keys PROVE Agree(x)'
  <2>1. \A g \in Gens : (Wanted(x, g)' <=> Wanted(x, g)) /\ (Runs(x, g)' <=> Runs(x, g))
    BY <1>1, <1>2, <1>4, <1>5 DEF Wanted, Holds, Open, Runs
  <2>2. \A kind : /\ Queued(events, kind, x)' <=> Queued(events, kind, x)
                  /\ Queued(commands, kind, x)' <=> Queued(commands, kind, x)
    BY <1>1 DEF Queued
  <2> QED
    BY <1>1, <1>4, <2>1, <2>2 DEF Agree, GameInv
<1>9. TypeOK'
  BY <1>1, <1>3, <1>5 DEF LanInv, TypeOK
<1> QED
  BY <1>5, <1>6, <1>7, <1>8, <1>9 DEF LanInv, GameInv
\* Every session that leaves the table has its Remove, and only those.
LEMMA RemovesQueued ==
  ASSUME LanInv, adding = None, NEW gone_keys, gone_keys \subseteq Open, QueueRemoves(gone_keys),
         adding' = adding, game_at' # "add"
  PROVE  /\ Adding' /\ commands' \in Seq(CommandType)
         /\ \A x : Queued(commands, "Remove", x)' <=> Queued(commands, "Remove", x) \/ x \in gone_keys
<1>1. PICK n \in Nat : n = Cardinality(gone_keys)
  <2>1. gone_keys \subseteq Keys
    BY DEF Open
  <2> QED
    BY <2>1, PoolAssumption, FS_Subset, FS_CardinalityType
<1>2. PICK order \in [1 .. n -> gone_keys] :
        /\ \A k \in gone_keys : \E i \in 1 .. n : order[i] = k
        /\ commands' = commands \o [i \in 1 .. n |-> Command("Remove", order[i])]
  BY <1>1 DEF QueueRemoves
<1>3. PICK r : r = [i \in 1 .. n |-> Command("Remove", order[i])]
  OBVIOUS
<1>4. ASSUME NEW i \in 1 .. n
      PROVE  r[i] \in CommandType /\ r[i].kind = "Remove" /\ r[i].key = order[i]
  <2>1. order[i] \in Keys /\ sessions[order[i]] \in SessionType
    BY <1>2 DEF LanInv, TypeOK, Open
  <2> QED
    BY <1>3, <2>1 DEF Command, CommandType, SessionType
<1>5. r \in Seq(CommandType) /\ Len(r) = n /\ DOMAIN r = 1 .. n
  <2>1. r \in [1 .. n -> CommandType]
    BY <1>3, <1>4
  <2> QED
    BY <2>1, LenProperties
<1>6. /\ commands \in Seq(CommandType) /\ \A i \in DOMAIN commands : commands[i].kind # "Add"
      /\ commands' = commands \o r
  BY <1>2, <1>3 DEF LanInv, TypeOK, PoolTypeOK, GameInv, Adding
<1>7. ASSUME NEW x PROVE Queued(r, "Remove", x) <=> x \in gone_keys
  <2>1. ASSUME Queued(r, "Remove", x) PROVE x \in gone_keys
    <3>1. PICK i \in 1 .. n : r[i].key = x
      BY <1>5, <2>1 DEF Queued
    <3> QED
      BY <1>2, <1>4, <3>1
  <2>2. ASSUME x \in gone_keys PROVE Queued(r, "Remove", x)
    <3>1. PICK i \in 1 .. n : order[i] = x
      BY <1>2, <2>2
    <3>2. i \in DOMAIN r /\ r[i].kind = "Remove" /\ r[i].key = x
      BY <1>4, <1>5, <3>1
    <3> QED
      BY <3>2 DEF Queued
  <2> QED
    BY <2>1, <2>2
<1>8. ASSUME NEW x
      PROVE  Queued(commands, "Remove", x)' <=> Queued(commands, "Remove", x) \/ x \in gone_keys
  <2>1. Queued(commands \o r, "Remove", x) <=> Queued(commands, "Remove", x) \/ Queued(r, "Remove", x)
    BY <1>5, <1>6, QueuedConcat
  <2> QED
    BY <1>6, <1>7, <2>1 DEF Queued
<1>9. commands' \in Seq(CommandType)
  BY <1>5, <1>6, ConcatProperties
<1>10. \A i \in DOMAIN commands' : commands'[i].kind # "Add"
  <2>1. /\ Len(commands) \in Nat /\ DOMAIN commands = 1 .. Len(commands)
        /\ DOMAIN commands' = 1 .. Len(commands) + n
        /\ \A i \in 1 .. Len(commands) + n :
             commands'[i] = IF i <= Len(commands) THEN commands[i] ELSE r[i - Len(commands)]
    <3>1. Len(commands) \in Nat /\ DOMAIN commands = 1 .. Len(commands)
      BY <1>6, LenProperties
    <3>2. /\ Len(commands') = Len(commands) + n
          /\ \A i \in 1 .. Len(commands) + n :
               commands'[i] = IF i <= Len(commands) THEN commands[i] ELSE r[i - Len(commands)]
      BY <1>5, <1>6, ConcatProperties
    <3>3. DOMAIN commands' = 1 .. Len(commands')
      BY <1>9, LenProperties
    <3> QED
      BY <3>1, <3>2, <3>3
  <2>2. \A i \in 1 .. Len(commands) + n :
          i \in 1 .. Len(commands) \/ (~ (i <= Len(commands)) /\ i - Len(commands) \in 1 .. n)
    BY <2>1
  <2>3. \A i \in 1 .. Len(commands) : i <= Len(commands)
    BY <2>1
  <2> QED
    BY <1>4, <1>6, <2>1, <2>2, <2>3
<1> QED
  BY <1>8, <1>9, <1>10 DEF Adding

\* A frame applies every event; a session that failed, or whose time is up, leaves
\* the table and the pool.
LEMMA EndUpdateInv ==
  ASSUME LanInv, EndUpdate
  PROVE  LanInv'
<1>0. PICK R, F, X : /\ R = Reported("Ready") /\ F = Reported("Failed")
                     /\ X = {k \in Open : expired(k)}
  OBVIOUS
<1>1. /\ game_at = "update" /\ game_at' = "app" /\ events' = <<>>
      /\ sessions' = [k \in Keys |->
           IF k \notin Open \/ k \in F \cup X THEN None
           ELSE [sessions[k] EXCEPT !.ready = @ \/ k \in R, !.rtt = @ \/ k \in Reported("Rtt")]]
      /\ told' = (told \cup (Pending \cap R)) \ F
      /\ QueueRemoves(F \cup X)
      /\ UNCHANGED <<entries, by_addr, provisional, by_ufrag, pool_at, todo, failed>>
      /\ UNCHANGED <<adding, created>> /\ GameInv /\ sessions \in [Keys -> SessionType \cup {None}]
  BY <1>0 DEF EndUpdate, router, LanInv, TypeOK
<1>2. F \subseteq Open /\ X \subseteq Pending \ R /\ X \subseteq Open /\ Pending \subseteq Open
  BY <1>0 DEF Reported, expired, Pending
<1>3. adding = None /\ \A x \in Keys : \A g : Wanted(x, g) <=> Holds(x, g)
  BY <1>1, NotAdding
<1>4. /\ Adding' /\ commands' \in Seq(CommandType)
      /\ \A x : Queued(commands, "Remove", x)' <=> Queued(commands, "Remove", x) \/ x \in F \cup X
  BY <1>1, <1>2, <1>3, RemovesQueued
<1>5. ASSUME NEW k \in Keys
      PROVE  /\ sessions'[k] \in SessionType \cup {None}
             /\ sessions'[k] # None <=> k \in Open \ (F \cup X)
             /\ sessions'[k] # None => /\ sessions'[k].gen = sessions[k].gen
                                       /\ sessions'[k].ready <=> sessions[k].ready \/ k \in R
  <2>1. CASE k \notin Open \/ k \in F \cup X
    BY <1>1, <2>1
  <2>2. CASE k \in Open \ (F \cup X)
    <3>1. PICK s : s = sessions[k]
      OBVIOUS
    <3>2. PICK rtt \in BOOLEAN : rtt = (s.rtt \/ k \in Reported("Rtt"))
      OBVIOUS
    <3>3. PICK ready \in BOOLEAN : ready = (s.ready \/ k \in R)
      OBVIOUS
    <3>4. s \in SessionType /\ sessions'[k] = [s EXCEPT !.ready = ready, !.rtt = rtt]
      BY <1>1, <2>2, <3>1, <3>2, <3>3 DEF Open
    <3>5. sessions'[k] \in SessionType /\ sessions'[k].gen = s.gen /\ sessions'[k].ready = ready
      BY <3>4 DEF SessionType
    <3> QED
      BY <2>2, <3>1, <3>3, <3>5, ServerAssumption
  <2> QED
    BY <2>1, <2>2
<1>6. sessions' \in [Keys -> SessionType \cup {None}]
  BY <1>1, <1>5
<1>7. Open' = Open \ (F \cup X)
  BY <1>5 DEF Open
<1>8. Pending' \subseteq Pending
  BY <1>5, <1>7 DEF Pending, Open
<1>9. PendingWithinLimits'
  BY <1>1, <1>8, FewerPending DEF GameInv
<1>10. PoolTypeOK' /\ Rounds' /\ RouterNamesTheLiving' /\ Live' = Live
  <2>1. events' \in Seq(EventType)
    BY <1>1, EmptySeq
  <2> QED
    BY <1>1, <1>4, <2>1, PoolFrame
<1>11. ToldWhatIsListed'
  <2>1. told = {k \in Open : sessions[k].ready}
    BY <1>1 DEF GameInv, ToldWhatIsListed
  <2>2. R \subseteq Open /\ Pending = {k \in Open : ~ sessions[k].ready}
    BY <1>0 DEF Reported, Pending
  <2>3. ASSUME NEW k \in Keys PROVE k \in told' <=> k \in Open' /\ sessions'[k].ready
    <3>1. k \in Open' => (sessions'[k].ready <=> sessions[k].ready \/ k \in R)
      BY <1>5, <1>7
    <3>2. k \in told' <=> ((k \in Open /\ sessions[k].ready) \/ k \in Pending \cap R) /\ k \notin F
      BY <1>1, <2>1
    <3> QED
      BY <1>2, <1>7, <2>2, <3>1, <3>2
  <2>4. told' \subseteq Keys /\ Open' \subseteq Keys
    BY <1>1, <2>1, <2>2 DEF Open
  <2> QED
    BY <2>3, <2>4 DEF ToldWhatIsListed
<1>12. Numbered'
  BY <1>1, <1>3, <1>10 DEF GameInv, Numbered
<1>13. ASSUME NEW x \in Keys PROVE Agree(x)'
  <2>1. Agree(x)
    BY <1>1 DEF GameInv
  <2>2. \A g \in Gens : Wanted(x, g)' <=> Wanted(x, g) /\ x \notin F \cup X
    BY <1>1, <1>3, <1>5, <1>7, PoolAssumption DEF Wanted, Holds, Open
  <2>3. \A g \in Gens : Runs(x, g)' <=> Runs(x, g)
    BY <1>1, <1>10 DEF Runs
  <2>4. x \in Open /\ Queued(events, "Failed", x) => x \in F
    BY <1>0 DEF Reported, Queued
  <2>5. \A g \in Gens : Wanted(x, g) => x \in Open
    BY <1>3 DEF Holds
  <2> QED
    BY <1>4, <1>7, <2>1, <2>2, <2>3, <2>4, <2>5 DEF Agree
<1>14. TypeOK'
  <2>1. told' \subseteq Keys
    BY <1>1 DEF LanInv, TypeOK, Pending, Open
  <2> QED
    BY <1>1, <1>6, <1>10, <2>1 DEF LanInv, TypeOK
<1> QED
  BY <1>4, <1>9, <1>10, <1>11, <1>12, <1>13, <1>14 DEF LanInv, GameInv

LEMMA LanInitInv == Init => LanInv
<1> SUFFICES ASSUME Init PROVE LanInv
  OBVIOUS
<1>1. /\ commands = <<>> /\ events = <<>> /\ entries = [k \in Keys |-> None]
      /\ by_addr = [a \in Addrs |-> None] /\ provisional = [a \in Addrs |-> {}]
      /\ by_ufrag = [g \in Gens |-> None] /\ pool_at = "receive" /\ todo = {} /\ failed = {}
      /\ sessions = [k \in Keys |-> None] /\ game_at = "app" /\ adding = None /\ created = 0
      /\ told = {}
  BY DEF Init, PoolInit
<1>2. Live = {} /\ Open = {} /\ Pending = {}
  BY <1>1 DEF Live, Open, Pending
<1>3. TypeOK /\ Rounds
  BY <1>1, <1>2, PoolAssumption DEF TypeOK, PoolTypeOK, Rounds
<1>4. RouterNamesTheLiving
  BY <1>1, <1>2, PoolAssumption DEF RouterNamesTheLiving
<1>5. Adding /\ Numbered /\ ToldWhatIsListed
  BY <1>1, <1>2 DEF Adding, Numbered, ToldWhatIsListed
<1>6. PendingWithinLimits
  <2>1. \A k \in Keys : {j \in Pending : NetworkOf[j] = NetworkOf[k]} = {}
    BY <1>2
  <2> QED
    BY <1>2, <2>1, FS_EmptySet, ServerAssumption DEF PendingWithinLimits
<1>7. \A k \in Keys : Agree(k)
  BY <1>1, <1>2, PoolAssumption DEF Agree, Wanted, Holds, Runs
<1> QED
  BY <1>3, <1>4, <1>5, <1>6, <1>7 DEF LanInv, GameInv

\* Every step of the game, of the pool's thread and of time keeps the invariant.
LEMMA LanStepInv == LanInv /\ [Next]_vars => LanInv'
<1> SUFFICES ASSUME LanInv, [Next]_vars PROVE LanInv'
  OBVIOUS
<1>1. CASE PoolRuns
  BY <1>1, ReceiveInv, ExecuteInv, EndCommandsInv, PollInv, DropFailedInv DEF PoolRuns, PoolStep
<1>2. ASSUME NEW k \in Keys, disconnect(k) \/ send_on(k) \/ handle_signal(k) \/ handle_offer(k)
      PROVE  LanInv'
  BY <1>2, DisconnectInv, SendInv, HandleOfferInv
<1>3. CASE Frame
  BY <1>3, BeginUpdateInv, AddedInv, EndUpdateInv DEF Frame
<1>4. CASE Tick
  BY <1>4, LanTickInv
<1>5. CASE UNCHANGED vars
  <2>1. /\ UNCHANGED <<commands, events, entries, by_addr, provisional, by_ufrag, pool_at, todo, failed>>
        /\ UNCHANGED gameVars /\ UNCHANGED <<sessions, game_at, adding, created, told>>
    BY <1>5 DEF vars, poolVars, router, gameVars
  <2>2. PoolTypeOK' /\ Rounds' /\ RouterNamesTheLiving'
    BY <2>1, PoolFrame DEF LanInv, TypeOK, PoolTypeOK
  <2>3. GameInv'
    BY <2>1, PoolAside DEF LanInv, Queued
  <2> QED
    BY <2>1, <2>2, <2>3 DEF LanInv, TypeOK
<1> QED
  BY <1>1, <1>2, <1>3, <1>4, <1>5 DEF Next

LEMMA LanInductive == Spec => []LanInv
  BY LanInitInv, LanStepInv, PTL DEF Spec

\* The state of the LAN server, of its pool and of the router has its type.
THEOREM LanServerTypeCorrect == Spec => []TypeOK
<1>1. LanInv => TypeOK
  BY DEF LanInv
<1> QED
  BY <1>1, LanInductive, PTL

\* The router names live sessions only, each by the fragment of the Connection it
\* holds, and nothing of a session that is gone, for any number of ids used again.
THEOREM RouterIsClean == Spec => []RouterNamesTheLiving
<1>1. LanInv => RouterNamesTheLiving
  BY DEF LanInv
<1> QED
  BY <1>1, LanInductive, PTL

\* No session is left behind by the server or its pool, and offers answered but
\* not established stay within both limits.
THEOREM AllSessionsAccounted == Spec => []SessionsAreAccounted
<1>1. LanInv => SessionsAreAccounted
  <2> SUFFICES ASSUME LanInv PROVE PoolAndServerAgree
    BY DEF LanInv, GameInv, SessionsAreAccounted
  <2>1. ASSUME NEW k \in Keys, NEW g \in Gens, Runs(k, g), ~ Holds(k, g)
        PROVE  Queued(commands, "Remove", k) \/ adding = k
    BY <2>1 DEF LanInv, GameInv, Agree, Wanted
  <2>2. ASSUME NEW k \in Keys, NEW g \in Gens, Holds(k, g), ~ Runs(k, g)
        PROVE  Queued(events, "Failed", k)
    BY <2>2 DEF LanInv, GameInv, Agree, Wanted
  <2> QED
    BY <2>1, <2>2 DEF PoolAndServerAgree
<1> QED
  BY <1>1, LanInductive, PTL
-----------------------------------------------------------------------------
(* The HTTP server                                                         *)

JoinIds == 1 .. MaxJoins
HttpConnection == [peer : {client}, counted : BOOLEAN]
HttpJoin == [connection : Connections, left : 0 .. AnswerTimeout]
HttpSession == [ready : BOOLEAN, age : 0 .. Establish]
HttpOutput ==
  [type : {"Response"}, connection : Connections, status : Nat, join : JoinIds \cup {None}]
  \cup [type : {"Offer"}, join : JoinIds]
  \cup [type : {"Close"}, connection : Connections]

Has(q, o) == \E i \in DOMAIN q : q[i] = o

\* No offer stands in the queue twice.
Once(q) == \A i, k \in DOMAIN q : q[i].type = "Offer" /\ q[i] = q[k] => i = k

Offered(j) == Has(output, Http!Offer(j))

HttpTypes ==
  /\ Http!TypeOK
  /\ connections \in [Connections -> HttpConnection \cup {None}]
  /\ pending \in [JoinIds -> HttpJoin \cup {None}]
  /\ next_join \in 1 .. MaxJoins + 1
  /\ output \in Seq(HttpOutput)

\* What a frame collects is used up in it.
Frames ==
  /\ h_at # "pump" => h_todo = {} /\ reqs = <<>> /\ gone = {}
  /\ h_at \in {"idle", "app"} => output = <<>>

\* Table and signaler hold the same connections at every moment, those aside that
\* the signaler refused.
Tables ==
  \A c \in Connections :
    /\ connections[c] # None <=> conn[c] # None /\ c \notin refused
    /\ c \notin opened => conn[c] = None /\ c \notin refused

\* A join that waits has its offer in the queue; ids on offer or to come are new.
Offers ==
  /\ Once(output)
  /\ \A j \in JoinIds : pending[j] # None => Offered(j)
  /\ \A j \in JoinIds : Offered(j) => j < next_join
  /\ \A j \in JoinIds : j >= next_join \/ Offered(j) => h_sessions[j] = None /\ j \notin removes

\* The sessions of the table run or are said to have failed; none is on its way out.
Listed ==
  /\ \A j \in JoinIds : h_sessions[j] # None =>
       /\ j \notin removes
       /\ pool[j] = "none" => Http!Event("Failed", j) \in p_events
  /\ h_told = {j \in JoinIds : h_sessions[j] # None /\ h_sessions[j].ready}

\* The inductive invariant of the HTTP server.
HttpInv == HttpTypes /\ Frames /\ Tables /\ Offers /\ Listed

LEMMA HasAppend ==
  ASSUME NEW S, NEW q \in Seq(S), NEW c \in S
  PROVE  /\ \A o : Has(Append(q, c), o) <=> Has(q, o) \/ o = c
         /\ Once(q) /\ (c.type = "Offer" => ~ Has(q, c)) => Once(Append(q, c))
<1>1. /\ Len(q) \in Nat /\ DOMAIN q = 1 .. Len(q) /\ Append(q, c) \in Seq(S)
      /\ DOMAIN Append(q, c) = 1 .. Len(q) + 1 /\ Append(q, c)[Len(q) + 1] = c
      /\ \A i \in 1 .. Len(q) : Append(q, c)[i] = q[i]
  BY AppendProperties, LenProperties
<1>2. \A i : i \in 1 .. Len(q) + 1 <=> i \in 1 .. Len(q) \/ i = Len(q) + 1
  BY <1>1
<1>3. \A o : Has(Append(q, c), o) <=> Has(q, o) \/ o = c
  BY <1>1, <1>2 DEF Has
<1>4. ASSUME Once(q), c.type = "Offer" => ~ Has(q, c) PROVE Once(Append(q, c))
  <2>1. ASSUME NEW i \in 1 .. Len(q) + 1, NEW k \in 1 .. Len(q) + 1,
               Append(q, c)[i].type = "Offer", Append(q, c)[i] = Append(q, c)[k]
        PROVE  i = k
    <3>1. CASE i \in 1 .. Len(q) /\ k \in 1 .. Len(q)
      BY <1>1, <1>4, <2>1, <3>1 DEF Once
    <3>2. CASE i = Len(q) + 1 /\ k \in 1 .. Len(q)
      BY <1>1, <1>4, <2>1, <3>2 DEF Has
    <3>3. CASE i \in 1 .. Len(q) /\ k = Len(q) + 1
      BY <1>1, <1>4, <2>1, <3>3 DEF Has
    <3> QED
      BY <1>2, <2>1, <3>1, <3>2, <3>3
  <2> QED
    BY <1>1, <2>1 DEF Once
<1> QED
  BY <1>3, <1>4

LEMMA HasTail ==
  ASSUME NEW S, NEW q \in Seq(S), q # <<>>
  PROVE  /\ Tail(q) \in Seq(S) /\ Head(q) \in S
         /\ \A o : Has(q, o) <=> o = Head(q) \/ Has(Tail(q), o)
         /\ Once(q) => Once(Tail(q)) /\ (Head(q).type = "Offer" => ~ Has(Tail(q), Head(q)))
<1>1. /\ Len(q) \in Nat \ {0} /\ DOMAIN q = 1 .. Len(q) /\ Head(q) = q[1]
      /\ Tail(q) \in Seq(S) /\ Head(q) \in S /\ DOMAIN Tail(q) = 1 .. Len(q) - 1
      /\ \A i \in 1 .. Len(q) - 1 : Tail(q)[i] = q[i + 1]
  BY HeadTailProperties, EmptySeq, LenProperties
<1>2. \A i \in 1 .. Len(q) - 1 : i \in Nat /\ i + 1 \in 1 .. Len(q) /\ i + 1 # 1
  BY <1>1
<1>3. \A i \in 1 .. Len(q) : i = 1 \/ (i - 1 \in 1 .. Len(q) - 1 /\ i - 1 + 1 = i)
  BY <1>1
<1>4. 1 \in 1 .. Len(q)
  BY <1>1
<1>5. ASSUME NEW o, Has(q, o), o # Head(q) PROVE Has(Tail(q), o)
  <2>1. PICK i \in 1 .. Len(q) : q[i] = o
    BY <1>1, <1>5 DEF Has
  <2>2. i - 1 \in DOMAIN Tail(q) /\ Tail(q)[i - 1] = o
    BY <1>1, <1>3, <1>5, <2>1
  <2> QED
    BY <2>2 DEF Has
<1>6. ASSUME NEW o, Has(Tail(q), o) PROVE Has(q, o)
  BY <1>1, <1>2, <1>6 DEF Has
<1>7. Has(q, Head(q))
  BY <1>1, <1>4 DEF Has
<1>8. ASSUME Once(q) PROVE Once(Tail(q))
  <2>1. ASSUME NEW i \in 1 .. Len(q) - 1, NEW k \in 1 .. Len(q) - 1,
               Tail(q)[i].type = "Offer", Tail(q)[i] = Tail(q)[k]
        PROVE  i = k
    <3>1. i + 1 = k + 1
      BY <1>1, <1>2, <1>8, <2>1 DEF Once
    <3> QED
      BY <1>2, <3>1
  <2> QED
    BY <1>1, <2>1 DEF Once
<1>9. ASSUME Once(q), Head(q).type = "Offer" PROVE ~ Has(Tail(q), Head(q))
  BY <1>1, <1>2, <1>4, <1>9 DEF Once, Has
<1> QED
  BY <1>1, <1>5, <1>6, <1>7, <1>8, <1>9

LEMMA HasConcat ==
  ASSUME NEW S, NEW q \in Seq(S), NEW r \in Seq(S), \A i \in DOMAIN r : r[i].type # "Offer"
  PROVE  /\ q \o r \in Seq(S)
         /\ \A o : o.type = "Offer" => (Has(q \o r, o) <=> Has(q, o))
         /\ Once(q) => Once(q \o r)
<1>1. /\ Len(q) \in Nat /\ DOMAIN q = 1 .. Len(q) /\ Len(r) \in Nat /\ DOMAIN r = 1 .. Len(r)
      /\ DOMAIN (q \o r) = 1 .. Len(q) + Len(r) /\ q \o r \in Seq(S)
      /\ \A i \in 1 .. Len(q) + Len(r) :
           (q \o r)[i] = IF i <= Len(q) THEN q[i] ELSE r[i - Len(q)]
  BY ConcatProperties, LenProperties
<1>2. \A i \in 1 .. Len(q) : i \in 1 .. Len(q) + Len(r) /\ i <= Len(q)
  BY <1>1
<1>3. \A i \in 1 .. Len(q) + Len(r) : i \in 1 .. Len(q) \/ (~ (i <= Len(q)) /\ i - Len(q) \in 1 .. Len(r))
  BY <1>1
<1>4. \A i \in 1 .. Len(q) : (q \o r)[i] = q[i]
  BY <1>1, <1>2
<1>5. \A i \in 1 .. Len(q) + Len(r) : (q \o r)[i].type = "Offer" => i \in 1 .. Len(q)
  BY <1>1, <1>3
<1>6. \A o : o.type = "Offer" => (Has(q \o r, o) <=> Has(q, o))
  BY <1>1, <1>2, <1>4, <1>5 DEF Has
<1>7. ASSUME Once(q) PROVE Once(q \o r)
  BY <1>1, <1>4, <1>5, <1>7 DEF Once
<1> QED
  BY <1>1, <1>6, <1>7
LEMMA HttpSame ==
  /\ Tables /\ UNCHANGED <<connections, conn, refused, opened>> => Tables'
  /\ Offers /\ UNCHANGED <<output, pending, next_join, h_sessions, removes>> => Offers'
  /\ Listed /\ UNCHANGED <<h_sessions, removes, pool, p_events, h_told>> => Listed'
<1>1. Tables /\ UNCHANGED <<connections, conn, refused, opened>> => Tables'
  BY DEF Tables
<1>2. Offers /\ UNCHANGED <<output, pending, next_join, h_sessions, removes>> => Offers'
  BY DEF Offers, Offered, Once, Has, Http!Offer
<1>3. Listed /\ UNCHANGED <<h_sessions, removes, pool, p_events, h_told>> => Listed'
  BY DEF Listed, Http!Event
<1> QED
  BY <1>1, <1>2, <1>3

LEMMA HttpStutter == HttpInv /\ UNCHANGED httpVars => HttpInv'
<1> SUFFICES ASSUME HttpInv, UNCHANGED httpVars PROVE HttpInv'
  OBVIOUS
<1>1. HttpTypes'
  BY DEF HttpInv, HttpTypes, httpVars, Http!TypeOK, Http!Conns, Http!Joins
<1>2. Frames'
  BY DEF HttpInv, Frames, httpVars
<1> QED
  BY <1>1, <1>2, HttpSame DEF HttpInv, httpVars
-----------------------------------------------------------------------------
(* The HTTP server between frames, and its pool                            *)

\* An id that has a session is not on offer, nor to come.
LEMMA SessionIsOld ==
  ASSUME Offers, next_join \in Nat, NEW j \in JoinIds, h_sessions[j] # None
  PROVE  j < next_join /\ ~ Offered(j)
BY DEF Offers, JoinIds

LEMMA HttpDisconnectInv ==
  ASSUME HttpInv, NEW j \in JoinIds, Http!disconnect(j)
  PROVE  HttpInv'
<1>1. /\ h_sessions' = [h_sessions EXCEPT ![j] = None] /\ removes' = removes \cup {j}
      /\ h_told' = h_told \ {j} /\ h_sessions[j] # None
      /\ UNCHANGED <<connections, per_address, pending, next_join, server_data, token_trust,
                     output, conn, opened, h_at, h_todo, reqs, gone, signs, pool, p_events, refused>>
  BY DEF Http!disconnect, Http!Open, Http!signalerVars, Http!streamVars
<1>2. HttpTypes'
  BY <1>1 DEF HttpInv, HttpTypes, Http!TypeOK, Http!Conns, Http!Joins, JoinIds
<1>3. Frames'
  BY <1>1 DEF HttpInv, Frames
<1>4. Offers'
  <2>1. Offers /\ h_sessions \in [JoinIds -> HttpSession \cup {None}] /\ next_join \in Nat
    BY DEF HttpInv, HttpTypes, Http!TypeOK, Http!Joins, JoinIds, HttpSession
  <2>2. j < next_join /\ ~ Offered(j)
    BY <1>1, <2>1, SessionIsOld
  <2>3. \A i \in JoinIds : Offered(i)' <=> Offered(i)
    BY <1>1 DEF Offered, Has, Http!Offer
  <2>4. Once(output)'
    BY <1>1, <2>1 DEF Offers, Once
  <2>5. \A i \in JoinIds : i >= next_join \/ Offered(i) => h_sessions'[i] = None /\ i \notin removes'
    BY <1>1, <2>1, <2>2 DEF Offers, JoinIds
  <2> HIDE DEF Offered
  <2> QED
    BY <1>1, <2>1, <2>3, <2>4, <2>5 DEF Offers
<1>5. Listed'
  BY <1>1 DEF HttpInv, HttpTypes, Http!TypeOK, Http!Joins, JoinIds, Listed, Http!Event
<1>6. Tables'
  BY <1>1, HttpSame DEF HttpInv
<1> QED
  BY <1>2, <1>3, <1>4, <1>5, <1>6 DEF HttpInv

LEMMA SetIdentityInv ==
  ASSUME HttpInv, Http!set_identity
  PROVE  HttpInv'
<1>1. /\ signs' = TRUE
      /\ UNCHANGED <<connections, per_address, pending, next_join, server_data, token_trust,
                     output, conn, opened, h_at, h_todo, reqs, gone, h_sessions, removes, h_told,
                     pool, p_events, refused>>
  BY DEF Http!set_identity, Http!signalerVars, Http!streamVars
<1>2. HttpTypes'
  BY <1>1 DEF HttpInv, HttpTypes, Http!TypeOK, Http!Conns, Http!Joins
<1>3. Frames'
  BY <1>1 DEF HttpInv, Frames
<1> QED
  BY <1>1, <1>2, <1>3, HttpSame DEF HttpInv

LEMMA HttpPoolInv ==
  ASSUME HttpInv, NEW j \in JoinIds,
         Http!PoolOpens(j) \/ Http!PoolFails(j) \/ Http!PoolRemoves(j)
  PROVE  HttpInv'
<1>1. /\ UNCHANGED <<connections, per_address, pending, next_join, server_data, token_trust,
                     output, conn, opened, h_at, h_todo, reqs, gone, h_sessions, h_told,
                     signs, refused>>
  BY DEF Http!PoolOpens, Http!PoolFails, Http!PoolRemoves, Http!signalerVars, Http!streamVars
<1>2. /\ pool \in [JoinIds -> {"none", "running", "open"}] /\ removes \subseteq JoinIds
      /\ Offers /\ Listed
  BY DEF HttpInv, HttpTypes, Http!TypeOK, Http!Joins, JoinIds
<1>3. \/ pool' = [pool EXCEPT ![j] = "open"] /\ p_events \subseteq p_events' /\ removes' = removes
      \/ /\ pool' = [pool EXCEPT ![j] = "none"] /\ p_events \subseteq p_events'
         /\ Http!Event("Failed", j) \in p_events' /\ removes' = removes
      \/ /\ pool' = [pool EXCEPT ![j] = "none"] /\ p_events' = p_events
         /\ j \in removes /\ removes' = removes \ {j}
  BY DEF Http!PoolOpens, Http!PoolFails, Http!PoolRemoves
<1>4. /\ pool' \in [JoinIds -> {"none", "running", "open"}] /\ removes' \subseteq removes
  BY <1>2, <1>3
<1>5. HttpTypes'
  BY <1>1, <1>2, <1>4 DEF HttpInv, HttpTypes, Http!TypeOK, Http!Conns, Http!Joins, JoinIds
<1>6. Frames'
  BY <1>1 DEF HttpInv, Frames
<1>7. Offers'
  BY <1>1, <1>2, <1>4 DEF Offers, Offered, Once, Has, Http!Offer
<1>8. ASSUME NEW i \in JoinIds, h_sessions[i] # None
      PROVE  i \notin removes' /\ (pool'[i] = "none" => Http!Event("Failed", i) \in p_events')
  <2>1. i \notin removes /\ (pool[i] = "none" => Http!Event("Failed", i) \in p_events)
    BY <1>2, <1>8 DEF Listed
  <2>2. CASE i = j
    BY <1>2, <1>3, <2>1, <2>2
  <2>3. CASE i # j
    <3>1. pool'[i] = pool[i] /\ p_events \subseteq p_events'
      BY <1>2, <1>3, <2>3
    <3> QED
      BY <1>4, <2>1, <3>1
  <2> QED
    BY <2>2, <2>3
<1>9. Listed'
  BY <1>1, <1>2, <1>8 DEF Listed, Http!Event
<1> QED
  BY <1>1, <1>5, <1>6, <1>7, <1>9, HttpSame DEF HttpInv
-----------------------------------------------------------------------------
(* A frame of the HTTP server: accept and pump                             *)

\* A step of the streams alone.
LEMMA StreamsInv ==
  ASSUME HttpInv, HttpTypes', Frames',
         \A c \in Connections : (conn'[c] = None) = (conn[c] = None),
         UNCHANGED <<connections, pending, next_join, output, opened, h_sessions, removes, pool,
                     p_events, h_told, refused>>
  PROVE  HttpInv'
<1>1. Tables'
  BY DEF HttpInv, Tables
<1> QED
  BY <1>1, HttpSame DEF HttpInv

LEMMA HttpBeginInv ==
  ASSUME HttpInv, Http!BeginUpdate \/ Http!BeginPump
  PROVE  HttpInv'
<1>1. /\ UNCHANGED <<connections, per_address, pending, next_join, server_data, token_trust,
                     output, conn, opened, reqs, gone, signs, h_sessions, pool, p_events, removes,
                     h_told, refused>>
      /\ \/ h_at' = "accept" /\ h_at = "app" /\ h_todo' = h_todo
         \/ h_at' = "pump" /\ h_todo' = {c \in Connections : conn[c] # None}
  BY DEF Http!BeginUpdate, Http!BeginPump, Http!At, Http!signalerVars, Http!tableVars, Http!Conns
<1>2. HttpTypes'
  BY <1>1 DEF HttpInv, HttpTypes, Http!TypeOK, Http!Conns, Http!Joins
<1>3. Frames'
  BY <1>1 DEF HttpInv, Frames
<1> QED
  BY <1>1, <1>2, <1>3, StreamsInv

LEMMA PumpedFacts ==
  ASSUME HttpInv, NEW c, Http!Pumped(c)
  PROVE  /\ h_at = "pump" /\ c \in Connections /\ c \in h_todo /\ h_todo' = h_todo \ {c}
         /\ conn[c] \in Http!ConnType /\ conn[c] # None
         /\ conn \in [Connections -> Http!ConnType \cup {None}]
         /\ UNCHANGED <<connections, per_address, pending, next_join, server_data, token_trust,
                        output, opened, h_at, signs, h_sessions, pool, p_events, removes, h_told,
                        refused>>
BY DEF HttpInv, HttpTypes, Http!TypeOK, Http!Conns, Http!Pumped, Http!signalerVars, Http!tableVars

LEMMA PumpTypes ==
  ASSUME HttpInv, NEW c, Http!Pumped(c), NEW e \in Http!ConnType,
         conn' = [conn EXCEPT ![c] = e],
         reqs' \in Seq([connection : Connections,
                        request : {[path |-> "join", method |-> "POST", valid |-> TRUE]}]),
         gone' \subseteq gone \cup {c}
  PROVE  HttpInv'
<1>1. e # None
  BY GameAssumption
<1>2. /\ \A d \in Connections : (conn'[d] = None) = (conn[d] = None)
      /\ conn' \in [Connections -> Http!ConnType \cup {None}]
  BY <1>1, PumpedFacts
<1>3. gone \subseteq Http!Conns /\ h_todo \subseteq Http!Conns /\ c \in Http!Conns
  BY PumpedFacts DEF HttpInv, HttpTypes, Http!TypeOK, Http!Conns
<1>4. gone' \subseteq Http!Conns' /\ h_todo' \subseteq Http!Conns'
  BY <1>2, <1>3, PumpedFacts DEF Http!Conns
<1>5. HttpTypes'
  BY <1>2, <1>4, PumpedFacts DEF HttpInv, HttpTypes, Http!TypeOK, Http!Joins
<1>6. Frames'
  BY PumpedFacts DEF HttpInv, Frames
<1> QED
  BY <1>2, <1>5, <1>6, PumpedFacts, StreamsInv

LEMMA HttpReqs ==
  ASSUME HttpInv
  PROVE  reqs \in Seq([connection : Connections,
                       request : {[path |-> "join", method |-> "POST", valid |-> TRUE]}])
BY DEF HttpInv, HttpTypes, Http!TypeOK

LEMMA PumpClosesInv ==
  ASSUME HttpInv, NEW c, Http!PumpCloses(c)
  PROVE  HttpInv'
<1>1. Http!Pumped(c) /\ gone' = gone \cup {c} /\ UNCHANGED <<conn, reqs>>
  BY DEF Http!PumpCloses
<1>2. conn' = [conn EXCEPT ![c] = conn[c]]
  BY <1>1, PumpedFacts
<1> QED
  BY <1>1, <1>2, PumpedFacts, PumpTypes, HttpReqs

LEMMA PumpLingersInv ==
  ASSUME HttpInv, NEW c, Http!PumpLingers(c)
  PROVE  HttpInv'
<1>1. Http!Pumped(c) /\ UNCHANGED <<reqs, gone>>
  BY DEF Http!PumpLingers
<1>2. PICK e : e = [conn[c] EXCEPT !.out = 0, !.idle = IF conn[c].out > 0 THEN 0 ELSE conn[c].idle]
  OBVIOUS
<1>3. conn' = [conn EXCEPT ![c] = e]
  BY <1>1, <1>2, PumpedFacts DEF Http!PumpLingers, Http!ConnType
<1>4. e \in Http!ConnType
  <2>1. PICK old : old = conn[c] /\ old \in Http!ConnType
    BY <1>1, PumpedFacts
  <2>2. PICK i : i = (IF old.out > 0 THEN 0 ELSE old.idle)
    OBVIOUS
  <2>3. i \in 0 .. IdleTimeout
    BY <2>1, <2>2, GameAssumption DEF Http!ConnType
  <2>4. e = [old EXCEPT !.out = 0, !.idle = i]
    BY <1>2, <2>1, <2>2
  <2>5. /\ old.closing \in BOOLEAN /\ old.requested \in BOOLEAN /\ old.reads \in 0 .. MaxReads
        /\ 0 \in 0 .. Http!MaxWrites
    BY <2>1 DEF Http!ConnType, Http!MaxWrites
  <2>6. e = [out |-> 0, closing |-> old.closing, requested |-> old.requested, idle |-> i,
             reads |-> old.reads]
    BY <2>1, <2>4 DEF Http!ConnType
  <2> QED
    BY <2>3, <2>5, <2>6, Zenon DEF Http!ConnType
<1> QED
  BY <1>1, <1>3, <1>4, PumpTypes, HttpReqs

LEMMA PumpInv ==
  ASSUME HttpInv, NEW c, NEW drain, NEW input, Http!Pump(c, drain, input)
  PROVE  HttpInv'
<1>1. Http!Pumped(c) /\ UNCHANGED gone
  BY DEF Http!Pump
<1>2. PICK e : /\ conn' = [conn EXCEPT ![c] = e]
               /\ e = [out |-> IF input.kind = "Unreadable" /\ ~ conn[c].requested
                               THEN Http!MaxWrites ELSE Http!Left(conn[c].out, drain),
                       closing |-> conn[c].closing \/ (input.kind = "Unreadable" /\ ~ conn[c].requested),
                       requested |-> conn[c].requested \/ Http!Parsed(c, input),
                       idle |-> IF drain \in {"Partial", "Complete"} \/ input.kind # "Idle"
                                THEN 0 ELSE conn[c].idle,
                       reads |-> IF input.kind = "Idle" THEN conn[c].reads ELSE conn[c].reads + 1]
  BY DEF Http!Pump
<1>3. /\ conn[c].out \in 0 .. 2 /\ conn[c].closing \in BOOLEAN /\ conn[c].requested \in BOOLEAN
      /\ conn[c].idle \in 0 .. IdleTimeout /\ conn[c].reads \in 0 .. MaxReads
  BY <1>1, PumpedFacts DEF Http!ConnType, Http!MaxWrites
<1>4. Http!Left(conn[c].out, drain) \in 0 .. 2
  <2>1. drain \in Http!Drains(c)
    BY DEF Http!Pump
  <2> QED
    BY <1>3, <2>1 DEF Http!Left, Http!Drains
<1>5. (IF input.kind = "Idle" THEN conn[c].reads ELSE conn[c].reads + 1) \in 0 .. MaxReads
  <2>1. input \in Http!Inputs(c)
    BY DEF Http!Pump
  <2>2. input.kind = "Idle" \/ conn[c].reads # MaxReads
    BY <2>1 DEF Http!Inputs, Http!Bytes
  <2> QED
    BY <1>3, <2>2, GameAssumption
<1>6. e \in Http!ConnType
  <2>1. (conn[c].closing \/ (input.kind = "Unreadable" /\ ~ conn[c].requested)) \in BOOLEAN
    OBVIOUS
  <2>2. (conn[c].requested \/ Http!Parsed(c, input)) \in BOOLEAN
    OBVIOUS
  <2>3. (IF drain \in {"Partial", "Complete"} \/ input.kind # "Idle" THEN 0 ELSE conn[c].idle)
          \in 0 .. IdleTimeout
    BY <1>3, GameAssumption
  <2>4. (IF input.kind = "Unreadable" /\ ~ conn[c].requested
         THEN Http!MaxWrites ELSE Http!Left(conn[c].out, drain)) \in 0 .. Http!MaxWrites
    BY <1>3, <1>4 DEF Http!MaxWrites
  <2> QED
    BY <1>2, <1>5, <2>1, <2>2, <2>3, <2>4, Zenon DEF Http!ConnType
<1>7. reqs' \in Seq([connection : Connections,
                     request : {[path |-> "join", method |-> "POST", valid |-> TRUE]}])
  <2>1. CASE Http!Parsed(c, input)
    <3>1. input \in Http!Inputs(c) /\ input.kind = "Request"
      BY <2>1 DEF Http!Pump, Http!Parsed
    <3>2. input \in [kind : {"Request"},
                     request : {[path |-> "join", method |-> "POST", valid |-> TRUE]}]
      <4>1. input # Http!Bytes("Idle") /\ input # Http!Bytes("Partial")
            /\ input # Http!Bytes("Unreadable")
        BY <3>1 DEF Http!Bytes
      <4> QED
        BY <3>1, <4>1, Zenon DEF Http!Inputs
    <3>3. reqs' = Append(reqs, [connection |-> c, request |-> input.request])
      BY <2>1 DEF Http!Pump
    <3>4. [connection |-> c, request |-> input.request]
            \in [connection : Connections,
                 request : {[path |-> "join", method |-> "POST", valid |-> TRUE]}]
      BY <1>1, <3>2, PumpedFacts
    <3> QED
      BY <3>3, <3>4, HttpReqs, AppendProperties
  <2>2. CASE ~ Http!Parsed(c, input)
    BY <2>2, HttpReqs DEF Http!Pump
  <2> QED
    BY <2>1, <2>2
<1> QED
  BY <1>1, <1>2, <1>6, <1>7, PumpTypes
LEMMA AcceptInv ==
  ASSUME HttpInv, NEW c \in Connections, Http!Accept(c, client)
  PROVE  HttpInv'
<1>1. PICK e : e = [out |-> 0, closing |-> FALSE, requested |-> FALSE, idle |-> 0, reads |-> 0]
  OBVIOUS
<1>2. e \in Http!ConnType /\ e # None
  <2>1. 0 \in 0 .. Http!MaxWrites /\ 0 \in 0 .. IdleTimeout /\ 0 \in 0 .. MaxReads
    BY GameAssumption DEF Http!MaxWrites
  <2>2. e \in Http!ConnType
    BY <1>1, <2>1, Zenon DEF Http!ConnType
  <2> QED
    BY <2>2, GameAssumption
<1>3. PICK o : o = Http!Refused(client)
  OBVIOUS
<1>4. /\ h_at = "accept" /\ c \notin opened /\ opened' = opened \cup {c}
      /\ conn' = [conn EXCEPT ![c] = e]
      /\ UNCHANGED <<h_at, h_todo, reqs, gone, signs, h_sessions, pool, p_events, removes, h_told,
                     pending, next_join>>
  BY <1>1 DEF Http!Accept, Http!connected, Http!tableVars
<1>5. \/ /\ connections' = connections /\ output' = Append(output, Http!Close(c))
         /\ refused' = refused \cup {c}
      \/ /\ connections' = [connections EXCEPT ![c] = [peer |-> client, counted |-> client \notin {}]]
         /\ output' = output /\ refused' = refused
  BY DEF Http!Accept, Http!connected
<1>6. /\ conn \in [Connections -> Http!ConnType \cup {None}] /\ output \in Seq(HttpOutput)
      /\ connections \in [Connections -> HttpConnection \cup {None}]
      /\ opened \subseteq Connections /\ refused \subseteq Connections
      /\ h_todo = {} /\ gone = {} /\ reqs = <<>>
  BY <1>4 DEF HttpInv, HttpTypes, Http!TypeOK, Frames
<1>7. PICK b : b = [peer |-> client, counted |-> client \notin {}] /\ b \in HttpConnection /\ b # None
  <2>1. (client \notin {}) \in BOOLEAN
    OBVIOUS
  <2>2. [peer |-> client, counted |-> client \notin {}] \in HttpConnection
    BY <2>1, Zenon DEF HttpConnection
  <2> QED
    BY <2>2, GameAssumption DEF HttpConnection
<1>8. connections' = connections \/ connections' = [connections EXCEPT ![c] = b]
  BY <1>5, <1>7
<1>9. /\ connections' \in [Connections -> HttpConnection \cup {None}]
      /\ conn' \in [Connections -> Http!ConnType \cup {None}]
      /\ opened' \subseteq Connections /\ refused' \subseteq Connections
  BY <1>2, <1>4, <1>5, <1>6, <1>7, <1>8
<1>10. Http!Close(c) \in HttpOutput /\ Http!Close(c).type # "Offer"
  BY DEF Http!Close, HttpOutput
<1>11. /\ output' \in Seq(HttpOutput) /\ (Once(output) => Once(output'))
       /\ \A j \in JoinIds : Has(output', Http!Offer(j)) <=> Has(output, Http!Offer(j))
  <2>1. \A j \in JoinIds : Http!Offer(j) # Http!Close(c)
    BY DEF Http!Offer, Http!Close
  <2>2. /\ \A j : Has(Append(output, Http!Close(c)), j) <=> Has(output, j) \/ j = Http!Close(c)
        /\ Once(output) => Once(Append(output, Http!Close(c)))
    BY <1>6, <1>10, HasAppend
  <2>3. Append(output, Http!Close(c)) \in Seq(HttpOutput)
    BY <1>6, <1>10, AppendProperties
  <2> QED
    BY <1>5, <1>6, <2>1, <2>2, <2>3
<1>12. HttpTypes'
  BY <1>4, <1>6, <1>9, <1>11 DEF HttpInv, HttpTypes, Http!TypeOK, Http!Joins
<1>13. Frames'
  BY <1>4, <1>6 DEF Frames
<1>14. Tables'
  <2>1. connections[c] = None /\ conn[c] = None /\ c \notin refused
    BY <1>4 DEF HttpInv, Tables
  <2>2. \A d \in Connections : d # c => /\ connections'[d] = connections[d] /\ conn'[d] = conn[d]
                                        /\ (d \in refused' <=> d \in refused)
                                        /\ (d \in opened' <=> d \in opened)
    BY <1>4, <1>5, <1>6, <1>8
  <2>3. conn'[c] # None /\ c \in opened'
    BY <1>2, <1>4, <1>6
  <2>4. connections'[c] # None <=> c \notin refused'
    BY <1>5, <1>6, <1>7, <2>1
  <2> QED
    BY <2>2, <2>3, <2>4 DEF HttpInv, Tables
<1>15. Offers'
  BY <1>4, <1>11 DEF HttpInv, Offers, Offered, Http!Offer
<1> QED
  BY <1>4, <1>12, <1>13, <1>14, <1>15, HttpSame DEF HttpInv
\* A response is queued behind what is there.
LEMMA Responds ==
  ASSUME NEW q \in Seq(HttpOutput), NEW c \in Connections, NEW s \in Nat, NEW j \in JoinIds \cup {None}
  PROVE  /\ Append(q, Http!Response(c, s, j)) \in Seq(HttpOutput)
         /\ Once(q) => Once(Append(q, Http!Response(c, s, j)))
         /\ \A i \in JoinIds :
              Has(Append(q, Http!Response(c, s, j)), Http!Offer(i)) <=> Has(q, Http!Offer(i))
<1>1. Http!Response(c, s, j) \in HttpOutput /\ Http!Response(c, s, j).type # "Offer"
  BY DEF Http!Response, HttpOutput
<1>2. \A i \in JoinIds : Http!Offer(i) # Http!Response(c, s, j)
  BY DEF Http!Response, Http!Offer
<1>3. Append(q, Http!Response(c, s, j)) \in Seq(HttpOutput)
  BY <1>1, AppendProperties
<1> HIDE DEF Http!Response, Http!Offer
<1>4. PICK r : r = Http!Response(c, s, j)
  OBVIOUS
<1>5. /\ \A o : Has(Append(q, r), o) <=> Has(q, o) \/ o = r
      /\ Once(q) => Once(Append(q, r))
  BY <1>1, <1>4, HasAppend
<1> QED
  BY <1>2, <1>3, <1>4, <1>5

\* A request is answered at once, or becomes a join with a new id.
LEMMA Requested ==
  ASSUME NEW c, NEW r, Http!handle_request(c, r)
  PROVE  /\ UNCHANGED <<connections, per_address, server_data, token_trust>>
         /\ \/ /\ \E s \in Nat : output' = Append(output, Http!Response(c, s, None))
               /\ UNCHANGED <<pending, next_join>>
            \/ /\ next_join \in JoinIds /\ next_join' = next_join + 1
               /\ pending' = [pending EXCEPT ![next_join] = [connection |-> c, left |-> AnswerTimeout]]
               /\ output' = Append(output, Http!Offer(next_join))
<1>1. ASSUME NEW s \in Nat, Http!respond(c, s)
      PROVE  /\ \E t \in Nat : output' = Append(output, Http!Response(c, t, None))
             /\ UNCHANGED <<connections, per_address, pending, next_join, server_data, token_trust>>
  BY <1>1 DEF Http!respond
<1>2. \/ \E s \in Nat : Http!respond(c, s)
      \/ /\ next_join \in JoinIds /\ next_join' = next_join + 1
         /\ pending' = [pending EXCEPT ![next_join] = [connection |-> c, left |-> AnswerTimeout]]
         /\ output' = Append(output, Http!Offer(next_join))
         /\ UNCHANGED <<connections, per_address, server_data, token_trust>>
  <2>1. 405 \in Nat /\ 404 \in Nat /\ 200 \in Nat /\ 503 \in Nat /\ 401 \in Nat
    OBVIOUS
  <2>2. CASE r.path = "join" /\ r.method = "POST" /\ Http!join(c, r)
    BY <2>1, <2>2, Zenon DEF Http!join, Http!Joins, JoinIds
  <2>3. CASE Http!status_request(c, r)
    BY <2>1, <2>3, Zenon DEF Http!status_request
  <2> QED
    BY <2>1, <2>2, <2>3, Zenon DEF Http!handle_request
<1> QED
  BY <1>1, <1>2

LEMMA FeedRequestInv ==
  ASSUME HttpInv, Http!FeedRequest
  PROVE  HttpInv'
<1>1. PICK c, r : c = Head(reqs).connection /\ r = Head(reqs).request
  OBVIOUS
<1>2. /\ h_at = "pump" /\ reqs # <<>> /\ reqs' = Tail(reqs)
      /\ UNCHANGED <<conn, opened, h_at, h_todo, gone, signs, h_sessions, pool, p_events, removes,
                     h_told, refused>>
      /\ Http!handle_request(c, r)
  BY <1>1 DEF Http!FeedRequest, Http!tableVars
<1>3. c \in Connections /\ reqs' \in Seq([connection : Connections,
                     request : {[path |-> "join", method |-> "POST", valid |-> TRUE]}])
  <2>1. PICK S : S = [connection : Connections,
                      request : {[path |-> "join", method |-> "POST", valid |-> TRUE]}]
    OBVIOUS
  <2>2. Head(reqs) \in S /\ Tail(reqs) \in Seq(S)
    BY <1>2, <2>1, HttpReqs, HeadTailProperties, EmptySeq
  <2> QED
    BY <1>1, <1>2, <2>1, <2>2
<1>4. /\ output \in Seq(HttpOutput) /\ pending \in [JoinIds -> HttpJoin \cup {None}]
      /\ next_join \in 1 .. MaxJoins + 1 /\ Offers
  BY DEF HttpInv, HttpTypes
<1>5. CASE /\ \E s \in Nat : output' = Append(output, Http!Response(c, s, None))
           /\ UNCHANGED <<pending, next_join>>
  <2>1. PICK s \in Nat : output' = Append(output, Http!Response(c, s, None))
    BY <1>5
  <2>2. /\ output' \in Seq(HttpOutput) /\ (Once(output) => Once(output'))
        /\ \A i \in JoinIds : Has(output', Http!Offer(i)) <=> Has(output, Http!Offer(i))
    BY <1>3, <1>4, <2>1, Responds
  <2>3. HttpTypes'
    BY <1>2, <1>3, <1>4, <1>5, <2>2, Requested
       DEF HttpInv, HttpTypes, Http!TypeOK, Http!Conns, Http!Joins
  <2>4. Offers'
    BY <1>2, <1>4, <1>5, <2>2 DEF Offers, Offered, Http!Offer
  <2>5. Frames'
    BY <1>2 DEF HttpInv, Frames
  <2> QED
    BY <1>2, <2>3, <2>4, <2>5, Requested, HttpSame DEF HttpInv
<1>6. CASE /\ next_join \in JoinIds /\ next_join' = next_join + 1
           /\ pending' = [pending EXCEPT ![next_join] = [connection |-> c, left |-> AnswerTimeout]]
           /\ output' = Append(output, Http!Offer(next_join))
  <2>1. PICK n : n = next_join /\ n \in JoinIds /\ next_join' = n + 1
    BY <1>6
  <2>2. PICK p : p = [connection |-> c, left |-> AnswerTimeout] /\ p \in HttpJoin
    <3>1. [connection |-> c, left |-> AnswerTimeout] \in HttpJoin
      BY <1>3, GameAssumption DEF HttpJoin
    <3> QED
      BY <3>1
  <2>3. pending' = [pending EXCEPT ![n] = p] /\ output' = Append(output, Http!Offer(n))
    BY <1>6, <2>1, <2>2
  <2>4. Http!Offer(n) \in HttpOutput /\ \A i \in JoinIds : Http!Offer(i) = Http!Offer(n) => i = n
    BY <2>1 DEF Http!Offer, HttpOutput
  <2>5. ~ Has(output, Http!Offer(n)) /\ h_sessions[n] = None /\ n \notin removes
    BY <1>4, <2>1 DEF Offers, Offered, JoinIds
  <2>6. PICK o : o = Http!Offer(n)
    OBVIOUS
  <2>7. /\ output' \in Seq(HttpOutput) /\ (Once(output) => Once(output'))
        /\ \A i : Has(output', i) <=> Has(output, i) \/ i = o
    BY <1>4, <2>3, <2>4, <2>5, <2>6, HasAppend, AppendProperties
  <2>8. \A i \in JoinIds : Has(output', Http!Offer(i)) <=> Has(output, Http!Offer(i)) \/ i = n
    BY <2>4, <2>6, <2>7
  <2>9. next_join' \in 1 .. MaxJoins + 1 /\ pending' \in [JoinIds -> HttpJoin \cup {None}]
    BY <1>4, <2>1, <2>2, <2>3, GameAssumption DEF JoinIds
  <2>10. HttpTypes'
    BY <1>2, <1>3, <2>7, <2>9, Requested DEF HttpInv, HttpTypes, Http!TypeOK, Http!Conns, Http!Joins
  <2>11. Offers'
    <3>1. Once(output')
      BY <1>4, <2>7 DEF Offers
    <3>2. \A j \in JoinIds : pending'[j] # None => Has(output', Http!Offer(j))
      BY <1>4, <2>3, <2>8 DEF Offers, Offered
    <3>3. \A j \in JoinIds : Has(output', Http!Offer(j)) => j < n + 1
      BY <1>4, <2>1, <2>8 DEF Offers, Offered, JoinIds
    <3>4. \A j \in JoinIds : j >= n + 1 \/ Has(output', Http!Offer(j)) =>
            h_sessions[j] = None /\ j \notin removes
      BY <1>4, <2>1, <2>5, <2>8 DEF Offers, Offered, JoinIds
    <3> QED
      BY <1>2, <2>1, <3>1, <3>2, <3>3, <3>4 DEF Offers, Offered, Http!Offer
  <2>12. Frames'
    BY <1>2 DEF HttpInv, Frames
  <2> QED
    BY <1>2, <2>10, <2>11, <2>12, Requested, HttpSame DEF HttpInv
<1> QED
  BY <1>2, <1>5, <1>6, Requested
\* A connection leaves both tables, with its joins.
LEMMA DropInv ==
  ASSUME HttpInv, NEW c \in Connections, Http!Drop(c), gone' = gone \ {c}, c \notin h_todo,
         UNCHANGED <<opened, h_at, h_todo, reqs, signs, h_sessions, pool, p_events, removes, h_told,
                     refused>>
  PROVE  HttpInv'
<1>1. /\ conn' = [conn EXCEPT ![c] = None] /\ connections' = [connections EXCEPT ![c] = None]
      /\ \/ pending' = pending
         \/ pending' = [j \in JoinIds |-> IF pending[j] # None /\ pending[j].connection = c
                                          THEN None ELSE pending[j]]
      /\ UNCHANGED <<next_join, output>>
  BY DEF Http!Drop, Http!closed, Http!Joins, JoinIds
<1>2. /\ conn \in [Connections -> Http!ConnType \cup {None}]
      /\ connections \in [Connections -> HttpConnection \cup {None}]
      /\ pending \in [JoinIds -> HttpJoin \cup {None}]
      /\ h_todo \subseteq Http!Conns /\ gone \subseteq Http!Conns
  BY DEF HttpInv, HttpTypes, Http!TypeOK
<1>3. /\ conn' \in [Connections -> Http!ConnType \cup {None}]
      /\ connections' \in [Connections -> HttpConnection \cup {None}]
  BY <1>1, <1>2
<1>4. /\ pending' \in [JoinIds -> HttpJoin \cup {None}]
      /\ \A j \in JoinIds : pending'[j] # None => pending[j] # None
  BY <1>1, <1>2
<1>5. h_todo' \subseteq Http!Conns' /\ gone' \subseteq Http!Conns'
  BY <1>1, <1>2 DEF Http!Conns
<1>6. HttpTypes'
  BY <1>1, <1>3, <1>4, <1>5 DEF HttpInv, HttpTypes, Http!TypeOK, Http!Joins
<1>7. Frames'
  BY <1>1 DEF HttpInv, Frames
<1>8. Tables'
  BY <1>1, <1>2 DEF HttpInv, Tables
<1>9. Offers'
  <2>1. Offers /\ Once(output)' /\ \A i \in JoinIds : Offered(i)' <=> Offered(i)
    BY <1>1 DEF HttpInv, Offers, Offered, Has, Once, Http!Offer
  <2> QED
    BY <1>1, <1>4, <2>1 DEF Offers
<1> QED
  BY <1>6, <1>7, <1>8, <1>9, HttpSame DEF HttpInv

LEMMA DropsInv ==
  ASSUME HttpInv, NEW c \in Connections, Http!DropClosed(c) \/ Http!DropIdle(c)
  PROVE  HttpInv'
<1>1. CASE Http!DropClosed(c)
  BY <1>1, DropInv DEF Http!DropClosed, Http!tableVars
<1>2. CASE Http!DropIdle(c)
  <2>1. /\ h_at = "idle" /\ Http!Drop(c)
        /\ UNCHANGED <<opened, h_at, h_todo, reqs, gone, signs, h_sessions, pool, p_events, removes,
                       h_told, refused>>
    BY <1>2 DEF Http!DropIdle, Http!tableVars
  <2>2. gone = {} /\ h_todo = {}
    BY <2>1 DEF HttpInv, Frames
  <2> QED
    BY <2>1, <2>2, DropInv
<1> QED
  BY <1>1, <1>2

LEMMA EndPumpInv ==
  ASSUME HttpInv, Http!EndPump
  PROVE  HttpInv'
<1>1. /\ h_at' = "outputs" /\ h_todo' = {} /\ reqs' = <<>> /\ gone' = {} /\ h_todo = {}
      /\ reqs = <<>> /\ gone = {}
      /\ UNCHANGED <<connections, next_join, conn, opened, signs, h_sessions, pool, p_events,
                     removes, h_told, refused>>
      /\ pending' = [j \in JoinIds |-> IF j \in Http!Overdue THEN None ELSE pending[j]]
  BY DEF Http!EndPump, Http!At, Http!handle_update, Http!tableVars, Http!Joins, JoinIds
<1>2. /\ output \in Seq(HttpOutput) /\ pending \in [JoinIds -> HttpJoin \cup {None}] /\ Offers
  BY DEF HttpInv, HttpTypes
<1>3. PICK order \in [1 .. Cardinality(Http!Overdue) -> Http!Overdue] :
        /\ \A j \in Http!Overdue : \E i \in DOMAIN order : order[i] = j
        /\ output' = output \o
             [i \in DOMAIN order |->
                Http!Response(pending[order[i]].connection, Http!StatusOf["Timeout"], order[i])]
  <2>1. Http!handle_update
    BY DEF Http!EndPump
  <2>2. Http!Cardinality(Http!Overdue) = Cardinality(Http!Overdue)
    BY DEF Http!Cardinality, Cardinality
  <2> QED
    BY <2>1, <2>2, Zenon DEF Http!handle_update
<1>4. PICK r : r = [i \in DOMAIN order |->
             Http!Response(pending[order[i]].connection, Http!StatusOf["Timeout"], order[i])]
  OBVIOUS
<1>5. IsFiniteSet(Http!Overdue) /\ Http!Overdue \subseteq JoinIds
  <2>1. IsFiniteSet(JoinIds)
    BY GameAssumption, FS_Interval DEF JoinIds
  <2>2. Http!Overdue \subseteq JoinIds
    BY DEF Http!Overdue, Http!PendingJoins, Http!Joins, JoinIds
  <2> QED
    BY <2>1, <2>2, FS_Subset
<1>6. PICK n \in Nat : n = Cardinality(Http!Overdue)
  BY <1>5, FS_CardinalityType
<1>7. ASSUME NEW i \in 1 .. n
      PROVE  r[i] \in HttpOutput /\ r[i].type # "Offer"
  <2>1. order[i] \in Http!Overdue /\ order[i] \in JoinIds
    BY <1>3, <1>5, <1>6, <1>7
  <2>2. pending[order[i]] \in HttpJoin
    BY <1>2, <2>1 DEF Http!Overdue, Http!PendingJoins
  <2>3. r[i] = Http!Response(pending[order[i]].connection, Http!StatusOf["Timeout"], order[i])
    BY <1>3, <1>4, <1>6, <1>7
  <2>4. Http!StatusOf["Timeout"] \in Nat
    BY DEF Http!StatusOf
  <2>5. pending[order[i]].connection \in Connections
    BY <2>2 DEF HttpJoin
  <2> QED
    BY <2>1, <2>3, <2>4, <2>5 DEF Http!Response, HttpOutput
<1>8. DOMAIN r = 1 .. n /\ r \in Seq(HttpOutput)
  BY <1>3, <1>4, <1>6, <1>7
<1>9. /\ output' \in Seq(HttpOutput) /\ (Once(output) => Once(output'))
      /\ \A o : o.type = "Offer" => (Has(output', o) <=> Has(output, o))
  BY <1>2, <1>3, <1>4, <1>7, <1>8, HasConcat
<1>10. \A j \in JoinIds : Has(output', Http!Offer(j)) <=> Has(output, Http!Offer(j))
  <2>1. \A j \in JoinIds : Http!Offer(j).type = "Offer"
    BY DEF Http!Offer
  <2> QED
    BY <1>9, <2>1
<1>11. /\ pending' \in [JoinIds -> HttpJoin \cup {None}]
       /\ \A j \in JoinIds : pending'[j] # None => pending[j] # None
  BY <1>1, <1>2
<1>12. HttpTypes'
  BY <1>1, <1>9, <1>11 DEF HttpInv, HttpTypes, Http!TypeOK, Http!Joins
<1>13. Frames'
  BY <1>1 DEF Frames
<1>14. Offers'
  BY <1>1, <1>2, <1>9, <1>10, <1>11 DEF Offers, Offered, Http!Offer
<1> QED
  BY <1>1, <1>12, <1>13, <1>14, HttpSame DEF HttpInv
-----------------------------------------------------------------------------
(* A frame of the HTTP server: outputs, events, timeouts                   *)

LEMMA HandleResponseInv ==
  ASSUME HttpInv, output # <<>>, Http!HandleResponse(Head(output))
  PROVE  HttpInv'
<1>1. PICK o : o = Head(output)
  OBVIOUS
<1>2. /\ h_at = "outputs" /\ o.type \in {"Response", "Close"} /\ output' = Tail(output)
      /\ conn' = IF o.connection \notin Http!Conns THEN conn
                 ELSE [conn EXCEPT ![o.connection].closing = TRUE,
                        ![o.connection].out = IF o.type = "Response" THEN Http!MaxWrites ELSE @]
      /\ UNCHANGED <<connections, pending, next_join, opened, h_at, h_todo, reqs, gone, signs,
                     h_sessions, pool, p_events, removes, h_told, refused>>
  BY <1>1 DEF Http!HandleResponse, Http!Polled, Http!poll, Http!tableVars
<1>3. /\ output \in Seq(HttpOutput) /\ Offers /\ conn \in [Connections -> Http!ConnType \cup {None}]
  BY DEF HttpInv, HttpTypes, Http!TypeOK
<1>4. /\ output' \in Seq(HttpOutput) /\ (Once(output) => Once(output'))
      /\ \A i : Has(output, i) <=> i = o \/ Has(output', i)
  BY <1>1, <1>2, <1>3, HasTail
<1>5. \A j \in JoinIds : Has(output', Http!Offer(j)) <=> Has(output, Http!Offer(j))
  <2>1. \A j \in JoinIds : Http!Offer(j) # o
    BY <1>2 DEF Http!Offer
  <2> QED
    BY <1>4, <2>1
<1>6. /\ conn' \in [Connections -> Http!ConnType \cup {None}]
      /\ \A c \in Connections : (conn'[c] = None) = (conn[c] = None)
  <2>1. CASE o.connection \notin Http!Conns
    BY <1>2, <1>3, <2>1
  <2>2. CASE o.connection \in Http!Conns
    <3>1. PICK c \in Connections : c = o.connection /\ conn[c] \in Http!ConnType /\ conn[c] # None
      BY <1>3, <2>2 DEF Http!Conns
    <3>2. PICK w : w = (IF o.type = "Response" THEN Http!MaxWrites ELSE conn[c].out)
      OBVIOUS
    <3>3. PICK e : e = [conn[c] EXCEPT !.closing = TRUE, !.out = w]
      OBVIOUS
    <3>4. conn' = [conn EXCEPT ![c] = e]
      BY <1>2, <1>3, <2>2, <3>1, <3>2, <3>3 DEF Http!ConnType
    <3>5. /\ conn[c].requested \in BOOLEAN /\ conn[c].reads \in 0 .. MaxReads
          /\ conn[c].idle \in 0 .. IdleTimeout /\ w \in 0 .. Http!MaxWrites
      BY <3>1, <3>2 DEF Http!ConnType, Http!MaxWrites
    <3>6. e = [out |-> w, closing |-> TRUE, requested |-> conn[c].requested, idle |-> conn[c].idle,
               reads |-> conn[c].reads]
      BY <3>1, <3>3 DEF Http!ConnType
    <3>7. e \in Http!ConnType
      BY <3>5, <3>6, Zenon DEF Http!ConnType
    <3>8. e # None
      BY <3>7, GameAssumption
    <3> QED
      BY <1>3, <3>1, <3>4, <3>7, <3>8
  <2> QED
    BY <2>1, <2>2
<1>7. h_todo' \subseteq Http!Conns' /\ gone' \subseteq Http!Conns'
  BY <1>2, <1>6 DEF HttpInv, Frames
<1>8. HttpTypes'
  BY <1>2, <1>4, <1>6, <1>7 DEF HttpInv, HttpTypes, Http!TypeOK, Http!Joins
<1>9. Frames'
  BY <1>2 DEF HttpInv, Frames
<1>10. Tables'
  BY <1>2, <1>6 DEF HttpInv, Tables
<1>11. Offers'
  BY <1>2, <1>3, <1>4, <1>5 DEF Offers, Offered, Http!Offer
<1> QED
  BY <1>2, <1>8, <1>9, <1>10, <1>11, HttpSame DEF HttpInv

\* The offer at the head of the queue is taken and its join is completed, if it is
\* still there: the id is used up, whatever becomes of it.
LEMMA ReplyFacts ==
  ASSUME HttpInv, NEW j \in JoinIds, Http!Polled(Http!Offer(j)), NEW s \in Nat, Http!Reply(j, s)
  PROVE  /\ HttpTypes => /\ output' \in Seq(HttpOutput)
                         /\ pending' \in [JoinIds -> HttpJoin \cup {None}]
         /\ Once(output')
         /\ \A i \in JoinIds : Has(output', Http!Offer(i)) <=> Has(output, Http!Offer(i)) /\ i # j
         /\ \A i \in JoinIds : pending'[i] # None => pending[i] # None /\ i # j
         /\ h_at = "outputs" /\ Offered(j) /\ j < next_join
         /\ h_sessions[j] = None /\ j \notin removes
         /\ UNCHANGED <<connections, next_join>>
<1>1. /\ output \in Seq(HttpOutput) /\ pending \in [JoinIds -> HttpJoin \cup {None}] /\ Offers
      /\ output # <<>> /\ h_at = "outputs" /\ Head(output) = Http!Offer(j)
  BY DEF HttpInv, HttpTypes, Http!Polled
<1>2. PICK o : o = Http!Offer(j) /\ o.type = "Offer"
  <2>1. Http!Offer(j).type = "Offer"
    BY DEF Http!Offer
  <2> QED
    BY <2>1
<1>3. PICK q : q = Tail(output)
  OBVIOUS
<1>4. /\ q \in Seq(HttpOutput) /\ Once(q) /\ ~ Has(q, o)
      /\ \A i : Has(output, i) <=> i = o \/ Has(q, i)
  BY <1>1, <1>2, <1>3, HasTail DEF Offers
<1>5. \A i \in JoinIds : Http!Offer(i) = o => i = j
  BY <1>2 DEF Http!Offer
<1>6. \A i \in JoinIds : Has(q, Http!Offer(i)) <=> Has(output, Http!Offer(i)) /\ i # j
  BY <1>2, <1>4, <1>5
<1>7. /\ output' \in Seq(HttpOutput) /\ Once(output')
      /\ \A i \in JoinIds : Has(output', Http!Offer(i)) <=> Has(q, Http!Offer(i))
  <2>1. CASE pending[j] = None
    BY <1>3, <1>4, <2>1 DEF Http!Reply
  <2>2. CASE pending[j] # None
    <3>1. PICK c \in Connections : c = pending[j].connection
      BY <1>1, <2>2 DEF HttpJoin
    <3>2. output' = Append(q, Http!Response(c, s, j))
      BY <1>3, <2>2, <3>1 DEF Http!Reply
    <3> QED
      BY <1>4, <3>2, Responds
  <2> QED
    BY <2>1, <2>2
<1>8. /\ pending' \in [JoinIds -> HttpJoin \cup {None}]
      /\ \A i \in JoinIds : pending'[i] # None => pending[i] # None /\ i # j
  <2>1. pending' = [pending EXCEPT ![j] = None]
    BY DEF Http!Reply
  <2> QED
    BY <1>1, <2>1
<1>9. Offered(j)
  BY <1>2, <1>4 DEF Offered
<1>10. UNCHANGED <<connections, next_join>>
  BY DEF Http!Reply
<1> QED
  BY <1>1, <1>6, <1>7, <1>8, <1>9, <1>10 DEF Offers
LEMMA RefuseOfferInv ==
  ASSUME HttpInv, NEW j \in JoinIds, Http!RefuseOffer(j)
  PROVE  HttpInv'
<1>1. /\ Http!Polled(Http!Offer(j))
      /\ UNCHANGED <<conn, opened, h_at, h_todo, reqs, gone, signs, h_sessions, pool, p_events,
                     removes, h_told, refused>>
  BY DEF Http!RefuseOffer, Http!streamVars, Http!tableVars
<1>2. PICK s \in Nat : Http!Reply(j, s)
  <2>1. PICK reason \in {"Rejected", "Unavailable"} : Http!Reply(j, Http!StatusOf[reason])
    BY DEF Http!RefuseOffer
  <2>2. Http!StatusOf[reason] \in Nat
    BY <2>1 DEF Http!StatusOf
  <2> QED
    BY <2>1, <2>2
<1>3. HttpTypes'
  BY <1>1, <1>2, ReplyFacts DEF HttpInv, HttpTypes, Http!TypeOK, Http!Conns, Http!Joins
<1>4. Frames'
  BY <1>1, <1>2, ReplyFacts DEF HttpInv, Frames
<1>5. Offers'
  <2>1. Offers
    BY DEF HttpInv
  <2>2. /\ Once(output') /\ next_join' = next_join
        /\ \A i \in JoinIds : Has(output', Http!Offer(i)) <=> Has(output, Http!Offer(i)) /\ i # j
        /\ \A i \in JoinIds : pending'[i] # None => pending[i] # None /\ i # j
    BY <1>1, <1>2, ReplyFacts
  <2> QED
    BY <1>1, <2>1, <2>2 DEF Offers, Offered, Http!Offer
<1> QED
  BY <1>1, <1>2, <1>3, <1>4, <1>5, ReplyFacts, HttpSame DEF HttpInv

LEMMA AcceptOfferInv ==
  ASSUME HttpInv, NEW j \in JoinIds, Http!AcceptOffer(j)
  PROVE  HttpInv'
<1>1. PICK e : e = [ready |-> FALSE, age |-> 0]
  OBVIOUS
<1>2. /\ Http!Polled(Http!Offer(j)) /\ Http!Reply(j, 200)
      /\ pool' = [pool EXCEPT ![j] = "running"] /\ h_sessions' = [h_sessions EXCEPT ![j] = e]
      /\ UNCHANGED <<conn, opened, h_at, h_todo, reqs, gone, signs, p_events, removes, h_told,
                     refused>>
  BY <1>1 DEF Http!AcceptOffer, Http!streamVars
<1>3. e \in HttpSession /\ e # None /\ ~ e.ready
  <2>1. 0 \in 0 .. Establish
    BY ServerAssumption
  <2>2. e \in HttpSession
    BY <1>1, <2>1, Zenon DEF HttpSession
  <2> QED
    BY <1>1, <2>2, GameAssumption DEF HttpSession
<1>4. /\ h_sessions \in [JoinIds -> HttpSession \cup {None}]
      /\ pool \in [JoinIds -> {"none", "running", "open"}]
      /\ Offers /\ Listed /\ next_join \in Nat
  BY DEF HttpInv, HttpTypes, Http!TypeOK, HttpSession, Http!Joins, JoinIds
<1>5. /\ h_sessions' \in [JoinIds -> HttpSession \cup {None}]
      /\ pool' \in [JoinIds -> {"none", "running", "open"}]
  BY <1>2, <1>3, <1>4
<1>6. 200 \in Nat
  OBVIOUS
<1>7. HttpTypes'
  BY <1>2, <1>5, <1>6, ReplyFacts
     DEF HttpInv, HttpTypes, Http!TypeOK, Http!Conns, HttpSession, Http!Joins, JoinIds
<1>8. Frames'
  BY <1>2, <1>6, ReplyFacts DEF HttpInv, Frames
<1>9. /\ Once(output') /\ next_join' = next_join /\ connections' = connections
      /\ \A i \in JoinIds : Has(output', Http!Offer(i)) <=> Has(output, Http!Offer(i)) /\ i # j
      /\ \A i \in JoinIds : pending'[i] # None => pending[i] # None /\ i # j
      /\ j < next_join /\ h_sessions[j] = None /\ j \notin removes
  BY <1>2, <1>6, ReplyFacts
<1>10. \A i \in JoinIds : i # j => h_sessions'[i] = h_sessions[i] /\ pool'[i] = pool[i]
  BY <1>2, <1>4
<1>11. Offers'
  <2>1. \A i \in JoinIds : i >= next_join \/ Has(output', Http!Offer(i)) =>
          h_sessions'[i] = None /\ i \notin removes
    BY <1>4, <1>9, <1>10 DEF Offers, Offered, JoinIds
  <2> QED
    BY <1>2, <1>4, <1>9, <2>1 DEF Offers, Offered, Http!Offer
<1>12. Listed'
  <2>1. h_sessions'[j] = e /\ pool'[j] = "running"
    BY <1>2, <1>4
  <2>2. \A i \in JoinIds : h_sessions'[i] # None =>
          /\ i \notin removes
          /\ pool'[i] = "none" => Http!Event("Failed", i) \in p_events
    BY <1>4, <1>9, <1>10, <2>1 DEF Listed
  <2>3. h_told = {i \in JoinIds : h_sessions'[i] # None /\ h_sessions'[i].ready}
    BY <1>3, <1>4, <1>9, <1>10, <2>1 DEF Listed
  <2> QED
    BY <1>2, <2>2, <2>3 DEF Listed, Http!Event
<1>13. Tables'
  BY <1>2, <1>9, HttpSame DEF HttpInv
<1> QED
  BY <1>7, <1>8, <1>11, <1>12, <1>13 DEF HttpInv

LEMMA DriveSessionsInv ==
  ASSUME HttpInv, Http!drive_sessions
  PROVE  HttpInv'
<1>1. PICK bad, up : bad = Http!Reported("Failed") /\ up = Http!Reported("Ready")
  OBVIOUS
<1>2. /\ h_at = "outputs" /\ h_at' = "idle" /\ output = <<>> /\ p_events' = {}
      /\ removes' = removes \cup bad
      /\ h_told' = (h_told \cup (Http!Unready \cap up)) \ bad
      /\ h_sessions' = [j \in JoinIds |->
           IF j \notin Http!Open \/ j \in bad THEN None
           ELSE [h_sessions[j] EXCEPT !.ready = @ \/ j \in up]]
      /\ UNCHANGED <<connections, per_address, pending, next_join, server_data, token_trust,
                     output, conn, opened, h_todo, reqs, gone, signs, pool, refused>>
  BY <1>1 DEF Http!drive_sessions, Http!At, Http!signalerVars, Http!Joins, JoinIds
<1>3. /\ h_sessions \in [JoinIds -> HttpSession \cup {None}]
      /\ removes \subseteq JoinIds /\ Offers /\ Listed /\ next_join \in Nat
      /\ h_told \subseteq JoinIds
  BY DEF HttpInv, HttpTypes, Http!TypeOK, HttpSession, Http!Joins, JoinIds
<1>4. /\ \A j : j \in bad <=> j \in JoinIds /\ h_sessions[j] # None /\ Http!Event("Failed", j) \in p_events
      /\ up \subseteq JoinIds
  BY <1>1 DEF Http!Reported, Http!Open, Http!Joins, JoinIds
<1>5. \A j \in JoinIds : h_sessions[j] # None => h_sessions[j] \in HttpSession
  BY <1>3
<1>6. ASSUME NEW j \in JoinIds
      PROVE  /\ h_sessions'[j] \in HttpSession \cup {None}
             /\ h_sessions'[j] # None <=> h_sessions[j] # None /\ j \notin bad
             /\ h_sessions'[j] # None => (h_sessions'[j].ready <=> h_sessions[j].ready \/ j \in up)
  <2>1. CASE h_sessions[j] = None \/ j \in bad
    BY <1>2, <1>4, <1>6, <2>1 DEF Http!Open
  <2>2. CASE h_sessions[j] # None /\ j \notin bad
    <3>1. PICK e : e = h_sessions[j] /\ e \in HttpSession
      BY <1>5, <1>6, <2>2
    <3>2. PICK r \in BOOLEAN : r = (e.ready \/ j \in up)
      OBVIOUS
    <3>3. h_sessions'[j] = [e EXCEPT !.ready = r]
      BY <1>2, <1>6, <2>2, <3>1, <3>2 DEF Http!Open, Http!Joins, JoinIds, HttpSession
    <3>4. e.age \in 0 .. Establish
      BY <3>1 DEF HttpSession
    <3>5. h_sessions'[j] = [ready |-> r, age |-> e.age]
      BY <3>1, <3>3 DEF HttpSession
    <3>6. h_sessions'[j] \in HttpSession
      <4>1. r \in BOOLEAN
        BY <3>2
      <4>2. [ready |-> r, age |-> e.age] \in HttpSession
        BY <3>4, <4>1, Zenon DEF HttpSession
      <4> QED
        BY <3>5, <4>2
    <3>7. h_sessions'[j] # None
      BY <3>6, GameAssumption DEF HttpSession
    <3>8. h_sessions'[j].ready = r
      BY <3>5
    <3> QED
      BY <2>2, <3>1, <3>2, <3>6, <3>7, <3>8
  <2> QED
    BY <2>1, <2>2
<1>7. h_sessions' \in [JoinIds -> HttpSession \cup {None}]
  <2>1. PICK f : f = h_sessions'
    OBVIOUS
  <2>2. f = [j \in JoinIds |-> f[j]]
    BY <1>2, <2>1
  <2>3. \A j \in JoinIds : f[j] \in HttpSession \cup {None}
    BY <1>6, <2>1
  <2>4. f \in [JoinIds -> HttpSession \cup {None}]
    BY <2>2, <2>3
  <2> QED
    BY <2>1, <2>4
<1>8. removes' \subseteq JoinIds /\ h_told' \subseteq JoinIds
  BY <1>2, <1>3, <1>4
<1>9. HttpTypes'
  BY <1>2, <1>7, <1>8
     DEF HttpInv, HttpTypes, Http!TypeOK, Http!Conns, HttpSession, Http!Joins, JoinIds
<1>10. Frames'
  BY <1>2 DEF HttpInv, Frames
<1>11. Offers'
  <2>1. \A j \in JoinIds : j >= next_join \/ Offered(j) => h_sessions'[j] = None /\ j \notin removes'
    BY <1>2, <1>3, <1>4, <1>6 DEF Offers
  <2> QED
    BY <1>2, <1>3, <2>1 DEF Offers, Offered, Once, Has, Http!Offer
<1>12. Listed'
  <2>1. \A j \in JoinIds : h_sessions'[j] # None => j \notin removes' /\ pool'[j] # "none"
    BY <1>2, <1>3, <1>4, <1>6 DEF Listed
  <2>2. \A j \in JoinIds : j \in h_told <=> h_sessions[j] # None /\ h_sessions[j].ready
    BY <1>3 DEF Listed
  <2>3. \A j \in JoinIds : j \in Http!Unready <=> h_sessions[j] # None /\ ~ h_sessions[j].ready
    BY DEF Http!Unready, Http!Open, Http!Joins, JoinIds
  <2>4. \A j \in JoinIds : j \in h_told' <=> h_sessions'[j] # None /\ h_sessions'[j].ready
    <3>1. ASSUME NEW j \in JoinIds
          PROVE  j \in h_told' <=> (j \in h_told \/ (j \in Http!Unready /\ j \in up)) /\ j \notin bad
      BY <1>2, <3>1
    <3> QED
      BY <1>6, <2>2, <2>3, <3>1, <1>4 DEF Http!Reported, Http!Open
  <2>5. h_told' = {j \in JoinIds : h_sessions'[j] # None /\ h_sessions'[j].ready}
    BY <1>8, <2>4
  <2> QED
    BY <2>1, <2>5 DEF Listed
<1>13. Tables'
  BY <1>2, HttpSame DEF HttpInv
<1> QED
  BY <1>9, <1>10, <1>11, <1>12, <1>13 DEF HttpInv
LEMMA ExpireSessionsInv ==
  ASSUME HttpInv, Http!ExpireSessions
  PROVE  HttpInv'
<1>1. /\ h_at = "idle" /\ h_at' = "app"
      /\ h_sessions' = [j \in JoinIds |->
           IF j \in Http!Unready /\ h_sessions[j].age >= Establish THEN None ELSE h_sessions[j]]
      /\ UNCHANGED <<connections, per_address, pending, next_join, server_data, token_trust,
                     output, conn, opened, h_todo, reqs, gone, signs, pool, p_events, removes,
                     refused, h_told>>
  BY DEF Http!ExpireSessions, Http!At, Http!signalerVars, Http!Joins, JoinIds
<1>2. /\ h_sessions \in [JoinIds -> HttpSession \cup {None}] /\ Offers /\ Listed
      /\ h_told \subseteq JoinIds
  BY DEF HttpInv, HttpTypes, Http!TypeOK, HttpSession, Http!Joins, JoinIds
<1>3. h_sessions' \in [JoinIds -> HttpSession \cup {None}]
  BY <1>1, <1>2
<1>4. \A j \in JoinIds : \/ h_sessions'[j] = h_sessions[j]
                         \/ h_sessions'[j] = None /\ h_sessions[j] # None /\ ~ h_sessions[j].ready
  BY <1>1 DEF Http!Unready, Http!Open
<1>5. HttpTypes'
  BY <1>1, <1>3 DEF HttpInv, HttpTypes, Http!TypeOK, Http!Conns, HttpSession, Http!Joins, JoinIds
<1>6. Frames'
  BY <1>1 DEF HttpInv, Frames
<1>7. Offers'
  BY <1>1, <1>2, <1>4 DEF Offers, Offered, Once, Has, Http!Offer
<1>8. Listed'
  <2>1. \A j \in JoinIds : h_sessions'[j] # None => h_sessions'[j] = h_sessions[j]
    BY <1>4
  <2>2. \A j \in JoinIds : j \in h_told <=> h_sessions'[j] # None /\ h_sessions'[j].ready
    BY <1>2, <1>4 DEF Listed
  <2>3. h_told = {j \in JoinIds : h_sessions'[j] # None /\ h_sessions'[j].ready}
    BY <1>2, <2>2
  <2> QED
    BY <1>1, <1>2, <2>1, <2>3 DEF Listed, Http!Event
<1> QED
  BY <1>1, <1>5, <1>6, <1>7, <1>8, HttpSame DEF HttpInv

LEMMA HttpTickInv ==
  ASSUME HttpInv, Http!Tick
  PROVE  HttpInv'
<1>1. /\ h_at = "app"
      /\ conn' = [c \in Connections |->
           IF c \in Http!Conns /\ conn[c].idle < IdleTimeout
           THEN [conn[c] EXCEPT !.idle = conn[c].idle + 1] ELSE conn[c]]
      /\ h_sessions' = [j \in JoinIds |->
           IF j \in Http!Unready /\ h_sessions[j].age < Establish
           THEN [h_sessions[j] EXCEPT !.age = h_sessions[j].age + 1] ELSE h_sessions[j]]
      /\ pending' = [j \in JoinIds |->
           IF pending[j] = None \/ pending[j].left = 0 THEN pending[j]
           ELSE [pending[j] EXCEPT !.left = pending[j].left - 1]]
      /\ UNCHANGED <<connections, per_address, next_join, server_data, token_trust, output, opened,
                     h_at, h_todo, reqs, gone, signs, pool, p_events, removes, refused, h_told>>
  BY DEF Http!Tick, Http!Elapse, Http!Joins, JoinIds
<1>2. /\ conn \in [Connections -> Http!ConnType \cup {None}]
      /\ h_sessions \in [JoinIds -> HttpSession \cup {None}]
      /\ pending \in [JoinIds -> HttpJoin \cup {None}]
      /\ Offers /\ Listed /\ Tables /\ h_told \subseteq JoinIds
      /\ h_todo = {} /\ gone = {} /\ output = <<>>
  BY <1>1 DEF HttpInv, HttpTypes, Http!TypeOK, HttpSession, Http!Joins, JoinIds, Frames
<1>3. \A j \in JoinIds : ~ Offered(j)
  BY <1>2 DEF Offered, Has
<1>4. \A j \in JoinIds : pending[j] = None /\ pending'[j] = None
  BY <1>1, <1>2, <1>3 DEF Offers
<1>5. pending' \in [JoinIds -> HttpJoin \cup {None}]
  BY <1>1, <1>4
<1>6. ASSUME NEW c \in Connections
      PROVE  conn'[c] \in Http!ConnType \cup {None} /\ (conn'[c] = None) = (conn[c] = None)
  <2>1. CASE conn[c] # None /\ conn[c].idle < IdleTimeout
    <3>1. PICK e : e = conn[c] /\ e \in Http!ConnType
      BY <1>2, <1>6, <2>1
    <3>2. /\ e.closing \in BOOLEAN /\ e.requested \in BOOLEAN /\ e.reads \in 0 .. MaxReads
          /\ e.out \in 0 .. Http!MaxWrites /\ e.idle + 1 \in 0 .. IdleTimeout
      BY <2>1, <3>1, GameAssumption DEF Http!ConnType
    <3>3. conn'[c] = [e EXCEPT !.idle = e.idle + 1]
      BY <1>1, <1>6, <2>1, <3>1 DEF Http!Conns
    <3>4. [e EXCEPT !.idle = e.idle + 1] =
            [out |-> e.out, closing |-> e.closing, requested |-> e.requested,
             idle |-> e.idle + 1, reads |-> e.reads]
      BY <3>1 DEF Http!ConnType
    <3>5. [out |-> e.out, closing |-> e.closing, requested |-> e.requested,
           idle |-> e.idle + 1, reads |-> e.reads] \in Http!ConnType
      BY <3>2, Zenon DEF Http!ConnType
    <3> QED
      BY <2>1, <3>3, <3>4, <3>5, GameAssumption
  <2>2. CASE ~ (conn[c] # None /\ conn[c].idle < IdleTimeout)
    <3>1. conn'[c] = conn[c]
      BY <1>1, <1>6, <2>2 DEF Http!Conns
    <3> QED
      BY <1>2, <1>6, <3>1
  <2> QED
    BY <2>1, <2>2
<1>7. ASSUME NEW j \in JoinIds
      PROVE  /\ h_sessions'[j] \in HttpSession \cup {None}
             /\ (h_sessions'[j] = None) = (h_sessions[j] = None)
             /\ h_sessions[j] # None => h_sessions'[j].ready = h_sessions[j].ready
  <2>1. CASE j \in Http!Unready /\ h_sessions[j].age < Establish
    <3>1. PICK e : e = h_sessions[j] /\ e \in HttpSession /\ e # None
      BY <1>2, <1>7, <2>1 DEF Http!Unready, Http!Open
    <3>2. e.ready \in BOOLEAN /\ e.age + 1 \in 0 .. Establish
      BY <2>1, <3>1, ServerAssumption DEF HttpSession
    <3>3. h_sessions'[j] = [e EXCEPT !.age = e.age + 1]
      BY <1>1, <1>7, <2>1, <3>1
    <3>4. [e EXCEPT !.age = e.age + 1] = [ready |-> e.ready, age |-> e.age + 1]
      BY <3>1 DEF HttpSession
    <3>5. [ready |-> e.ready, age |-> e.age + 1] \in HttpSession
      BY <3>2, Zenon DEF HttpSession
    <3>6. h_sessions'[j] # None /\ h_sessions'[j].ready = e.ready
      BY <3>3, <3>4, <3>5, GameAssumption DEF HttpSession
    <3> QED
      BY <3>1, <3>3, <3>4, <3>5, <3>6
  <2>2. CASE ~ (j \in Http!Unready /\ h_sessions[j].age < Establish)
    <3>1. h_sessions'[j] = h_sessions[j]
      BY <1>1, <1>7, <2>2
    <3> QED
      BY <1>2, <1>7, <3>1
  <2> QED
    BY <2>1, <2>2
<1>8. conn' \in [Connections -> Http!ConnType \cup {None}]
  <2>1. PICK f : f = conn'
    OBVIOUS
  <2>2. f = [c \in Connections |-> f[c]] /\ \A c \in Connections : f[c] \in Http!ConnType \cup {None}
    BY <1>1, <1>6, <2>1
  <2>3. f \in [Connections -> Http!ConnType \cup {None}]
    BY <2>2
  <2> QED
    BY <2>1, <2>3
<1>9. h_sessions' \in [JoinIds -> HttpSession \cup {None}]
  <2>1. PICK f : f = h_sessions'
    OBVIOUS
  <2>2. f = [j \in JoinIds |-> f[j]] /\ \A j \in JoinIds : f[j] \in HttpSession \cup {None}
    BY <1>1, <1>7, <2>1
  <2>3. f \in [JoinIds -> HttpSession \cup {None}]
    BY <2>2
  <2> QED
    BY <2>1, <2>3
<1>10. HttpTypes'
  BY <1>1, <1>2, <1>5, <1>8, <1>9 DEF HttpInv, HttpTypes, Http!TypeOK, HttpSession, Http!Joins, JoinIds
<1>11. Frames'
  BY <1>1 DEF HttpInv, Frames
<1>12. Tables'
  BY <1>1, <1>2, <1>6 DEF Tables
<1>13. Offers'
  <2>1. Once(output)' /\ \A j \in JoinIds : ~ Offered(j)'
    BY <1>1, <1>2, <1>3 DEF Offers, Once, Offered, Has, Http!Offer
  <2> QED
    BY <1>1, <1>2, <1>4, <1>7, <2>1 DEF Offers
<1>14. Listed'
  <2>1. \A j \in JoinIds : j \in h_told <=> h_sessions'[j] # None /\ h_sessions'[j].ready
    BY <1>2, <1>7 DEF Listed
  <2>2. h_told = {j \in JoinIds : h_sessions'[j] # None /\ h_sessions'[j].ready}
    BY <1>2, <2>1
  <2> QED
    BY <1>1, <1>2, <1>7, <2>2 DEF Listed, Http!Event
<1> QED
  BY <1>10, <1>11, <1>12, <1>13, <1>14 DEF HttpInv
-----------------------------------------------------------------------------
(* The HTTP server: the inductive invariant                                *)

LEMMA HttpInitInv == Http!Init => HttpInv
<1> SUFFICES ASSUME Http!Init PROVE HttpInv
  OBVIOUS
<1>1. /\ connections = [c \in Connections |-> None] /\ pending = [j \in JoinIds |-> None]
      /\ next_join = 1 /\ output = <<>> /\ conn = [c \in Connections |-> None] /\ opened = {}
      /\ h_at = "app" /\ h_todo = {} /\ reqs = <<>> /\ gone = {} /\ signs \in BOOLEAN
      /\ h_sessions = [j \in JoinIds |-> None] /\ pool = [j \in JoinIds |-> "none"]
      /\ p_events = {} /\ removes = {} /\ refused = {} /\ h_told = {}
  BY DEF Http!Init, Http!SignalerInit, Http!Joins, JoinIds
<1>2. output \in Seq(HttpOutput) /\ DOMAIN output = {}
  BY <1>1, EmptySeq
<1>3. reqs \in Seq([connection : Connections,
                    request : {[path |-> "join", method |-> "POST", valid |-> TRUE]}])
  BY <1>1, EmptySeq
<1>4. HttpTypes
  BY <1>1, <1>2, <1>3, GameAssumption DEF HttpTypes, Http!TypeOK, Http!Joins, JoinIds
<1>5. Frames /\ Tables
  BY <1>1 DEF Frames, Tables
<1>6. Offers
  BY <1>1, <1>2 DEF Offers, Once, Offered, Has
<1>7. Listed
  BY <1>1 DEF Listed
<1> QED
  BY <1>4, <1>5, <1>6, <1>7 DEF HttpInv

LEMMA HttpStepInv == HttpInv /\ Http!Next => HttpInv'
<1> SUFFICES ASSUME HttpInv, Http!Next PROVE HttpInv'
  OBVIOUS
<1>1. CASE \E j \in JoinIds : \/ Http!disconnect(j)
                              \/ Http!PoolOpens(j) \/ Http!PoolFails(j) \/ Http!PoolRemoves(j)
  BY <1>1, HttpDisconnectInv, HttpPoolInv
<1>2. CASE Http!set_identity
  BY <1>2, SetIdentityInv
<1>3. CASE \E c \in Connections : Http!Accept(c, client)
  BY <1>3, AcceptInv
<1>4. CASE Http!BeginUpdate \/ Http!BeginPump
  BY <1>4, HttpBeginInv
<1>5. CASE \E c \in Connections : \/ Http!PumpCloses(c) \/ Http!PumpLingers(c)
                                  \/ Http!DropClosed(c) \/ Http!DropIdle(c)
  BY <1>5, PumpClosesInv, PumpLingersInv, DropsInv
<1>6. CASE \E c \in h_todo : \E drain \in Http!Drains(c), input \in Http!Inputs(c) :
             Http!Pump(c, drain, input)
  BY <1>6, PumpInv
<1>7. CASE Http!FeedRequest \/ Http!EndPump \/ (output # <<>> /\ Http!HandleResponse(Head(output)))
  BY <1>7, FeedRequestInv, EndPumpInv, HandleResponseInv
<1>8. CASE \E j \in JoinIds : Http!AcceptOffer(j) \/ Http!RefuseOffer(j)
  BY <1>8, AcceptOfferInv, RefuseOfferInv
<1>9. CASE Http!drive_sessions \/ Http!ExpireSessions \/ Http!Tick
  BY <1>9, DriveSessionsInv, ExpireSessionsInv, HttpTickInv
<1> QED
  BY <1>1, <1>2, <1>3, <1>4, <1>5, <1>6, <1>7, <1>8, <1>9
     DEF Http!Next, Http!Frame, Http!Joins, JoinIds
-----------------------------------------------------------------------------
(* Whichever server the game chose                                         *)

LEMMA GameInductive == MCSpec => [](LanInv /\ HttpInv)
<1>1. MCInit => LanInv /\ HttpInv
  BY LanInitInv, HttpInitInv DEF MCInit
<1>2. LanInv /\ HttpInv /\ [MCNext]_allVars => LanInv' /\ HttpInv'
  <2> SUFFICES ASSUME LanInv, HttpInv, [MCNext]_allVars PROVE LanInv' /\ HttpInv'
    OBVIOUS
  <2>1. CASE InLan(Next)
    <3>1. Next /\ UNCHANGED httpVars
      BY <2>1 DEF InLan
    <3> QED
      BY <3>1, LanStepInv, HttpStutter
  <2>2. CASE InHttp(Http!Next)
    <3>1. Http!Next /\ UNCHANGED vars
      BY <2>2 DEF InHttp
    <3> QED
      BY <3>1, LanStepInv, HttpStepInv
  <2>3. CASE UNCHANGED allVars
    <3>1. UNCHANGED vars /\ UNCHANGED httpVars
      BY <2>3 DEF allVars
    <3> QED
      BY <3>1, LanStepInv, HttpStutter
  <2> QED
    BY <2>1, <2>2, <2>3 DEF MCNext
<1> QED
  BY <1>1, <1>2, PTL DEF MCSpec

\* Between two frames the table of connections and the signaler hold the same
\* ones, those aside that were refused, no join waits and no output is queued:
\* update() leaves nothing half done, whatever order connections close, time out,
\* ask and are answered in.
THEOREM TablesAgree == MCSpec => []ConnectionsAgree
<1>1. HttpInv => ConnectionsAgree
  <2> SUFFICES ASSUME HttpInv, h_at = "app"
               PROVE  /\ \A c \in Connections : connections[c] # None => c \in Http!Conns
                      /\ \A c \in Http!Conns \ refused : connections[c] # None
                      /\ Http!PendingJoins = {} /\ output = <<>>
    BY DEF ConnectionsAgree, Http!ConnectionsAgree
  <2>1. output = <<>>
    BY DEF HttpInv, Frames
  <2>2. \A j \in JoinIds : ~ Offered(j)
    BY <2>1 DEF Offered, Has
  <2>3. Http!PendingJoins = {}
    BY <2>2 DEF HttpInv, Offers, Http!PendingJoins, Http!Joins, JoinIds
  <2> QED
    BY <2>1, <2>3 DEF HttpInv, Tables, Http!Conns
<1> QED
  BY <1>1, GameInductive, PTL

\* What either server told the game is what it lists, and what it lists is a
\* session of its pool that runs or one whose failure is on its way to the game:
\* no failure, disconnect or timeout leaves a session the game believes in.
THEOREM GameIsTold == MCSpec => []SessionsAreTold
<1>1. LanInv /\ HttpInv => SessionsAreTold
  <2> SUFFICES ASSUME LanInv, HttpInv PROVE SessionsAreTold
    OBVIOUS
  <2>1. ToldWhatIsListed
    BY DEF LanInv, GameInv
  <2>2. Http!SessionsAreReal
    BY DEF HttpInv, Listed, Http!SessionsAreReal, Http!Open, Http!Joins, JoinIds
  <2> QED
    BY <2>1, <2>2 DEF SessionsAreTold
<1> QED
  BY <1>1, GameInductive, PTL
=============================================================================
