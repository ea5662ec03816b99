------------------------- MODULE NetherClientProofs -------------------------
(***************************************************************************)
(* Proofs about the tokio client and the HTTP client of a game, for any    *)
(* number of attempts, writes and joins, whatever the peer signals.        *)
(***************************************************************************)
EXTENDS MCClients, SequenceTheorems, TLAPS

\* An error is returned once, by the attempt that is the last.
ErrorIsFinal == error # None => phase = "failed"

\* The inductive invariant.
ClientInv ==
  /\ TypeOK
  /\ SpawnedIsDescribed
  /\ RefusedIsOwn
  /\ OneSession
  /\ WritesAreAccounted
  /\ ErrorIsFinal

\* There is a first attempt, also if the configuration asks for none.
LEMMA AttemptsType == attempts \in Nat /\ 1 \in Attempts
  BY NetherClientAssumption DEF attempts, Attempts

\* Initially nothing is offered, spawned or written.
LEMMA ClientInitInv == Init => ClientInv
<1> SUFFICES ASSUME Init PROVE ClientInv
  OBVIOUS
<1>1. TypeOK
  <2>1. trickle \in BOOLEAN /\ need_candidate \in BOOLEAN /\ cancelled \in BOOLEAN
    BY DEF Init
  <2>2. /\ attempt \in Attempts /\ left \in 0 .. Negotiation
        /\ session \in [Attempts -> {"none", "opening", "open", "ended"}]
    BY AttemptsType, NetherClientAssumption DEF Init
  <2> QED
    BY <2>1, <2>2 DEF Init, TypeOK
<1>2. SpawnedIsDescribed /\ OneSession /\ ErrorIsFinal /\ WritesAreAccounted
  BY NetherClientAssumption DEF Init, SpawnedIsDescribed, OneSession, ErrorIsFinal, WritesAreAccounted
<1>3. RefusedIsOwn
  BY NetherClientAssumption DEF Init, RefusedIsOwn
<1> QED
  BY <1>1, <1>2, <1>3 DEF ClientInv

\* A failed attempt takes its session with it, and is followed by another one or
\* by the error; an error of the peer needs one about this attempt.
LEMMA FailInv ==
  ASSUME ClientInv, phase \in {"offer", "negotiate", "establish"},
         NEW e \in {"timeout", "closed", "signaled", "other"}, Fail(e),
         e = "signaled" => [conn |-> attempt, type |-> "error"] \in sent
  PROVE  ClientInv'
<1> USE DEF ClientInv
<1>1. /\ session' \in [Attempts -> {"none", "opening", "open", "ended"}]
      /\ closed' \subseteq Attempts
      /\ \A a \in Attempts : session'[a] \notin {"opening", "open"}
  <2>1. CASE session[attempt] = "none"
    BY <2>1 DEF Fail, DropSession, TypeOK, OneSession
  <2>2. CASE session[attempt] # "none"
    BY <2>2 DEF Fail, DropSession, TypeOK, OneSession
  <2> QED
    BY <2>1, <2>2
<1>2. /\ UNCHANGED <<trickle, need_candidate, left, cancelled, ready, forwarding, streamVars, sent>>
      /\ error = None
  BY DEF Fail, ErrorIsFinal
<1>3. CASE e = "timeout" /\ attempt < attempts
  <2>1. attempt' = attempt + 1 /\ phase' = "offer" /\ error' = error /\ described' = None
    BY <1>3 DEF Fail
  <2>2. attempt' \in Attempts
    BY <1>3, <2>1, AttemptsType DEF TypeOK, Attempts
  <2>3. TypeOK'
    BY <1>1, <1>2, <2>1, <2>2 DEF TypeOK, streamVars
  <2>4. SpawnedIsDescribed' /\ OneSession' /\ ErrorIsFinal' /\ WritesAreAccounted'
    BY <1>1, <1>2, <2>1 DEF SpawnedIsDescribed, OneSession, ErrorIsFinal, WritesAreAccounted, streamVars
  <2>5. RefusedIsOwn'
    BY <1>2, <2>1, NetherClientAssumption DEF RefusedIsOwn
  <2> QED
    BY <2>3, <2>4, <2>5
<1>4. CASE ~ (e = "timeout" /\ attempt < attempts)
  <2>1. phase' = "failed" /\ error' = e /\ attempt' = attempt /\ described' = described
    BY <1>4 DEF Fail
  <2>2. TypeOK'
    BY <1>1, <1>2, <2>1 DEF TypeOK, streamVars
  <2>3. SpawnedIsDescribed' /\ OneSession' /\ ErrorIsFinal' /\ WritesAreAccounted'
    BY <1>1, <1>2, <2>1 DEF SpawnedIsDescribed, OneSession, ErrorIsFinal, WritesAreAccounted, streamVars
  <2>4. RefusedIsOwn'
    BY <1>2, <2>1 DEF RefusedIsOwn
  <2> QED
    BY <2>2, <2>3, <2>4
<1> QED
  BY <1>3, <1>4

\* An answer is taken from the attempt's own signals only, and may spawn.
LEMMA AnswerInv ==
  ASSUME ClientInv, NEW s \in sent, HandleAnswer(s)
  PROVE  ClientInv'
<1> USE DEF ClientInv
<1>1. /\ s.conn = attempt /\ attempt \in Attempts /\ described' = attempt /\ phase = "negotiate"
      /\ UNCHANGED <<trickle, attempt, error, need_candidate, left, cancelled, streamVars, sent>>
  BY DEF HandleAnswer, Matches, TypeOK
<1>2. CASE need_candidate
  <2>1. UNCHANGED <<phase, sessionVars>>
    BY <1>2 DEF HandleAnswer
  <2>2. TypeOK'
    BY <1>1, <2>1 DEF TypeOK, sessionVars, streamVars
  <2> QED
    BY <1>1, <2>1, <2>2 DEF SpawnedIsDescribed, RefusedIsOwn, OneSession, ErrorIsFinal,
       WritesAreAccounted, sessionVars, streamVars
<1>3. CASE ~ need_candidate
  <2>1. /\ phase' = "establish" /\ session' = [session EXCEPT ![attempt] = "opening"]
        /\ forwarding' = forwarding \cup {attempt}
        /\ UNCHANGED <<ready, closed>>
    BY <1>3 DEF HandleAnswer, Spawn
  <2>2. TypeOK'
    BY <1>1, <2>1 DEF TypeOK, streamVars
  <2>3. OneSession'
    BY <1>1, <2>1 DEF OneSession, TypeOK
  <2>4. SpawnedIsDescribed' /\ RefusedIsOwn' /\ ErrorIsFinal' /\ WritesAreAccounted'
    BY <1>1, <2>1 DEF SpawnedIsDescribed, RefusedIsOwn, ErrorIsFinal, WritesAreAccounted, streamVars
  <2> QED
    BY <2>2, <2>3, <2>4
<1> QED
  BY <1>2, <1>3

\* The rest of connect_with.
LEMMA ConnectInv ==
  ASSUME ClientInv, Connect
  PROVE  ClientInv'
<1> USE DEF ClientInv
<1>1. CASE SendOffer
  <2>1. /\ sent' \subseteq Signals /\ sent \subseteq sent'
    <3>1. [conn |-> attempt, type |-> "answer"] \in Signals
      BY DEF TypeOK, Signals, SignalTypes
    <3> QED
      BY <1>1, <3>1 DEF SendOffer, TypeOK
  <2>2. TypeOK'
    <3>1. need_candidate' \in BOOLEAN
      BY <1>1 DEF SendOffer, TypeOK
    <3>2. left' \in 0 .. Negotiation
      BY <1>1, NetherClientAssumption DEF SendOffer
    <3> QED
      BY <1>1, <2>1, <3>1, <3>2 DEF SendOffer, TypeOK, sessionVars, streamVars
  <2>3. OneSession' /\ SpawnedIsDescribed'
    BY <1>1 DEF SendOffer, OneSession, SpawnedIsDescribed, sessionVars
  <2>4. RefusedIsOwn' /\ ErrorIsFinal' /\ WritesAreAccounted'
    BY <1>1, <2>1 DEF SendOffer, RefusedIsOwn, ErrorIsFinal, WritesAreAccounted, streamVars
  <2> QED
    BY <2>2, <2>3, <2>4
<1>2. CASE OfferFails \/ NegotiationTimeout \/ EstablishClosed \/ EstablishTimeout \/ Cancelled
  BY <1>2, FailInv DEF OfferFails, NegotiationTimeout, EstablishClosed, EstablishTimeout, Cancelled
<1>3. ASSUME NEW s \in sent, HandleCandidate(s) PROVE ClientInv'
  <2>1. TypeOK'
    BY <1>3 DEF HandleCandidate, TypeOK, resultVars, sessionVars, streamVars
  <2> QED
    BY <1>3, <2>1 DEF HandleCandidate, SpawnedIsDescribed, RefusedIsOwn, OneSession, ErrorIsFinal,
       WritesAreAccounted, resultVars, sessionVars, streamVars
<1>4. ASSUME NEW s \in sent, HandleRefusal(s) \/ RefuseSignal(s) PROVE ClientInv'
  <2>1. CASE RefuseSignal(s)
    BY <2>1, FailInv DEF RefuseSignal
  <2>2. CASE HandleRefusal(s) /\ s.type = "offer"
    BY <2>2, FailInv DEF HandleRefusal
  <2>3. CASE HandleRefusal(s) /\ s.type = "error"
    <3>1. s = [conn |-> attempt, type |-> "error"]
      BY <2>3 DEF HandleRefusal, Matches, TypeOK, Signals
    <3> QED
      BY <2>3, <3>1, FailInv DEF HandleRefusal
  <2> QED
    BY <1>4, <2>1, <2>2, <2>3 DEF HandleRefusal
<1>5. CASE Connected
  <2>1. TypeOK'
    BY <1>5 DEF Connected, TypeOK, attemptVars, sessionVars, streamVars
  <2> QED
    BY <1>5, <2>1 DEF Connected, SpawnedIsDescribed, RefusedIsOwn, OneSession, ErrorIsFinal,
       WritesAreAccounted, attemptVars, sessionVars, streamVars
<1> QED
  BY <1>1, <1>2, <1>3, <1>4, <1>5, AnswerInv DEF Connect

\* Reads, writes and the end of the connected client.
LEMMA StreamInv ==
  ASSUME ClientInv, Stream
  PROVE  ClientInv'
<1> USE DEF ClientInv
<1>1. CASE poll_write \/ poll_flush \/ poll_shutdown \/ close
  <2>1. /\ UNCHANGED <<trickle, attemptVars, resultVars, cancelled, session, ready, forwarding, handled, sent>>
        /\ phase = "connected"
        /\ closed' \subseteq Attempts
    BY <1>1 DEF poll_write, poll_flush, poll_shutdown, close, TypeOK, sessionVars, streamVars
  <2>2. /\ send_future' \in {None, "queued", "ok", "error"}
        /\ reported' \in Nat /\ written' \in Nat
        /\ WritesAreAccounted'
    BY <1>1, <2>1, NetherClientAssumption DEF poll_write, poll_flush, poll_shutdown, close, TypeOK,
       WritesAreAccounted, sessionVars, streamVars, resultVars
  <2>3. TypeOK'
    BY <2>1, <2>2 DEF TypeOK, attemptVars, resultVars
  <2> QED
    BY <2>1, <2>2, <2>3 DEF SpawnedIsDescribed, RefusedIsOwn, OneSession, ErrorIsFinal, attemptVars, resultVars
<1>2. CASE Drop
  <2>1. /\ session' \in [Attempts -> {"none", "opening", "open", "ended"}]
        /\ closed' \subseteq Attempts
        /\ \A a \in Attempts : session'[a] \notin {"opening", "open"}
    BY <1>2 DEF Drop, DropSession, TypeOK, OneSession
  <2>2. TypeOK'
    BY <1>2, <2>1 DEF Drop, TypeOK, attemptVars
  <2> QED
    BY <1>2, <2>1, <2>2 DEF Drop, SpawnedIsDescribed, RefusedIsOwn, OneSession, ErrorIsFinal,
       WritesAreAccounted, attemptVars
<1> QED
  BY <1>1, <1>2 DEF Stream

\* Drivers, forwarders, the peer and time.
LEMMA TasksInv ==
  ASSUME ClientInv, Tasks \/ CancelConfig \/ (\E s \in Signals : PeerSignals(s)) \/ Tick
  PROVE  ClientInv'
<1> USE DEF ClientInv
<1>1. ASSUME NEW a \in Attempts, DriverReady(a) PROVE ClientInv'
  <2>1. TypeOK' /\ OneSession'
    BY <1>1 DEF DriverReady, TypeOK, OneSession, attemptVars, resultVars, streamVars
  <2> QED
    BY <1>1, <2>1 DEF DriverReady, SpawnedIsDescribed, RefusedIsOwn, ErrorIsFinal,
       WritesAreAccounted, attemptVars, resultVars, streamVars
<1>2. ASSUME NEW a \in Attempts, DriverEnds(a) PROVE ClientInv'
  <2>1. TypeOK' /\ OneSession'
    BY <1>2 DEF DriverEnds, TypeOK, OneSession, attemptVars, resultVars
  <2> QED
    BY <1>2, <2>1 DEF DriverEnds, SpawnedIsDescribed, RefusedIsOwn, ErrorIsFinal,
       WritesAreAccounted, attemptVars, resultVars
<1>3. ASSUME NEW a \in Attempts, DriverSends(a) PROVE ClientInv'
  <2>1. TypeOK'
    BY <1>3 DEF DriverSends, TypeOK, attemptVars, resultVars, sessionVars
  <2>2. WritesAreAccounted'
    BY <1>3, NetherClientAssumption DEF DriverSends, TypeOK, WritesAreAccounted, resultVars
  <2> QED
    BY <1>3, <2>1, <2>2 DEF DriverSends, SpawnedIsDescribed, RefusedIsOwn, ErrorIsFinal,
       OneSession, attemptVars, resultVars, sessionVars
<1>4. ASSUME NEW s \in sent, Forward(s) PROVE ClientInv'
  <2>1. TypeOK'
    BY <1>4 DEF Forward, TypeOK, attemptVars, resultVars, streamVars
  <2> QED
    BY <1>4, <2>1 DEF Forward, SpawnedIsDescribed, RefusedIsOwn, ErrorIsFinal, OneSession,
       WritesAreAccounted, attemptVars, resultVars, streamVars
<1>5. CASE CancelConfig
  <2>1. TypeOK'
    BY <1>5 DEF CancelConfig, TypeOK, attemptVars, resultVars, sessionVars, streamVars
  <2> QED
    BY <1>5, <2>1 DEF CancelConfig, SpawnedIsDescribed, RefusedIsOwn, ErrorIsFinal, OneSession,
       WritesAreAccounted, attemptVars, resultVars, sessionVars, streamVars
<1>6. ASSUME NEW s \in Signals, PeerSignals(s) PROVE ClientInv'
  <2>1. TypeOK'
    BY <1>6 DEF PeerSignals, TypeOK, attemptVars, resultVars, sessionVars, streamVars
  <2> QED
    BY <1>6, <2>1 DEF PeerSignals, SpawnedIsDescribed, RefusedIsOwn, ErrorIsFinal, OneSession,
       WritesAreAccounted, attemptVars, resultVars, sessionVars, streamVars
<1>7. CASE Tick
  <2>1. left' \in 0 .. Negotiation
    BY <1>7, NetherClientAssumption DEF Tick, TypeOK
  <2>2. TypeOK'
    BY <1>7, <2>1 DEF Tick, TypeOK, resultVars, sessionVars, streamVars
  <2> QED
    BY <1>7, <2>2 DEF Tick, SpawnedIsDescribed, RefusedIsOwn, ErrorIsFinal, OneSession,
       WritesAreAccounted, resultVars, sessionVars, streamVars
<1> QED
  BY <1>1, <1>2, <1>3, <1>4, <1>5, <1>6, <1>7 DEF Tasks

\* Every step keeps the invariant.
LEMMA ClientNextInv == ClientInv /\ [Next]_vars => ClientInv'
<1> SUFFICES ASSUME ClientInv, [Next]_vars PROVE ClientInv'
  OBVIOUS
<1>1. CASE UNCHANGED vars
  BY <1>1 DEF vars, ClientInv, TypeOK, SpawnedIsDescribed, RefusedIsOwn, ErrorIsFinal, OneSession,
     WritesAreAccounted, attemptVars, resultVars, sessionVars, streamVars
<1> QED
  BY <1>1, ConnectInv, StreamInv, TasksInv DEF Next
-----------------------------------------------------------------------------
\* The inductive invariant holds throughout.
THEOREM ClientInvariant == Spec => []ClientInv
  BY ClientInitInv, ClientNextInv, PTL DEF Spec

\* Whatever the order of signals, a session is spawned with the answer to the
\* offer of its own attempt (client.rs 233-302).
THEOREM SpawnsAreDescribed == Spec => []SpawnedIsDescribed
<1>1. ClientInv => SpawnedIsDescribed
  BY DEF ClientInv
<1> QED
  BY <1>1, ClientInvariant, PTL

\* An error the peer signals about one attempt is not returned for another
\* (client.rs 237-240, 274-277).
THEOREM RefusalsAreOwn == Spec => []RefusedIsOwn
<1>1. ClientInv => RefusedIsOwn
  BY DEF ClientInv
<1> QED
  BY <1>1, ClientInvariant, PTL

\* However many attempts are made, one session is alive at most, and none once
\* connect_with failed or the client is dropped (client.rs 108-151).
THEOREM OneSessionAtMost == Spec => []OneSession
<1>1. ClientInv => OneSession
  BY DEF ClientInv
<1> QED
  BY <1>1, ClientInvariant, PTL

\* For any number of writes, none that returned Ok is lost without a word
\* (client.rs 389-465).
THEOREM WritesStayAccounted == Spec => []WritesAreAccounted
<1>1. ClientInv => WritesAreAccounted
  BY DEF ClientInv
<1> QED
  BY <1>1, ClientInvariant, PTL
-----------------------------------------------------------------------------
(* The HTTP client of a game: the pool and what the client holds of it     *)

Said(kind) == \E i \in DOMAIN events : events[i].kind = kind

\* The session of the pool, None once it failed.
Entry == entries[Key]

HttpTypes ==
  /\ commands \in Seq(Http!CommandType)
  /\ events \in Seq(Http!EventType)
  /\ entries \in [{Key} -> Http!EntryType \cup {None}]
  /\ c_created \in 0 .. MaxSessions
  /\ has_pool \in BOOLEAN /\ is_connected \in BOOLEAN /\ connected = has_pool
  /\ c_at \in {"app", "join", "add", "drive"}

\* What the pool's thread has left to do in a round.
Rounds ==
  /\ todo \subseteq {Key} /\ failed \subseteq {Key}
  /\ todo # {} \/ failed # {} => Entry # None
  /\ pool_at \in {"receive", "commands"} => todo = {} /\ failed = {}
  /\ pool_at = "fail" => todo = {}

\* There is a pool from the answer to a join to the end of its connection; it is
\* empty otherwise, while a join is under way too.
PoolOfJoin ==
  /\ join # None \/ c_at = "add" => ~ has_pool
  /\ c_at = "add" => join = None
  /\ join # None \/ c_at = "add" \/ has_pool => c_created > 0
  /\ ~ has_pool /\ c_at # "add" => commands = <<>> /\ events = <<>> /\ Entry = None
  /\ c_at = "add" /\ commands # <<>> =>
       /\ commands = <<[kind |-> "Add", key |-> Key, gen |-> c_created]>>
       /\ events = <<>> /\ Entry = None
  /\ has_pool => \A i \in DOMAIN commands : commands[i].kind = "Send"

\* Its session is that of the newest join, and the game hears of its end.
SessionOfJoin ==
  /\ has_pool \/ (c_at = "add" /\ commands = <<>>) =>
       IF Entry = None THEN Said("Failed") ELSE Entry.gen = c_created
  /\ Said("Ready") \/ is_connected => Entry = None \/ Entry.phase = "open"
  /\ is_connected => has_pool /\ last = "Connected"

HttpClientInv == HttpTypes /\ Rounds /\ PoolOfJoin /\ SessionOfJoin

\* What the client keeps while the pool's thread runs.
held == <<join, has_pool, connected, is_connected, c_at, c_created, last>>

\* The kinds of the events queued by a step.
LEMMA SaidMore ==
  ASSUME events \in Seq(Http!EventType), NEW e \in Http!EventType,
         events' = Append(events, e)
  PROVE  /\ events' \in Seq(Http!EventType)
         /\ \A kind : Said(kind)' <=> Said(kind) \/ e.kind = kind
<1>1. /\ events' \in Seq(Http!EventType)
      /\ Len(events') = Len(events) + 1 /\ Len(events) \in Nat
      /\ events'[Len(events) + 1] = e
      /\ \A i \in 1 .. Len(events) : events'[i] = events[i]
  BY AppendProperties
<1>2. DOMAIN events = 1 .. Len(events) /\ DOMAIN events' = 1 .. Len(events')
  BY <1>1, LenProperties
<1>3. 1 .. Len(events') = (1 .. Len(events)) \cup {Len(events) + 1}
  BY <1>1
<1> QED
  BY <1>1, <1>2, <1>3 DEF Said

\* A Connection after a datagram is the same one, and an open one stays open.
LEMMA AdvancedEntry ==
  ASSUME NEW e \in Http!EntryType, NEW from \in Addrs, NEW d
  PROVE  /\ Http!Advanced(e, from, d) \in Http!EntryType
         /\ Http!Advanced(e, from, d).gen = e.gen
         /\ e.phase = "open" => Http!Advanced(e, from, d).phase = "open"
<1>1. /\ [e EXCEPT !.phase = "heard"] \in Http!EntryType
      /\ [e EXCEPT !.phase = "heard"].gen = e.gen
  BY DEF Http!EntryType, Http!Phases
<1>2. /\ [e EXCEPT !.phase = "selected", !.selected = from] \in Http!EntryType
      /\ [e EXCEPT !.phase = "selected", !.selected = from].gen = e.gen
  BY DEF Http!EntryType, Http!Phases
<1> QED
  BY <1>1, <1>2, Zenon DEF Http!Advanced

LEMMA HttpReceiveInv ==
  ASSUME HttpClientInv, UNCHANGED held, NEW a \in Addrs, NEW d, Http!Receive(a, d)
  PROVE  HttpClientInv'
<1>1. UNCHANGED <<commands, events, todo, failed>> /\ pool_at' = "commands" /\ pool_at = "receive"
  BY DEF Http!Receive
<1>2. PICK taken \in SUBSET (Http!route(a, d) \cap Http!Live) :
        entries' = [k \in {Key} |-> IF k \in taken THEN Http!Advanced(entries[k], a, d) ELSE entries[k]]
  BY DEF Http!Receive
<1>3. Entry \in Http!EntryType \cup {None} /\ None \notin Http!EntryType
  BY GameAssumption DEF HttpClientInv, HttpTypes, Entry
<1>4. \/ entries' = [k \in {Key} |-> Entry]
      \/ Entry # None /\ entries' = [k \in {Key} |-> Http!Advanced(Entry, a, d)]
  BY <1>2 DEF Http!Live, Entry
<1>5. /\ Entry' = None <=> Entry = None
      /\ entries' \in [{Key} -> Http!EntryType \cup {None}]
      /\ Entry # None => Entry'.gen = Entry.gen /\ (Entry.phase = "open" => Entry'.phase = "open")
  <2>1. CASE entries' = [k \in {Key} |-> Entry]
    BY <2>1, <1>3 DEF Entry
  <2>2. CASE Entry # None /\ entries' = [k \in {Key} |-> Http!Advanced(Entry, a, d)]
    <3>1. Entry' = Http!Advanced(Entry, a, d)
      BY <2>2 DEF Entry
    <3> QED
      BY <2>2, <3>1, <1>3, AdvancedEntry, Zenon
  <2> QED
    BY <1>4, <2>1, <2>2
<1>6. Said("Failed")' = Said("Failed") /\ Said("Ready")' = Said("Ready")
  BY <1>1 DEF Said
<1>7. HttpTypes' /\ Rounds' /\ PoolOfJoin'
  BY <1>1, <1>5 DEF HttpClientInv, HttpTypes, Rounds, PoolOfJoin, held
<1> QED
  BY <1>1, <1>5, <1>6, <1>7 DEF HttpClientInv, SessionOfJoin, held
\* The thread has no command left, or waits for no datagram.
LEMMA HttpPollsInv ==
  ASSUME HttpClientInv, UNCHANGED held, Http!ReceiveTimeout \/ Http!EndCommands
  PROVE  HttpClientInv'
<1>1. UNCHANGED <<commands, events, entries, failed>>
  BY DEF Http!ReceiveTimeout, Http!EndCommands
<1>2. Said("Failed")' = Said("Failed") /\ Said("Ready")' = Said("Ready")
  BY <1>1 DEF Said
<1>3. HttpTypes' /\ PoolOfJoin' /\ SessionOfJoin'
  BY <1>1, <1>2 DEF HttpClientInv, HttpTypes, PoolOfJoin, SessionOfJoin, held, Entry
<1>4. Rounds'
  <2>1. CASE Http!ReceiveTimeout
    BY <1>1, <2>1 DEF HttpClientInv, Rounds, Http!ReceiveTimeout, Entry
  <2>2. CASE Http!EndCommands
    BY <1>1, <2>2 DEF HttpClientInv, Rounds, Http!EndCommands, Http!Live, Entry
  <2> QED
    BY <2>1, <2>2
<1> QED
  BY <1>3, <1>4 DEF HttpClientInv

\* The only Add is that of the newest join, in a new pool.
LEMMA HttpExecuteInv ==
  ASSUME HttpClientInv, UNCHANGED held, has_pool \/ c_at = "add", Http!Execute
  PROVE  HttpClientInv'
<1>1. /\ UNCHANGED <<events, pool_at, todo, failed>>
      /\ commands # <<>> /\ commands' = Tail(commands)
  BY DEF Http!Execute
<1>2. Said("Failed")' = Said("Failed") /\ Said("Ready")' = Said("Ready")
  BY <1>1 DEF Said
<1>3. /\ commands \in Seq(Http!CommandType) /\ commands' \in Seq(Http!CommandType)
      /\ Len(commands) \in Nat /\ Len(commands) > 0 /\ Len(commands') = Len(commands) - 1
      /\ \A i \in 1 .. Len(commands) - 1 : commands'[i] = commands[i + 1]
      /\ DOMAIN commands = 1 .. Len(commands) /\ DOMAIN commands' = 1 .. Len(commands) - 1
  BY <1>1, HeadTailProperties, LenProperties, EmptySeq DEF HttpClientInv, HttpTypes
<1>4. CASE c_at = "add"
  <2>1. /\ commands = <<[kind |-> "Add", key |-> Key, gen |-> c_created]>>
        /\ events = <<>> /\ Entry = None /\ ~ has_pool /\ c_created > 0
    BY <1>1, <1>4 DEF HttpClientInv, PoolOfJoin
  <2>2. PICK c : c = Head(commands)
    OBVIOUS
  <2>3. c = [kind |-> "Add", key |-> Key, gen |-> c_created]
    BY <2>1, <2>2
  <2>4. c.kind = "Add" /\ c.key = Key /\ c.gen = c_created
    BY <2>3
  <2>5. entries' = [entries EXCEPT ![Key] = Http!NewEntry(c_created)]
    BY <2>2, <2>4 DEF Http!Execute
  <2>6. c_created \in 1 .. MaxSessions
    BY <2>1, GameAssumption DEF HttpClientInv, HttpTypes
  <2>7. Http!NewEntry(c_created) \in Http!EntryType /\ Http!NewEntry(c_created).gen = c_created
    BY <2>6 DEF Http!NewEntry, Http!EntryType, Http!Gens, Http!Phases
  <2>8. /\ entries' \in [{Key} -> Http!EntryType \cup {None}]
        /\ Entry' # None /\ Entry'.gen = c_created
    BY <2>5, <2>7, GameAssumption DEF HttpClientInv, HttpTypes, Entry
  <2>9. commands' = <<>> /\ ~ Said("Ready") /\ ~ is_connected
    BY <1>1, <2>1 DEF HttpClientInv, SessionOfJoin, Said
  <2>10. HttpTypes' /\ Rounds' /\ PoolOfJoin'
    BY <1>1, <1>3, <1>4, <2>1, <2>8, <2>9 DEF HttpClientInv, HttpTypes, Rounds, PoolOfJoin, held
  <2>11. SessionOfJoin'
    BY <1>2, <1>4, <2>1, <2>8, <2>9 DEF HttpClientInv, SessionOfJoin, held
  <2> QED
    BY <2>10, <2>11 DEF HttpClientInv
<1>5. CASE c_at # "add"
  <2>1. has_pool /\ \A i \in DOMAIN commands : commands[i].kind = "Send"
    BY <1>5 DEF HttpClientInv, PoolOfJoin
  <2>2. PICK c : c = Head(commands)
    OBVIOUS
  <2>3. c.kind = "Send"
    BY <1>1, <1>3, <2>1, <2>2
  <2>4. UNCHANGED entries
    BY <2>2, <2>3 DEF Http!Execute
  <2>5. \A i \in DOMAIN commands' : commands'[i].kind = "Send"
    <3> SUFFICES ASSUME NEW i \in DOMAIN commands'
                 PROVE  commands'[i].kind = "Send"
      OBVIOUS
    <3>1. i \in 1 .. Len(commands) - 1 /\ i + 1 \in DOMAIN commands
      BY <1>3
    <3> QED
      BY <1>3, <2>1, <3>1
  <2>6. HttpTypes' /\ Rounds' /\ SessionOfJoin'
    BY <1>1, <1>2, <1>3, <1>5, <2>1, <2>4 DEF HttpClientInv, HttpTypes, Rounds, SessionOfJoin, held, Entry
  <2>7. PoolOfJoin'
    BY <1>5, <2>1, <2>5 DEF HttpClientInv, PoolOfJoin, held
  <2> QED
    BY <2>6, <2>7 DEF HttpClientInv
<1> QED
  BY <1>4, <1>5

\* An event of the pool is one of its session.
LEMMA EventOfEntry ==
  ASSUME HttpTypes, Entry # None, NEW kind \in {"Ready", "Failed"}
  PROVE  Http!Event(kind, Key) \in Http!EventType /\ Http!Event(kind, Key).kind = kind
<1>1. Entry \in Http!EntryType
  BY DEF HttpTypes, Entry
<1>2. entries[Key].gen \in Http!Gens
  BY <1>1 DEF Http!EntryType, Entry
<1> QED
  BY <1>2 DEF Http!Event, Http!EventType

\* A session that is polled stays, and opens as it reports Ready.
LEMMA HttpPollInv ==
  ASSUME HttpClientInv, UNCHANGED held, NEW k \in {Key}, NEW out \in {"none", "Ready"},
         NEW to, NEW fails \in BOOLEAN, has_pool \/ c_at = "add", Http!Poll(k, out, to, fails)
  PROVE  HttpClientInv'
<1>1. /\ k = Key /\ pool_at = "poll" /\ k \in todo /\ UNCHANGED commands
      /\ todo' = todo \ {k} /\ out \in Http!Outputs(entries[k])
      /\ failed' = IF fails THEN failed \cup {k} ELSE failed
      /\ events' = IF out = "none" THEN events ELSE Append(events, Http!Event(out, k))
      /\ pool_at' = IF todo' # {} THEN "poll" ELSE IF failed' # {} THEN "fail" ELSE "receive"
  BY DEF Http!Poll
<1>2. Entry # None /\ Entry \in Http!EntryType /\ None \notin Http!EntryType
  BY <1>1, GameAssumption DEF HttpClientInv, HttpTypes, Rounds, Entry
<1>3. PICK e : e = entries[Key]
  OBVIOUS
<1>4. PICK remote : remote = IF e.remote = None THEN e.selected ELSE e.remote
  OBVIOUS
<1>5. PICK new : new = [e EXCEPT !.remote = remote,
                                 !.phase = IF out = "Ready" THEN "open" ELSE e.phase,
                                 !.reported = e.reported \cup ({out} \cap {})]
  OBVIOUS
<1>6. entries' = [entries EXCEPT ![Key] = new]
  BY <1>1, <1>3, <1>4, <1>5 DEF Http!Poll
<1>7. /\ new \in Http!EntryType /\ new.gen = e.gen
      /\ new.phase = IF out = "Ready" THEN "open" ELSE e.phase
  BY <1>2, <1>3, <1>4, <1>5 DEF Http!EntryType, Http!Phases, Entry
<1>8. /\ entries' \in [{Key} -> Http!EntryType \cup {None}]
      /\ Entry' = new /\ Entry' # None /\ Entry'.gen = Entry.gen
      /\ Entry'.phase = IF out = "Ready" THEN "open" ELSE Entry.phase
  BY <1>2, <1>3, <1>6, <1>7 DEF HttpClientInv, HttpTypes, Entry
<1>9. /\ events' \in Seq(Http!EventType)
      /\ Said("Failed") => Said("Failed")'
      /\ Said("Ready")' => Said("Ready") \/ out = "Ready"
  <2>1. CASE out = "none"
    BY <1>1, <2>1 DEF HttpClientInv, HttpTypes, Said
  <2>2. CASE out = "Ready"
    <3>1. PICK v : v = Http!Event(out, k)
      OBVIOUS
    <3>2. v \in Http!EventType /\ v.kind = "Ready"
      BY <1>1, <1>2, <2>2, <3>1, EventOfEntry DEF HttpClientInv
    <3>3. events' = Append(events, v)
      BY <1>1, <2>2, <3>1
    <3> QED
      BY <2>2, <3>2, <3>3, SaidMore DEF HttpClientInv, HttpTypes
  <2> QED
    BY <2>1, <2>2
<1>10. commands = <<>> \/ c_at # "add"
  BY <1>2 DEF HttpClientInv, PoolOfJoin
<1>11. HttpTypes' /\ PoolOfJoin'
  BY <1>1, <1>8, <1>9, <1>10 DEF HttpClientInv, HttpTypes, PoolOfJoin, held
<1>12. Rounds'
  BY <1>1, <1>8 DEF HttpClientInv, Rounds
<1>13. SessionOfJoin'
  BY <1>1, <1>2, <1>8, <1>9, <1>10 DEF HttpClientInv, SessionOfJoin, held
<1> QED
  BY <1>11, <1>12, <1>13 DEF HttpClientInv

\* A session that failed leaves, and the game is told.
LEMMA HttpDropFailedInv ==
  ASSUME HttpClientInv, UNCHANGED held, NEW k \in {Key}, has_pool \/ c_at = "add",
         Http!DropFailed(k)
  PROVE  HttpClientInv'
<1>1. /\ k = Key /\ pool_at = "fail" /\ k \in failed /\ UNCHANGED <<commands, todo>>
      /\ failed' = failed \ {k}
      /\ entries' = [entries EXCEPT ![k] = None]
      /\ events' = Append(events, Http!Event("Failed", k))
      /\ pool_at' = IF failed' # {} THEN "fail" ELSE "receive"
  BY DEF Http!DropFailed
<1>2. Entry # None
  BY <1>1 DEF HttpClientInv, Rounds
<1>3. entries' \in [{Key} -> Http!EntryType \cup {None}] /\ Entry' = None
  BY <1>1 DEF HttpClientInv, HttpTypes, Entry
<1>4. events' \in Seq(Http!EventType) /\ Said("Failed")'
  <2>1. PICK v : v = Http!Event("Failed", k)
    OBVIOUS
  <2>2. v \in Http!EventType /\ v.kind = "Failed"
    BY <1>1, <1>2, <2>1, EventOfEntry DEF HttpClientInv
  <2>3. events' = Append(events, v)
    BY <1>1, <2>1
  <2> QED
    BY <2>2, <2>3, SaidMore DEF HttpClientInv, HttpTypes
<1>5. commands = <<>> \/ c_at # "add"
  BY <1>2 DEF HttpClientInv, PoolOfJoin
<1>6. failed' = {} /\ todo' = {}
  BY <1>1 DEF HttpClientInv, Rounds
<1>7. HttpTypes' /\ PoolOfJoin'
  BY <1>1, <1>3, <1>4, <1>5 DEF HttpClientInv, HttpTypes, PoolOfJoin, held
<1>8. Rounds'
  BY <1>1, <1>6 DEF Rounds
<1>9. SessionOfJoin'
  BY <1>3, <1>4 DEF HttpClientInv, SessionOfJoin, held
<1> QED
  BY <1>7, <1>8, <1>9 DEF HttpClientInv
\* A pool that is dropped takes its session and its events along.
LEMMA DroppedInv ==
  ASSUME HttpClientInv, Http!DropPool, has_pool' = FALSE, connected' = FALSE,
         is_connected' = FALSE, c_at' = "app", c_created' \in 0 .. MaxSessions,
         join' # None => c_created' > 0
  PROVE  HttpClientInv'
<1>1. /\ commands' = <<>> /\ events' = <<>> /\ entries' = [k \in {Key} |-> None]
      /\ pool_at' = "receive" /\ todo' = {} /\ failed' = {}
  BY DEF Http!DropPool
<1>2. Entry' = None /\ entries' \in [{Key} -> Http!EntryType \cup {None}]
  BY <1>1 DEF Entry
<1>3. /\ commands' \in Seq(Http!CommandType) /\ events' \in Seq(Http!EventType)
      /\ ~ Said("Ready")'
  BY <1>1, EmptySeq DEF Said
<1> QED
  BY <1>1, <1>2, <1>3 DEF HttpClientInv, HttpTypes, Rounds, PoolOfJoin, SessionOfJoin

\* The pool is left alone.
LEMMA PoolStays ==
  ASSUME UNCHANGED <<commands, events, entries, pool_at, todo, failed>>
  PROVE  /\ Entry' = Entry
         /\ Said("Failed")' = Said("Failed") /\ Said("Ready")' = Said("Ready")
         /\ Rounds => Rounds'
BY DEF Entry, Said, Rounds

\* connect(), disconnect() and the ends of a connection drop the pool.
LEMMA EndsInv ==
  ASSUME HttpClientInv, \/ Http!connect \/ Http!ConnectFails \/ Http!disconnect
                        \/ Http!PoolFailed \/ Http!GiveUp
  PROVE  HttpClientInv'
<1>1. c_created \in 0 .. MaxSessions /\ MaxSessions \in Nat
  BY GameAssumption DEF HttpClientInv, HttpTypes
<1>2. CASE Http!connect
  <2>1. /\ Http!DropPool /\ has_pool' = FALSE /\ connected' = FALSE /\ is_connected' = FALSE
        /\ c_at' = "app" /\ c_created < MaxSessions /\ c_created' = c_created + 1
    BY <1>2 DEF Http!connect, Http!begin_join
  <2>2. c_created' \in 0 .. MaxSessions /\ c_created' > 0
    BY <1>1, <2>1
  <2> QED
    BY <2>1, <2>2, DroppedInv
<1>3. CASE Http!ConnectFails \/ Http!disconnect \/ Http!PoolFailed \/ Http!GiveUp
  <2>1. Http!Forget /\ c_at' = "app" /\ UNCHANGED c_created
    BY <1>3 DEF Http!ConnectFails, Http!disconnect, Http!PoolFailed, Http!GiveUp
  <2>2. /\ Http!DropPool /\ has_pool' = FALSE /\ connected' = FALSE /\ is_connected' = FALSE
        /\ join' = None
    BY <2>1 DEF Http!Forget
  <2> QED
    BY <1>1, <2>1, <2>2, DroppedInv
<1> QED
  BY <1>2, <1>3

\* A frame that leaves the pool alone, and the time that passes.
LEMMA FrameInv ==
  ASSUME HttpClientInv, \/ Http!query_server_data \/ Http!BeginUpdate \/ Http!JoinPending
                        \/ Http!JoinFails \/ Http!Retry \/ Http!Tick
  PROVE  HttpClientInv'
<1>1. /\ UNCHANGED <<commands, events, entries, pool_at, todo, failed>>
      /\ UNCHANGED <<has_pool, connected, is_connected>>
  BY DEF Http!query_server_data, Http!BeginUpdate, Http!JoinPending, Http!JoinFails,
         Http!Retry, Http!Tick, Http!poolVars
<1>2. c_at # "add" /\ c_at' \in {"app", "join", "drive"}
  BY DEF Http!query_server_data, Http!BeginUpdate, Http!JoinPending, Http!JoinFails,
         Http!Retry, Http!Tick
<1>3. /\ c_created \in 0 .. MaxSessions /\ MaxSessions \in Nat
      /\ has_pool \in BOOLEAN
  BY GameAssumption DEF HttpClientInv, HttpTypes
<1>4. /\ c_created' \in 0 .. MaxSessions
      /\ has_pool => c_created' = c_created
      /\ join' # None => ~ has_pool /\ c_created' > 0
      /\ is_connected => last' = last
  <2>1. CASE Http!Retry
    <3>1. ~ has_pool /\ c_created < MaxSessions /\ c_created' = c_created + 1 /\ UNCHANGED last
      BY <2>1 DEF Http!Retry, Http!begin_join
    <3> QED
      BY <1>3, <3>1
  <2>2. CASE Http!JoinFails
    <3>1. join # None /\ join' = None /\ UNCHANGED c_created
      BY <2>2 DEF Http!JoinFails
    <3>2. ~ is_connected
      BY <3>1 DEF HttpClientInv, PoolOfJoin, SessionOfJoin
    <3> QED
      BY <1>3, <3>1, <3>2
  <2>3. CASE Http!JoinPending
    <3>1. UNCHANGED <<c_created, last>> /\ (join = None => join' = None)
      BY <2>3 DEF Http!JoinPending
    <3> QED
      BY <1>3, <3>1 DEF HttpClientInv, PoolOfJoin
  <2>4. CASE Http!query_server_data \/ Http!BeginUpdate \/ Http!Tick
    <3>1. UNCHANGED <<c_created, last, join>>
      BY <2>4 DEF Http!query_server_data, Http!BeginUpdate, Http!Tick
    <3> QED
      BY <1>3, <3>1 DEF HttpClientInv, PoolOfJoin
  <2> QED
    BY <2>1, <2>2, <2>3, <2>4
<1>5. Rounds'
  BY <1>1, PoolStays DEF HttpClientInv
<1>6. HttpTypes'
  BY <1>1, <1>2, <1>4 DEF HttpClientInv, HttpTypes
<1>7. PoolOfJoin'
  BY <1>1, <1>2, <1>4, PoolStays DEF HttpClientInv, PoolOfJoin
<1>8. SessionOfJoin'
  BY <1>1, <1>2, <1>4, PoolStays DEF HttpClientInv, SessionOfJoin
<1> QED
  BY <1>5, <1>6, <1>7, <1>8 DEF HttpClientInv

\* A join that is answered makes a pool, whose first command adds its session.
LEMMA JoinDoneInv ==
  ASSUME HttpClientInv, Http!JoinDone
  PROVE  HttpClientInv'
<1>1. /\ c_at = "join" /\ join # None /\ join' = None /\ c_at' = "add"
      /\ commands' = <<[kind |-> "Add", key |-> Key, gen |-> c_created]>>
      /\ UNCHANGED <<events, entries, pool_at, todo, failed>>
      /\ UNCHANGED <<has_pool, connected, is_connected, c_created, last>>
  BY DEF Http!JoinDone
<1>2. ~ has_pool /\ c_created > 0 /\ commands = <<>> /\ events = <<>> /\ Entry = None
  BY <1>1 DEF HttpClientInv, PoolOfJoin
<1>3. c_created \in 1 .. MaxSessions
  BY <1>2, GameAssumption DEF HttpClientInv, HttpTypes
<1>4. [kind |-> "Add", key |-> Key, gen |-> c_created] \in Http!CommandType
  BY <1>3 DEF Http!CommandType, Http!Gens
<1>5. commands' \in Seq(Http!CommandType) /\ commands' # <<>>
  <2>1. PICK c : c = [kind |-> "Add", key |-> Key, gen |-> c_created]
    OBVIOUS
  <2> QED
    BY <1>1, <1>4, <2>1
<1>6. Entry' = None /\ ~ Said("Ready")' /\ ~ is_connected
  BY <1>1, <1>2 DEF HttpClientInv, SessionOfJoin, Entry, Said
<1>7. HttpTypes' /\ Rounds'
  BY <1>1, <1>5 DEF HttpClientInv, HttpTypes, Rounds, Entry
<1>8. PoolOfJoin'
  BY <1>1, <1>2, <1>6 DEF PoolOfJoin
<1>9. SessionOfJoin'
  BY <1>1, <1>2, <1>5, <1>6 DEF SessionOfJoin
<1> QED
  BY <1>7, <1>8, <1>9 DEF HttpClientInv

\* The pool has taken its session.
LEMMA HttpAddedInv ==
  ASSUME HttpClientInv, Http!Added
  PROVE  HttpClientInv'
<1>1. /\ c_at = "add" /\ commands = <<>> /\ has_pool' = TRUE /\ connected' = TRUE
      /\ c_at' = "drive"
      /\ UNCHANGED <<commands, events, entries, pool_at, todo, failed>>
      /\ UNCHANGED <<join, is_connected, c_created, last>>
  BY DEF Http!Added, Http!poolVars
<1>2. c_created > 0 /\ join = None /\ DOMAIN commands = {}
  <2>1. ~ has_pool /\ c_created > 0
    BY <1>1 DEF HttpClientInv, PoolOfJoin
  <2> QED
    BY <1>1, <2>1 DEF HttpClientInv, PoolOfJoin
<1>3. HttpTypes' /\ Rounds'
  BY <1>1, PoolStays DEF HttpClientInv, HttpTypes
<1>4. PoolOfJoin'
  BY <1>1, <1>2 DEF HttpClientInv, PoolOfJoin
<1>5. SessionOfJoin'
  BY <1>1, PoolStays DEF HttpClientInv, SessionOfJoin
<1> QED
  BY <1>3, <1>4, <1>5 DEF HttpClientInv
LEMMA SendOnInv ==
  ASSUME HttpClientInv, Http!send_on
  PROVE  HttpClientInv'
<1>1. PICK c : c = [kind |-> "Send", key |-> Key, gen |-> c_created]
  OBVIOUS
<1>2. /\ c_at = "app" /\ connected /\ commands' = Append(commands, c)
      /\ UNCHANGED <<events, entries, pool_at, todo, failed>>
      /\ UNCHANGED <<join, has_pool, connected, is_connected, c_at, c_created, last>>
  BY <1>1 DEF Http!send_on, Http!joinVars
<1>3. has_pool /\ c_created > 0
  BY <1>2 DEF HttpClientInv, HttpTypes, PoolOfJoin
<1>4. c_created \in 1 .. MaxSessions
  BY <1>3, GameAssumption DEF HttpClientInv, HttpTypes
<1>5. c \in Http!CommandType /\ c.kind = "Send"
  BY <1>1, <1>4 DEF Http!CommandType, Http!Gens
<1>6. commands' \in Seq(Http!CommandType) /\ \A i \in DOMAIN commands' : commands'[i].kind = "Send"
  <2>1. /\ commands' \in Seq(Http!CommandType)
        /\ Len(commands') = Len(commands) + 1 /\ Len(commands) \in Nat
        /\ commands'[Len(commands) + 1] = c
        /\ \A i \in 1 .. Len(commands) : commands'[i] = commands[i]
    BY <1>2, <1>5, AppendProperties DEF HttpClientInv, HttpTypes
  <2>2. DOMAIN commands = 1 .. Len(commands) /\ DOMAIN commands' = 1 .. Len(commands) + 1
    BY <2>1, LenProperties DEF HttpClientInv, HttpTypes
  <2>3. \A i \in DOMAIN commands : commands[i].kind = "Send"
    BY <1>3 DEF HttpClientInv, PoolOfJoin
  <2> QED
    BY <1>5, <2>1, <2>2, <2>3
<1>7. Entry' = Entry /\ Said("Failed")' = Said("Failed") /\ Said("Ready")' = Said("Ready")
  BY <1>2 DEF Entry, Said
<1>8. HttpTypes' /\ Rounds'
  BY <1>2, <1>6, <1>7 DEF HttpClientInv, HttpTypes, Rounds
<1>9. PoolOfJoin' /\ SessionOfJoin'
  BY <1>2, <1>3, <1>6, <1>7 DEF HttpClientInv, PoolOfJoin, SessionOfJoin
<1> QED
  BY <1>8, <1>9 DEF HttpClientInv

\* The events of a frame: Ready is taken from a pool that is there, and its
\* session is open or gone; a Failed is not taken here.
LEMMA EndUpdateInv ==
  ASSUME HttpClientInv, Http!EndUpdate
  PROVE  HttpClientInv'
<1>1. /\ c_at = "drive" /\ c_at' = "app" /\ ~ Http!Got("Failed")
      /\ events' = IF has_pool THEN <<>> ELSE events
      /\ UNCHANGED <<commands, entries, pool_at, todo, failed>>
      /\ UNCHANGED <<join, has_pool, connected, c_created>>
      /\ is_connected' = (is_connected \/ Http!Announces)
      /\ last' = IF Http!Announces THEN "Connected" ELSE last
  BY DEF Http!EndUpdate
<1>2. /\ Http!Got("Failed") <=> has_pool /\ Said("Failed")
      /\ Http!Announces <=> has_pool /\ Said("Ready") /\ ~ is_connected
  BY DEF Http!Got, Http!Announces, Said
<1>3. Entry' = Entry
  BY <1>1 DEF Entry
<1>4. events' = <<>>
  BY <1>1 DEF HttpClientInv, HttpTypes, PoolOfJoin
<1>5. events' \in Seq(Http!EventType) /\ ~ Said("Ready")'
  BY <1>4, EmptySeq DEF Said
<1>6. is_connected' \in BOOLEAN
  BY <1>1, Zenon
<1>7. HttpTypes' /\ Rounds' /\ PoolOfJoin'
  BY <1>1, <1>3, <1>4, <1>5, <1>6 DEF HttpClientInv, HttpTypes, Rounds, PoolOfJoin
<1>8. is_connected' => has_pool' /\ last' = "Connected" /\ (Entry' = None \/ Entry'.phase = "open")
  BY <1>1, <1>2, <1>3 DEF HttpClientInv, SessionOfJoin
<1>9. has_pool' => Entry' # None /\ Entry'.gen = c_created'
  BY <1>1, <1>2, <1>3 DEF HttpClientInv, SessionOfJoin
<1> QED
  BY <1>1, <1>5, <1>7, <1>8, <1>9 DEF HttpClientInv, SessionOfJoin
-----------------------------------------------------------------------------
OwnInv == which = "http" => HttpClientInv

LEMMA OwnInitInv == MCInit => OwnInv
<1> SUFFICES ASSUME MCInit PROVE HttpClientInv
  BY DEF OwnInv
<1>1. /\ commands = <<>> /\ events = <<>> /\ entries = [k \in {Key} |-> None]
      /\ pool_at = "receive" /\ todo = {} /\ failed = {}
      /\ join = None /\ has_pool = FALSE /\ connected = FALSE /\ is_connected = FALSE
      /\ c_at = "app" /\ c_created = 0
  BY DEF MCInit, Http!Init, Http!PoolInit
<1>2. Entry = None /\ entries \in [{Key} -> Http!EntryType \cup {None}] /\ ~ Said("Ready")
  BY <1>1 DEF Entry, Said
<1>3. commands \in Seq(Http!CommandType) /\ events \in Seq(Http!EventType)
  BY <1>1, EmptySeq
<1>4. HttpTypes
  <2>1. has_pool \in BOOLEAN /\ is_connected \in BOOLEAN /\ connected = has_pool
    BY <1>1, Zenon
  <2>2. c_created \in 0 .. MaxSessions
    BY <1>1, GameAssumption
  <2> QED
    BY <1>1, <1>2, <1>3, <2>1, <2>2 DEF HttpTypes
<1>5. Rounds /\ PoolOfJoin /\ SessionOfJoin
  BY <1>1, <1>2 DEF Rounds, PoolOfJoin, SessionOfJoin
<1> QED
  BY <1>4, <1>5 DEF HttpClientInv

\* No step of the client or of the pool breaks it.
LEMMA OwnNextInv == OwnInv /\ [MCNext]_allVars => OwnInv'
<1> SUFFICES ASSUME OwnInv, [MCNext]_allVars, which' = "http" PROVE HttpClientInv'
  BY DEF OwnInv
<1>1. which = "http" /\ HttpClientInv /\ (Http!Next \/ UNCHANGED <<lanVars, httpVars>>)
  BY DEF OwnInv, MCNext, InTokio, InLan, InHttp, allVars
<1>2. CASE UNCHANGED <<lanVars, httpVars>>
  <2>1. UNCHANGED <<commands, events, entries, pool_at, todo, failed, join, has_pool, connected,
                    is_connected, c_at, c_created, last>>
    BY <1>2 DEF lanVars, httpVars
  <2> QED
    BY <1>1, <2>1, PoolStays DEF HttpClientInv, HttpTypes, PoolOfJoin, SessionOfJoin
<1>3. CASE Http!PoolRuns
  <2>1. (has_pool \/ c_at = "add") /\ Http!PoolStep /\ UNCHANGED held
    BY <1>3 DEF Http!PoolRuns, Http!joinVars, held
  <2>2. CASE \E a \in Addrs, d \in Http!Datagrams : Http!Receive(a, d)
    BY <1>1, <2>1, <2>2, HttpReceiveInv
  <2>3. CASE Http!ReceiveTimeout \/ Http!EndCommands
    BY <1>1, <2>1, <2>3, HttpPollsInv
  <2>4. CASE Http!Execute
    BY <1>1, <2>1, <2>4, HttpExecuteInv
  <2>5. CASE \E k \in {Key}, out \in {"none", "Ready"} \cup {}, to \in Addrs \cup {None},
                fails \in BOOLEAN : Http!Poll(k, out, to, fails)
    BY <1>1, <2>1, <2>5, HttpPollInv
  <2>6. CASE \E k \in {Key} : Http!DropFailed(k)
    BY <1>1, <2>1, <2>6, HttpDropFailedInv
  <2> QED
    BY <2>1, <2>2, <2>3, <2>4, <2>5, <2>6 DEF Http!PoolStep
<1>4. CASE Http!Next /\ ~ Http!PoolRuns
  BY <1>1, <1>4, EndsInv, FrameInv, JoinDoneInv, HttpAddedInv, SendOnInv, EndUpdateInv
     DEF Http!Next, Http!Frame
<1> QED
  BY <1>1, <1>2, <1>3, <1>4

\* For any number of joins and any server, the HTTP client of a game that says it
\* is connected was announced so and runs the session of its newest join with
\* open channels, or has the news of its end queued: what a pool reported of an
\* earlier connection never counts (http_client.rs, drive and connect).
THEOREM ConnectionsAreOwn == MCSpec => []ConnectedIsOwn
<1>1. OwnInv => ConnectedIsOwn
  <2> SUFFICES ASSUME HttpClientInv, is_connected PROVE Http!ConnectedIsOwn
    BY DEF OwnInv, ConnectedIsOwn, Http!ConnectedIsOwn
  <2>1. /\ has_pool /\ connected /\ last = "Connected"
        /\ Entry = None \/ Entry.phase = "open"
        /\ IF Entry = None THEN Said("Failed") ELSE Entry.gen = c_created
    BY DEF HttpClientInv, HttpTypes, SessionOfJoin
  <2>2. Http!Live = IF Entry = None THEN {} ELSE {Key}
    BY DEF Http!Live, Entry
  <2>3. Entry = None => Http!Got("Failed")
    BY <2>1 DEF Http!Got, Said
  <2> QED
    BY <2>1, <2>2, <2>3 DEF Http!ConnectedIsOwn, Entry
<1> QED
  BY <1>1, OwnInitInv, OwnNextInv, PTL DEF MCSpec
=============================================================================
