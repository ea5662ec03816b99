---------------------------- MODULE SessionProofs ---------------------------
(***************************************************************************)
(* Proofs about one session: its state machine over ICE, DTLS and SCTP     *)
(* (Session), for any bound on early packets and any deadline, the         *)
(* messages over its reliable channel (Framing), for any sizes, and the    *)
(* task that drives it (SessionDriver), for any tasks of the application   *)
(* and any capacity of its channels.                                       *)
(***************************************************************************)
EXTENDS MCSession, FiniteSetTheorems, SequenceTheorems, TLAPS

Outputs == Events \cup Channels

Once(s, e) == IF IF e = "Ready" THEN s.ready_emitted ELSE s.failed_emitted THEN 1 ELSE 0

\* What holds of the session between two inputs and in the middle of one.
Sound(s) ==
  /\ s \in SessionType
  /\ s.ready_emitted => s.open = Channels
  /\ s.ice_failed = "read" => s.failed_emitted
  /\ "Lost" \in s.sctp_events => s.sctp = "lost"
  /\ s.transports => s.early = 0

\* A failure that is new to a session that was ready has a cause in the stacks.
Caused(s) ==
  session.ready_emitted =>
    /\ s.ready_emitted
    /\ s.failed_emitted /\ ~ session.failed_emitted => s.ice_failed = "read" \/ s.sctp = "lost"

\* The events of the input so far are what the flags say.
Accounted(s) == \A e \in Events : Told(s, e) \in Nat /\ count[e] + Told(s, e) = Once(s, e)

Consistent(s) == Sound(s) /\ Accounted(s) /\ Caused(s)

SessionInv ==
  /\ Sound(session)
  /\ count \in [Events -> Nat]
  /\ \A e \in Events : count[e] = Once(session, e)

-----------------------------------------------------------------------------
(* The events of an input                                                  *)

Places(q, e) == {i \in DOMAIN q : q[i] = e}

\* An event put out is told once more, and no other is.
LEMMA PlacesOfAppend ==
  ASSUME NEW q \in Seq(Outputs), NEW x \in Outputs, NEW e \in Outputs
  PROVE  /\ Cardinality(Places(q, e)) \in Nat
         /\ Cardinality(Places(Append(q, x), e)) =
              Cardinality(Places(q, e)) + (IF e = x THEN 1 ELSE 0)
<1> DEFINE n == Len(q) + 1
<1>1. /\ n \in Nat /\ DOMAIN q = 1 .. Len(q) /\ Len(q) \in Nat
      /\ Append(q, x) \in Seq(Outputs) /\ DOMAIN Append(q, x) = 1 .. n
      /\ Append(q, x)[n] = x /\ \A i \in 1 .. Len(q) : Append(q, x)[i] = q[i]
  BY AppendProperties, LenProperties
<1>2. IsFiniteSet(Places(q, e)) /\ Cardinality(Places(q, e)) \in Nat
  <2>1. IsFiniteSet(1 .. Len(q))
    BY <1>1, FS_Interval
  <2>2. Places(q, e) \subseteq 1 .. Len(q)
    BY <1>1 DEF Places
  <2> QED
    BY <2>1, <2>2, FS_Subset, FS_CardinalityType
<1>3. CASE e = x
  <2>1. Places(Append(q, x), e) = Places(q, e) \cup {n}
    BY <1>1, <1>3 DEF Places
  <2>2. n \notin Places(q, e)
    BY <1>1 DEF Places
  <2> QED
    BY <1>2, <1>3, <2>1, <2>2, FS_AddElement
<1>4. CASE e # x
  <2>1. Places(Append(q, x), e) = Places(q, e)
    BY <1>1, <1>4 DEF Places
  <2> QED
    BY <1>2, <1>4, <2>1
<1> QED
  BY <1>2, <1>3, <1>4

LEMMA OutputType ==
  ASSUME NEW s \in SessionType, NEW q \in Seq(Outputs)
  PROVE  [s EXCEPT !.output = q] \in SessionType /\ [s EXCEPT !.output = q].output = q
BY DEF SessionType, Outputs

\* What was told depends on the output alone.
LEMMA ToldByOutput ==
  ASSUME NEW s, NEW t, s.output = t.output
  PROVE  \A e : Told(s, e) = Told(t, e)
BY DEF Told

LEMMA EmitTells ==
  ASSUME NEW s \in SessionType, NEW x \in Outputs
  PROVE  /\ emit(s, x) \in SessionType
         /\ emit(s, x) = [s EXCEPT !.output = Append(s.output, x)]
         /\ \A e \in Events : Told(emit(s, x), e) = Told(s, e) + (IF e = x THEN 1 ELSE 0)
<1>1. s.output \in Seq(Outputs)
  BY DEF SessionType, Outputs
<1>2. emit(s, x) = [s EXCEPT !.output = Append(s.output, x)] /\ emit(s, x).output = Append(s.output, x)
  BY DEF emit, SessionType
<1>3. emit(s, x) \in SessionType
  <2>1. Append(s.output, x) \in Seq(Outputs)
    BY <1>1, AppendProperties
  <2> QED
    BY <1>2, <2>1, OutputType
<1>4. ASSUME NEW e \in Events
      PROVE  Told(emit(s, x), e) = Told(s, e) + (IF e = x THEN 1 ELSE 0)
  <2>1. Told(s, e) = Cardinality(Places(s.output, e))
    BY DEF Told, Places
  <2>2. Told(emit(s, x), e) = Cardinality(Places(Append(s.output, x), e))
    BY <1>2 DEF Told, Places
  <2>3. e \in Outputs
    BY DEF Outputs
  <2> QED
    BY <1>1, <2>1, <2>2, <2>3, PlacesOfAppend
<1> QED
  BY <1>2, <1>3, <1>4

-----------------------------------------------------------------------------
(* The steps of pump                                                       *)

\* What t has in common with s.
Same(s, t) ==
  /\ t.ready_emitted = s.ready_emitted /\ t.open = s.open /\ t.ice_failed = s.ice_failed
  /\ t.sctp_events = s.sctp_events /\ t.sctp = s.sctp /\ t.transports = s.transports
  /\ t.early = s.early

\* fail reports the failure unless it was reported.
LEMMA FailSound ==
  ASSUME NEW s, Sound(s), Accounted(s), count \in [Events -> Nat]
  PROVE  Sound(fail(s)) /\ Accounted(fail(s)) /\ fail(s).failed_emitted /\ Same(s, fail(s))
<1>1. CASE s.failed_emitted
  BY <1>1 DEF fail, Same
<1>2. CASE ~ s.failed_emitted
  <2> DEFINE t == [emit(s, "Failed") EXCEPT !.failed_emitted = TRUE]
  <2>1. fail(s) = t
    BY <1>2 DEF fail
  <2>2. s \in SessionType /\ emit(s, "Failed") \in SessionType
    BY EmitTells DEF Sound, Outputs, Events
  <2>3. t \in SessionType /\ t.failed_emitted /\ t.output = emit(s, "Failed").output
    BY <2>2 DEF SessionType
  <2>4. Same(s, t)
    BY <2>2 DEF emit, SessionType, Same
  <2>5. \A e \in Events : Told(t, e) = Told(s, e) + (IF e = "Failed" THEN 1 ELSE 0)
    <3>1. "Failed" \in Outputs
      BY DEF Outputs, Events
    <3>2. \A e \in Events : Told(emit(s, "Failed"), e) = Told(s, e) + (IF e = "Failed" THEN 1 ELSE 0)
      BY <2>2, <3>1, EmitTells
    <3> HIDE DEF t
    <3>3. \A e \in Events : Told(t, e) = Told(emit(s, "Failed"), e)
      BY <2>3, ToldByOutput
    <3> QED
      BY ONLY <3>2, <3>3
  <2> HIDE DEF t
  <2>6. Sound(t)
    BY <2>3, <2>4 DEF Sound, Same
  <2>7. ASSUME NEW e \in Events
        PROVE  Told(t, e) \in Nat /\ count[e] + Told(t, e) = Once(t, e)
    <3>1. Told(s, e) \in Nat /\ count[e] + Told(s, e) = Once(s, e)
      BY DEF Accounted
    <3>2. CASE e = "Ready"
      BY <2>4, <2>5, <3>1, <3>2 DEF Once, Same
    <3>3. CASE e = "Failed"
      BY <1>2, <2>3, <2>5, <3>1, <3>3 DEF Once
    <3> QED
      BY <3>2, <3>3 DEF Events
  <2> QED
    BY <2>1, <2>3, <2>4, <2>6, <2>7 DEF Accounted
<1> QED
  BY <1>1, <1>2

\* Where there is a cause, or the session was not ready before the input.
LEMMA FailConsistent ==
  ASSUME NEW s, Consistent(s), count \in [Events -> Nat],
         s.ice_failed = "read" \/ s.sctp = "lost" \/ ~ session.ready_emitted
  PROVE  Consistent(fail(s))
BY FailSound DEF Consistent, Caused, Same

LEMMA ReadyConsistent ==
  ASSUME NEW s, Consistent(s), count \in [Events -> Nat]
  PROVE  Consistent(Ready(s))
<1>1. CASE ~ (s.open = Channels /\ ~ s.ready_emitted)
  BY <1>1 DEF Ready
<1>2. CASE s.open = Channels /\ ~ s.ready_emitted
  <2> DEFINE t == [emit(s, "Ready") EXCEPT !.ready_emitted = TRUE]
  <2>1. Ready(s) = t
    BY <1>2 DEF Ready
  <2>2. s \in SessionType /\ emit(s, "Ready") \in SessionType
    BY EmitTells DEF Consistent, Sound, Outputs, Events
  <2>3. t \in SessionType /\ t.ready_emitted /\ t.output = emit(s, "Ready").output
    BY <2>2 DEF SessionType
  <2>4. /\ t.failed_emitted = s.failed_emitted /\ t.open = s.open /\ t.ice_failed = s.ice_failed
        /\ t.sctp_events = s.sctp_events /\ t.sctp = s.sctp /\ t.transports = s.transports
        /\ t.early = s.early
    BY <2>2 DEF emit, SessionType
  <2>5. \A e \in Events : Told(t, e) = Told(s, e) + (IF e = "Ready" THEN 1 ELSE 0)
    <3>1. "Ready" \in Outputs
      BY DEF Outputs, Events
    <3>2. \A e \in Events : Told(emit(s, "Ready"), e) = Told(s, e) + (IF e = "Ready" THEN 1 ELSE 0)
      BY <2>2, <3>1, EmitTells
    <3>3. \A e \in Events : Told(t, e) = Told(emit(s, "Ready"), e)
      <4> HIDE DEF t
      <4> QED
        BY ONLY <2>3, ToldByOutput
    <3> QED
      BY ONLY <3>2, <3>3
  <2> HIDE DEF t
  <2>6. Sound(t) /\ Caused(t)
    BY <1>2, <2>3, <2>4 DEF Consistent, Sound, Caused
  <2>7. ASSUME NEW e \in Events
        PROVE  Told(t, e) \in Nat /\ count[e] + Told(t, e) = Once(t, e)
    <3>1. Told(s, e) \in Nat /\ count[e] + Told(s, e) = Once(s, e)
      BY DEF Consistent, Accounted
    <3>2. CASE e = "Ready"
      BY <1>2, <2>3, <2>5, <3>1, <3>2 DEF Once
    <3>3. CASE e = "Failed"
      BY <2>4, <2>5, <3>1, <3>3 DEF Once
    <3> QED
      BY <3>2, <3>3 DEF Events
  <2> QED
    BY <2>1, <2>6, <2>7 DEF Consistent, Accounted
<1> QED
  BY <1>1, <1>2

\* A step that puts nothing out and leaves the flags says nothing new.
LEMMA SilentAccounted ==
  ASSUME NEW s, NEW t, Accounted(s), t.output = s.output,
         t.ready_emitted = s.ready_emitted, t.failed_emitted = s.failed_emitted
  PROVE  Accounted(t)
<1>1. \A e \in Events : Told(t, e) = Told(s, e) /\ Once(t, e) = Once(s, e)
  BY DEF Told, Once
<1> QED
  BY <1>1 DEF Accounted

LEMMA ReadIceConsistent ==
  ASSUME NEW s, Consistent(s), count \in [Events -> Nat]
  PROVE  Consistent(read_ice_events(s))
<1>1. CASE s.ice_failed # "event"
  BY <1>1 DEF read_ice_events
<1>2. CASE s.ice_failed = "event"
  <2> DEFINE f == fail(s)
             t == [f EXCEPT !.ice_failed = "read"]
  <2>1. read_ice_events(s) = t
    BY <1>2 DEF read_ice_events
  <2>2. Sound(f) /\ Accounted(f) /\ f.failed_emitted /\ Same(s, f)
    BY FailSound DEF Consistent
  <2> HIDE DEF f
  <2>3. /\ t \in SessionType /\ t.ice_failed = "read" /\ t.output = f.output
        /\ t.ready_emitted = f.ready_emitted /\ t.failed_emitted = f.failed_emitted
        /\ t.open = f.open /\ t.sctp_events = f.sctp_events /\ t.sctp = f.sctp
        /\ t.transports = f.transports /\ t.early = f.early
    BY <2>2 DEF SessionType, Sound
  <2> HIDE DEF t
  <2>4. Accounted(t)
    BY <2>2, <2>3, SilentAccounted
  <2>5. Sound(t) /\ Caused(t)
    BY <2>2, <2>3 DEF Consistent, Sound, Caused, Same
  <2> QED
    BY <2>1, <2>4, <2>5 DEF Consistent
<1> QED
  BY <1>1, <1>2

LEMMA StartConsistent ==
  ASSUME NEW s, Consistent(s), NEW o \in Outcomes
  PROVE  Consistent(start_transports(s, o)) /\ start_transports(s, o).sctp_events = s.sctp_events
<1>1. CASE ~ Starts(s)
  BY <1>1 DEF start_transports
<1>2. CASE Starts(s)
  <2> DEFINE b == s.certificate /\ o.start
             t == start_transports(s, o)
  <2>1. b \in BOOLEAN /\ s \in SessionType
    BY DEF Outcomes, Consistent, Sound, SessionType
  <2>2. t = [s EXCEPT !.pending_role = FALSE, !.certificate = FALSE, !.transports = b,
                      !.early = IF b THEN 0 ELSE s.early]
    BY <1>2, <2>1 DEF start_transports, SessionType
  <2> HIDE DEF b, t
  <2>3. /\ t \in SessionType /\ t.ice_failed = s.ice_failed /\ t.output = s.output
        /\ t.ready_emitted = s.ready_emitted /\ t.failed_emitted = s.failed_emitted
        /\ t.open = s.open /\ t.sctp_events = s.sctp_events /\ t.sctp = s.sctp
        /\ t.transports = b /\ t.early = IF b THEN 0 ELSE s.early
    <3>1. (IF b THEN 0 ELSE s.early) \in 0 .. MaxEarly
      BY <2>1, SessionAssumption DEF SessionType
    <3>2. t \in SessionType
      BY <2>1, <2>2, <3>1 DEF SessionType
    <3> QED
      BY <2>1, <2>2, <3>2 DEF SessionType
  <2>4. Accounted(t)
    BY <2>3, SilentAccounted DEF Consistent
  <2>5. Sound(t) /\ Caused(t)
    BY <2>3 DEF Consistent, Sound, Caused
  <2> QED
    BY <2>3, <2>4, <2>5 DEF Consistent, t
<1> QED
  BY <1>1, <1>2

LEMMA ReadSctpConsistent ==
  ASSUME NEW s, Consistent(s), NEW o \in Outcomes
  PROVE  Consistent(read_sctp_events(s, o)) /\ read_sctp_events(s, o).sctp = s.sctp
<1> DEFINE t == read_sctp_events(s, o)
<1>1. s \in SessionType /\ o.opens \in {0, 1, 2}
  BY DEF Outcomes, Consistent, Sound
<1>2. PICK E \in SUBSET s.sctp_events, C \in SUBSET Channels :
        t = [s EXCEPT !.sctp_events = E, !.open = s.open \cup C]
  <2>1. CASE ~ Opens(s)
    <3>1. t = [s EXCEPT !.sctp_events = {}]
      BY <2>1 DEF read_sctp_events
    <3>2. t = [s EXCEPT !.sctp_events = {}, !.open = s.open \cup {}]
      BY <1>1, <3>1 DEF SessionType
    <3> QED
      BY <3>2
  <2>2. CASE Opens(s)
    <3> DEFINE E == IF o.opens = 2 THEN {} ELSE s.sctp_events \ {"Connected"}
               C == CASE o.opens = 0 -> {} [] o.opens = 1 -> {"Reliable"} [] o.opens = 2 -> Channels
    <3>1. E \in SUBSET s.sctp_events /\ C \in SUBSET Channels
      BY <1>1 DEF Channels
    <3>2. t = [s EXCEPT !.sctp_events = E, !.open = s.open \cup C]
      BY <1>1, <2>2 DEF read_sctp_events, SessionType
    <3> QED
      BY <3>1, <3>2
  <2> QED
    BY <2>1, <2>2
<1> HIDE DEF t
<1>3. s.open \cup C \in SUBSET Channels /\ E \in SUBSET SctpEvents
  BY <1>1 DEF SessionType
<1>4. /\ t \in SessionType /\ t.ice_failed = s.ice_failed /\ t.output = s.output
      /\ t.ready_emitted = s.ready_emitted /\ t.failed_emitted = s.failed_emitted
      /\ t.open = s.open \cup C /\ t.sctp_events = E /\ t.sctp = s.sctp
      /\ t.transports = s.transports /\ t.early = s.early
  BY <1>1, <1>2, <1>3 DEF SessionType
<1>5. Accounted(t)
  BY <1>4, SilentAccounted DEF Consistent
<1>6. Sound(t) /\ Caused(t)
  BY <1>3, <1>4 DEF Consistent, Sound, Caused
<1> QED
  BY <1>4, <1>5, <1>6 DEF Consistent, t

LEMMA AcceptConsistent ==
  ASSUME NEW s, Consistent(s), NEW o \in Outcomes
  PROVE  Consistent(accept_streams(s, o)) /\ accept_streams(s, o).sctp = s.sctp
<1> DEFINE t == accept_streams(s, o)
           open == IF o.drain THEN s.open \cup s.requests ELSE s.open
<1>1. s \in SessionType /\ open \in SUBSET Channels /\ s.open \subseteq open
  BY DEF Consistent, Sound, SessionType
<1>2. t = [s EXCEPT !.requests = {}, !.open = open]
  BY <1>1 DEF accept_streams, SessionType
<1> HIDE DEF t, open
<1>3. /\ t \in SessionType /\ t.ice_failed = s.ice_failed /\ t.output = s.output
      /\ t.ready_emitted = s.ready_emitted /\ t.failed_emitted = s.failed_emitted
      /\ t.open = open /\ t.sctp_events = s.sctp_events /\ t.sctp = s.sctp
      /\ t.transports = s.transports /\ t.early = s.early
  BY <1>1, <1>2 DEF SessionType
<1>4. Accounted(t)
  BY <1>3, SilentAccounted DEF Consistent
<1>5. Sound(t) /\ Caused(t)
  BY <1>1, <1>3 DEF Consistent, Sound, Caused
<1> QED
  BY <1>3, <1>4, <1>5 DEF Consistent, t

\* Messages are no events.
LEMMA WaitingTellsNothing ==
  ASSUME NEW q \in Seq(Outputs), NEW S, NEW e \in Events
  PROVE  /\ q \o Waiting(S) \in Seq(Outputs)
         /\ Cardinality(Places(q \o Waiting(S), e)) = Cardinality(Places(q, e))
<1> DEFINE r == IF "Reliable" \in S THEN Append(q, "Reliable") ELSE q
           u == IF "Unreliable" \in S THEN Append(r, "Unreliable") ELSE r
<1>1. /\ "Reliable" \in Outputs /\ "Unreliable" \in Outputs /\ e \in Outputs
      /\ e # "Reliable" /\ e # "Unreliable"
  BY DEF Outputs, Events, Channels
<1>2. r \in Seq(Outputs) /\ u \in Seq(Outputs)
  BY <1>1, AppendProperties
<1>3. q \o Waiting(S) = u
  <2>1. q \o <<>> = q /\ Append(q, "Reliable") = q \o <<"Reliable">>
        /\ Append(q, "Unreliable") = q \o <<"Unreliable">>
    BY <1>1, ConcatEmptySeq, AppendIsConcat
  <2>2. <<>> \o <<>> = <<>> /\ <<>> \o <<"Unreliable">> = <<"Unreliable">> /\ <<"Reliable">> \o <<>> = <<"Reliable">>
    OBVIOUS
  <2>3. Append(Append(q, "Reliable"), "Unreliable") = q \o (<<"Reliable">> \o <<"Unreliable">>)
    OBVIOUS
  <2> QED
    BY <2>1, <2>2, <2>3 DEF Waiting
<1>4. Cardinality(Places(r, e)) = Cardinality(Places(q, e))
  BY <1>1, PlacesOfAppend
<1>5. Cardinality(Places(u, e)) = Cardinality(Places(r, e))
  <2> HIDE DEF r
  <2>1. /\ Cardinality(Places(r, e)) \in Nat
        /\ Cardinality(Places(Append(r, "Unreliable"), e)) = Cardinality(Places(r, e))
    BY <1>1, <1>2, PlacesOfAppend
  <2> QED
    BY <2>1
<1> QED
  BY <1>2, <1>3, <1>4, <1>5

LEMMA ReadDataConsistent ==
  ASSUME NEW s, Consistent(s)
  PROVE  Consistent(read_data(s)) /\ read_data(s).sctp = s.sctp
<1> DEFINE t == read_data(s)
           q == s.output \o Waiting(s.data \cap s.open)
           D == s.data \ s.open
<1>1. s \in SessionType /\ s.output \in Seq(Outputs) /\ D \in SUBSET Channels
  BY DEF Consistent, Sound, SessionType, Outputs
<1>2. q \in Seq(Outputs) /\ \A e \in Events : Cardinality(Places(q, e)) = Cardinality(Places(s.output, e))
  <2> DEFINE S == s.data \cap s.open
  <2>1. q = s.output \o Waiting(S)
    OBVIOUS
  <2>2. "Ready" \in Events
    BY DEF Events
  <2> HIDE DEF S, q
  <2>3. ASSUME NEW e \in Events
        PROVE  q \in Seq(Outputs) /\ Cardinality(Places(q, e)) = Cardinality(Places(s.output, e))
    BY <1>1, <2>1, WaitingTellsNothing
  <2> QED
    BY <2>2, <2>3
<1>3. t = [s EXCEPT !.data = D, !.output = q]
  BY <1>1 DEF read_data, SessionType
<1> HIDE DEF t, q, D
<1>4. /\ t \in SessionType /\ t.ice_failed = s.ice_failed /\ t.output = q
      /\ t.ready_emitted = s.ready_emitted /\ t.failed_emitted = s.failed_emitted
      /\ t.open = s.open /\ t.sctp_events = s.sctp_events /\ t.sctp = s.sctp
      /\ t.transports = s.transports /\ t.early = s.early
  BY <1>1, <1>2, <1>3 DEF SessionType, Outputs
<1>5. ASSUME NEW e \in Events
      PROVE  Told(t, e) = Told(s, e) /\ Once(t, e) = Once(s, e)
  <2>1. Told(s, e) = Cardinality(Places(s.output, e)) /\ Told(t, e) = Cardinality(Places(q, e))
    BY <1>4 DEF Told, Places
  <2> QED
    BY <1>2, <1>4, <2>1 DEF Once
<1>6. Accounted(t)
  BY <1>5 DEF Consistent, Accounted
<1>7. Sound(t) /\ Caused(t)
  BY <1>4 DEF Consistent, Sound, Caused
<1> QED
  BY <1>4, <1>6, <1>7 DEF Consistent, t

\* Wherever pump is cut off, what it has done by then is consistent.
LEMMA PumpConsistent ==
  ASSUME NEW s0, Consistent(s0), NEW o \in Outcomes, count \in [Events -> Nat]
  PROVE  Consistent(pump(s0, o))
<1> DEFINE s1 == read_ice_events(s0)
           s2 == start_transports(s1, o)
           s3 == read_sctp_events(s2, o)
           s4 == accept_streams(s3, o)
           s5 == read_data(s4)
           s6 == IF s2.transports /\ "Lost" \in s2.sctp_events THEN fail(s5) ELSE s5
           s7 == Ready(s6)
           t == IF s2.transports THEN s7 ELSE Ready(s2)
<1>1. Consistent(s1)
  BY ReadIceConsistent
<1>2. Consistent(s2)
  BY <1>1, StartConsistent
<1>3. Consistent(s3) /\ s3.sctp = s2.sctp
  BY <1>2, ReadSctpConsistent
<1>4. Consistent(s4) /\ s4.sctp = s2.sctp
  BY <1>3, AcceptConsistent
<1>5. Consistent(s5) /\ s5.sctp = s2.sctp
  BY <1>4, ReadDataConsistent
<1>6. \/ pump(s0, o) \in {s2, s3, s4, s5}
      \/ pump(s0, o) = IF DeadlinePassed(t) THEN fail(t) ELSE t
  BY DEF pump
<1> HIDE DEF s1, s2, s3, s4, s5
<1>7. Consistent(s6)
  <2>1. CASE s2.transports /\ "Lost" \in s2.sctp_events
    <3>1. s5.sctp = "lost"
      BY <1>2, <1>5, <2>1 DEF Consistent, Sound
    <3> QED
      BY <1>5, <2>1, <3>1, FailConsistent
  <2> QED
    BY <1>5, <2>1
<1> HIDE DEF s6
<1>8. Consistent(t)
  BY <1>2, <1>7, ReadyConsistent
<1> HIDE DEF t
<1>9. ASSUME DeadlinePassed(t) PROVE Consistent(fail(t))
  <2>1. ~ session.ready_emitted
    BY <1>8, <1>9 DEF DeadlinePassed, Consistent, Caused
  <2> QED
    BY <1>8, <2>1, FailConsistent
<1> QED
  BY <1>2, <1>3, <1>4, <1>5, <1>6, <1>8, <1>9

-----------------------------------------------------------------------------
(* The inputs                                                              *)

LEMMA PolledConsistent ==
  ASSUME SessionInv
  PROVE  Consistent(polled)
<1>1. session \in SessionType /\ <<>> \in Seq(Outputs)
  BY DEF SessionInv, Sound
<1>2. /\ polled \in SessionType /\ polled.ice_failed = session.ice_failed
      /\ polled.ready_emitted = session.ready_emitted
      /\ polled.failed_emitted = session.failed_emitted
      /\ polled.open = session.open /\ polled.sctp_events = session.sctp_events
      /\ polled.sctp = session.sctp /\ polled.transports = session.transports
      /\ polled.early = session.early /\ polled.output = <<>>
  BY <1>1, OutputType DEF polled, SessionType
<1>3. ASSUME NEW e \in Events
      PROVE  Told(polled, e) = 0 /\ Once(polled, e) = Once(session, e)
  <2>1. {i \in DOMAIN polled.output : polled.output[i] = e} = {}
    BY <1>2
  <2> QED
    BY <1>2, <2>1, FS_EmptySet DEF Told, Once
<1>4. Accounted(polled)
  BY <1>3 DEF SessionInv, Accounted
<1>5. Sound(polled) /\ Caused(polled)
  BY <1>2 DEF SessionInv, Sound, Caused
<1> QED
  BY <1>4, <1>5 DEF Consistent

\* Fields of no account to the events may change.
LEMMA ChangedConsistent ==
  ASSUME NEW s, Consistent(s), NEW t \in SessionType, t.output = s.output,
         t.ready_emitted = s.ready_emitted, t.failed_emitted = s.failed_emitted,
         t.open = s.open, t.ice_failed = s.ice_failed \/ t.ice_failed = "event",
         s.ice_failed = "read" => t.ice_failed = "read",
         s.sctp = "lost" => t.sctp = "lost",
         "Lost" \in t.sctp_events => "Lost" \in s.sctp_events \/ t.sctp = "lost",
         t.transports = s.transports, t.transports => t.early = 0
  PROVE  Consistent(t)
<1>1. Accounted(t)
  BY SilentAccounted DEF Consistent
<1>2. Sound(t)
  BY DEF Consistent, Sound
<1>3. Caused(t)
  BY DEF Consistent, Caused
<1> QED
  BY <1>1, <1>2, <1>3 DEF Consistent

LEMMA IceConsistent ==
  ASSUME NEW s, Consistent(s), NEW t \in IceEffects(s)
  PROVE  Consistent(t)
<1>1. s \in SessionType
  BY DEF Consistent, Sound
<1>2. \/ t = s
      \/ t = [s EXCEPT !.selected = TRUE]
      \/ t = [s EXCEPT !.ice_failed = "event"] /\ s.ice_failed = "no"
  BY DEF IceEffects
<1>3. CASE t = [s EXCEPT !.selected = TRUE]
  <2>1. /\ t \in SessionType /\ t.ice_failed = s.ice_failed /\ t.output = s.output
        /\ t.ready_emitted = s.ready_emitted /\ t.failed_emitted = s.failed_emitted
        /\ t.open = s.open /\ t.sctp_events = s.sctp_events /\ t.sctp = s.sctp
        /\ t.transports = s.transports /\ t.early = s.early
    BY <1>1, <1>3 DEF SessionType
  <2> QED
    BY <2>1, ChangedConsistent DEF Consistent, Sound
<1>4. CASE t = [s EXCEPT !.ice_failed = "event"] /\ s.ice_failed = "no"
  <2>1. /\ t \in SessionType /\ t.ice_failed = "event" /\ t.output = s.output
        /\ t.ready_emitted = s.ready_emitted /\ t.failed_emitted = s.failed_emitted
        /\ t.open = s.open /\ t.sctp_events = s.sctp_events /\ t.sctp = s.sctp
        /\ t.transports = s.transports /\ t.early = s.early
    BY <1>1, <1>4 DEF SessionType
  <2> QED
    BY <1>4, <2>1, ChangedConsistent DEF Consistent, Sound
<1> QED
  BY <1>2, <1>3, <1>4

LEMMA SctpConsistent ==
  ASSUME NEW s, Consistent(s), NEW t \in SctpEffects(s)
  PROVE  Consistent(t)
<1>1. s \in SessionType /\ (s.transports => s.early = 0)
  BY DEF Consistent, Sound
<1>2. \/ t = s
      \/ \E E \in SUBSET SctpEvents :
           /\ t = [s EXCEPT !.sctp = "up", !.sctp_events = E] /\ s.sctp = "down"
           /\ "Lost" \in E => "Lost" \in s.sctp_events
      \/ \E E \in SUBSET SctpEvents : t = [s EXCEPT !.sctp = "lost", !.sctp_events = E]
      \/ \E D \in SUBSET Channels : t = [s EXCEPT !.data = D]
      \/ \E D \in SUBSET Channels : t = [s EXCEPT !.requests = D]
  <2>1. CASE ~ s.transports
    BY <2>1 DEF SctpEffects
  <2>2. CASE s.transports /\ s.sctp = "down"
    <3>1. \/ t = s
          \/ t = [s EXCEPT !.sctp = "up", !.sctp_events = s.sctp_events \cup {"Connected"}]
          \/ t = [s EXCEPT !.sctp = "lost", !.sctp_events = s.sctp_events \cup {"Lost"}]
      BY <1>1, <2>2 DEF SctpEffects, SessionType
    <3>2. /\ s.sctp_events \cup {"Connected"} \in SUBSET SctpEvents
          /\ s.sctp_events \cup {"Lost"} \in SUBSET SctpEvents
      BY <1>1 DEF SessionType, SctpEvents
    <3> QED
      BY <2>2, <3>1, <3>2
  <2>3. CASE s.transports /\ s.sctp = "up"
    <3>1. \/ t = s
          \/ t = [s EXCEPT !.sctp = "lost", !.sctp_events = s.sctp_events \cup {"Lost"}]
          \/ \E c \in Channels : t = [s EXCEPT !.data = s.data \cup {c}]
          \/ \E c \in Channels : t = [s EXCEPT !.requests = s.requests \cup {c}]
      BY <1>1, <2>3 DEF SctpEffects, SessionType
    <3>2. /\ s.sctp_events \cup {"Lost"} \in SUBSET SctpEvents
          /\ \A c \in Channels : s.data \cup {c} \in SUBSET Channels /\ s.requests \cup {c} \in SUBSET Channels
      BY <1>1 DEF SessionType, SctpEvents
    <3> QED
      BY <3>1, <3>2
  <2>4. CASE s.transports /\ s.sctp = "lost"
    BY <2>4 DEF SctpEffects
  <2> QED
    BY <1>1, <2>1, <2>2, <2>3, <2>4 DEF SessionType
<1>3. ASSUME NEW E \in SUBSET SctpEvents, NEW up \in {"up", "lost"},
             t = [s EXCEPT !.sctp = up, !.sctp_events = E],
             up = "lost" \/ (s.sctp = "down" /\ ("Lost" \in E => "Lost" \in s.sctp_events))
      PROVE  Consistent(t)
  <2>1. /\ t \in SessionType /\ t.ice_failed = s.ice_failed /\ t.output = s.output
        /\ t.ready_emitted = s.ready_emitted /\ t.failed_emitted = s.failed_emitted
        /\ t.open = s.open /\ t.sctp_events = E /\ t.sctp = up
        /\ t.transports = s.transports /\ t.early = s.early
    BY <1>1, <1>3 DEF SessionType
  <2> QED
    BY <1>1, <1>3, <2>1, ChangedConsistent
<1>4. ASSUME NEW D \in SUBSET Channels, t = [s EXCEPT !.data = D] \/ t = [s EXCEPT !.requests = D]
      PROVE  Consistent(t)
  <2>1. /\ t \in SessionType /\ t.ice_failed = s.ice_failed /\ t.output = s.output
        /\ t.ready_emitted = s.ready_emitted /\ t.failed_emitted = s.failed_emitted
        /\ t.open = s.open /\ t.sctp_events = s.sctp_events /\ t.sctp = s.sctp
        /\ t.transports = s.transports /\ t.early = s.early
    BY <1>1, <1>4 DEF SessionType
  <2> QED
    BY <1>1, <2>1, ChangedConsistent
<1> QED
  BY <1>2, <1>3, <1>4

\* The state a handler leaves is that of the invariant, and a new failure of a
\* session that was ready has its cause in it.
LEMMA HandledInv ==
  ASSUME SessionInv, NEW s, Consistent(s), Handled(s)
  PROVE  /\ SessionInv'
         /\ session.ready_emitted /\ count'["Failed"] > count["Failed"] =>
              session'.ice_failed = "read" \/ session'.sctp = "lost"
<1>1. /\ session' = s
      /\ \A e \in Events : count'[e] = Once(s, e)
      /\ count' \in [Events -> Nat]
  BY DEF Handled, Consistent, Accounted, SessionInv
<1>2. SessionInv'
  <2>1. Sound(session)'
    BY <1>1 DEF Consistent, Sound
  <2>2. (\A e \in Events : count[e] = Once(session, e))'
    BY <1>1 DEF Once
  <2> QED
    BY <1>1, <2>1, <2>2 DEF SessionInv
<1>3. ASSUME session.ready_emitted, count'["Failed"] > count["Failed"]
      PROVE  session'.ice_failed = "read" \/ session'.sctp = "lost"
  <2>1. count["Failed"] = Once(session, "Failed") /\ count'["Failed"] = Once(s, "Failed")
    BY <1>1 DEF SessionInv, Events
  <2>2. s.failed_emitted /\ ~ session.failed_emitted
    BY <1>3, <2>1 DEF Once
  <2> QED
    BY <1>1, <1>3, <2>2 DEF Consistent, Caused
<1> QED
  BY <1>2, <1>3

LEMMA SessionInitInv == Init => SessionInv
<1> SUFFICES ASSUME Init PROVE SessionInv
  OBVIOUS
<1>1. /\ session \in SessionType /\ ~ session.ready_emitted /\ ~ session.failed_emitted
      /\ session.ice_failed = "no" /\ session.sctp_events = {} /\ ~ session.transports
  BY SessionAssumption DEF Init, SessionType, Channels, SctpEvents
<1>2. Sound(session)
  BY <1>1 DEF Sound
<1> QED
  BY <1>1, <1>2 DEF Init, SessionInv, Once, Events

\* Every input leaves a consistent session behind, or time passes.
LEMMA InputConsistent ==
  ASSUME SessionInv, Next
  PROVE  (\E s : Consistent(s) /\ Handled(s)) \/ Tick
<1>1. session \in SessionType /\ count \in [Events -> Nat] /\ Consistent(polled)
  BY PolledConsistent DEF SessionInv, Sound
<1>2. polled \in SessionType /\ polled.output = <<>> /\ (polled.transports => polled.early = 0)
      /\ polled.transports = session.transports
  BY <1>1 DEF Consistent, Sound, polled, SessionType
<1>3. ASSUME NEW o \in Outcomes, set_remote_description(o)
      PROVE  \E s : Consistent(s) /\ Handled(s)
  <2> DEFINE t == [polled EXCEPT !.credentials = TRUE, !.pending_role = TRUE, !.started = TRUE]
  <2> HIDE DEF polled
  <2>1. /\ t \in SessionType /\ t.ice_failed = polled.ice_failed /\ t.output = polled.output
        /\ t.ready_emitted = polled.ready_emitted /\ t.failed_emitted = polled.failed_emitted
        /\ t.open = polled.open /\ t.sctp_events = polled.sctp_events /\ t.sctp = polled.sctp
        /\ t.transports = polled.transports /\ t.early = polled.early
    BY <1>2 DEF SessionType
  <2>2. Consistent(t)
    BY <1>1, <1>2, <2>1, ChangedConsistent
  <2> HIDE DEF t
  <2> QED
    BY <1>1, <1>3, <2>2, PumpConsistent DEF set_remote_description, t
<1>4. ASSUME NEW o \in Outcomes, add_remote_candidate(o) \/ \E c \in Channels : send(c, o)
      PROVE  \E s : Consistent(s) /\ Handled(s)
  BY <1>1, <1>4, PumpConsistent DEF add_remote_candidate, send
<1>5. ASSUME NEW o \in Outcomes, stun_packet(o)
      PROVE  \E s : Consistent(s) /\ Handled(s)
  BY <1>1, <1>5, PumpConsistent, IceConsistent DEF stun_packet
<1>6. ASSUME NEW o \in Outcomes, dtls_packet(o)
      PROVE  \E s : Consistent(s) /\ Handled(s)
  BY <1>1, <1>6, PumpConsistent, SctpConsistent DEF dtls_packet
<1>7. ASSUME NEW o \in Outcomes, handle_timeout(o)
      PROVE  \E s : Consistent(s) /\ Handled(s)
  BY <1>1, <1>7, PumpConsistent, IceConsistent, SctpConsistent DEF handle_timeout
<1>8. ASSUME refused_description
      PROVE  \E s : Consistent(s) /\ Handled(s)
  <2> DEFINE t == [polled EXCEPT !.credentials = TRUE]
  <2>1. /\ t \in SessionType /\ t.ice_failed = polled.ice_failed /\ t.output = polled.output
        /\ t.ready_emitted = polled.ready_emitted /\ t.failed_emitted = polled.failed_emitted
        /\ t.open = polled.open /\ t.sctp_events = polled.sctp_events /\ t.sctp = polled.sctp
        /\ t.transports = polled.transports /\ t.early = polled.early
    BY <1>2 DEF SessionType
  <2>2. Consistent(t)
    BY <1>1, <1>2, <2>1, ChangedConsistent
  <2> QED
    BY <1>8, <2>2 DEF refused_description
<1>9. ASSUME early_packet
      PROVE  \E s : Consistent(s) /\ Handled(s)
  <2> DEFINE n == IF polled.early < MaxEarly THEN polled.early + 1 ELSE polled.early
             t == [polled EXCEPT !.early = n]
  <2>1. n \in 0 .. MaxEarly
    BY <1>2, SessionAssumption DEF SessionType
  <2> HIDE DEF n
  <2>2. /\ t \in SessionType /\ t.ice_failed = polled.ice_failed /\ t.output = polled.output
        /\ t.ready_emitted = polled.ready_emitted /\ t.failed_emitted = polled.failed_emitted
        /\ t.open = polled.open /\ t.sctp_events = polled.sctp_events /\ t.sctp = polled.sctp
        /\ t.transports = polled.transports
    BY <1>2, <2>1 DEF SessionType
  <2>3. ~ polled.transports
    BY <1>2, <1>9 DEF early_packet
  <2>4. Consistent(t)
    BY <1>1, <2>2, <2>3, ChangedConsistent
  <2>5. Handled(t)
    BY <1>2, <1>9 DEF early_packet, SessionType, n
  <2> QED
    BY <2>4, <2>5
<1>10. ASSUME ice_error
       PROVE  \E s : Consistent(s) /\ Handled(s)
  BY <1>1, <1>10, IceConsistent DEF ice_error
<1> QED
  BY <1>3, <1>4, <1>5, <1>6, <1>7, <1>8, <1>9, <1>10 DEF Next

\* Time changes nothing but the time left.
LEMMA TickInv ==
  ASSUME SessionInv, Tick
  PROVE  SessionInv' /\ count' = count
<1>1. session \in SessionType /\ session.left - 1 \in 0 .. Deadline
  BY SessionAssumption DEF SessionInv, Sound, Tick, SessionType
<1>2. session' = [session EXCEPT !.left = session.left - 1] /\ count' = count
  BY <1>1 DEF Tick, SessionType
<1>3. /\ session' \in SessionType /\ session'.ice_failed = session.ice_failed
      /\ session'.ready_emitted = session.ready_emitted
      /\ session'.failed_emitted = session.failed_emitted
      /\ session'.open = session.open /\ session'.sctp_events = session.sctp_events
      /\ session'.sctp = session.sctp /\ session'.transports = session.transports
      /\ session'.early = session.early
  BY <1>1, <1>2 DEF SessionType
<1>4. Sound(session)'
  BY <1>3 DEF SessionInv, Sound
<1>5. (\A e \in Events : count[e] = Once(session, e))'
  BY <1>2, <1>3 DEF SessionInv, Once
<1> QED
  BY <1>2, <1>4, <1>5 DEF SessionInv

LEMMA SessionNextInv ==
  ASSUME SessionInv, [Next]_vars
  PROVE  /\ SessionInv'
         /\ session.ready_emitted /\ count'["Failed"] > count["Failed"] =>
              session'.ice_failed = "read" \/ session'.sctp = "lost"
<1>0. count["Failed"] \in Nat
  BY DEF SessionInv, Events
<1>1. CASE Next
  BY <1>0, <1>1, InputConsistent, HandledInv, TickInv
<1>2. CASE UNCHANGED vars
  <2>1. session' = session /\ count' = count
    BY <1>2 DEF vars
  <2> QED
    BY <1>0, <2>1 DEF SessionInv, Sound, Once
<1> QED
  BY <1>1, <1>2

LEMMA SessionIsInvariant == Spec => []SessionInv
<1>1. SessionInv /\ [Next]_vars => SessionInv'
  BY SessionNextInv
<1> QED
  BY <1>1, SessionInitInv, PTL DEF Spec

\* The fields of a session and the counts of its events keep their types, the
\* buffer of early packets its bound.
THEOREM SessionTypeCorrect == Spec => []TypeOK
<1>1. SessionInv => TypeOK
  BY DEF SessionInv, Sound, TypeOK
<1> QED
  BY <1>1, SessionIsInvariant, PTL

\* For any deadline and any order of inputs and errors, Ready and Failed are
\* reported at most once, Ready only with both channels open, and a failure of
\* ICE by the input that reads it (pump, fail).
THEOREM EventsOfSessionAreTrue == Spec => []EventsAreTrue
<1>1. SessionInv => EventsAreTrue
  BY DEF SessionInv, Sound, Once, Events, EventsAreTrue, EventsOnce, IceFailureReported
<1> QED
  BY <1>1, SessionIsInvariant, PTL

\* However many packets came early, none is left once the transports exist
\* (start_transports_on_selected_pair).
THEOREM EarlyPacketsAreReplayed == Spec => []NoEarlyPacketStranded
<1>1. SessionInv => NoEarlyPacketStranded
  BY DEF SessionInv, Sound, NoEarlyPacketStranded
<1> QED
  BY <1>1, SessionIsInvariant, PTL

\* A session that was ready fails only for ICE or SCTP, never for its deadline.
THEOREM ReadyOutlives == Spec => ReadyOutlivesDeadline
<1>1. SessionInv /\ [Next]_vars =>
        [session.ready_emitted /\ count'["Failed"] > count["Failed"] =>
           session'.ice_failed = "read" \/ session'.sctp = "lost"]_vars
  BY SessionNextInv
<1> QED
  BY <1>1, SessionIsInvariant, PTL DEF Spec, ReadyOutlivesDeadline


-----------------------------------------------------------------------------
(* Segmentation                                                            *)

LEMMA FullSegments ==
  ASSUME NEW a \in Nat, NEW b \in Nat, a <= b
  PROVE  a * MaxMessageSize <= b * MaxMessageSize
BY FramingAssumption

LEMMA CountOfSegments ==
  ASSUME NEW len \in Nat
  PROVE  LET n == SegmentCount(len)
         IN  /\ n \in Nat \ {0}
             /\ (n - 1) * MaxMessageSize <= len
             /\ len > 0 => (n - 1) * MaxMessageSize < len
             /\ len <= n * MaxMessageSize
<1> DEFINE M == MaxMessageSize
           d == len + M - 1
<1>1. M \in Nat \ {0}
  BY FramingAssumption
<1>2. CASE len <= M
  BY <1>1, <1>2 DEF SegmentCount
<1>3. CASE len > M
  <2>1. d \in Nat
    BY <1>1
  <2> DEFINE q == d \div M
  <2>2. q \in Int /\ M * q <= d /\ d < M * q + M
    BY <1>1, <2>1
  <2>3. SegmentCount(len) = q
    BY <1>1, <1>3 DEF SegmentCount
  <2> HIDE DEF q
  <2>4. M * q <= len + M - 1 /\ len + M - 1 < M * q + M
    BY <2>2
  <2> HIDE DEF d, M
  <2>5. q > 0
    BY <1>1, <1>3, <2>2, <2>4
  <2>6. (q - 1) * M = M * q - M /\ q * M = M * q
    BY <1>1, <2>2
  <2>7. M * q \in Int
    BY <1>1, <2>2
  <2> QED
    BY <1>1, <2>2, <2>3, <2>4, <2>5, <2>6, <2>7 DEF M
<1> QED
  BY <1>1, <1>2, <1>3

\* The segments of a message count down to 0, are full up to the last one and
\* hold all its bytes.
LEMMA SegmentsOfMessage ==
  ASSUME NEW of \in Nat, NEW len \in Nat, SegmentCount(len) <= U8Max
  PROVE  LET n == SegmentCount(len)
             q == split_into_segments(of, len)
         IN  /\ q \in Seq(Segments)
             /\ Len(q) = n
             /\ \A i \in 1 .. n :
                  /\ q[i].of = of /\ q[i].at = i /\ q[i].remaining = n - i
                  /\ q[i].len = IF i < n THEN MaxMessageSize ELSE len - (n - 1) * MaxMessageSize
<1> DEFINE n == SegmentCount(len)
           body(i) == IF i < n THEN MaxMessageSize ELSE len - (n - 1) * MaxMessageSize
           q == split_into_segments(of, len)
<1>1. n \in Nat \ {0} /\ (n - 1) * MaxMessageSize <= len /\ n <= U8Max
  BY CountOfSegments
<1>2. q = [i \in 1 .. n |-> [of |-> of, at |-> i, remaining |-> n - i, len |-> body(i)]]
  BY DEF split_into_segments
<1> HIDE DEF n, q
<1>3. (n - 1) * MaxMessageSize \in Nat
  BY <1>1, FramingAssumption
<1>4. \A i \in 1 .. n : body(i) \in Nat
  BY <1>1, <1>3, FramingAssumption
<1> HIDE DEF body
<1>5. \A i \in 1 .. n : [of |-> of, at |-> i, remaining |-> n - i, len |-> body(i)] \in Segments
  BY <1>1, <1>4, FramingAssumption DEF Segments
<1>6. q \in [1 .. n -> Segments]
  BY <1>2, <1>5
<1>7. q \in Seq(Segments) /\ Len(q) = n
  BY <1>1, <1>6
<1>8. ASSUME NEW i \in 1 .. n
      PROVE  q[i].of = of /\ q[i].at = i /\ q[i].remaining = n - i /\ q[i].len = body(i)
  BY <1>2
<1> QED
  BY <1>7, <1>8 DEF n, q, body

-----------------------------------------------------------------------------
(* The two ends of the reliable channel                                    *)

\* The segments in the buffer count down to what is expected next.
DataCounts ==
  /\ expected = 0 <=> data = <<>>
  /\ \A i \in 1 .. Len(data) : data[i].remaining = expected + Len(data) - i

\* How many segments of a foreign peer have arrived.
Arrived == Len(accepted) - Len(wire)

\* Each of them is a message of its own accord on the wire; the buffer has
\* skipped none with a body since its first.
ForeignWire ==
  foreign =>
    /\ Len(wire) <= Len(accepted)
    /\ \A i \in 1 .. Len(wire) :
         wire[i].of = Arrived + i /\ wire[i].len = accepted[Arrived + i]
    /\ data # <<>> =>
         /\ data[1].of \in 1 .. Arrived
         /\ \A j \in data[1].of .. Arrived :
              accepted[j] > 0 => \E i \in 1 .. Len(data) : data[i].of = j

Count(k) == SegmentCount(accepted[k])

\* s is the segment of an accepted message that its place says.
IsSegment(s) ==
  /\ s.of \in 1 .. Len(accepted)
  /\ s.at \in 1 .. Count(s.of)
  /\ s.remaining = Count(s.of) - s.at
  /\ s.len = IF s.at < Count(s.of) THEN MaxMessageSize
             ELSE accepted[s.of] - (Count(s.of) - 1) * MaxMessageSize

Follows(s, t) ==
  \/ s.remaining > 0 /\ t.of = s.of /\ t.at = s.at + 1
  \/ s.remaining = 0 /\ t.of = s.of + 1 /\ t.at = 1

\* Buffer and wire hold, one after the other, the segments of the messages
\* that were accepted and are not done with.
OwnWire ==
  ~ foreign =>
    /\ \A k \in 1 .. Len(accepted) : Count(k) <= U8Max
    /\ \A i \in 1 .. Len(wire) : IsSegment(wire[i])
    /\ \A i \in 1 .. Len(wire) - 1 : Follows(wire[i], wire[i + 1])
    /\ wire = <<>> => taken = Len(accepted) /\ data = <<>>
    /\ wire # <<>> =>
         /\ wire[1].of = taken + 1 /\ wire[1].at = Len(data) + 1
         /\ wire[Len(wire)].of = Len(accepted) /\ wire[Len(wire)].remaining = 0
    /\ \A i \in 1 .. Len(data) : data[i].of = taken + 1 /\ data[i].at = i
    /\ data # <<>> => expected = Count(taken + 1) - Len(data)
    /\ size = Len(data) * MaxMessageSize

FramingInv == FramingTypeOK /\ whole /\ DataCounts /\ ForeignWire /\ OwnWire

LEMMA FramingInitInv == FramingInit => FramingInv
<1> SUFFICES ASSUME FramingInit PROVE FramingInv
  OBVIOUS
<1>0. MaxReassembledSize \in Nat
  BY FramingAssumption DEF MaxReassembledSize
<1>1. FramingTypeOK
  BY <1>0, FramingAssumption DEF FramingInit, FramingTypeOK
<1> QED
  BY <1>1, FramingAssumption DEF FramingInit, FramingInv, DataCounts, ForeignWire, OwnWire, Arrived

\* A message that is accepted goes behind what is on the wire.
LEMMA SendInv ==
  ASSUME FramingInv, NEW len \in Lengths, Send(len)
  PROVE  FramingInv'
<1>0. PICK k, L : k = Len(accepted) + 1 /\ L = Len(wire)
  OBVIOUS
<1> DEFINE n == SegmentCount(len)
           q == split_into_segments(k, len)
<1>1. /\ ~ foreign /\ n <= U8Max /\ accepted' = Append(accepted, len) /\ wire' = wire \o q
      /\ UNCHANGED <<foreign, expected, data, size, taken, delivered, whole>>
      /\ len \in Nat /\ k \in Nat
  BY <1>0, FramingAssumption DEF Send, FramingInv, FramingTypeOK
<1>2. /\ n \in Nat \ {0} /\ (n - 1) * MaxMessageSize <= len
  BY <1>1, CountOfSegments
<1>3. /\ q \in Seq(Segments) /\ Len(q) = n
      /\ \A i \in 1 .. n :
           /\ q[i].of = k /\ q[i].at = i /\ q[i].remaining = n - i
           /\ q[i].len = IF i < n THEN MaxMessageSize ELSE len - (n - 1) * MaxMessageSize
  BY <1>1, SegmentsOfMessage
<1>4. /\ accepted' \in Seq(Nat) /\ Len(accepted') = k /\ accepted'[k] = len
      /\ \A j \in 1 .. Len(accepted) : accepted'[j] = accepted[j]
      /\ Len(accepted) \in Nat
  BY <1>0, <1>1 DEF FramingInv, FramingTypeOK
<1> HIDE DEF n, q
<1>5. /\ wire' \in Seq(Segments) /\ Len(wire') = L + n /\ L \in Nat
      /\ \A i \in 1 .. L : wire'[i] = wire[i]
      /\ \A i \in 1 .. n : wire'[L + i] = q[i]
  <2>1. wire \in Seq(Segments)
    BY DEF FramingInv, FramingTypeOK
  <2>2. /\ wire' \in Seq(Segments) /\ Len(wire') = Len(wire) + Len(q)
        /\ \A i \in 1 .. Len(wire) + Len(q) :
             wire'[i] = IF i <= Len(wire) THEN wire[i] ELSE q[i - Len(wire)]
    <3>1. q \in Seq(Segments)
      BY <1>3
    <3>2. /\ wire \o q \in Seq(Segments) /\ Len(wire \o q) = Len(wire) + Len(q)
          /\ \A i \in 1 .. Len(wire) + Len(q) :
               (wire \o q)[i] = IF i <= Len(wire) THEN wire[i] ELSE q[i - Len(wire)]
      BY ONLY <2>1, <3>1, ConcatProperties
    <3>3. wire' = wire \o q
      BY <1>1
    <3> QED
      BY <3>2, <3>3
  <2>3. L \in Nat
    BY <1>0, <2>1
  <2>4. \A i \in 1 .. n : L + i \in 1 .. L + n /\ ~ L + i <= L /\ L + i - L = i
    BY <1>2, <2>3
  <2>5. \A i \in 1 .. L : i \in 1 .. L + n /\ i <= L
    BY <1>2, <2>3
  <2> QED
    BY <1>0, <1>3, <2>2, <2>3, <2>4, <2>5
<1>6. FramingTypeOK'
  BY <1>1, <1>4, <1>5 DEF FramingInv, FramingTypeOK
<1>7. DataCounts' /\ ForeignWire' /\ whole'
  BY <1>1 DEF FramingInv, DataCounts, ForeignWire
<1>8. /\ \A j \in 1 .. Len(accepted) : Count(j)' = Count(j)
      /\ Count(k)' = n
  BY <1>4 DEF Count, n
<1>10. \A j \in 1 .. Len(accepted') : Count(j)' <= U8Max
  <2>1. \A j \in 1 .. Len(accepted) : Count(j) <= U8Max
    BY <1>1 DEF FramingInv, OwnWire
  <2>2. \A j \in 1 .. Len(accepted') : j \in 1 .. Len(accepted) \/ j = k
    BY <1>0, <1>4
  <2> QED
    BY <1>1, <1>8, <2>1, <2>2
<1>11. ASSUME NEW i \in 1 .. Len(wire')
       PROVE  IsSegment(wire[i])'
  <2>1. CASE i \in 1 .. L
    <3>1. IsSegment(wire[i]) /\ wire'[i] = wire[i]
      BY <1>1, <1>5, <1>0, <2>1 DEF FramingInv, OwnWire
    <3>2. wire[i].of \in 1 .. Len(accepted) /\ wire[i].of \in 1 .. Len(accepted')
      BY <1>4, <1>0, <3>1 DEF IsSegment
    <3> QED
      BY <1>4, <1>8, <3>1, <3>2 DEF IsSegment
  <2>2. CASE i \notin 1 .. L
    <3>1. i - L \in 1 .. n /\ wire'[i] = q[i - L]
      <4>1. i - L \in 1 .. n /\ L + (i - L) = i
        BY <1>2, <1>5, <2>2
      <4> QED
        BY <1>5, <4>1
    <3>2. k \in 1 .. Len(accepted')
      BY <1>4, <1>0
    <3>3. /\ wire'[i].of = k /\ wire'[i].at = i - L /\ wire'[i].remaining = n - (i - L)
          /\ wire'[i].len = IF i - L < n THEN MaxMessageSize ELSE len - (n - 1) * MaxMessageSize
      BY <1>3, <3>1
    <3> QED
      BY <1>4, <1>8, <3>1, <3>2, <3>3 DEF IsSegment
  <2> QED
    BY <2>1, <2>2
<1>12. ASSUME NEW i \in 1 .. Len(wire') - 1
       PROVE  Follows(wire'[i], wire'[i + 1])
  <2>1. CASE i \in 1 .. L - 1
    BY <1>1, <1>5, <1>0, <2>1 DEF FramingInv, OwnWire
  <2>2. CASE i = L
    <3>1. wire # <<>>
      BY <1>0, <2>2
    <3>2. wire[L].of = Len(accepted) /\ wire[L].remaining = 0
      BY <1>1, <1>0, <3>1 DEF FramingInv, OwnWire
    <3>3. wire'[i + 1] = q[1] /\ q[1].of = k /\ q[1].at = 1 /\ wire'[i] = wire[L]
      BY <1>2, <1>3, <1>5, <2>2
    <3> QED
      BY <1>0, <3>2, <3>3 DEF Follows
  <2>3. CASE i > L
    <3>1. i - L \in 1 .. n - 1 /\ L + (i - L) = i /\ L + (i - L + 1) = i + 1
      BY <1>2, <1>5, <2>3
    <3>2. wire'[i] = q[i - L] /\ wire'[i + 1] = q[i - L + 1]
      BY <1>2, <1>5, <3>1
    <3> QED
      BY <1>2, <1>3, <3>1, <3>2 DEF Follows
  <2> QED
    BY <1>2, <1>5, <2>1, <2>2, <2>3
<1>13. wire' # <<>> /\ wire'[1].of = taken + 1 /\ wire'[1].at = Len(data) + 1
  <2>1. wire' # <<>>
    BY <1>2, <1>5
  <2>2. CASE wire = <<>>
    <3>1. L = 0 /\ taken = Len(accepted) /\ Len(data) = 0
      BY <1>1, <1>0, <2>2 DEF FramingInv, OwnWire
    <3>2. wire'[1] = q[1]
      BY <1>2, <1>5, <3>1
    <3> QED
      BY <1>2, <1>3, <1>0, <2>1, <3>1, <3>2
  <2>3. CASE wire # <<>>
    <3>1. L > 0
      BY <1>5, <1>0, <2>3 DEF FramingInv, FramingTypeOK
    <3> QED
      BY <1>1, <1>5, <2>1, <2>3, <3>1 DEF FramingInv, OwnWire
  <2> QED
    BY <2>2, <2>3
<1>14. wire'[Len(wire')].of = Len(accepted') /\ wire'[Len(wire')].remaining = 0
  BY <1>2, <1>3, <1>4, <1>5
<1>15. data # <<>> => expected = Count(taken + 1)' - Len(data)
  <2>1. SUFFICES ASSUME data # <<>> PROVE Count(taken + 1)' = Count(taken + 1)
    BY <1>1 DEF FramingInv, OwnWire
  <2>2. wire # <<>> /\ 1 \in 1 .. Len(wire)
    BY <1>1, <2>1 DEF FramingInv, OwnWire, FramingTypeOK
  <2>3. taken + 1 \in 1 .. Len(accepted)
    BY <1>1, <2>2 DEF FramingInv, OwnWire, IsSegment
  <2> QED
    BY <1>1, <1>4, <2>3 DEF Count
<1>16. OwnWire'
  BY <1>1, <1>10, <1>11, <1>12, <1>13, <1>14, <1>15 DEF FramingInv, OwnWire
<1> QED
  BY <1>6, <1>7, <1>16 DEF FramingInv

\* A foreign peer's segment is the next to arrive.
LEMMA ForeignSendInv ==
  ASSUME FramingInv, NEW remaining \in 0 .. U8Max, NEW len \in ForeignLengths,
         ForeignSend(remaining, len)
  PROVE  FramingInv'
<1>0. PICK k, L : k = Len(accepted) + 1 /\ L = Len(wire)
  OBVIOUS
<1> DEFINE s == [of |-> k, at |-> 1, remaining |-> remaining, len |-> len]
<1>1. /\ foreign /\ accepted' = Append(accepted, len) /\ wire' = Append(wire, s)
      /\ UNCHANGED <<foreign, expected, data, size, taken, delivered, whole>>
      /\ len \in Nat /\ k \in Nat /\ L \in Nat
      /\ wire \in Seq(Segments) /\ accepted \in Seq(Nat)
  BY <1>0, FramingAssumption DEF ForeignSend, FramingInv, FramingTypeOK
<1>2. s \in Segments /\ s.of = k /\ s.len = len
  BY <1>1 DEF Segments
<1> HIDE DEF s
<1>3. /\ accepted' \in Seq(Nat) /\ Len(accepted') = k /\ accepted'[k] = len
      /\ \A j \in 1 .. Len(accepted) : accepted'[j] = accepted[j]
  BY <1>0, <1>1, AppendProperties
<1>4. /\ wire' \in Seq(Segments) /\ Len(wire') = L + 1 /\ wire'[L + 1] = s
      /\ \A j \in 1 .. L : wire'[j] = wire[j]
  BY <1>0, <1>1, <1>2, AppendProperties
<1>5. FramingTypeOK'
  BY <1>1, <1>3, <1>4 DEF FramingInv, FramingTypeOK
<1>6. DataCounts' /\ OwnWire' /\ whole'
  BY <1>1 DEF FramingInv, DataCounts, OwnWire
<1>7. /\ Len(wire) <= Len(accepted) /\ Arrived \in Nat
      /\ \A i \in 1 .. L : wire[i].of = Arrived + i /\ wire[i].len = accepted[Arrived + i]
      /\ data # <<>> =>
           /\ data[1].of \in 1 .. Arrived
           /\ \A j \in data[1].of .. Arrived :
                accepted[j] > 0 => \E i \in 1 .. Len(data) : data[i].of = j
  <2>1. Len(wire) <= Len(accepted)
    BY <1>1 DEF FramingInv, ForeignWire
  <2>2. Arrived \in Nat
    BY <1>0, <1>1, <2>1 DEF Arrived
  <2> QED
    BY <1>0, <1>1, <2>1, <2>2 DEF FramingInv, ForeignWire
<1>8. Arrived' = Arrived /\ Arrived + L + 1 = k
  BY <1>0, <1>1, <1>3, <1>4 DEF Arrived
<1>9. ASSUME NEW i \in 1 .. Len(wire')
      PROVE  wire'[i].of = Arrived + i /\ wire'[i].len = accepted'[Arrived + i]
  <2>1. CASE i \in 1 .. L
    <3>1. Arrived + i \in 1 .. Len(accepted)
      BY <1>0, <1>1, <1>7, <1>8, <2>1
    <3> QED
      BY <1>3, <1>4, <1>7, <2>1, <3>1
  <2>2. CASE i = L + 1
    <3>1. Arrived + i = k
      BY <1>1, <1>7, <1>8, <2>2
    <3> QED
      BY <1>2, <1>3, <1>4, <2>2, <3>1
  <2>3. i \in 1 .. L \/ i = L + 1
    BY <1>1, <1>4
  <2> QED
    BY <2>1, <2>2, <2>3
<1>10. data # <<>> => \A j \in data[1].of .. Arrived :
                        accepted'[j] > 0 => \E i \in 1 .. Len(data) : data[i].of = j
  <2> SUFFICES ASSUME data # <<>>, NEW j \in data[1].of .. Arrived, accepted'[j] > 0
               PROVE  \E i \in 1 .. Len(data) : data[i].of = j
    OBVIOUS
  <2>1. j \in 1 .. Len(accepted)
    BY <1>0, <1>1, <1>7, <1>8
  <2> QED
    BY <1>3, <1>7, <2>1
<1>11. Len(wire') <= Len(accepted')
  BY <1>0, <1>1, <1>3, <1>4, <1>7
<1>12. ForeignWire'
  BY <1>1, <1>7, <1>8, <1>9, <1>10, <1>11 DEF ForeignWire
<1> QED
  BY <1>5, <1>6, <1>12 DEF FramingInv

\* Whatever segment arrives, the buffer counts down.
LEMMA AddSegmentCounts ==
  ASSUME FramingTypeOK, DataCounts, NEW s \in Segments, add_segment(s), accepted' = accepted
  PROVE  /\ expected' \in 0 .. U8Max /\ data' \in Seq(Segments)
         /\ size' \in 0 .. MaxReassembledSize /\ whole' \in BOOLEAN
         /\ s.of \in Nat => delivered' \in Seq(Nat)
         /\ DataCounts'
<1> USE FramingAssumption
<1>0. /\ MaxReassembledSize \in Nat /\ expected \in 0 .. U8Max /\ data \in Seq(Segments)
      /\ size \in 0 .. MaxReassembledSize /\ whole \in BOOLEAN /\ delivered \in Seq(Nat)
      /\ s.remaining \in 0 .. U8Max /\ s.len \in Nat /\ s.of \in Nat /\ <<>> \in Seq(Segments)
  BY DEF FramingTypeOK, MaxReassembledSize, Segments
<1>1. CASE UNCHANGED <<expected, data, size, delivered, whole>>
  BY <1>0, <1>1 DEF DataCounts
<1>2. CASE Reset /\ UNCHANGED <<delivered, whole>>
  BY <1>0, <1>2 DEF DataCounts, Reset
<1>3. CASE Buffered(s)
  <2>1. /\ expected' = s.remaining /\ s.remaining > 0 /\ data' = Append(data, s)
        /\ size' = size + s.len /\ size' <= MaxReassembledSize
        /\ expected # 0 => expected = s.remaining + 1
        /\ UNCHANGED <<delivered, whole>>
    BY <1>0, <1>3 DEF Buffered, InSequence, Expected, Fits
  <2>2. /\ data' \in Seq(Segments) /\ data' # <<>> /\ Len(data') = Len(data) + 1
        /\ data'[Len(data) + 1] = s /\ \A i \in 1 .. Len(data) : data'[i] = data[i]
        /\ Len(data) \in Nat
    BY <1>0, <2>1, AppendProperties, LenProperties
  <2>3. ASSUME NEW i \in 1 .. Len(data')
        PROVE  data'[i].remaining = expected' + Len(data') - i
    <3>1. CASE i = Len(data) + 1
      BY <1>0, <2>1, <2>2, <3>1
    <3>2. CASE i \in 1 .. Len(data)
      <4>1. data # <<>> /\ expected # 0
        BY <2>2, <3>2 DEF DataCounts
      <4>2. data[i].remaining = expected + Len(data) - i
        BY <3>2 DEF DataCounts
      <4>3. expected = expected' + 1
        BY <2>1, <4>1
      <4>4. data'[i] = data[i]
        BY <2>2, <3>2
      <4>5. expected' \in Int /\ Len(data) \in Int /\ i \in Int /\ Len(data') = Len(data) + 1
        BY <1>0, <2>1, <2>2, <3>2
      <4>6. data'[i].remaining = (expected' + 1) + Len(data) - i
        BY <4>2, <4>3, <4>4
      <4> QED
        BY <4>5, <4>6
    <3> QED
      BY <2>2, <3>1, <3>2
  <2>4. DataCounts'
    BY <1>0, <2>1, <2>2, <2>3 DEF DataCounts
  <2> QED
    BY <1>0, <2>1, <2>2, <2>4
<1>4. CASE Completed(s)
  <2>1. expected' = 0 /\ data' = <<>> /\ size' = 0 /\ delivered' = Append(delivered, s.of)
    BY <1>4 DEF Completed, Reset
  <2>2. whole' \in BOOLEAN
    BY <1>4 DEF Completed
  <2>3. DataCounts'
    BY <2>1 DEF DataCounts
  <2> QED
    BY <1>0, <2>1, <2>2, <2>3, AppendProperties
<1> QED
  BY <1>1, <1>2, <1>3, <1>4 DEF add_segment, CountOutOfRange, OutOfSequence, TooLarge

LEMMA ReceiveTypes ==
  ASSUME FramingInv, Receive
  PROVE  FramingTypeOK' /\ DataCounts'
<1>1. wire \in Seq(Segments) /\ wire # <<>>
  BY DEF FramingInv, FramingTypeOK, Receive
<1>2. Head(wire) \in Segments /\ Tail(wire) \in Seq(Segments) /\ Head(wire).of \in Nat
  <2>1. Head(wire) \in Segments /\ Tail(wire) \in Seq(Segments)
    BY <1>1, HeadTailProperties
  <2> QED
    BY <2>1 DEF Segments
<1>3. /\ foreign' \in BOOLEAN /\ accepted' \in Seq(Nat) /\ wire' \in Seq(Segments) /\ taken' \in Nat
      /\ accepted' = accepted
  BY <1>2 DEF FramingInv, FramingTypeOK, Receive
<1>4. CASE decode(Head(wire))
  <2>1. add_segment(Head(wire))
    BY <1>4 DEF Receive
  <2> QED
    BY <1>2, <1>3, <2>1, AddSegmentCounts DEF FramingInv, FramingTypeOK
<1>5. CASE ~ decode(Head(wire))
  <2>1. UNCHANGED <<expected, data, size, delivered, whole>>
    BY <1>5 DEF Receive
  <2> QED
    BY <1>3, <2>1 DEF FramingInv, FramingTypeOK, DataCounts
<1> QED
  BY <1>4, <1>5

\* A segment that completes a message completes a count down from its first.
LEMMA CompletedCounts ==
  ASSUME FramingTypeOK, DataCounts, NEW s \in Segments, InSequence(s), s.remaining = 0
  PROVE  LET q == Append(data, s)
         IN  /\ Len(q) = Len(data) + 1 /\ q[Len(q)] = s /\ Len(data) \in Nat
             /\ \A i \in 1 .. Len(data) : q[i] = data[i]
             /\ \A i \in 1 .. Len(q) : q[i].remaining = Len(q) - i
<1> DEFINE q == Append(data, s)
<1>0. data \in Seq(Segments) /\ expected \in Nat /\ U8Max \in Nat
  BY FramingAssumption DEF FramingTypeOK
<1>1. /\ Len(q) = Len(data) + 1 /\ q[Len(data) + 1] = s /\ Len(data) \in Nat
      /\ \A i \in 1 .. Len(data) : q[i] = data[i]
  BY <1>0, AppendProperties, LenProperties
<1> HIDE DEF q
<1>2. expected # 0 => expected = 1
  BY <1>0 DEF InSequence, Expected
<1>3. ASSUME NEW i \in 1 .. Len(q)
      PROVE  q[i].remaining = Len(q) - i
  <2>1. CASE i = Len(data) + 1
    BY <1>1, <2>1
  <2>2. CASE i \in 1 .. Len(data)
    <3>1. expected = 1
      BY <1>1, <1>2, <2>2 DEF DataCounts
    <3> QED
      BY <1>1, <2>2, <3>1 DEF DataCounts
  <2> QED
    BY <1>1, <2>1, <2>2
<1> QED
  BY <1>1, <1>3 DEF q

\* From a foreign peer: a message given to the application has skipped no
\* segment with a body.
LEMMA ForeignReceiveInv ==
  ASSUME FramingInv, Receive, foreign
  PROVE  whole' /\ ForeignWire' /\ OwnWire'
<1>0. PICK s, a : s = Head(wire) /\ a = Arrived
  OBVIOUS
<1>1. /\ wire \in Seq(Segments) /\ wire # <<>> /\ data \in Seq(Segments) /\ whole
      /\ foreign' = foreign /\ accepted' = accepted /\ wire' = Tail(wire)
      /\ FramingTypeOK /\ DataCounts
  BY DEF FramingInv, FramingTypeOK, Receive
<1>2. /\ Len(wire) <= Len(accepted) /\ Len(accepted) \in Nat /\ a \in Nat
      /\ \A i \in 1 .. Len(wire) : wire[i].of = a + i /\ wire[i].len = accepted[a + i]
      /\ data # <<>> =>
           /\ data[1].of \in 1 .. a
           /\ \A j \in data[1].of .. a :
                accepted[j] > 0 => \E i \in 1 .. Len(data) : data[i].of = j
  <2>1. Len(wire) <= Len(accepted) /\ Len(accepted) \in Nat
    BY DEF FramingInv, FramingTypeOK, ForeignWire
  <2>2. a \in Nat
    BY <1>0, <1>1, <2>1 DEF Arrived
  <2> QED
    BY <1>0, <2>1, <2>2 DEF FramingInv, ForeignWire
<1>3. /\ s = wire[1] /\ s \in Segments /\ Len(wire) \in Nat \ {0}
      /\ Len(wire') = Len(wire) - 1 /\ \A i \in 1 .. Len(wire') : wire'[i] = wire[i + 1]
  BY <1>0, <1>1, HeadTailProperties, EmptySeq
<1>4. s.of = a + 1 /\ s.len = accepted[a + 1]
  BY <1>2, <1>3
<1>5. Arrived' = a + 1
  BY <1>0, <1>1, <1>2, <1>3 DEF Arrived
<1>6. /\ Len(wire') <= Len(accepted')
      /\ \A i \in 1 .. Len(wire') :
           wire'[i].of = a + 1 + i /\ wire'[i].len = accepted'[a + 1 + i]
  BY <1>1, <1>2, <1>3
<1>7. whole' /\ (data' # <<>> =>
                   /\ data'[1].of \in 1 .. a + 1
                   /\ \A j \in data'[1].of .. a + 1 :
                        accepted[j] > 0 => \E i \in 1 .. Len(data') : data'[i].of = j)
  <2>1. CASE ~ decode(s)
    <3>1. UNCHANGED <<data, whole>>
      BY <1>0, <2>1 DEF Receive
    <3>2. ~ accepted[a + 1] > 0
      BY <1>4, <2>1 DEF decode
    <3>3. ASSUME data # <<>>
          PROVE  /\ data[1].of \in 1 .. a + 1
                 /\ \A j \in data[1].of .. a + 1 :
                      accepted[j] > 0 => \E i \in 1 .. Len(data) : data[i].of = j
      <4>1. data[1].of \in 1 .. a /\ data[1].of \in 1 .. a + 1
        BY <1>2, <3>3
      <4>2. \A j \in data[1].of .. a + 1 : j \in data[1].of .. a \/ j = a + 1
        BY <1>2, <4>1
      <4> QED
        BY <1>2, <3>2, <3>3, <4>1, <4>2
    <3> QED
      BY <1>1, <3>1, <3>3
  <2>2. CASE decode(s) /\ CountOutOfRange(s)
    <3>1. data = <<>>
      <4>1. expected = 0
        BY <1>1, <2>2, FramingAssumption DEF CountOutOfRange, Expected, FramingTypeOK
      <4> QED
        BY <1>1, <4>1 DEF DataCounts
    <3> QED
      BY <1>1, <2>2, <3>1 DEF CountOutOfRange
  <2>3. CASE decode(s) /\ (OutOfSequence(s) \/ TooLarge(s))
    BY <1>1, <2>3 DEF OutOfSequence, TooLarge, Reset
  <2>4. CASE decode(s) /\ Buffered(s)
    <3>1. data' = Append(data, s) /\ whole' = whole
      BY <2>4 DEF Buffered
    <3>2. /\ Len(data') = Len(data) + 1 /\ data'[Len(data) + 1] = s /\ Len(data) \in Nat
          /\ \A i \in 1 .. Len(data) : data'[i] = data[i]
      BY <1>1, <1>3, <3>1, AppendProperties, LenProperties
    <3>3. CASE data = <<>>
      <4>1. data'[1] = s /\ Len(data') = 1
        BY <3>2, <3>3
      <4> QED
        BY <1>1, <1>2, <1>4, <3>1, <4>1
    <3>4. CASE data # <<>>
      <4>1. 1 \in 1 .. Len(data)
        BY <1>1, <3>4, EmptySeq
      <4>2. data'[1] = data[1] /\ data[1].of \in 1 .. a /\ data[1].of \in 1 .. a + 1
        BY <1>2, <3>2, <3>4, <4>1
      <4>3. ASSUME NEW j \in data[1].of .. a + 1, accepted[j] > 0
            PROVE  \E i \in 1 .. Len(data') : data'[i].of = j
        <5>1. CASE j = a + 1
          BY <1>4, <3>2, <5>1
        <5>2. CASE j # a + 1
          <6>1. j \in data[1].of .. a
            BY <1>2, <4>2, <5>2
          <6>2. PICK i \in 1 .. Len(data) : data[i].of = j
            BY <1>2, <3>4, <4>3, <6>1
          <6> QED
            BY <3>2, <6>2
        <5> QED
          BY <5>1, <5>2
      <4> QED
        BY <1>1, <3>1, <4>2, <4>3
    <3> QED
      BY <3>3, <3>4
  <2>5. CASE decode(s) /\ Completed(s)
    <3> DEFINE q == Append(data, s)
    <3>1. data' = <<>> /\ whole' = (whole /\ InOnePiece(q)) /\ InSequence(s) /\ s.remaining = 0
      BY <2>5 DEF Completed, Reset
    <3>2. /\ Len(q) = Len(data) + 1 /\ q[Len(q)] = s /\ Len(data) \in Nat
          /\ \A i \in 1 .. Len(data) : q[i] = data[i]
          /\ \A i \in 1 .. Len(q) : q[i].remaining = Len(q) - i
      BY <1>1, <1>3, <3>1, CompletedCounts
    <3> HIDE DEF q
    <3>3. ASSUME NEW j \in q[1].of .. q[Len(q)].of, accepted[j] > 0
          PROVE  \E i \in 1 .. Len(q) : q[i].of = j
      <4>1. CASE j = a + 1
        BY <1>4, <3>2, <4>1
      <4>2. CASE j # a + 1
        <5>1. data # <<>>
          BY <1>2, <1>4, <3>2, <4>2
        <5>2. q[1] = data[1] /\ data[1].of \in 1 .. a
          BY <1>1, <1>2, <3>2, <5>1, EmptySeq
        <5>3. j \in data[1].of .. a
          BY <1>2, <1>4, <3>2, <4>2, <5>2
        <5>4. PICK i \in 1 .. Len(data) : data[i].of = j
          BY <1>2, <3>3, <5>1, <5>3
        <5> QED
          BY <3>2, <5>4
      <4> QED
        BY <4>1, <4>2
    <3>4. InOnePiece(q)
      BY <3>2, <3>3 DEF InOnePiece
    <3> QED
      BY <1>1, <3>1, <3>4
  <2> QED
    BY <1>0, <2>1, <2>2, <2>3, <2>4, <2>5 DEF Receive, add_segment
<1>8. ForeignWire'
  BY <1>1, <1>5, <1>6, <1>7 DEF ForeignWire
<1> QED
  BY <1>1, <1>7, <1>8 DEF OwnWire

\* Of this implementation's messages, the segment at the head of the wire is
\* the one the buffer waits for; only a message without bytes has none.
LEMMA OwnSegment ==
  ASSUME FramingInv, ~ foreign, wire # <<>>, NEW s, s = Head(wire)
  PROVE  /\ s \in Segments /\ s = wire[1]
         /\ s.of = taken + 1 /\ s.of \in 1 .. Len(accepted) /\ s.at = Len(data) + 1
         /\ s.remaining = Count(s.of) - s.at /\ Count(s.of) \in Nat
         /\ s.remaining > 0 => s.len = MaxMessageSize
         /\ ~ decode(s) => accepted[s.of] = 0 /\ s.remaining = 0 /\ data = <<>>
         /\ decode(s) /\ s.remaining = 0 => accepted[s.of] # 0
         /\ Expected(s) <= U8Max /\ InSequence(s) /\ Fits(s)
<1> DEFINE n == Count(s.of)
           M == MaxMessageSize
<1> USE FramingAssumption
<1>1. /\ wire \in Seq(Segments) /\ data \in Seq(Segments) /\ accepted \in Seq(Nat)
      /\ taken \in Nat /\ expected \in 0 .. U8Max /\ Len(data) \in Nat /\ M \in Nat \ {0}
      /\ size = Len(data) * M
  BY DEF FramingInv, FramingTypeOK, OwnWire
<1>2. s \in Segments /\ s = wire[1] /\ 1 \in 1 .. Len(wire)
  BY <1>1, HeadTailProperties, EmptySeq
<1>3. /\ s.of = taken + 1 /\ s.at = Len(data) + 1
      /\ IsSegment(s) /\ n <= U8Max
      /\ data # <<>> => expected = Count(taken + 1) - Len(data)
  BY <1>2 DEF FramingInv, OwnWire, IsSegment
<1>4. accepted[s.of] \in Nat /\ s.of \in 1 .. Len(accepted)
  BY <1>1, <1>3, ElementOfSeq DEF IsSegment
<1>5. /\ n \in Nat \ {0} /\ (n - 1) * M <= accepted[s.of]
      /\ accepted[s.of] > 0 => (n - 1) * M < accepted[s.of]
      /\ accepted[s.of] <= n * M
  BY <1>4, CountOfSegments DEF Count
<1>6. s.remaining = n - s.at /\ s.at \in 1 .. n
      /\ s.len = IF s.at < n THEN M ELSE accepted[s.of] - (n - 1) * M
  BY <1>3 DEF IsSegment
<1>7. s.of \in Nat /\ s.remaining \in 0 .. U8Max /\ s.len \in Nat /\ s.at \in Nat
  BY <1>2 DEF Segments
<1> HIDE DEF n, M
<1>8. s.remaining > 0 => s.len = M
  BY <1>5, <1>6, <1>7
<1>9. (n - 1) * M \in Nat /\ n * M \in Nat /\ n * M = (n - 1) * M + M
  BY <1>1, <1>5
<1>10. s.len <= M
  BY <1>1, <1>4, <1>5, <1>6, <1>9
<1>11. s.remaining = 0 => s.at = n /\ s.len = accepted[s.of] - (n - 1) * M
  BY <1>5, <1>6, <1>7
<1>12. ~ decode(s) => accepted[s.of] = 0 /\ s.remaining = 0 /\ data = <<>>
  <2> SUFFICES ASSUME ~ decode(s) PROVE accepted[s.of] = 0 /\ s.remaining = 0 /\ data = <<>>
    OBVIOUS
  <2>1. s.len = 0
    BY <1>7 DEF decode
  <2>2. s.remaining = 0
    BY <1>1, <1>7, <1>8, <2>1
  <2>3. accepted[s.of] = (n - 1) * M
    BY <1>4, <1>9, <1>11, <2>1, <2>2
  <2>4. accepted[s.of] = 0
    BY <1>4, <1>5, <1>9, <2>3
  <2>5. Count(s.of) = 1
    BY <1>1, <2>4 DEF Count, SegmentCount, M
  <2>6. Len(data) = 0
    BY <1>1, <1>3, <1>11, <2>2, <2>5 DEF n
  <2> QED
    BY <1>1, <2>2, <2>4, <2>6, EmptySeq
<1>13. decode(s) /\ s.remaining = 0 => accepted[s.of] # 0
  BY <1>4, <1>5, <1>9, <1>11 DEF decode
<1>14. data = <<>> => expected = 0
  BY DEF FramingInv, DataCounts
<1>15. data # <<>> => expected = s.remaining + 1
  BY <1>1, <1>3, <1>5, <1>6 DEF n
<1>16. s.remaining + 1 <= U8Max
  BY <1>3, <1>5, <1>6, <1>7
<1>17. Expected(s) <= U8Max /\ InSequence(s)
  <2>1. CASE expected = 0 /\ s.remaining > 0
    <3>1. Expected(s) = s.remaining + 1 /\ Expected(s) - 1 = s.remaining
      BY <1>7, <2>1 DEF Expected
    <3> QED
      BY <1>16, <3>1 DEF InSequence
  <2>2. CASE ~ (expected = 0 /\ s.remaining > 0)
    <3>1. Expected(s) = expected
      BY <2>2 DEF Expected
    <3>2. expected # 0 => s.remaining = expected - 1
      BY <1>7, <1>14, <1>15
    <3>3. expected <= U8Max
      BY <1>1
    <3> QED
      BY <3>1, <3>2, <3>3 DEF InSequence
  <2> QED
    BY <2>1, <2>2
<1>18. Fits(s)
  <2>1. /\ Len(data) + 1 \in Nat /\ U8Max + 1 \in Nat
        /\ Len(data) + 1 <= U8Max + 1
    <3>1. s.at <= U8Max /\ s.at = Len(data) + 1
      BY <1>3, <1>5, <1>6, <1>7 DEF n
    <3> QED
      BY <1>1, <3>1
  <2>2. (Len(data) + 1) * M <= (U8Max + 1) * M
    BY <2>1, FullSegments DEF M
  <2>3. (Len(data) + 1) * M = Len(data) * M + M
    BY <1>1
  <2>4. Len(data) * M \in Nat /\ (U8Max + 1) * M \in Nat
    BY <1>1
  <2> QED
    BY <1>1, <1>7, <1>10, <2>2, <2>3, <2>4 DEF Fits, MaxReassembledSize, M
<1> QED
  BY <1>2, <1>3, <1>4, <1>5, <1>6, <1>8, <1>12, <1>13, <1>17, <1>18 DEF n, M

\* A segment that is not the last of its message is put into the buffer, the
\* last one completes it, and one without bytes is nothing.
LEMMA OwnOutcome ==
  ASSUME FramingInv, Receive, ~ foreign, NEW s, s = Head(wire)
  PROVE  /\ s.remaining > 0 => decode(s) /\ Buffered(s) /\ taken' = taken
         /\ s.remaining = 0 /\ decode(s) => Completed(s) /\ taken' = taken + 1
         /\ s.remaining = 0 /\ ~ decode(s) =>
              UNCHANGED <<expected, data, size, delivered, whole>> /\ taken' = taken + 1
<1>1. /\ s.remaining \in Nat /\ s.of = taken + 1
      /\ Expected(s) <= U8Max /\ InSequence(s) /\ Fits(s)
      /\ ~ decode(s) => s.remaining = 0
  <2>1. wire # <<>>
    BY DEF Receive
  <2> QED
    BY <2>1, OwnSegment DEF Segments
<1>2. taken' = IF s.remaining = 0 THEN s.of ELSE taken
  BY DEF Receive
<1>3. decode(s) => add_segment(s)
  BY DEF Receive
<1>4. ~ decode(s) => UNCHANGED <<expected, data, size, delivered, whole>>
  BY DEF Receive
<1>5. Expected(s) \in Int /\ U8Max \in Nat
  BY <1>1, FramingAssumption DEF Expected, FramingInv, FramingTypeOK
<1>6. decode(s) => Buffered(s) \/ Completed(s)
  BY <1>1, <1>3, <1>5 DEF add_segment, CountOutOfRange, OutOfSequence, TooLarge
<1>7. s.remaining > 0 => ~ Completed(s)
  BY <1>1 DEF Completed
<1>8. s.remaining = 0 => ~ Buffered(s)
  BY DEF Buffered
<1> QED
  BY <1>1, <1>2, <1>4, <1>6, <1>7, <1>8

\* From this implementation: the message given to the application is the next
\* one that was accepted.
LEMMA OwnReceiveInv ==
  ASSUME FramingInv, Receive, ~ foreign
  PROVE  whole' /\ ForeignWire' /\ OwnWire'
<1>0. PICK s : s = Head(wire)
  OBVIOUS
<1>1. /\ wire \in Seq(Segments) /\ wire # <<>> /\ data \in Seq(Segments) /\ whole
      /\ foreign' = foreign /\ accepted' = accepted /\ wire' = Tail(wire)
      /\ FramingTypeOK /\ DataCounts /\ Len(accepted) \in Nat /\ taken \in Nat
  BY DEF FramingInv, FramingTypeOK, Receive
<1>2. /\ s \in Segments /\ s = wire[1]
      /\ s.of = taken + 1 /\ s.of \in 1 .. Len(accepted) /\ s.at = Len(data) + 1
      /\ s.remaining = Count(s.of) - s.at /\ Count(s.of) \in Nat
      /\ s.remaining > 0 => s.len = MaxMessageSize
      /\ ~ decode(s) => s.remaining = 0 /\ data = <<>>
  BY <1>0, <1>1, OwnSegment
<1>3. s.remaining \in Nat
  BY <1>2 DEF Segments
<1>4. /\ Len(wire) \in Nat \ {0} /\ wire' \in Seq(Segments)
      /\ Len(wire') = Len(wire) - 1 /\ \A i \in 1 .. Len(wire') : wire'[i] = wire[i + 1]
  BY <1>1, HeadTailProperties, EmptySeq
<1>5. /\ \A i \in 1 .. Len(wire) : IsSegment(wire[i])
      /\ \A i \in 1 .. Len(wire) - 1 : Follows(wire[i], wire[i + 1])
      /\ wire[Len(wire)].of = Len(accepted) /\ wire[Len(wire)].remaining = 0
      /\ \A k \in 1 .. Len(accepted) : Count(k) <= U8Max
      /\ \A i \in 1 .. Len(data) : data[i].of = taken + 1 /\ data[i].at = i
      /\ size = Len(data) * MaxMessageSize
  BY <1>1 DEF FramingInv, OwnWire
<1>6. \A k : Count(k)' = Count(k)
  BY <1>1 DEF Count
<1>7. \A i \in 1 .. Len(wire') : IsSegment(wire[i])'
  <2> SUFFICES ASSUME NEW i \in 1 .. Len(wire') PROVE IsSegment(wire[i])'
    OBVIOUS
  <2>1. wire'[i] = wire[i + 1] /\ i + 1 \in 1 .. Len(wire)
    BY <1>4
  <2> QED
    BY <1>1, <1>5, <2>1 DEF IsSegment, Count
<1>8. \A i \in 1 .. Len(wire') - 1 : Follows(wire'[i], wire'[i + 1])
  <2> SUFFICES ASSUME NEW i \in 1 .. Len(wire') - 1 PROVE Follows(wire'[i], wire'[i + 1])
    OBVIOUS
  <2>1. /\ wire'[i] = wire[i + 1] /\ wire'[i + 1] = wire[i + 1 + 1]
        /\ i + 1 \in 1 .. Len(wire) - 1
    BY <1>4
  <2> QED
    BY <1>5, <2>1
<1>9. wire' # <<>> => /\ Len(wire') \in 1 .. Len(wire) - 1
                      /\ wire'[Len(wire')] = wire[Len(wire)]
                      /\ wire'[1] = wire[2] /\ Follows(s, wire[2])
  <2> SUFFICES ASSUME wire' # <<>>
               PROVE  /\ Len(wire') \in 1 .. Len(wire) - 1
                      /\ wire'[Len(wire')] = wire[Len(wire)]
                      /\ wire'[1] = wire[2] /\ Follows(s, wire[2])
    OBVIOUS
  <2>1. Len(wire') \in Nat \ {0}
    BY <1>4, EmptySeq
  <2>2. Len(wire') + 1 = Len(wire) /\ 1 \in 1 .. Len(wire) - 1
    BY <1>4, <2>1
  <2>3. Follows(wire[1], wire[1 + 1])
    BY <1>5, <2>2
  <2> QED
    BY <1>2, <1>4, <2>1, <2>2, <2>3
<1>10. wire' = <<>> => Len(wire) = 1 /\ s.of = Len(accepted) /\ s.remaining = 0
  <2> SUFFICES ASSUME wire' = <<>> PROVE Len(wire) = 1
    BY <1>2, <1>5
  <2>1. Len(wire') = 0
    OBVIOUS
  <2> QED
    BY <1>4, <2>1
<1>11. CASE s.remaining > 0
  <2>1. decode(s) /\ Buffered(s) /\ taken' = taken
    BY <1>0, <1>11, OwnOutcome
  <2>2. data' = Append(data, s) /\ size' = size + s.len /\ whole' = whole
    BY <2>1 DEF Buffered
  <2>3. /\ Len(data') = Len(data) + 1 /\ data'[Len(data) + 1] = s /\ Len(data) \in Nat
        /\ \A i \in 1 .. Len(data) : data'[i] = data[i]
    BY <1>1, <1>2, <2>2, AppendProperties, LenProperties
  <2>4. expected' = s.remaining
    BY <1>3, <2>1 DEF Buffered, Expected, InSequence, FramingTypeOK
  <2>5. size' = Len(data') * MaxMessageSize
    BY <1>2, <1>5, <1>11, <2>2, <2>3, FramingAssumption
  <2>6. ASSUME NEW i \in 1 .. Len(data')
        PROVE  data'[i].of = taken + 1 /\ data'[i].at = i
    <3>1. CASE i = Len(data) + 1
      BY <1>2, <1>5, <2>3, <3>1
    <3>2. CASE i \in 1 .. Len(data)
      BY <1>2, <1>5, <2>3, <3>2
    <3> QED
      BY <2>3, <3>1, <3>2
  <2>7. wire' # <<>> /\ wire'[1].of = taken + 1 /\ wire'[1].at = Len(data') + 1
    BY <1>2, <1>3, <1>9, <1>10, <1>11, <2>3 DEF Follows
  <2>8. expected' = Count(taken + 1) - Len(data')
    BY <1>2, <2>3, <2>4
  <2>9. OwnWire'
    BY <1>1, <1>5, <1>6, <1>7, <1>8, <1>9, <2>1, <2>5, <2>6, <2>7, <2>8 DEF OwnWire
  <2> QED
    BY <1>1, <2>2, <2>9 DEF ForeignWire
<1>12. CASE s.remaining = 0
  <2>1. taken' = taken + 1
    BY <1>0, <1>12, OwnOutcome
  <2>2. data' = <<>> /\ size' = 0 /\ whole'
    <3>1. CASE ~ decode(s)
      <4>1. UNCHANGED <<data, size, whole>>
        BY <1>0, <1>12, <3>1, OwnOutcome
      <4>2. data = <<>> /\ Len(data) = 0 /\ 0 * MaxMessageSize = 0
        BY <1>2, <3>1, FramingAssumption
      <4> QED
        BY <1>1, <1>5, <4>1, <4>2
    <3>2. CASE decode(s)
      <4> DEFINE q == Append(data, s)
      <4>1. Completed(s)
        BY <1>0, <1>12, <3>2, OwnOutcome
      <4>2. data' = <<>> /\ size' = 0 /\ whole' = (whole /\ InOnePiece(q)) /\ InSequence(s)
        BY <4>1 DEF Completed, Reset
      <4>3. /\ Len(q) = Len(data) + 1 /\ q[Len(q)] = s /\ Len(data) \in Nat
            /\ \A i \in 1 .. Len(data) : q[i] = data[i]
            /\ \A i \in 1 .. Len(q) : q[i].remaining = Len(q) - i
        BY <1>1, <1>2, <1>12, <4>2, CompletedCounts
      <4> HIDE DEF q
      <4>4. \A i \in 1 .. Len(q) : q[i].of = taken + 1 /\ q[i].at = i
        <5>1. \A i \in 1 .. Len(q) : i \in 1 .. Len(data) \/ i = Len(q)
          BY <4>3
        <5> QED
          BY <1>2, <1>5, <4>3, <5>1
      <4>5. InOnePiece(q)
        BY <4>3, <4>4 DEF InOnePiece
      <4> QED
        BY <1>1, <4>2, <4>5
    <3> QED
      BY <3>1, <3>2
  <2>3. Len(data') = 0 /\ size' = Len(data') * MaxMessageSize
    BY <2>2, FramingAssumption
  <2>4. wire' # <<>> => wire'[1].of = taken' + 1 /\ wire'[1].at = Len(data') + 1
    BY <1>1, <1>2, <1>9, <1>12, <2>1, <2>3 DEF Follows
  <2>5. wire' = <<>> => taken' = Len(accepted)
    BY <1>2, <1>10, <2>1
  <2>6. OwnWire'
    BY <1>1, <1>5, <1>6, <1>7, <1>8, <1>9, <2>2, <2>3, <2>4, <2>5 DEF OwnWire
  <2> QED
    BY <1>1, <2>2, <2>6 DEF ForeignWire
<1> QED
  BY <1>3, <1>11, <1>12

LEMMA FramingIsInvariant == FramingSpec => []FramingInv
<1>1. FramingInv /\ [FramingNext]_framingVars => FramingInv'
  <2> SUFFICES ASSUME FramingInv, [FramingNext]_framingVars PROVE FramingInv'
    OBVIOUS
  <2>1. ASSUME NEW len \in Lengths, Send(len) PROVE FramingInv'
    BY <2>1, SendInv
  <2>2. ASSUME NEW remaining \in 0 .. U8Max, NEW len \in ForeignLengths, ForeignSend(remaining, len)
        PROVE  FramingInv'
    BY <2>2, ForeignSendInv
  <2>3. CASE Receive
    BY <2>3, ReceiveTypes, ForeignReceiveInv, OwnReceiveInv DEF FramingInv
  <2>4. CASE UNCHANGED framingVars
    BY <2>4 DEF framingVars, FramingInv, FramingTypeOK, DataCounts, ForeignWire, OwnWire, Arrived,
                IsSegment, Count
  <2> QED
    BY <2>1, <2>2, <2>3, <2>4 DEF FramingNext
<1> QED
  BY <1>1, FramingInitInv, PTL DEF FramingSpec

\* For any sizes of messages and segments, the buffer keeps its bound and what
\* it expects fits a u8.
THEOREM FramingTypeCorrect == FramingSpec => []FramingTypeOK
<1>1. FramingInv => FramingTypeOK
  BY DEF FramingInv
<1> QED
  BY <1>1, FramingIsInvariant, PTL

\* Whatever segments a peer sends, no message is put together from those of
\* two, and one that breaks off leaves nothing behind (Message::add_segment).
THEOREM MessagesAreWhole == FramingSpec => []DeliveredWhole
<1>1. FramingInv => DeliveredWhole
  <2> SUFFICES ASSUME FramingInv, expected # 0
               PROVE  expected = data[Len(data)].remaining
    BY DEF FramingInv, DataCounts, DeliveredWhole
  <2>1. data \in Seq(Segments) /\ data # <<>> /\ expected \in Nat
    BY DEF FramingInv, FramingTypeOK, DataCounts
  <2>2. Len(data) \in 1 .. Len(data) /\ Len(data) \in Nat
    BY <2>1, EmptySeq
  <2> QED
    BY <2>1, <2>2 DEF FramingInv, DataCounts
<1> QED
  BY <1>1, FramingIsInvariant, PTL

\* Segmentation and reassembly implement the channel of whole messages, for
\* every length of message that fits a u8 of segments.
THEOREM FramingImplementsChannel == FramingSpec => ImplementsChannel
<1>1. FramingInit => Channel!Init
  BY DEF FramingInit, Channel!Init
<1>2. FramingInv /\ [FramingNext]_framingVars => [Channel!Next]_(Channel!vars)
  <2> SUFFICES ASSUME FramingInv, [FramingNext]_framingVars
               PROVE  [Channel!Next]_(Channel!vars)
    OBVIOUS
  <2>1. foreign' = foreign
    BY DEF FramingNext, Send, ForeignSend, Receive, framingVars
  <2>2. CASE foreign
    BY <2>1, <2>2 DEF Channel!vars
  <2>3. ASSUME ~ foreign, NEW len \in Lengths, Send(len)
        PROVE  Channel!Next
    BY <2>1, <2>3 DEF Send, Channel!Next, Channel!Send
  <2>4. ASSUME ~ foreign, Receive
        PROVE  Channel!Next \/ UNCHANGED Channel!vars
    <3>1. PICK s : s = Head(wire)
      OBVIOUS
    <3>2. /\ s.remaining \in Nat /\ s.of = taken + 1 /\ s.of \in 1 .. Len(accepted)
          /\ ~ decode(s) => accepted[s.of] = 0
          /\ decode(s) /\ s.remaining = 0 => accepted[s.of] # 0
      <4>1. wire # <<>>
        BY <2>4 DEF Receive
      <4>2. s \in Segments /\ s.of = taken + 1 /\ s.of \in 1 .. Len(accepted)
            /\ (~ decode(s) => accepted[s.of] = 0)
            /\ (decode(s) /\ s.remaining = 0 => accepted[s.of] # 0)
        BY <2>4, <3>1, <4>1, OwnSegment
      <4> QED
        BY <4>2 DEF Segments
    <3>3. accepted' = accepted /\ taken \in Nat /\ Len(accepted) \in Nat
      BY <2>4 DEF Receive, FramingInv, FramingTypeOK
    <3>4. CASE s.remaining > 0
      <4>1. UNCHANGED <<accepted, taken, delivered>>
        BY <2>4, <3>1, <3>3, <3>4, OwnOutcome DEF Buffered
      <4> QED
        BY <2>1, <4>1 DEF Channel!vars
    <3>5. CASE s.remaining = 0 /\ decode(s)
      <4>1. taken' = taken + 1 /\ delivered' = Append(delivered, taken + 1)
        BY <2>4, <3>1, <3>2, <3>5, OwnOutcome DEF Completed
      <4>2. taken < Len(accepted) /\ accepted[taken + 1] # 0
        BY <3>2, <3>3, <3>5
      <4> QED
        BY <2>1, <2>4, <3>3, <4>1, <4>2 DEF Channel!Next, Channel!Deliver
    <3>6. CASE s.remaining = 0 /\ ~ decode(s)
      <4>1. taken' = taken + 1 /\ delivered' = delivered
        BY <2>4, <3>1, <3>6, OwnOutcome
      <4>2. taken < Len(accepted) /\ accepted[taken + 1] = 0
        BY <3>2, <3>3, <3>6
      <4> QED
        BY <2>1, <2>4, <3>3, <4>1, <4>2 DEF Channel!Next, Channel!Deliver
    <3> QED
      BY <3>2, <3>4, <3>5, <3>6
  <2>5. CASE UNCHANGED framingVars
    BY <2>5 DEF framingVars, Channel!vars
  <2> QED
    BY <2>2, <2>3, <2>4, <2>5 DEF FramingNext, ForeignSend
<1> QED
  BY <1>1, <1>2, FramingIsInvariant, PTL DEF FramingSpec, ImplementsChannel, Channel!Spec
-----------------------------------------------------------------------------
(* The task that drives the session                                        *)

PutOut == [kind : {"Reliable", "Unreliable", "Failed"}, number : Nat]
CommandType ==
  [kind : {"Send", "Player"}, by : Tasks] \cup [kind : {"SetPlayer"}, by : Tasks, value : Nat]

DriverTypes ==
  /\ outputs \in Seq(PutOut)
  /\ packets \in Nat
  /\ read \in Seq(Nat)
  /\ reliable \in Seq(Nat)

\* Messages are numbered as they are put out: read, queued and still to be
\* polled are in that order.
InOrder ==
  /\ \A i, j \in DOMAIN read : i < j => read[i] < read[j]
  /\ \A i, j \in DOMAIN reliable : i < j => reliable[i] < reliable[j]
  /\ \A i, j \in DOMAIN outputs : i < j => outputs[i].number < outputs[j].number
  /\ \A i \in DOMAIN read, j \in DOMAIN reliable : read[i] < reliable[j]
  /\ \A i \in DOMAIN read, j \in DOMAIN outputs : read[i] < outputs[j].number
  /\ \A i \in DOMAIN reliable, j \in DOMAIN outputs : reliable[i] < outputs[j].number
  /\ \A i \in DOMAIN read : read[i] <= packets
  /\ \A i \in DOMAIN reliable : reliable[i] <= packets
  /\ \A i \in DOMAIN outputs : outputs[i].number <= packets

\* A blocked driver has the message in hand.
InHand == task = "blocked" => outputs # <<>> /\ Head(outputs).kind = "Reliable"

Numbers(q) == {q[i] : i \in DOMAIN q}

\* A receiver that is held gets everything.
AllThere ==
  "reliable" \in parts =>
    emitted = Numbers(read) \cup Numbers(reliable) \cup Driver!Reliable(outputs)

OrderInv == DriverTypes /\ InOrder /\ InHand /\ AllThere
-----------------------------------------------------------------------------
\* The player that a task reads

CallTypes ==
  /\ commands \in Seq(CommandType)
  /\ calls \in Nat
  /\ player \in Nat \cup {None}
  /\ set_by \in [Tasks -> Nat \cup {None}]
  /\ waiting \in [Tasks -> {None, "Send", "Player"}]
  /\ task = "ended" => commands = <<>>

Sets(i) == i \in DOMAIN commands /\ commands[i].kind = "SetPlayer"

\* Players are numbered by the calls that set them and set in this order.
Ascending ==
  /\ \A i, j \in DOMAIN commands : Sets(i) /\ Sets(j) /\ i < j => commands[i].value < commands[j].value
  /\ \A i \in DOMAIN commands : Sets(i) => commands[i].value <= calls
                                   /\ (player # None => player < commands[i].value)
  /\ player # None => player <= calls
  /\ \A t \in Tasks : set_by[t] # None => set_by[t] <= calls

\* A task waits while its command is queued, so what it set is set by then.
Waits ==
  /\ \A i \in DOMAIN commands : ~ Sets(i) => waiting[commands[i].by] # None
  /\ \A i, j \in DOMAIN commands :
       ~ Sets(i) /\ ~ Sets(j) /\ commands[i].by = commands[j].by => i = j

IsSet(t) == player # None /\ player >= set_by[t]

SetBefore ==
  /\ \A t \in Tasks :
       task # "ended" /\ set_by[t] # None =>
         IsSet(t) \/ \E i \in DOMAIN commands : Sets(i) /\ commands[i].value >= set_by[t]
  /\ \A j \in DOMAIN commands :
       ~ Sets(j) /\ set_by[commands[j].by] # None =>
         \/ IsSet(commands[j].by)
         \/ \E i \in DOMAIN commands : i < j /\ Sets(i) /\ commands[i].value >= set_by[commands[j].by]

CallInv == CallTypes /\ Ascending /\ Waits /\ SetBefore /\ ~ stale

\* The facts of the library about the ends of a queue, in the form used here.
LEMMA QueueTail ==
  ASSUME NEW S, NEW q \in Seq(S), q # <<>>
  PROVE  /\ Tail(q) \in Seq(S) /\ Head(q) \in S /\ Head(q) = q[1] /\ 1 \in DOMAIN q
         /\ \A i \in DOMAIN Tail(q) : i \in Nat /\ i + 1 \in DOMAIN q /\ Tail(q)[i] = q[i + 1]
         /\ \A i \in DOMAIN q : i \in Nat /\ (i = 1 \/ (i > 1 /\ i - 1 \in DOMAIN Tail(q)))
<1>1. /\ Tail(q) \in Seq(S) /\ Head(q) \in S /\ Head(q) = q[1]
      /\ Len(Tail(q)) = Len(q) - 1 /\ Len(q) \in Nat /\ Len(q) > 0
      /\ \A i \in 1 .. Len(q) - 1 : Tail(q)[i] = q[i + 1]
  BY HeadTailProperties, LenProperties, EmptySeq
<1>2. DOMAIN q = 1 .. Len(q) /\ DOMAIN Tail(q) = 1 .. Len(q) - 1
  BY <1>1, LenProperties
<1>3. \A i \in DOMAIN Tail(q) : i \in Nat /\ i + 1 \in DOMAIN q /\ Tail(q)[i] = q[i + 1]
  BY <1>1, <1>2
<1>4. PICK n \in Nat : n = Len(q) /\ n > 0
  BY <1>1
<1>5. \A i \in 1 .. n : i \in Nat /\ (i = 1 \/ (i > 1 /\ i - 1 \in 1 .. n - 1))
  BY ONLY n \in Nat
<1> QED
  BY <1>1, <1>2, <1>3, <1>4, <1>5

LEMMA QueueAppend ==
  ASSUME NEW S, NEW q \in Seq(S), NEW x \in S
  PROVE  /\ Append(q, x) \in Seq(S) /\ Len(q) \in Nat
         /\ DOMAIN q = 1 .. Len(q) /\ DOMAIN Append(q, x) = 1 .. Len(q) + 1
         /\ \A i \in DOMAIN q : i \in DOMAIN Append(q, x) /\ Append(q, x)[i] = q[i]
         /\ \A i \in DOMAIN Append(q, x) :
              \/ i \in DOMAIN q
              \/ i = Len(q) + 1 /\ Append(q, x)[i] = x /\ \A j \in DOMAIN q : j < i
<1>1. /\ Append(q, x) \in Seq(S)
      /\ Len(Append(q, x)) = Len(q) + 1 /\ Len(q) \in Nat
      /\ Append(q, x)[Len(q) + 1] = x
      /\ \A i \in 1 .. Len(q) : Append(q, x)[i] = q[i]
  BY AppendProperties, LenProperties
<1>2. DOMAIN q = 1 .. Len(q) /\ DOMAIN Append(q, x) = 1 .. Len(q) + 1
  BY <1>1, LenProperties
<1> QED
  BY <1>1, <1>2

LEMMA QueueNumbers ==
  /\ \A S : \A q \in Seq(S) : \A x \in S : Numbers(Append(q, x)) = Numbers(q) \cup {x}
  /\ \A S : \A q \in Seq(S) : q # <<>> => Numbers(q) = {Head(q)} \cup Numbers(Tail(q))
<1>1. ASSUME NEW S, NEW q \in Seq(S), NEW x \in S
      PROVE  Numbers(Append(q, x)) = Numbers(q) \cup {x}
  <2>1. PICK p : p = Append(q, x)
    OBVIOUS
  <2>2. /\ \A i \in DOMAIN q : i \in DOMAIN p /\ p[i] = q[i]
        /\ \A i \in DOMAIN p : i \in DOMAIN q \/ p[i] = x
        /\ Len(q) + 1 \in DOMAIN p /\ p[Len(q) + 1] = x
    <3>1. Len(q) + 1 \in DOMAIN p /\ Len(q) + 1 \notin DOMAIN q
      BY <2>1, QueueAppend
    <3> QED
      BY <2>1, <3>1, QueueAppend
  <2> QED
    BY <2>1, <2>2 DEF Numbers
<1>2. ASSUME NEW S, NEW q \in Seq(S), q # <<>>
      PROVE  Numbers(q) = {Head(q)} \cup Numbers(Tail(q))
  <2>1. PICK p : p = Tail(q)
    OBVIOUS
  <2>2. /\ 1 \in DOMAIN q /\ Head(q) = q[1]
        /\ \A i \in DOMAIN p : i + 1 \in DOMAIN q /\ p[i] = q[i + 1]
        /\ \A i \in DOMAIN q : i = 1 \/ (i - 1 \in DOMAIN p /\ i = (i - 1) + 1)
    BY <1>2, <2>1, QueueTail
  <2>3. {q[i] : i \in DOMAIN q} = {q[1]} \cup {p[i] : i \in DOMAIN p}
    <3>1. ASSUME NEW i \in DOMAIN q, i # 1 PROVE \E j \in DOMAIN p : q[i] = p[j]
      BY <2>2, <3>1
    <3> QED
      BY ONLY <2>2, <3>1
  <2> QED
    BY <2>1, <2>2, <2>3 DEF Numbers
<1> QED
  BY <1>1, <1>2

\* What is polled is the head of the outputs.
LEMMA ReliableTail ==
  ASSUME outputs \in Seq(PutOut), outputs # <<>>
  PROVE  Driver!Reliable(outputs) =
           Driver!Reliable(Tail(outputs))
             \cup (IF Head(outputs).kind = "Reliable" THEN {Head(outputs).number} ELSE {})
<1>1. PICK p : p = Tail(outputs)
  OBVIOUS
<1>2. /\ 1 \in DOMAIN outputs /\ Head(outputs) = outputs[1]
      /\ \A i \in DOMAIN p : i + 1 \in DOMAIN outputs /\ p[i] = outputs[i + 1]
      /\ \A i \in DOMAIN outputs : i = 1 \/ (i - 1 \in DOMAIN p /\ i = (i - 1) + 1)
  BY <1>1, QueueTail
<1>3. ASSUME NEW i \in DOMAIN outputs, i # 1 PROVE \E j \in DOMAIN p : outputs[i] = p[j]
  BY <1>2, <1>3
<1>4. ASSUME NEW n PROVE
        n \in Driver!Reliable(outputs) <=>
          \/ n \in Driver!Reliable(p)
          \/ outputs[1].kind = "Reliable" /\ n = outputs[1].number
  <2>1. ASSUME n \in Driver!Reliable(outputs)
        PROVE  n \in Driver!Reliable(p) \/ (outputs[1].kind = "Reliable" /\ n = outputs[1].number)
    <3>1. PICK i \in DOMAIN outputs : outputs[i].kind = "Reliable" /\ n = outputs[i].number
      BY <2>1 DEF Driver!Reliable
    <3> QED
      BY <1>3, <3>1 DEF Driver!Reliable
  <2>2. ASSUME n \in Driver!Reliable(p)
        PROVE  n \in Driver!Reliable(outputs)
    <3>1. PICK i \in DOMAIN p : p[i].kind = "Reliable" /\ n = p[i].number
      BY <2>2 DEF Driver!Reliable
    <3> QED
      BY <1>2, <3>1 DEF Driver!Reliable
  <2>3. outputs[1].kind = "Reliable" => outputs[1].number \in Driver!Reliable(outputs)
    BY <1>2 DEF Driver!Reliable
  <2> QED
    BY <2>1, <2>2, <2>3
<1> QED
  BY <1>1, <1>2, <1>4

\* A read takes the oldest message of the channel.
LEMMA RecvInv ==
  ASSUME OrderInv, Driver!recv
  PROVE  OrderInv'
<1>1. /\ reliable # <<>> /\ reliable' = Tail(reliable)
      /\ read' = Append(read, Head(reliable))
      /\ UNCHANGED <<parts, task, outputs, packets, emitted>>
  BY DEF Driver!recv, Driver!connVars
<1>2. PICK x : x = Head(reliable)
  OBVIOUS
<1>3. /\ reliable' \in Seq(Nat) /\ x \in Nat /\ x = reliable[1] /\ 1 \in DOMAIN reliable
      /\ \A i \in DOMAIN reliable' :
           i \in Nat /\ i + 1 \in DOMAIN reliable /\ reliable'[i] = reliable[i + 1]
  BY <1>1, <1>2, QueueTail DEF OrderInv, DriverTypes
<1>4. /\ read' \in Seq(Nat)
      /\ \A i \in DOMAIN read : i \in DOMAIN read' /\ read'[i] = read[i]
      /\ \A i \in DOMAIN read' :
           i \in DOMAIN read \/ (read'[i] = x /\ \A j \in DOMAIN read : j < i)
      /\ \A i \in DOMAIN read' : i \in Nat
  BY <1>1, <1>2, <1>3, QueueAppend DEF OrderInv, DriverTypes
<1>5. DriverTypes'
  BY <1>1, <1>3, <1>4 DEF OrderInv, DriverTypes
<1>6. /\ \A i \in DOMAIN read : read[i] \in Nat /\ read[i] < x /\ read[i] <= packets
      /\ \A i \in DOMAIN reliable' : reliable'[i] \in Nat /\ x < reliable'[i] /\ reliable'[i] <= packets
      /\ \A i \in DOMAIN outputs : x < outputs[i].number
      /\ x <= packets
  BY <1>3 DEF OrderInv, DriverTypes, InOrder
<1>7. \A i, j \in DOMAIN read' : i < j => read'[i] < read'[j]
  <2> SUFFICES ASSUME NEW i \in DOMAIN read', NEW j \in DOMAIN read', i < j
               PROVE  read'[i] < read'[j]
    OBVIOUS
  <2>1. i \in DOMAIN read
    <3> SUFFICES ASSUME i \notin DOMAIN read PROVE FALSE
      OBVIOUS
    <3>1. i \in Nat /\ j \in Nat /\ (\A k \in DOMAIN read : k < i) /\ j \notin DOMAIN read
      BY <1>4
    <3>2. i = Len(read) + 1 /\ j = Len(read) + 1 /\ Len(read) \in Nat
      BY <1>1, <1>2, <1>3, <3>1, QueueAppend DEF OrderInv, DriverTypes
    <3> QED
      BY <3>2
  <2> QED
    BY <1>4, <1>6, <2>1 DEF OrderInv, InOrder
<1>8. \A i, j \in DOMAIN reliable' : i < j => reliable'[i] < reliable'[j]
  BY <1>3 DEF OrderInv, InOrder
<1>9. \A i \in DOMAIN read', j \in DOMAIN reliable' : read'[i] < reliable'[j]
  <2> SUFFICES ASSUME NEW i \in DOMAIN read', NEW j \in DOMAIN reliable'
               PROVE  read'[i] < reliable'[j]
    OBVIOUS
  <2>1. CASE i \in DOMAIN read
    BY <1>3, <1>4, <2>1 DEF OrderInv, InOrder
  <2>2. CASE read'[i] = x
    BY <1>6, <2>2
  <2> QED
    BY <1>4, <2>1, <2>2
<1>10. \A i \in DOMAIN read' :
         read'[i] <= packets /\ \A j \in DOMAIN outputs : read'[i] < outputs[j].number
  BY <1>4, <1>6 DEF OrderInv, InOrder
<1>11. \A i \in DOMAIN reliable' :
         reliable'[i] <= packets /\ \A j \in DOMAIN outputs : reliable'[i] < outputs[j].number
  BY <1>3 DEF OrderInv, InOrder
<1>12. InOrder'
  BY <1>1, <1>7, <1>8, <1>9, <1>10, <1>11 DEF OrderInv, InOrder
<1>13. Numbers(read') = Numbers(read) \cup {x} /\ Numbers(reliable) = {x} \cup Numbers(reliable')
  BY <1>1, <1>2, <1>3, QueueNumbers DEF OrderInv, DriverTypes
<1>14. AllThere' /\ InHand'
  BY <1>1, <1>13 DEF OrderInv, AllThere, InHand
<1> QED
  BY <1>5, <1>12, <1>14 DEF OrderInv

\* The head of the outputs is gone: dropped, or put into the channel.
LEMMA TailInOrder ==
  ASSUME DriverTypes, InOrder, outputs # <<>>, outputs' = Tail(outputs),
         UNCHANGED <<packets, read, reliable>>
  PROVE  DriverTypes' /\ InOrder'
<1>1. /\ outputs' \in Seq(PutOut)
      /\ \A i \in DOMAIN outputs' :
           i \in Nat /\ i + 1 \in DOMAIN outputs /\ outputs'[i] = outputs[i + 1]
  BY QueueTail DEF DriverTypes
<1> QED
  BY <1>1 DEF DriverTypes, InOrder

LEMMA MoveInv ==
  ASSUME OrderInv, outputs # <<>>, Head(outputs).kind = "Reliable",
         outputs' = Tail(outputs), reliable' = Append(reliable, Head(outputs).number),
         task' = "poll", UNCHANGED <<parts, packets, read, emitted>>
  PROVE  OrderInv'
<1>1. PICK x : x = Head(outputs).number
  OBVIOUS
<1>2. /\ outputs' \in Seq(PutOut) /\ x \in Nat /\ x = outputs[1].number /\ 1 \in DOMAIN outputs
      /\ \A i \in DOMAIN outputs' :
           i \in Nat /\ i + 1 \in DOMAIN outputs /\ outputs'[i] = outputs[i + 1]
  <2>1. Head(outputs) \in PutOut /\ Head(outputs) = outputs[1]
    BY QueueTail DEF OrderInv, DriverTypes
  <2>2. x \in Nat
    BY <1>1, <2>1 DEF PutOut
  <2> QED
    BY <1>1, <2>1, <2>2, QueueTail DEF OrderInv, DriverTypes
<1>3. /\ reliable' \in Seq(Nat)
      /\ \A i \in DOMAIN reliable : i \in DOMAIN reliable' /\ reliable'[i] = reliable[i]
      /\ \A i \in DOMAIN reliable' :
           i \in DOMAIN reliable \/ (reliable'[i] = x /\ \A j \in DOMAIN reliable : j < i)
      /\ \A i \in DOMAIN reliable' : i \in Nat
  BY <1>1, <1>2, QueueAppend DEF OrderInv, DriverTypes
<1>4. DriverTypes'
  BY <1>2, <1>3 DEF OrderInv, DriverTypes
<1>5. /\ \A i \in DOMAIN reliable : reliable[i] \in Nat /\ reliable[i] < x
      /\ \A i \in DOMAIN outputs' : outputs'[i].number \in Nat /\ x < outputs'[i].number
      /\ \A i \in DOMAIN read : read[i] < x
      /\ x <= packets
  <2>1. ASSUME NEW i \in DOMAIN outputs' PROVE outputs'[i].number \in Nat
    <3>1. outputs'[i] \in PutOut
      BY <1>2
    <3> QED
      BY <3>1 DEF PutOut
  <2> QED
    BY <1>2, <2>1 DEF OrderInv, DriverTypes, InOrder
<1>6. \A i, j \in DOMAIN reliable' : i < j => reliable'[i] < reliable'[j]
  <2> SUFFICES ASSUME NEW i \in DOMAIN reliable', NEW j \in DOMAIN reliable', i < j
               PROVE  reliable'[i] < reliable'[j]
    OBVIOUS
  <2>1. i \in DOMAIN reliable
    <3> SUFFICES ASSUME i \notin DOMAIN reliable PROVE FALSE
      OBVIOUS
    <3>1. i \in Nat /\ j \in Nat /\ (\A k \in DOMAIN reliable : k < i) /\ j \notin DOMAIN reliable
      BY <1>3
    <3>2. i = Len(reliable) + 1 /\ j = Len(reliable) + 1 /\ Len(reliable) \in Nat
      BY <1>1, <1>2, <3>1, QueueAppend DEF OrderInv, DriverTypes
    <3> QED
      BY <3>2
  <2> QED
    BY <1>3, <1>5, <2>1 DEF OrderInv, InOrder
<1>7. \A i, j \in DOMAIN outputs' : i < j => outputs'[i].number < outputs'[j].number
  BY <1>2 DEF OrderInv, InOrder
<1>8. \A i \in DOMAIN reliable', j \in DOMAIN outputs' : reliable'[i] < outputs'[j].number
  <2> SUFFICES ASSUME NEW i \in DOMAIN reliable', NEW j \in DOMAIN outputs'
               PROVE  reliable'[i] < outputs'[j].number
    OBVIOUS
  <2>1. CASE i \in DOMAIN reliable
    BY <1>2, <1>3, <2>1 DEF OrderInv, InOrder
  <2>2. CASE reliable'[i] = x
    BY <1>5, <2>2
  <2> QED
    BY <1>3, <2>1, <2>2
<1>9. \A i \in DOMAIN reliable' :
        reliable'[i] <= packets /\ \A j \in DOMAIN read : read[j] < reliable'[i]
  BY <1>3, <1>5 DEF OrderInv, InOrder
<1>10. \A i \in DOMAIN outputs' :
         /\ outputs'[i].number <= packets
         /\ \A j \in DOMAIN read : read[j] < outputs'[i].number
  BY <1>2 DEF OrderInv, InOrder
<1>11. InOrder'
  BY <1>6, <1>7, <1>8, <1>9, <1>10 DEF OrderInv, InOrder
<1>12. /\ Numbers(reliable') = Numbers(reliable) \cup {x}
       /\ Driver!Reliable(outputs) = Driver!Reliable(outputs') \cup {x}
  <2>1. Numbers(reliable') = Numbers(reliable) \cup {x}
    <3>1. reliable \in Seq(Nat) /\ reliable' = Append(reliable, x)
      BY <1>1 DEF OrderInv, DriverTypes
    <3> QED
      BY <1>2, <3>1, QueueNumbers
  <2> QED
    BY <1>1, <2>1, ReliableTail DEF OrderInv, DriverTypes
<1>13. AllThere' /\ InHand'
  BY <1>12 DEF OrderInv, AllThere, InHand
<1> QED
  BY <1>4, <1>11, <1>13 DEF OrderInv

\* A step that leaves the messages alone; a receiver may go meanwhile.
LEMMA QuietInv ==
  ASSUME OrderInv, UNCHANGED <<outputs, packets, reliable, read, emitted>>,
         "reliable" \in parts' => "reliable" \in parts,
         task' = "blocked" => outputs # <<>> /\ Head(outputs).kind = "Reliable"
  PROVE  OrderInv'
<1>1. DriverTypes'
  BY DEF OrderInv, DriverTypes
<1>2. InOrder'
  BY DEF OrderInv, InOrder
<1>3. InHand'
  BY DEF InHand
<1>4. AllThere'
  BY DEF OrderInv, AllThere
<1> QED
  BY <1>1, <1>2, <1>3, <1>4 DEF OrderInv

\* What is polled and not put into the channel is not a reliable message, or
\* nobody holds the receiver.
LEMMA DropInv ==
  ASSUME OrderInv, outputs # <<>>, outputs' = Tail(outputs), task' # "blocked",
         Head(outputs).kind # "Reliable" \/ "reliable" \notin parts,
         UNCHANGED <<parts, packets, reliable, read, emitted>>
  PROVE  OrderInv'
<1>1. DriverTypes' /\ InOrder'
  BY TailInOrder DEF OrderInv
<1>2. InHand'
  BY DEF InHand
<1>3. AllThere'
  <2>1. CASE "reliable" \notin parts
    BY <2>1 DEF AllThere
  <2>2. CASE Head(outputs).kind # "Reliable"
    <3>1. Driver!Reliable(outputs') = Driver!Reliable(outputs)
      BY <2>2, ReliableTail DEF OrderInv, DriverTypes
    <3> QED
      BY <3>1 DEF OrderInv, AllThere
  <2> QED
    BY <2>1, <2>2
<1> QED
  BY <1>1, <1>2, <1>3 DEF OrderInv

\* What the connection puts out gets the next numbers.
LEMMA PacketInv ==
  ASSUME OrderInv, NEW batch \in Driver!Batches, Driver!Packet(batch)
  PROVE  OrderInv'
<1> DEFINE Put == [i \in DOMAIN batch |-> [kind |-> batch[i], number |-> packets + i]]
<1>1. PICK n \in Nat : batch \in [1 .. n -> {"Reliable", "Unreliable", "Failed"}]
  BY DEF Driver!Batches
<1>2. batch \in Seq({"Reliable", "Unreliable", "Failed"}) /\ Len(batch) = n /\ DOMAIN batch = 1 .. n
  BY <1>1, SeqDef, LenProperties
<1>3. PICK put : put = Put
  OBVIOUS
<1>4. \A i \in 1 .. n : put[i].kind = batch[i] /\ put[i].number = packets + i
  BY <1>2, <1>3
<1>5. put \in Seq(PutOut) /\ Len(put) = n /\ DOMAIN put = 1 .. n
  <2>1. ASSUME NEW i \in 1 .. n
        PROVE  [kind |-> batch[i], number |-> packets + i] \in PutOut
    <3>1. batch[i] \in {"Reliable", "Unreliable", "Failed"} /\ packets + i \in Nat
      BY <1>1, <2>1 DEF OrderInv, DriverTypes
    <3> QED
      BY <3>1 DEF PutOut
  <2>2. put \in [1 .. n -> PutOut]
    BY <1>2, <1>3, <2>1
  <2> QED
    BY <2>2, SeqDef, LenProperties
<1>6. /\ packets' = packets + n
      /\ outputs' = outputs \o put
      /\ emitted' = emitted \cup Driver!Reliable(put)
      /\ task' = "poll"
      /\ UNCHANGED <<parts, reliable, read>>
  BY <1>2, <1>3 DEF Driver!Packet, Driver!appVars
<1> HIDE DEF Put
<1>7. PICK m \in Nat : m = Len(outputs) /\ DOMAIN outputs = 1 .. m
  BY LenProperties DEF OrderInv, DriverTypes
<1>8. /\ outputs' \in Seq(PutOut) /\ DOMAIN outputs' = 1 .. m + n
      /\ \A i \in 1 .. m : outputs'[i] = outputs[i]
      /\ \A i \in (m + 1) .. (m + n) : outputs'[i] = put[i - m]
  <2>1. outputs \in Seq(PutOut)
    BY DEF OrderInv, DriverTypes
  <2>2. /\ outputs \o put \in Seq(PutOut)
        /\ Len(outputs \o put) = m + n
        /\ \A i \in 1 .. m + n : (outputs \o put)[i] = IF i <= m THEN outputs[i] ELSE put[i - m]
    BY <1>5, <1>7, <2>1, ConcatProperties
  <2>3. DOMAIN (outputs \o put) = 1 .. m + n
    BY <2>2, LenProperties
  <2>4. ASSUME NEW i \in 1 .. m PROVE i \in 1 .. m + n /\ i <= m
    OBVIOUS
  <2>5. ASSUME NEW i \in (m + 1) .. (m + n) PROVE i \in 1 .. m + n /\ ~ (i <= m)
    OBVIOUS
  <2>6. PICK p : p = outputs \o put
    OBVIOUS
  <2>7. \A i \in 1 .. m : p[i] = outputs[i]
    BY <2>2, <2>4, <2>6
  <2>8. \A i \in (m + 1) .. (m + n) : p[i] = put[i - m]
    BY <2>2, <2>5, <2>6
  <2> QED
    BY <1>6, <2>2, <2>3, <2>6, <2>7, <2>8
<1>9. packets \in Nat /\ packets' \in Nat /\ packets <= packets'
  BY <1>6 DEF OrderInv, DriverTypes
<1>10. DriverTypes'
  BY <1>6, <1>8, <1>9 DEF OrderInv, DriverTypes
<1>11. \A i \in DOMAIN outputs' :
         \/ i \in DOMAIN outputs /\ i \in 1 .. m /\ outputs'[i] = outputs[i]
         \/ /\ i \in (m + 1) .. (m + n) /\ i - m \in 1 .. n /\ outputs'[i] = put[i - m]
            /\ outputs'[i].number = packets + (i - m)
  BY <1>4, <1>7, <1>8
<1>12. ASSUME NEW i \in DOMAIN outputs
       PROVE  outputs[i].number \in Nat /\ outputs[i].number <= packets
  <2>1. outputs[i] \in PutOut
    BY DEF OrderInv, DriverTypes
  <2> QED
    BY <2>1 DEF PutOut, OrderInv, InOrder
<1>13. \A i, j \in DOMAIN outputs' : i < j => outputs'[i].number < outputs'[j].number
  <2> SUFFICES ASSUME NEW i \in DOMAIN outputs', NEW j \in DOMAIN outputs', i < j
               PROVE  outputs'[i].number < outputs'[j].number
    OBVIOUS
  <2>1. CASE i \in DOMAIN outputs /\ j \in DOMAIN outputs
    BY <1>7, <1>8, <2>1 DEF OrderInv, InOrder
  <2>2. CASE i \in DOMAIN outputs /\ j \notin DOMAIN outputs
    <3>1. j - m \in 1 .. n /\ outputs'[j].number = packets + (j - m) /\ outputs'[i] = outputs[i]
      BY <1>7, <1>8, <1>11, <2>2
    <3>2. outputs[i].number \in Nat /\ outputs[i].number <= packets
      BY <1>12, <2>2
    <3> QED
      BY <1>9, <3>1, <3>2
  <2>3. CASE i \notin DOMAIN outputs
    <3>1. i \in (m + 1) .. (m + n) /\ outputs'[i].number = packets + (i - m)
      BY <1>11, <2>3
    <3>2. j \in (m + 1) .. (m + n)
      BY <1>8, <3>1
    <3>3. outputs'[j].number = packets + (j - m)
      BY <1>7, <1>11, <3>2
    <3> QED
      BY <1>9, <3>1, <3>2, <3>3
  <2> QED
    BY <2>1, <2>2, <2>3
<1>14. ASSUME NEW k \in Nat, k <= packets, \A j \in DOMAIN outputs : k < outputs[j].number,
              NEW j \in DOMAIN outputs'
       PROVE  k < outputs'[j].number
  <2>1. CASE j \in DOMAIN outputs
    BY <1>7, <1>8, <1>14, <2>1
  <2>2. CASE j - m \in 1 .. n /\ outputs'[j].number = packets + (j - m)
    BY <1>9, <1>14, <2>2
  <2> QED
    BY <1>11, <2>1, <2>2
<1>15. ASSUME NEW q \in Seq(Nat), NEW i \in DOMAIN q,
              q[i] <= packets, \A j \in DOMAIN outputs : q[i] < outputs[j].number
       PROVE  q[i] <= packets' /\ \A j \in DOMAIN outputs' : q[i] < outputs'[j].number
  <2>1. q[i] \in Nat
    OBVIOUS
  <2>2. q[i] <= packets'
    BY <1>9, <1>15, <2>1
  <2> QED
    BY <1>14, <1>15, <2>1, <2>2
<1>16. \A i \in DOMAIN outputs' : outputs'[i].number <= packets'
  <2> SUFFICES ASSUME NEW i \in DOMAIN outputs' PROVE outputs'[i].number <= packets'
    OBVIOUS
  <2>1. CASE i \in DOMAIN outputs
    BY <1>7, <1>8, <1>9, <1>12, <2>1
  <2>2. CASE i - m \in 1 .. n /\ outputs'[i].number = packets + (i - m)
    BY <1>6, <1>9, <2>2
  <2> QED
    BY <1>11, <2>1, <2>2
<1>17. InOrder'
  <2>1. \A i \in DOMAIN read : read[i] <= packets' /\ \A j \in DOMAIN outputs' : read[i] < outputs'[j].number
    BY <1>15 DEF OrderInv, DriverTypes, InOrder
  <2>2. \A i \in DOMAIN reliable :
          reliable[i] <= packets' /\ \A j \in DOMAIN outputs' : reliable[i] < outputs'[j].number
    BY <1>15 DEF OrderInv, DriverTypes, InOrder
  <2> QED
    BY <1>6, <1>13, <1>16, <2>1, <2>2 DEF OrderInv, InOrder
<1>18. Driver!Reliable(outputs') = Driver!Reliable(outputs) \cup Driver!Reliable(put)
  <2>1. ASSUME NEW x, x \in Driver!Reliable(outputs')
        PROVE  x \in Driver!Reliable(outputs) \cup Driver!Reliable(put)
    <3>1. PICK i \in DOMAIN outputs' : outputs'[i].kind = "Reliable" /\ x = outputs'[i].number
      BY <2>1 DEF Driver!Reliable
    <3>2. \/ i \in DOMAIN outputs /\ outputs'[i] = outputs[i]
          \/ i - m \in DOMAIN put /\ outputs'[i] = put[i - m]
      BY <1>5, <1>11
    <3> QED
      BY <3>1, <3>2 DEF Driver!Reliable
  <2>2. ASSUME NEW x, x \in Driver!Reliable(outputs)
        PROVE  x \in Driver!Reliable(outputs')
    <3>1. PICK i \in DOMAIN outputs : outputs[i].kind = "Reliable" /\ x = outputs[i].number
      BY <2>2 DEF Driver!Reliable
    <3>2. i \in DOMAIN outputs' /\ outputs'[i] = outputs[i]
      BY <1>7, <1>8
    <3> QED
      BY <3>1, <3>2 DEF Driver!Reliable
  <2>3. ASSUME NEW x, x \in Driver!Reliable(put)
        PROVE  x \in Driver!Reliable(outputs')
    <3>1. PICK i \in DOMAIN put : put[i].kind = "Reliable" /\ x = put[i].number
      BY <2>3 DEF Driver!Reliable
    <3>2. i + m \in (m + 1) .. (m + n) /\ (i + m) - m = i
      BY <1>5
    <3>3. i + m \in DOMAIN outputs' /\ outputs'[i + m] = put[i]
      BY <1>8, <3>2
    <3> QED
      BY <3>1, <3>3 DEF Driver!Reliable
  <2> QED
    BY <2>1, <2>2, <2>3
<1>19. AllThere' /\ InHand'
  BY <1>6, <1>18 DEF OrderInv, AllThere, InHand
<1> QED
  BY <1>10, <1>17, <1>19 DEF OrderInv

LEMMA OrderInit == MCInit => OrderInv
<1> SUFFICES ASSUME Driver!Init PROVE OrderInv
  BY DEF MCInit
<1>1. /\ outputs = <<>> /\ packets = 0 /\ read = <<>> /\ reliable = <<>> /\ emitted = {}
      /\ task = "select"
  BY DEF Driver!Init
<1>2. DriverTypes
  BY <1>1, EmptySeq DEF DriverTypes
<1>3. \A i \in DOMAIN << >> : FALSE
  OBVIOUS
<1>4. InOrder
  BY <1>1, <1>3 DEF InOrder
<1>5. AllThere /\ InHand
  BY <1>1, <1>3 DEF AllThere, InHand, Numbers, Driver!Reliable
<1> QED
  BY <1>2, <1>4, <1>5 DEF OrderInv

\* The steps of the driver that poll an output.
LEMMA PollInv ==
  ASSUME OrderInv, Driver!Driver
  PROVE  OrderInv'
<1> USE DEF Driver!appVars, Driver!connVars
<1>1. CASE Driver!SelectClose \/ Driver!CommandsClosed \/ Driver!PollFailed
  BY <1>1, QuietInv DEF Driver!SelectClose, Driver!CommandsClosed, Driver!PollFailed, Driver!End
<1>2. CASE Driver!Timeout \/ Driver!PollDone
  BY <1>2, QuietInv DEF Driver!Timeout, Driver!PollDone
<1>3. CASE Driver!Command
  BY <1>3, QuietInv DEF Driver!Command
<1>4. CASE Driver!PollUnreliable
  <2>1. /\ outputs # <<>> /\ outputs' = Tail(outputs) /\ Head(outputs).kind # "Reliable"
        /\ task' # "blocked" /\ UNCHANGED <<parts, packets, reliable, read, emitted>>
    BY <1>4 DEF Driver!PollUnreliable, Driver!Out
  <2> QED
    BY <2>1, DropInv
<1>5. CASE Driver!PollReliable
  <2>1. /\ task = "poll" /\ outputs # <<>> /\ Head(outputs).kind = "Reliable"
        /\ UNCHANGED <<parts, packets, read, emitted>>
    BY <1>5 DEF Driver!PollReliable, Driver!Out
  <2>2. CASE Len(reliable) < Capacity
    <3>1. /\ outputs' = Tail(outputs) /\ reliable' = Append(reliable, Head(outputs).number)
          /\ task' = "poll"
      BY <1>5, <2>1, <2>2 DEF Driver!PollReliable
    <3> QED
      BY <2>1, <3>1, MoveInv
  <2>3. CASE ~ (Len(reliable) < Capacity)
    <3>1. UNCHANGED <<outputs, reliable>>
      BY <1>5, <2>3 DEF Driver!PollReliable
    <3> QED
      BY <2>1, <3>1, QuietInv
  <2> QED
    BY <2>2, <2>3
<1>6. CASE Driver!Unblock
  <2>1. /\ outputs' = Tail(outputs) /\ reliable' = Append(reliable, Head(outputs).number)
        /\ task' = "poll" /\ UNCHANGED <<parts, packets, read, emitted>>
    BY <1>6 DEF Driver!Unblock
  <2>2. outputs # <<>> /\ Head(outputs).kind = "Reliable"
    BY <1>6 DEF Driver!Unblock, OrderInv, InHand
  <2> QED
    BY <2>1, <2>2, MoveInv
<1>7. CASE Driver!Unreceived
  <2>1. /\ "reliable" \notin parts /\ outputs' = Tail(outputs) /\ task' = "select"
        /\ UNCHANGED <<parts, packets, reliable, read, emitted>>
    BY <1>7 DEF Driver!Unreceived
  <2>2. outputs # <<>>
    BY <1>7 DEF Driver!Unreceived, Driver!Out, OrderInv, InHand
  <2> QED
    BY <2>1, <2>2, DropInv
<1> QED
  BY <1>1, <1>2, <1>3, <1>4, <1>5, <1>6, <1>7 DEF Driver!Driver

LEMMA OrderStep == OrderInv /\ [MCNext]_allVars => OrderInv'
<1> SUFFICES ASSUME OrderInv, [MCNext]_allVars PROVE OrderInv'
  OBVIOUS
<1> USE DEF Driver!appVars, Driver!connVars
<1>1. CASE UNCHANGED driverVars
  BY <1>1, QuietInv DEF driverVars, OrderInv, InHand
<1>2. ASSUME NEW t \in Tasks,
             Driver!send_on(t) \/ Driver!get_player(t) \/ Driver!set_player(t) \/ Driver!close(t)
      PROVE  OrderInv'
  <2>1. UNCHANGED <<parts, outputs, packets, reliable, read, emitted, task>>
    BY <1>2 DEF Driver!send_on, Driver!get_player, Driver!Call, Driver!set_player, Driver!close
  <2> QED
    BY <2>1, QuietInv DEF OrderInv, InHand
<1>3. CASE Driver!recv
  BY <1>3, RecvInv
<1>4. CASE Driver!recv_unreliable
  <2>1. UNCHANGED <<parts, outputs, packets, reliable, read, emitted, task>>
    BY <1>4 DEF Driver!recv_unreliable
  <2> QED
    BY <2>1, QuietInv DEF OrderInv, InHand
<1>5. ASSUME NEW x \in Driver!Parts, Driver!DropPart(x)
      PROVE  OrderInv'
  <2>1. /\ UNCHANGED <<outputs, packets, reliable, read, emitted>>
        /\ parts' = parts \ {x}
        /\ task' = "ended" \/ task' = task
    BY <1>5 DEF Driver!DropPart
  <2> QED
    BY <2>1, QuietInv DEF OrderInv, InHand
<1>6. ASSUME NEW batch \in Driver!Batches, Driver!Packet(batch)
      PROVE  OrderInv'
  BY <1>6, PacketInv
<1>7. CASE Driver!Driver
  BY <1>7, PollInv
<1>8. CASE Driver!Next
  BY <1>2, <1>3, <1>4, <1>5, <1>6, <1>7, <1>8 DEF Driver!Next
<1>9. UNCHANGED allVars \/ InSession(Next) \/ InFraming(FramingNext) => UNCHANGED driverVars
  BY DEF allVars, InSession, InFraming
<1> QED
  BY <1>1, <1>8, <1>9 DEF MCNext, InDriver

THEOREM OrderIsInvariant == MCSpec => []OrderInv
<1> QED
  BY OrderInit, OrderStep, PTL DEF MCSpec

\* No reliable message is lost, doubled or put out of order between the
\* connection and a receiver that is held, for every capacity of the channel,
\* every number of messages an input puts out and every task of the
\* application.
THEOREM ReliableStaysInOrder == MCSpec => []ReliableInOrder
<1>1. OrderInv => ReliableInOrder
  <2> SUFFICES ASSUME OrderInv, "reliable" \in parts PROVE ReliableInOrder
    BY DEF ReliableInOrder, Driver!ReliableInOrder
  <2>1. PICK m \in Nat, n \in Nat : /\ m = Len(read) /\ DOMAIN read = 1 .. m
                                    /\ n = Len(reliable) /\ DOMAIN reliable = 1 .. n
    BY LenProperties DEF OrderInv, DriverTypes
  <2>2. PICK got : got = read \o reliable
    OBVIOUS
  <2>3. /\ got \in Seq(Nat) /\ Len(got) = m + n
        /\ \A i \in 1 .. m + n : got[i] = IF i <= m THEN read[i] ELSE reliable[i - m]
    BY <2>1, <2>2, ConcatProperties DEF OrderInv, DriverTypes
  <2>4. DOMAIN got = 1 .. m + n
    BY <2>3, LenProperties
  <2>5. ASSUME NEW i \in DOMAIN got
        PROVE  \/ i \in 1 .. m /\ i \in DOMAIN read /\ got[i] = read[i]
               \/ /\ i \in (m + 1) .. (m + n) /\ i - m \in DOMAIN reliable
                  /\ got[i] = reliable[i - m]
    <3>1. i \in 1 .. m + n
      BY <2>4
    <3>2. CASE i <= m
      <4>1. i \in 1 .. m
        BY <3>1, <3>2
      <4> QED
        BY <2>1, <2>3, <3>1, <3>2, <4>1
    <3>3. CASE ~ (i <= m)
      <4>1. i \in (m + 1) .. (m + n) /\ i - m \in 1 .. n
        BY <3>1, <3>3
      <4> QED
        BY <2>1, <2>3, <3>1, <3>3, <4>1
    <3> QED
      BY <3>2, <3>3
  <2>6. ASSUME NEW i \in DOMAIN read
        PROVE  i \in DOMAIN got /\ got[i] = read[i]
    BY <2>1, <2>3, <2>4
  <2>7. ASSUME NEW i \in DOMAIN reliable
        PROVE  m + i \in DOMAIN got /\ got[m + i] = reliable[i]
    <3>1. m + i \in 1 .. m + n /\ ~ (m + i <= m) /\ (m + i) - m = i
      BY <2>1
    <3> QED
      BY <2>3, <2>4, <3>1
  <2>8. \A i, j \in DOMAIN got : i < j => got[i] < got[j]
    <3> SUFFICES ASSUME NEW i \in DOMAIN got, NEW j \in DOMAIN got, i < j
                 PROVE  got[i] < got[j]
      OBVIOUS
    <3>1. CASE i \in DOMAIN read /\ j \in DOMAIN read
      BY <2>6, <3>1 DEF OrderInv, InOrder
    <3>2. CASE i \in DOMAIN read /\ j - m \in DOMAIN reliable /\ got[j] = reliable[j - m]
      BY <2>6, <3>2 DEF OrderInv, InOrder
    <3>3. CASE /\ i - m \in DOMAIN reliable /\ got[i] = reliable[i - m]
               /\ j - m \in DOMAIN reliable /\ got[j] = reliable[j - m]
      <4>1. i - m < j - m
        BY <2>4
      <4> QED
        BY <3>3, <4>1 DEF OrderInv, InOrder
    <3>4. ~ (i \in (m + 1) .. (m + n) /\ j \in 1 .. m)
      OBVIOUS
    <3> QED
      BY <2>5, <3>1, <3>2, <3>3, <3>4
  <2>9. \A i \in DOMAIN got, k \in Driver!Reliable(outputs) : got[i] < k
    <3> SUFFICES ASSUME NEW i \in DOMAIN got, NEW k \in Driver!Reliable(outputs)
                 PROVE  got[i] < k
      OBVIOUS
    <3>1. PICK j \in DOMAIN outputs : k = outputs[j].number
      BY DEF Driver!Reliable
    <3> QED
      BY <2>5, <3>1 DEF OrderInv, InOrder
  <2>10. {got[i] : i \in DOMAIN got} = Numbers(read) \cup Numbers(reliable)
    BY <2>5, <2>6, <2>7 DEF Numbers
  <2>11. emitted = {got[i] : i \in DOMAIN got} \cup Driver!Reliable(outputs)
    BY <2>10 DEF OrderInv, AllThere
  <2> QED
    BY <2>2, <2>8, <2>9, <2>11 DEF ReliableInOrder, Driver!ReliableInOrder
<1> QED
  BY <1>1, OrderIsInvariant, PTL

LEMMA CommandFacts ==
  ASSUME NEW c \in CommandType
  PROVE  /\ c.by \in Tasks /\ c.kind \in {"Send", "Player", "SetPlayer"}
         /\ c.kind = "SetPlayer" => c.value \in Nat
  BY DEF CommandType

LEMMA CallInit == MCInit => CallInv
<1> SUFFICES ASSUME Driver!Init PROVE CallInv
  BY DEF MCInit
<1>1. /\ commands = <<>> /\ calls = 0 /\ player = None /\ stale = FALSE
      /\ set_by = [t \in Tasks |-> None] /\ waiting = [t \in Tasks |-> None]
  BY DEF Driver!Init
<1>2. CallTypes
  BY <1>1, EmptySeq DEF CallTypes
<1>3. \A i \in DOMAIN << >> : FALSE
  OBVIOUS
<1>4. Ascending /\ Waits /\ SetBefore
  BY <1>1, <1>3 DEF Ascending, Waits, SetBefore
<1> QED
  BY <1>1, <1>2, <1>4 DEF CallInv

\* A step that leaves the queue and the players alone.
LEMMA NoCallInv ==
  ASSUME CallInv, UNCHANGED <<commands, waiting, calls, player, set_by, stale>>,
         task' = "ended" <=> task = "ended"
  PROVE  CallInv'
<1>1. CallTypes'
  BY DEF CallInv, CallTypes
<1>2. Ascending' /\ Waits'
  BY DEF CallInv, Ascending, Waits, Sets
<1>3. SetBefore'
  BY DEF CallInv, SetBefore, Sets, IsSet
<1> QED
  BY <1>1, <1>2, <1>3 DEF CallInv

\* The task ends and its queue with it.
LEMMA EndInv ==
  ASSUME CallInv, commands' = <<>>, task' = "ended",
         waiting' \in [Tasks -> {None, "Send", "Player"}],
         UNCHANGED <<calls, player, set_by, stale>>
  PROVE  CallInv'
<1>1. CallTypes'
  BY EmptySeq DEF CallInv, CallTypes
<1>2. \A i \in DOMAIN << >> : FALSE
  OBVIOUS
<1>3. Ascending' /\ Waits' /\ SetBefore'
  BY <1>2 DEF CallInv, Ascending, Waits, SetBefore
<1> QED
  BY <1>1, <1>3 DEF CallInv

\* A call after the end of the task is counted and fails.
LEMMA LateCallInv ==
  ASSUME CallInv, task = "ended", calls' = calls + 1,
         UNCHANGED <<task, commands, waiting, player, set_by, stale>>
  PROVE  CallInv'
<1>1. CallTypes'
  BY DEF CallInv, CallTypes
<1>2. \A i \in DOMAIN << >> : FALSE
  OBVIOUS
<1>3. Waits' /\ SetBefore'
  BY <1>2 DEF CallInv, CallTypes, Waits, SetBefore
<1>4. Ascending'
  <2>1. commands' = <<>> /\ calls \in Nat
    BY DEF CallInv, CallTypes
  <2>2. player' # None => player' <= calls'
    BY <2>1 DEF CallInv, CallTypes, Ascending
  <2>3. \A t \in Tasks : set_by'[t] # None => set_by'[t] <= calls'
    BY <2>1 DEF CallInv, CallTypes, Ascending
  <2> QED
    BY <1>2, <2>1, <2>2, <2>3 DEF Ascending
<1> QED
  BY <1>1, <1>3, <1>4 DEF CallInv

\* A call that waits for a reply comes after what its task has set.
LEMMA CallStep ==
  ASSUME CallInv, NEW t \in Tasks, NEW kind \in {"Send", "Player"},
         Driver!Call(t, [kind |-> kind, by |-> t])
  PROVE  CallInv'
<1> USE DEF Driver!connVars
<1>1. CASE task = "ended"
  <2>1. calls' = calls + 1 /\ UNCHANGED <<task, commands, waiting, player, set_by, stale>>
    BY <1>1 DEF Driver!Call
  <2> QED
    BY <1>1, <2>1, LateCallInv
<1>2. CASE task # "ended"
  <2>1. PICK c : c = [kind |-> kind, by |-> t]
    OBVIOUS
  <2>2. /\ c.kind = kind /\ c.by = t /\ c.kind # "SetPlayer" /\ c \in CommandType
    BY <2>1 DEF CommandType
  <2>3. /\ waiting[t] = None /\ calls' = calls + 1
        /\ commands' = Append(commands, c)
        /\ waiting' = [waiting EXCEPT ![t] = kind]
        /\ UNCHANGED <<task, player, set_by, stale>>
    BY <1>2, <2>1 DEF Driver!Call, Driver!Calls
  <2>4. PICK n \in Nat : n = Len(commands)
    BY LenProperties DEF CallInv, CallTypes
  <2>5. /\ commands' \in Seq(CommandType) /\ DOMAIN commands = 1 .. n /\ DOMAIN commands' = 1 .. n + 1
        /\ \A i \in 1 .. n : commands'[i] = commands[i]
        /\ commands'[n + 1] = c
    BY <2>2, <2>3, <2>4, AppendProperties, QueueAppend DEF CallInv, CallTypes
  <2>6. \A i \in DOMAIN commands' : i \in Nat /\ (i \in DOMAIN commands \/ i = n + 1)
    BY <2>5
  <2>7. ASSUME NEW i \in DOMAIN commands
        PROVE  i \in Nat /\ i < n + 1 /\ i \in DOMAIN commands' /\ commands'[i] = commands[i]
    BY <2>5
  <2>8. Sets(n + 1)' = FALSE /\ \A i \in DOMAIN commands : (Sets(i)' <=> Sets(i))
    BY <2>2, <2>5, <2>7 DEF Sets
  <2>9. kind # None
    BY DriverAssumption
  <2>10. CallTypes'
    <3>1. waiting' \in [Tasks -> {None, "Send", "Player"}]
      BY <2>3 DEF CallInv, CallTypes
    <3> QED
      BY <1>2, <2>3, <2>5, <3>1 DEF CallInv, CallTypes
  <2>11. ASSUME NEW i \in DOMAIN commands, ~ Sets(i)
         PROVE  commands[i].by # t
    BY <2>3, <2>11 DEF CallInv, Waits
  <2>12. Waits'
    <3>1. ASSUME NEW i \in DOMAIN commands', ~ Sets(i)'
          PROVE  waiting'[commands'[i].by] # None
      <4>1. CASE i = n + 1
        BY <2>2, <2>3, <2>5, <2>9, <4>1 DEF CallInv, CallTypes
      <4>2. CASE i \in DOMAIN commands
        <5>1. commands[i].by \in Tasks /\ commands[i].by # t /\ waiting[commands[i].by] # None
          BY <2>7, <2>8, <2>11, <3>1, <4>2, CommandFacts DEF CallInv, CallTypes, Waits
        <5> QED
          BY <2>3, <2>7, <4>2, <5>1 DEF CallInv, CallTypes
      <4> QED
        BY <2>6, <4>1, <4>2
    <3>2. ASSUME NEW i \in DOMAIN commands', NEW j \in DOMAIN commands', ~ Sets(i)', ~ Sets(j)',
                 commands'[i].by = commands'[j].by
          PROVE  i = j
      <4>1. CASE i \in DOMAIN commands /\ j \in DOMAIN commands
        BY <2>7, <2>8, <3>2, <4>1 DEF CallInv, Waits
      <4>2. CASE i = n + 1 /\ j \in DOMAIN commands
        BY <2>2, <2>5, <2>7, <2>8, <2>11, <3>2, <4>2
      <4>3. CASE i \in DOMAIN commands /\ j = n + 1
        BY <2>2, <2>5, <2>7, <2>8, <2>11, <3>2, <4>3
      <4> QED
        BY <2>6, <4>1, <4>2, <4>3
    <3> QED
      BY <3>1, <3>2 DEF Waits
  <2>13. Ascending'
    <3>0. calls \in Nat
      BY DEF CallInv, CallTypes
    <3>1. ASSUME NEW i \in DOMAIN commands', NEW j \in DOMAIN commands', Sets(i)', Sets(j)', i < j
          PROVE  commands'[i].value < commands'[j].value
      BY <2>6, <2>7, <2>8, <3>1 DEF CallInv, Ascending
    <3>2. ASSUME NEW i \in DOMAIN commands', Sets(i)'
          PROVE  commands'[i].value <= calls' /\ (player' # None => player' < commands'[i].value)
      <4>1. i \in DOMAIN commands /\ Sets(i)
        BY <2>6, <2>8, <3>2
      <4>2. commands[i].value \in Nat /\ commands[i].value <= calls
        BY <4>1, CommandFacts DEF CallInv, CallTypes, Ascending, Sets
      <4> QED
        BY <2>3, <2>7, <3>0, <4>1, <4>2 DEF CallInv, Ascending
    <3>3. player' # None => player' <= calls'
      BY <2>3, <3>0 DEF CallInv, CallTypes, Ascending
    <3>4. \A u \in Tasks : set_by'[u] # None => set_by'[u] <= calls'
      BY <2>3, <3>0 DEF CallInv, CallTypes, Ascending
    <3> QED
      BY <3>1, <3>2, <3>3, <3>4 DEF Ascending
  <2>14. \A u \in Tasks : (IsSet(u)' <=> IsSet(u))
    BY <2>3 DEF IsSet
  <2>15. ASSUME NEW u \in Tasks, set_by'[u] # None, ~ IsSet(u)'
         PROVE  \E i \in DOMAIN commands : Sets(i)' /\ commands'[i].value >= set_by'[u]
    <3>1. PICK i \in DOMAIN commands : Sets(i) /\ commands[i].value >= set_by[u]
      BY <1>2, <2>3, <2>14, <2>15 DEF CallInv, SetBefore
    <3> QED
      BY <2>3, <2>7, <2>8, <3>1
  <2>16. ASSUME NEW j \in DOMAIN commands', ~ Sets(j)', NEW u \in Tasks, u = commands'[j].by,
                set_by'[u] # None, ~ IsSet(u)'
         PROVE  \E i \in DOMAIN commands' : i < j /\ Sets(i)' /\ commands'[i].value >= set_by'[u]
    <3>1. CASE j = n + 1
      <4>1. PICK i \in DOMAIN commands : Sets(i)' /\ commands'[i].value >= set_by'[u]
        BY <2>15, <2>16
      <4> QED
        BY <2>7, <3>1, <4>1
    <3>2. CASE j \in DOMAIN commands
      <4>1. u = commands[j].by /\ ~ Sets(j) /\ set_by[u] # None /\ ~ IsSet(u)
        BY <2>3, <2>7, <2>8, <2>14, <2>16, <3>2
      <4>2. PICK i \in DOMAIN commands : i < j /\ Sets(i) /\ commands[i].value >= set_by[u]
        BY <3>2, <4>1 DEF CallInv, SetBefore
      <4> QED
        BY <2>3, <2>7, <2>8, <4>2
    <3> QED
      BY <2>6, <3>1, <3>2
  <2>17. SetBefore'
    <3>1. \A j \in DOMAIN commands' : commands'[j].by \in Tasks
      BY <2>5, CommandFacts
    <3>2. ASSUME NEW u \in Tasks, set_by'[u] # None
          PROVE  IsSet(u)' \/ \E i \in DOMAIN commands' : Sets(i)' /\ commands'[i].value >= set_by'[u]
      BY <2>7, <2>15, <3>2
    <3> QED
      BY <2>16, <3>1, <3>2 DEF SetBefore, IsSet
  <2> QED
    BY <2>3, <2>10, <2>12, <2>13, <2>17 DEF CallInv
<1> QED
  BY <1>1, <1>2

\* A task sets a player only while it waits for nothing: none of its own
\* commands that read one is queued.
LEMMA SetPlayerStep ==
  ASSUME CallInv, NEW t \in Tasks, Driver!set_player(t)
  PROVE  CallInv'
<1> USE DEF Driver!connVars
<1>1. CASE task = "ended"
  <2>1. calls' = calls + 1 /\ UNCHANGED <<task, commands, waiting, player, set_by, stale>>
    BY <1>1 DEF Driver!set_player
  <2> QED
    BY <1>1, <2>1, LateCallInv
<1>2. CASE task # "ended"
  <2>0. calls \in Nat
    BY DEF CallInv, CallTypes
  <2>1. PICK c : c = [kind |-> "SetPlayer", by |-> t, value |-> calls + 1]
    OBVIOUS
  <2>2. c.kind = "SetPlayer" /\ c.by = t /\ c.value = calls + 1 /\ c \in CommandType
    BY <2>0, <2>1 DEF CommandType
  <2>3. /\ waiting[t] = None /\ calls' = calls + 1
        /\ commands' = Append(commands, c)
        /\ set_by' = [set_by EXCEPT ![t] = calls + 1]
        /\ UNCHANGED <<task, player, waiting, stale>>
    BY <1>2, <2>1 DEF Driver!set_player, Driver!Calls
  <2>4. PICK n \in Nat : n = Len(commands)
    BY LenProperties DEF CallInv, CallTypes
  <2>5. /\ commands' \in Seq(CommandType) /\ DOMAIN commands = 1 .. n /\ DOMAIN commands' = 1 .. n + 1
        /\ \A i \in 1 .. n : commands'[i] = commands[i]
        /\ commands'[n + 1] = c
    BY <2>2, <2>3, <2>4, AppendProperties, QueueAppend DEF CallInv, CallTypes
  <2>6. \A i \in DOMAIN commands' : i \in Nat /\ (i \in DOMAIN commands \/ i = n + 1)
    BY <2>5
  <2>7. ASSUME NEW i \in DOMAIN commands
        PROVE  i \in Nat /\ i < n + 1 /\ i \in DOMAIN commands' /\ commands'[i] = commands[i]
    BY <2>5
  <2>8. Sets(n + 1)' /\ \A i \in DOMAIN commands : (Sets(i)' <=> Sets(i))
    BY <2>2, <2>5, <2>7 DEF Sets
  <2>9. /\ set_by' \in [Tasks -> Nat \cup {None}] /\ set_by'[t] = calls + 1
        /\ \A u \in Tasks : u # t => set_by'[u] = set_by[u]
    BY <2>0, <2>3 DEF CallInv, CallTypes
  <2>10. CallTypes'
    BY <1>2, <2>0, <2>3, <2>5, <2>9 DEF CallInv, CallTypes
  <2>11. ASSUME NEW i \in DOMAIN commands', ~ Sets(i)'
         PROVE  /\ i \in DOMAIN commands /\ ~ Sets(i) /\ commands'[i] = commands[i]
                /\ commands[i].by \in Tasks /\ commands[i].by # t
    <3>1. i \in DOMAIN commands /\ ~ Sets(i)
      BY <2>6, <2>8, <2>11
    <3> QED
      BY <2>3, <2>7, <3>1, CommandFacts DEF CallInv, CallTypes, Waits
  <2>12. Waits'
    BY <2>3, <2>11 DEF CallInv, Waits
  <2>13. Ascending'
    <3>1. ASSUME NEW i \in DOMAIN commands, Sets(i)
          PROVE  commands[i].value \in Nat /\ commands[i].value <= calls
      BY <3>1, CommandFacts DEF CallInv, CallTypes, Ascending, Sets
    <3>2. ASSUME NEW i \in DOMAIN commands', NEW j \in DOMAIN commands', Sets(i)', Sets(j)', i < j
          PROVE  commands'[i].value < commands'[j].value
      <4>1. i \in DOMAIN commands
        BY <2>5, <2>6, <3>2
      <4>2. CASE j \in DOMAIN commands
        BY <2>7, <2>8, <3>2, <4>1, <4>2 DEF CallInv, Ascending
      <4>3. CASE j = n + 1
        BY <2>0, <2>2, <2>5, <2>7, <2>8, <3>1, <3>2, <4>1, <4>3
      <4> QED
        BY <2>6, <4>2, <4>3
    <3>3. ASSUME NEW i \in DOMAIN commands', Sets(i)'
          PROVE  commands'[i].value <= calls' /\ (player' # None => player' < commands'[i].value)
      <4>1. CASE i \in DOMAIN commands
        <5>1. Sets(i) /\ commands'[i] = commands[i]
          BY <2>7, <2>8, <3>3, <4>1
        <5>2. player # None => player < commands[i].value
          BY <4>1, <5>1 DEF CallInv, Ascending
        <5> QED
          BY <2>0, <2>3, <3>1, <4>1, <5>1, <5>2
      <4>2. CASE i = n + 1
        <5>1. player # None => player \in Nat /\ player <= calls
          BY DEF CallInv, CallTypes, Ascending
        <5> QED
          BY <2>0, <2>2, <2>3, <2>5, <4>2, <5>1
      <4> QED
        BY <2>6, <4>1, <4>2
    <3>4. player' # None => player' <= calls'
      BY <2>0, <2>3 DEF CallInv, CallTypes, Ascending
    <3>5. ASSUME NEW u \in Tasks, set_by'[u] # None
          PROVE  set_by'[u] <= calls'
      <4>1. CASE u = t
        BY <2>0, <2>3, <2>9, <4>1
      <4>2. CASE u # t
        <5>1. set_by[u] \in Nat /\ set_by[u] <= calls /\ set_by'[u] = set_by[u]
          BY <2>9, <3>5, <4>2 DEF CallInv, CallTypes, Ascending
        <5> QED
          BY <2>0, <2>3, <5>1
      <4> QED
        BY <4>1, <4>2
    <3> QED
      BY <3>2, <3>3, <3>4, <3>5 DEF Ascending
  <2>14. \A u \in Tasks : u # t => (IsSet(u)' <=> IsSet(u))
    BY <2>3, <2>9 DEF IsSet
  <2>15. ASSUME NEW u \in Tasks, set_by'[u] # None, ~ IsSet(u)'
         PROVE  \E i \in DOMAIN commands' : Sets(i)' /\ commands'[i].value >= set_by'[u]
    <3>1. CASE u = t
      <4>1. n + 1 \in DOMAIN commands' /\ commands'[n + 1].value >= set_by'[t]
        BY <2>0, <2>2, <2>5, <2>9
      <4> QED
        BY <2>8, <3>1, <4>1
    <3>2. CASE u # t
      <4>1. set_by[u] # None /\ ~ IsSet(u) /\ set_by'[u] = set_by[u]
        BY <2>9, <2>14, <2>15, <3>2
      <4>2. PICK i \in DOMAIN commands : Sets(i) /\ commands[i].value >= set_by[u]
        BY <1>2, <4>1 DEF CallInv, SetBefore
      <4> QED
        BY <2>7, <2>8, <4>1, <4>2
    <3> QED
      BY <3>1, <3>2
  <2>16. ASSUME NEW j \in DOMAIN commands', ~ Sets(j)', NEW u \in Tasks, u = commands'[j].by,
                set_by'[u] # None, ~ IsSet(u)'
         PROVE  \E i \in DOMAIN commands' : i < j /\ Sets(i)' /\ commands'[i].value >= set_by'[u]
    <3>1. /\ j \in DOMAIN commands /\ ~ Sets(j) /\ u = commands[j].by /\ u # t
      BY <2>11, <2>16
    <3>2. set_by[u] # None /\ ~ IsSet(u) /\ set_by'[u] = set_by[u]
      BY <2>9, <2>14, <2>16, <3>1
    <3>3. PICK i \in DOMAIN commands : i < j /\ Sets(i) /\ commands[i].value >= set_by[u]
      BY <3>1, <3>2 DEF CallInv, SetBefore
    <3> QED
      BY <2>7, <2>8, <3>2, <3>3
  <2>17. SetBefore'
    <3>1. \A j \in DOMAIN commands' : commands'[j].by \in Tasks
      BY <2>5, CommandFacts
    <3> QED
      BY <2>15, <2>16, <3>1 DEF SetBefore, IsSet
  <2> QED
    BY <2>3, <2>10, <2>12, <2>13, <2>17 DEF CallInv
<1> QED
  BY <1>1, <1>2

\* The oldest command: it sets the player, or it is answered, and a player that
\* its task set before is set by then.
LEMMA CommandStep ==
  ASSUME CallInv, Driver!Command
  PROVE  CallInv'
<1> USE DEF Driver!connVars
<1>1. PICK c : c = Head(commands)
  OBVIOUS
<1>2. /\ task = "select" /\ task' = "poll" /\ commands # <<>> /\ commands' = Tail(commands)
      /\ player' = IF c.kind = "SetPlayer" THEN c.value ELSE player
      /\ waiting' = IF c.kind = "SetPlayer" THEN waiting ELSE [waiting EXCEPT ![c.by] = None]
      /\ stale' = (stale \/ (c.kind = "Player" /\ set_by[c.by] # None
                             /\ (player = None \/ player < set_by[c.by])))
      /\ UNCHANGED <<calls, set_by>>
  BY <1>1 DEF Driver!Command
<1>3. /\ commands' \in Seq(CommandType) /\ c \in CommandType /\ c = commands[1]
      /\ 1 \in DOMAIN commands
      /\ \A i \in DOMAIN commands' :
           i \in Nat /\ i + 1 \in DOMAIN commands /\ commands'[i] = commands[i + 1]
      /\ \A i \in DOMAIN commands : i \in Nat /\ (i = 1 \/ (i > 1 /\ i - 1 \in DOMAIN commands'))
  BY <1>1, <1>2, QueueTail DEF CallInv, CallTypes
<1>4. \A i \in DOMAIN commands' : (Sets(i)' <=> Sets(i + 1))
  BY <1>3 DEF Sets
<1>5. /\ c.by \in Tasks /\ (c.kind = "SetPlayer" => c.value \in Nat)
      /\ (Sets(1) <=> c.kind = "SetPlayer")
  BY <1>3, CommandFacts DEF Sets
<1>6. ASSUME NEW i \in DOMAIN commands, Sets(i)
      PROVE  commands[i].value \in Nat
  BY <1>6, CommandFacts DEF CallInv, CallTypes, Sets
<1>7. CallTypes'
  <2>1. player' \in Nat \cup {None}
    BY <1>2, <1>5 DEF CallInv, CallTypes
  <2>2. waiting' \in [Tasks -> {None, "Send", "Player"}]
    BY <1>2 DEF CallInv, CallTypes
  <2> QED
    BY <1>2, <1>3, <2>1, <2>2 DEF CallInv, CallTypes
<1>8. Waits'
  <2>1. ASSUME NEW i \in DOMAIN commands', ~ Sets(i)'
        PROVE  waiting'[commands'[i].by] # None
    <3>1. i + 1 \in DOMAIN commands /\ ~ Sets(i + 1) /\ commands'[i] = commands[i + 1] /\ i + 1 # 1
      <4>1. i + 1 \in DOMAIN commands /\ i \in Nat /\ i # 0
        <5>1. i \in 1 .. Len(commands')
          BY <1>3, <2>1, LenProperties
        <5> QED
          BY <1>3, <5>1
      <4> QED
        BY <1>3, <1>4, <2>1, <4>1
    <3>2. waiting[commands[i + 1].by] # None
      BY <3>1 DEF CallInv, Waits
    <3>3. CASE c.kind = "SetPlayer"
      BY <1>2, <3>1, <3>2, <3>3
    <3>4. CASE c.kind # "SetPlayer"
      <4>1. commands[i + 1].by # c.by
        BY <1>3, <1>5, <3>1, <3>4 DEF CallInv, Waits
      <4>2. commands[i + 1].by \in Tasks
        BY <3>1, CommandFacts DEF CallInv, CallTypes
      <4> QED
        BY <1>2, <3>1, <3>2, <3>4, <4>1, <4>2 DEF CallInv, CallTypes
    <3> QED
      BY <3>3, <3>4
  <2>2. ASSUME NEW i \in DOMAIN commands', NEW j \in DOMAIN commands', ~ Sets(i)', ~ Sets(j)',
               commands'[i].by = commands'[j].by
        PROVE  i = j
    <3>1. i + 1 = j + 1 /\ i \in Nat /\ j \in Nat
      BY <1>3, <1>4, <2>2 DEF CallInv, Waits
    <3> QED
      BY <3>1
  <2> QED
    BY <2>1, <2>2 DEF Waits
<1>9. ASSUME NEW i \in DOMAIN commands'
      PROVE  i \in Nat /\ 1 < i + 1 /\ i + 1 \in DOMAIN commands
  <2>1. i \in 1 .. Len(commands')
    BY <1>3, <1>9, LenProperties
  <2> QED
    BY <1>3, <2>1
<1>10. Ascending'
  <2>1. ASSUME NEW i \in DOMAIN commands', NEW j \in DOMAIN commands', Sets(i)', Sets(j)', i < j
        PROVE  commands'[i].value < commands'[j].value
    <3>1. i + 1 < j + 1 /\ Sets(i + 1) /\ Sets(j + 1)
      BY <1>3, <1>4, <2>1
    <3> QED
      BY <1>3, <3>1 DEF CallInv, Ascending
  <2>2. ASSUME NEW i \in DOMAIN commands', Sets(i)'
        PROVE  commands'[i].value <= calls' /\ (player' # None => player' < commands'[i].value)
    <3>1. /\ Sets(i + 1) /\ commands'[i] = commands[i + 1] /\ i + 1 \in DOMAIN commands
          /\ commands[i + 1].value <= calls /\ (player # None => player < commands[i + 1].value)
      BY <1>3, <1>4, <2>2 DEF CallInv, Ascending
    <3>2. CASE c.kind = "SetPlayer"
      <4>1. c.value < commands[i + 1].value
        BY <1>3, <1>5, <1>9, <3>1, <3>2 DEF CallInv, Ascending
      <4> QED
        BY <1>2, <3>1, <3>2, <4>1
    <3>3. CASE c.kind # "SetPlayer"
      BY <1>2, <3>1, <3>3
    <3> QED
      BY <3>2, <3>3
  <2>3. player' # None => player' <= calls'
    <3>1. c.kind = "SetPlayer" => c.value <= calls
      BY <1>3, <1>5 DEF CallInv, Ascending
    <3> QED
      BY <1>2, <3>1 DEF CallInv, Ascending
  <2>4. \A t \in Tasks : set_by'[t] # None => set_by'[t] <= calls'
    BY <1>2 DEF CallInv, Ascending
  <2> QED
    BY <2>1, <2>2, <2>3, <2>4 DEF Ascending
<1>11. ASSUME NEW t \in Tasks, set_by[t] # None,
              IsSet(t) \/ (Sets(1) /\ commands[1].value >= set_by[t])
       PROVE  IsSet(t)'
  <2>1. set_by[t] \in Nat /\ set_by'[t] = set_by[t]
    BY <1>2, <1>11 DEF CallInv, CallTypes
  <2>2. CASE c.kind # "SetPlayer"
    BY <1>2, <1>5, <1>11, <2>2 DEF IsSet
  <2>3. CASE c.kind = "SetPlayer"
    <3>1. c.value \in Nat /\ player' = c.value /\ Sets(1)
      BY <1>2, <1>5, <2>3
    <3>2. c.value >= set_by[t]
      <4>1. CASE IsSet(t)
        <5>1. player \in Nat /\ player >= set_by[t] /\ player < c.value
          BY <1>3, <3>1, <4>1 DEF CallInv, CallTypes, IsSet, Ascending
        <5> QED
          BY <2>1, <3>1, <5>1
      <4> QED
        BY <1>3, <1>11, <4>1
    <3>3. c.value # None
      BY <3>1, DriverAssumption
    <3> QED
      BY <2>1, <3>1, <3>2, <3>3 DEF IsSet
  <2> QED
    BY <2>2, <2>3
<1>12. ASSUME NEW t \in Tasks, set_by'[t] # None, ~ IsSet(t)'
       PROVE  \E i \in DOMAIN commands' : Sets(i)' /\ commands'[i].value >= set_by'[t]
  <2>1. ~ IsSet(t) /\ ~ (Sets(1) /\ commands[1].value >= set_by[t]) /\ set_by[t] # None
    BY <1>2, <1>11, <1>12
  <2>2. PICK i \in DOMAIN commands : Sets(i) /\ commands[i].value >= set_by[t]
    BY <1>2, <2>1 DEF CallInv, SetBefore
  <2>3. i \in Nat /\ i - 1 \in DOMAIN commands' /\ (i - 1) + 1 = i
    BY <1>3, <2>1, <2>2
  <2>4. Sets(i - 1)' /\ commands'[i - 1] = commands[i]
    BY <1>3, <1>4, <2>2, <2>3
  <2> QED
    BY <1>2, <2>2, <2>3, <2>4
<1>13. ASSUME NEW j \in DOMAIN commands', ~ Sets(j)', NEW t \in Tasks, t = commands'[j].by,
              set_by'[t] # None, ~ IsSet(t)'
       PROVE  \E i \in DOMAIN commands' : i < j /\ Sets(i)' /\ commands'[i].value >= set_by'[t]
  <2>1. ~ IsSet(t) /\ ~ (Sets(1) /\ commands[1].value >= set_by[t]) /\ set_by[t] # None
    BY <1>2, <1>11, <1>13
  <2>2. j + 1 \in DOMAIN commands /\ ~ Sets(j + 1) /\ t = commands[j + 1].by /\ j \in Nat
    BY <1>3, <1>4, <1>13
  <2>3. PICK i \in DOMAIN commands : i < j + 1 /\ Sets(i) /\ commands[i].value >= set_by[t]
    BY <2>1, <2>2 DEF CallInv, SetBefore
  <2>4. i \in Nat /\ i - 1 \in DOMAIN commands' /\ (i - 1) + 1 = i /\ i - 1 < j
    BY <1>3, <2>1, <2>2, <2>3
  <2>5. Sets(i - 1)' /\ commands'[i - 1] = commands[i]
    BY <1>3, <1>4, <2>3, <2>4
  <2> QED
    BY <1>2, <2>3, <2>4, <2>5
<1>14. SetBefore'
  <2>1. \A j \in DOMAIN commands' : commands'[j].by \in Tasks
    BY <1>3, CommandFacts
  <2> QED
    BY <1>12, <1>13, <2>1 DEF SetBefore, IsSet
<1>15. ~ stale'
  <2>1. ASSUME c.kind = "Player", set_by[c.by] # None
        PROVE  player # None /\ player >= set_by[c.by]
    <3>1. ~ Sets(1) /\ c.by = commands[1].by
      BY <1>3, <1>5, <2>1
    <3>2. \A i \in DOMAIN commands : ~ (i < 1)
      BY <1>3
    <3>3. IsSet(c.by)
      BY <1>3, <2>1, <3>1, <3>2 DEF CallInv, SetBefore
    <3> QED
      BY <3>3 DEF IsSet
  <2>2. ASSUME c.kind = "Player", set_by[c.by] # None
        PROVE  ~ (player = None \/ player < set_by[c.by])
    <3>1. player \in Nat /\ set_by[c.by] \in Nat
      BY <1>5, <2>1, <2>2 DEF CallInv, CallTypes
    <3> QED
      BY <2>1, <2>2, <3>1
  <2> QED
    BY <1>2, <2>2 DEF CallInv
<1> QED
  BY <1>7, <1>8, <1>10, <1>14, <1>15 DEF CallInv

LEMMA CallsStep == CallInv /\ [MCNext]_allVars => CallInv'
<1> SUFFICES ASSUME CallInv, [MCNext]_allVars PROVE CallInv'
  OBVIOUS
<1> USE DEF Driver!appVars, Driver!connVars
<1>1. CASE UNCHANGED driverVars
  BY <1>1, NoCallInv DEF driverVars
<1>2. ASSUME NEW t \in Tasks, Driver!send_on(t) \/ Driver!get_player(t)
      PROVE  CallInv'
  BY <1>2, CallStep DEF Driver!send_on, Driver!get_player
<1>3. ASSUME NEW t \in Tasks, Driver!set_player(t)
      PROVE  CallInv'
  BY <1>3, SetPlayerStep
<1>4. ASSUME NEW t \in Tasks, Driver!close(t)
      PROVE  CallInv'
  BY <1>4, NoCallInv DEF Driver!close
<1>5. CASE Driver!recv \/ Driver!recv_unreliable
  BY <1>5, NoCallInv DEF Driver!recv, Driver!recv_unreliable
<1>6. ASSUME NEW x \in Driver!Parts, Driver!DropPart(x)
      PROVE  CallInv'
  <2>1. UNCHANGED <<waiting, calls, player, set_by, stale>>
    BY <1>6 DEF Driver!DropPart
  <2>2. CASE parts = {x} /\ task # "ended"
    <3>1. commands' = <<>> /\ task' = "ended"
      BY <1>6, <2>2 DEF Driver!DropPart
    <3>2. waiting' \in [Tasks -> {None, "Send", "Player"}]
      BY <2>1 DEF CallInv, CallTypes
    <3> QED
      BY <2>1, <3>1, <3>2, EndInv
  <2>3. CASE ~ (parts = {x} /\ task # "ended")
    <3>1. UNCHANGED <<commands, task>>
      BY <1>6, <2>3 DEF Driver!DropPart
    <3> QED
      BY <2>1, <3>1, NoCallInv
  <2> QED
    BY <2>2, <2>3
<1>7. ASSUME NEW batch \in Driver!Batches, Driver!Packet(batch)
      PROVE  CallInv'
  <2>1. UNCHANGED <<commands, waiting, calls, player, set_by, stale>> /\ task # "ended" /\ task' # "ended"
    BY <1>7 DEF Driver!Packet
  <2> QED
    BY <2>1, NoCallInv
<1>8. CASE Driver!SelectClose \/ Driver!CommandsClosed \/ Driver!PollFailed
  <2>1. /\ commands' = <<>> /\ task' = "ended" /\ waiting' = [t \in Tasks |-> None]
        /\ UNCHANGED <<calls, player, set_by, stale>>
    BY <1>8 DEF Driver!SelectClose, Driver!CommandsClosed, Driver!PollFailed, Driver!End, Driver!Return
  <2> QED
    BY <2>1, EndInv
<1>9. CASE Driver!Timeout \/ Driver!PollDone \/ Driver!PollUnreliable \/ Driver!PollReliable
           \/ Driver!Unblock \/ Driver!Unreceived
  <2>1. /\ UNCHANGED <<commands, waiting, calls, player, set_by, stale>>
        /\ task # "ended" /\ task' # "ended"
    BY <1>9 DEF Driver!Timeout, Driver!PollDone, Driver!PollUnreliable, Driver!PollReliable,
                Driver!Unblock, Driver!Unreceived, Driver!Out
  <2> QED
    BY <2>1, NoCallInv
<1>10. CASE Driver!Command
  BY <1>10, CommandStep
<1>11. CASE Driver!Next
  BY <1>2, <1>3, <1>4, <1>5, <1>6, <1>7, <1>8, <1>9, <1>10, <1>11 DEF Driver!Next, Driver!Driver
<1>12. UNCHANGED allVars \/ InSession(Next) \/ InFraming(FramingNext) => UNCHANGED driverVars
  BY DEF allVars, InSession, InFraming
<1> QED
  BY <1>1, <1>11, <1>12 DEF MCNext, InDriver

\* The safety part of CallsReturn: whatever other tasks, the peer and the close
\* do in between, a task reads the player it has set, or one set later.
THEOREM PlayerIsAlwaysRead == MCSpec => []Driver!PlayerIsRead
<1>1. CallInv => Driver!PlayerIsRead
  BY DEF CallInv, Driver!PlayerIsRead
<1> QED
  BY <1>1, CallInit, CallsStep, PTL DEF MCSpec
-----------------------------------------------------------------------------
\* A call that waits

Queued(t) == \E i \in DOMAIN commands : commands[i].kind = waiting[t] /\ commands[i].by = t

\* A call that waits is in the queue of a driver that runs, and its task holds
\* a clone: the end of the task, whatever its cause, leaves nobody waiting.
CallsAreQueued ==
  \A t \in Tasks : waiting[t] # None => t \in parts /\ task # "ended" /\ Queued(t)

\* The queue does not get shorter and nobody else begins to wait.
LEMMA StillQueued ==
  ASSUME CallsAreQueued, UNCHANGED <<parts, waiting, task, commands>>
  PROVE  CallsAreQueued'
  BY DEF CallsAreQueued, Queued

LEMMA QueuedStep == CallInv /\ CallsAreQueued /\ [MCNext]_allVars => CallsAreQueued'
<1> SUFFICES ASSUME CallInv, CallsAreQueued, [MCNext]_allVars PROVE CallsAreQueued'
  OBVIOUS
<1> USE DEF Driver!appVars, Driver!connVars
<1>1. CASE UNCHANGED driverVars
  BY <1>1, StillQueued DEF driverVars
<1>2. ASSUME NEW t \in Tasks, NEW kind \in {"Send", "Player"},
             Driver!Call(t, [kind |-> kind, by |-> t])
      PROVE  CallsAreQueued'
  <2>1. CASE task = "ended"
    BY <1>2, <2>1, StillQueued DEF Driver!Call
  <2>2. CASE task # "ended"
    <3>1. PICK c : c = [kind |-> kind, by |-> t]
      OBVIOUS
    <3>2. c.kind = kind /\ c.by = t /\ c \in CommandType
      BY <3>1 DEF CommandType
    <3>3. /\ t \in parts /\ commands' = Append(commands, c)
          /\ waiting' = [waiting EXCEPT ![t] = kind] /\ UNCHANGED <<parts, task>>
      BY <1>2, <2>2, <3>1 DEF Driver!Call, Driver!Calls
    <3>4. /\ \A i \in DOMAIN commands : i \in DOMAIN commands' /\ commands'[i] = commands[i]
          /\ \E i \in DOMAIN commands' : commands'[i] = c
      <4>1. commands \in Seq(CommandType)
        BY DEF CallInv, CallTypes
      <4>2. Len(commands) + 1 \in DOMAIN commands' /\ Len(commands) + 1 \notin DOMAIN commands
        BY <3>2, <3>3, <4>1, QueueAppend
      <4> QED
        BY <3>2, <3>3, <4>1, <4>2, QueueAppend
    <3>5. /\ waiting'[t] = kind
          /\ \A u \in Tasks : u # t => waiting'[u] = waiting[u]
      BY <3>3 DEF CallInv, CallTypes
    <3>6. ASSUME NEW u \in Tasks, waiting'[u] # None
          PROVE  u \in parts /\ Queued(u)'
      <4>1. CASE u = t
        BY <3>2, <3>3, <3>4, <3>5, <4>1 DEF Queued
      <4>2. CASE u # t
        BY <3>4, <3>5, <3>6, <4>2 DEF CallsAreQueued, Queued
      <4> QED
        BY <4>1, <4>2
    <3> QED
      BY <2>2, <3>3, <3>6 DEF CallsAreQueued
  <2> QED
    BY <2>1, <2>2
<1>3. ASSUME NEW t \in Tasks, Driver!set_player(t)
      PROVE  CallsAreQueued'
  <2>1. CASE task = "ended"
    BY <1>3, <2>1, StillQueued DEF Driver!set_player
  <2>2. CASE task # "ended"
    <3>1. PICK c : c = [kind |-> "SetPlayer", by |-> t, value |-> calls + 1]
      OBVIOUS
    <3>2. c \in CommandType
      <4>1. calls + 1 \in Nat
        BY DEF CallInv, CallTypes
      <4> QED
        BY <3>1, <4>1 DEF CommandType
    <3>3. commands' = Append(commands, c) /\ UNCHANGED <<parts, task, waiting>>
      BY <1>3, <2>2, <3>1 DEF Driver!set_player
    <3>4. \A i \in DOMAIN commands : i \in DOMAIN commands' /\ commands'[i] = commands[i]
      BY <3>2, <3>3, QueueAppend DEF CallInv, CallTypes
    <3> QED
      BY <3>3, <3>4 DEF CallsAreQueued, Queued
  <2> QED
    BY <2>1, <2>2
<1>4. ASSUME NEW t \in Tasks, Driver!close(t)
      PROVE  CallsAreQueued'
  BY <1>4, StillQueued DEF Driver!close
<1>5. CASE Driver!recv \/ Driver!recv_unreliable
  BY <1>5, StillQueued DEF Driver!recv, Driver!recv_unreliable
<1>6. ASSUME NEW x \in Driver!Parts, Driver!DropPart(x)
      PROVE  CallsAreQueued'
  <2>1. /\ waiting' = waiting /\ parts' = parts \ {x} /\ (x \in Tasks => waiting[x] = None)
    BY <1>6 DEF Driver!DropPart
  <2>2. CASE parts = {x} /\ task # "ended"
    BY <2>1, <2>2 DEF CallsAreQueued
  <2>3. CASE ~ (parts = {x} /\ task # "ended")
    <3>1. UNCHANGED <<commands, task>>
      BY <1>6, <2>3 DEF Driver!DropPart
    <3> QED
      BY <2>1, <3>1 DEF CallsAreQueued, Queued
  <2> QED
    BY <2>2, <2>3
<1>7. CASE Driver!SelectClose \/ Driver!CommandsClosed \/ Driver!PollFailed
  <2>1. waiting' = [t \in Tasks |-> None]
    BY <1>7 DEF Driver!SelectClose, Driver!CommandsClosed, Driver!PollFailed, Driver!End, Driver!Return
  <2> QED
    BY <2>1 DEF CallsAreQueued
<1>8. CASE \/ \E batch \in Driver!Batches : Driver!Packet(batch)
           \/ Driver!Timeout \/ Driver!PollDone \/ Driver!PollUnreliable \/ Driver!PollReliable
           \/ Driver!Unblock \/ Driver!Unreceived
  <2>1. UNCHANGED <<parts, commands, waiting>> /\ task' # "ended"
    BY <1>8 DEF Driver!Packet, Driver!Timeout, Driver!PollDone, Driver!PollUnreliable,
                Driver!PollReliable, Driver!Unblock, Driver!Unreceived, Driver!Out
  <2> QED
    BY <2>1 DEF CallsAreQueued, Queued
<1>9. CASE Driver!Command
  <2>1. PICK c : c = Head(commands)
    OBVIOUS
  <2>2. /\ task' = "poll" /\ commands # <<>> /\ commands' = Tail(commands) /\ parts' = parts
        /\ waiting' = IF c.kind = "SetPlayer" THEN waiting ELSE [waiting EXCEPT ![c.by] = None]
    BY <1>9, <2>1 DEF Driver!Command
  <2>3. /\ c = commands[1]
        /\ \A i \in DOMAIN commands : i = 1 \/ (i - 1 \in DOMAIN commands' /\ commands'[i - 1] = commands[i])
    <3>1. /\ c = commands[1]
          /\ \A i \in DOMAIN commands' : commands'[i] = commands[i + 1]
          /\ \A i \in DOMAIN commands : i \in Nat /\ (i = 1 \/ i - 1 \in DOMAIN commands')
      BY <2>1, <2>2, QueueTail DEF CallInv, CallTypes
    <3>2. \A i \in Nat : (i - 1) + 1 = i
      OBVIOUS
    <3> QED
      BY <3>1, <3>2
  <2>4. ASSUME NEW t \in Tasks, waiting'[t] # None
        PROVE  t \in parts /\ Queued(t)'
    <3>1. waiting'[t] = waiting[t] /\ (c.kind = "SetPlayer" \/ c.by # t)
      BY <2>2, <2>4 DEF CallInv, CallTypes
    <3>2. t \in parts /\ \E i \in DOMAIN commands : commands[i].kind = waiting[t] /\ commands[i].by = t
      BY <2>4, <3>1 DEF CallsAreQueued, Queued
    <3>3. waiting[t] # "SetPlayer"
      <4>1. waiting[t] \in {"Send", "Player"}
        BY <2>4, <3>1 DEF CallInv, CallTypes
      <4> QED
        BY <4>1
    <3>4. PICK i \in DOMAIN commands : commands[i].kind = waiting[t] /\ commands[i].by = t
      BY <3>2
    <3>5. i # 1
      BY <2>3, <3>1, <3>3, <3>4
    <3> QED
      BY <2>3, <3>1, <3>2, <3>4, <3>5 DEF Queued
  <2> QED
    BY <2>2, <2>4 DEF CallsAreQueued
<1>10. CASE Driver!Next
  BY <1>2, <1>3, <1>4, <1>5, <1>6, <1>7, <1>8, <1>9, <1>10
     DEF Driver!Next, Driver!Driver, Driver!send_on, Driver!get_player
<1>11. UNCHANGED allVars \/ InSession(Next) \/ InFraming(FramingNext) => UNCHANGED driverVars
  BY DEF allVars, InSession, InFraming
<1> QED
  BY <1>1, <1>10, <1>11 DEF MCNext, InDriver

\* No reply is lost: a call waits only while its command is in the queue of a
\* driver that runs.  That the driver then comes to it is the fairness of
\* CallsReturn.
THEOREM NoReplyIsLost == MCSpec => []CallsAreQueued
<1>1. MCInit => CallsAreQueued
  BY DEF MCInit, Driver!Init, CallsAreQueued
<1> QED
  BY <1>1, CallInit, CallsStep, QueuedStep, PTL DEF MCSpec
=============================================================================
