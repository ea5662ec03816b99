------------------------------ MODULE Session ------------------------------
(***************************************************************************)
(* One session (nethernet/src/session/mod.rs): the order in which ICE,     *)
(* DTLS, SCTP and the two data channels come up, the events it reports and *)
(* what an error on the way leaves behind.                                 *)
(*                                                                         *)
(* The protocol stacks (crate rtc) are external: an input may let ICE      *)
(* select a pair or fail, and lets SCTP queue events, channel requests and *)
(* data; any call that returns a Result may return an error.  A handler is *)
(* atomic: the driver feeds one input and then polls every output, so      *)
(* output holds the events of the last input.                              *)
(***************************************************************************)
EXTENDS Naturals, Sequences, FiniteSets

CONSTANTS
  MaxEarly,     \* MAX_EARLY_PACKETS
  Deadline      \* establish_within

Channels == {"Reliable", "Unreliable"}
SctpEvents == {"Connected", "Lost"}
Events == {"Ready", "Failed"}

ASSUME SessionAssumption ==
  /\ MaxEarly \in Nat
  /\ Deadline \in Nat

VARIABLES
  session,  \* the fields of Session, and of the stacks what it reads of them
  count     \* history: how often each event was reported

vars == <<session, count>>

SessionType ==
  [is_controlling : BOOLEAN,   \* this side is the offerer
   credentials : BOOLEAN,      \* ICE has the remote credentials
   ice_failed : {"no", "event", "read"},  \* the state change of ICE, read or not yet
   selected : BOOLEAN,         \* ICE has selected a pair
   pending_role : BOOLEAN,     \* pending_role_fingerprint is set
   certificate : BOOLEAN,      \* the certificate was not taken yet
   early : 0 .. MaxEarly,      \* early_packets
   transports : BOOLEAN,       \* dtls and sctp exist
   sctp : {"down", "up", "lost"},     \* the association
   sctp_events : SUBSET SctpEvents,   \* its events not read yet
   requests : SUBSET Channels,        \* streams not accepted yet, with their OPEN
   data : SUBSET Channels,            \* channels with a message not read yet
   open : SUBSET Channels,            \* channels whose stream id is set
   ready_emitted : BOOLEAN,
   failed_emitted : BOOLEAN,
   started : BOOLEAN,          \* establish_started is set
   left : 0 .. Deadline,       \* time to the deadline
   output : Seq(Events \cup Channels)]  \* events, and messages by channel

Init ==
  /\ \E controlling \in BOOLEAN :
     session = [is_controlling |-> controlling, credentials |-> FALSE, ice_failed |-> "no", selected |-> FALSE, pending_role |-> FALSE,
                certificate |-> TRUE, early |-> 0, transports |-> FALSE, sctp |-> "down",
                sctp_events |-> {}, requests |-> {}, data |-> {}, open |-> {},
                ready_emitted |-> FALSE, failed_emitted |-> FALSE,
                started |-> FALSE, left |-> Deadline, output |-> <<>>]
  /\ count = [e \in Events |-> 0]
-----------------------------------------------------------------------------
(* pump: its steps as functions of the session s and of o, the outcomes of *)
(* the calls it makes                                                      *)

\* start: start_transports; replay: every early packet is read; opens: how many
\* streams open_channels_if_controlling opens before an error; drain:
\* drain_dcep_and_data; write: every packet is given to DTLS.
Outcomes == [start : BOOLEAN, replay : BOOLEAN, opens : 0 .. 2, drain : BOOLEAN, write : BOOLEAN]
AllWell == [start |-> TRUE, replay |-> TRUE, opens |-> 2, drain |-> TRUE, write |-> TRUE]

emit(s, e) == [s EXCEPT !.output = Append(@, e)]

\* Mutant: a ready session does not fail.
fail_before_ready(s) ==
  IF s.failed_emitted \/ s.ready_emitted
  THEN s ELSE [emit(s, "Failed") EXCEPT !.failed_emitted = TRUE]

fail(s) ==
  IF s.failed_emitted THEN s ELSE [emit(s, "Failed") EXCEPT !.failed_emitted = TRUE]

read_ice_events(s) ==
  IF s.ice_failed = "event" THEN [fail(s) EXCEPT !.ice_failed = "read"] ELSE s

Starts(s) == ~ s.transports /\ s.selected /\ s.pending_role

\* Mutant: the early packets are not replayed.
start_transports_without_replay(s, o) ==
  IF Starts(s)
  THEN [s EXCEPT !.pending_role = FALSE,
                 !.certificate = FALSE,
                 !.transports = s.certificate /\ o.start]
  ELSE s

\* start_transports_on_selected_pair: the role is taken before anything can
\* fail, the certificate before the layers are built; an early packet that
\* cannot be read drops the ones behind it.
start_transports(s, o) ==
  IF Starts(s)
  THEN [s EXCEPT !.pending_role = FALSE,
                 !.certificate = FALSE,
                 !.transports = s.certificate /\ o.start,
                 !.early = IF s.certificate /\ o.start THEN 0 ELSE @]
  ELSE s

StartError(s, o) ==
  Starts(s) /\ (~ s.certificate \/ ~ o.start \/ (s.early > 0 /\ ~ o.replay))

Opens(s) == s.is_controlling /\ "Connected" \in s.sctp_events

\* The events of the association up to an error; the streams are opened one
\* after the other.
read_sctp_events(s, o) ==
  IF Opens(s)
  THEN [s EXCEPT !.sctp_events = IF o.opens = 2 THEN {} ELSE @ \ {"Connected"},
                 !.open = @ \cup (CASE o.opens = 0 -> {}
                                    [] o.opens = 1 -> {"Reliable"}
                                    [] o.opens = 2 -> Channels)]
  ELSE [s EXCEPT !.sctp_events = {}]

\* A stream is accepted and its channel opened, unless the ack cannot be sent;
\* then what waits on open channels is read.
accept_streams(s, o) ==
  [s EXCEPT !.requests = {}, !.open = IF o.drain THEN @ \cup s.requests ELSE @]

\* The messages of both channels, the reliable one's first.
Waiting(S) ==
  (IF "Reliable" \in S THEN <<"Reliable">> ELSE <<>>) \o
  (IF "Unreliable" \in S THEN <<"Unreliable">> ELSE <<>>)

read_data(s) ==
  [s EXCEPT !.data = @ \ s.open, !.output = @ \o Waiting(s.data \cap s.open)]

Ready(s) ==
  IF s.open = Channels /\ ~ s.ready_emitted
  THEN [emit(s, "Ready") EXCEPT !.ready_emitted = TRUE] ELSE s

\* Mutant: the deadline counts once the transports have started.
DeadlinePassed_with_transports(s) ==
  /\ ~ s.ready_emitted /\ ~ s.failed_emitted
  /\ s.transports /\ s.started /\ s.left = 0

DeadlinePassed(s) ==
  /\ ~ s.ready_emitted /\ ~ s.failed_emitted
  /\ s.started /\ s.left = 0

\* pump, cut off by the first error.  An error after the association's events
\* were read also skips the fail() they call for: it was kept in a local.
pump(s0, o) ==
  LET s1 == read_ice_events(s0)
      s2 == start_transports(s1, o)
      s3 == read_sctp_events(s2, o)
      s4 == accept_streams(s3, o)
      s5 == read_data(s4)
      s6 == IF s2.transports /\ "Lost" \in s2.sctp_events THEN fail(s5) ELSE s5
      s7 == Ready(s6)
      t == IF s2.transports THEN s7 ELSE Ready(s2)
  IN  IF StartError(s1, o) THEN s2
      ELSE IF s2.transports /\ Opens(s2) /\ o.opens < 2 THEN s3
      ELSE IF s2.transports /\ ~ o.drain /\ s3.requests # {} THEN s4
      ELSE IF s2.transports /\ ~ o.write THEN s5
      ELSE IF DeadlinePassed(t) THEN fail(t) ELSE t
-----------------------------------------------------------------------------
(* Inputs                                                                  *)

\* The effect of an input on the stacks, before pump.
IceEffects(s) ==
  {s} \cup (IF s.credentials /\ s.ice_failed = "no"
            THEN {[s EXCEPT !.selected = TRUE], [s EXCEPT !.ice_failed = "event"]} ELSE {})

SctpEffects(s) ==
  {s} \cup
  (CASE ~ s.transports -> {}
     [] s.transports /\ s.sctp = "down" ->
          {[s EXCEPT !.sctp = "up", !.sctp_events = @ \cup {"Connected"}],
           [s EXCEPT !.sctp = "lost", !.sctp_events = @ \cup {"Lost"}]}
     [] s.transports /\ s.sctp = "up" ->
          {[s EXCEPT !.sctp = "lost", !.sctp_events = @ \cup {"Lost"}]}
          \cup {[s EXCEPT !.data = @ \cup {c}] : c \in Channels}
          \cup (IF s.is_controlling THEN {}
                ELSE {[s EXCEPT !.requests = @ \cup {c}] : c \in Channels \ s.open})
     [] OTHER -> {})

\* How often a handler that left the session in state s reported e.
Told(s, e) == Cardinality({i \in DOMAIN s.output : s.output[i] = e})

\* The session after a handler left it in state s.
Handled(s) ==
  /\ session' = s
  /\ count' = [e \in Events |-> count[e] + Told(s, e)]

polled == [session EXCEPT !.output = <<>>]

\* RemoteDescription, with the candidates in it; a repeated answer is given to
\* the session again.  A candidate that is refused leaves the credentials.
set_remote_description(o) ==
  Handled(pump([polled EXCEPT !.credentials = TRUE, !.pending_role = TRUE, !.started = TRUE], o))

refused_description == Handled([polled EXCEPT !.credentials = TRUE])

add_remote_candidate(o) == Handled(pump(polled, o))

stun_packet(o) == \E s \in IceEffects(polled) : Handled(pump(s, o))

\* A packet for DTLS is kept while there is no transport.
early_packet ==
  /\ ~ session.transports
  /\ Handled([polled EXCEPT !.early = IF @ < MaxEarly THEN @ + 1 ELSE @])

\* One that DTLS cannot read is an error, and nothing is pumped.
dtls_packet(o) ==
  /\ session.transports
  /\ \E s \in SctpEffects(polled) : Handled(pump(s, o))

handle_timeout(o) ==
  \E t \in IceEffects(polled) : \E s \in SctpEffects(t) : Handled(pump(s, o))

\* An error of ICE before pump.
ice_error == \E s \in IceEffects(polled) : Handled(s)

\* Send on an open channel; on one that is not it is refused.
send(c, o) ==
  /\ c \in session.open
  /\ Handled(pump(polled, o))

Tick ==
  /\ session.started /\ session.left > 0
  /\ session' = [session EXCEPT !.left = @ - 1]
  /\ UNCHANGED count

Next ==
  \/ \E o \in Outcomes :
       \/ set_remote_description(o)
       \/ add_remote_candidate(o)
       \/ stun_packet(o)
       \/ dtls_packet(o)
       \/ handle_timeout(o)
       \/ \E c \in Channels : send(c, o)
  \/ refused_description
  \/ early_packet
  \/ ice_error
  \/ Tick

Spec == Init /\ [][Next]_vars

\* A timeout that meets no error and lets the stacks do nothing new.
quiet_timeout == Handled(pump(polled, AllWell))

\* Time passes, and timeouts are fed, not all of which meet an error; nothing
\* is assumed of the stacks.
FairSpec == Spec /\ WF_vars(Tick) /\ WF_vars(quiet_timeout)
-----------------------------------------------------------------------------
TypeOK ==
  /\ session \in SessionType
  /\ count \in [Events -> Nat]

\* Each event is reported at most once, and Ready only when both data channels
\* are open, whatever the order of inputs and errors.
EventsOnce ==
  /\ \A e \in Events : count[e] <= 1
  /\ count["Ready"] = 1 => session.open = Channels

\* A failure of ICE is reported by the input that reads it, also when that
\* input goes on to an error.
IceFailureReported == session.ice_failed = "read" => count["Failed"] = 1

\* The events say what happened, once.
EventsAreTrue == EventsOnce /\ IceFailureReported

\* Once ready, a session fails only with ICE or SCTP: the establish deadline no
\* longer counts (establish_deadline).
ReadyOutlivesDeadline ==
  [][session.ready_emitted /\ count'["Failed"] > count["Failed"] =>
       session'.ice_failed = "read" \/ session'.sctp = "lost"]_vars

\* No early packet is stranded: once the transports exist all were replayed or
\* given up, so a handshake packet is never read after a later one.
NoEarlyPacketStranded == session.transports => session.early = 0

\* From the remote description on, the session becomes ready or fails, however
\* many inputs end in errors on the way.
EstablishesOrFails ==
  session.started ~> session.ready_emitted \/ session.failed_emitted

\* The establish deadline ends every session that is not ready, and no other.
DeadlineCounts == ReadyOutlivesDeadline /\ EstablishesOrFails

\* "ICE or SCTP failed, or the session did not become ready in time": the loss
\* of the association is reported.
LossIsReported == session.sctp = "lost" ~> session.failed_emitted
=============================================================================
