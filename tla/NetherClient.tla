---------------------------- MODULE NetherClient ----------------------------
(***************************************************************************)
(* The tokio client (nethernet-tokio/src/transport/client.rs): the         *)
(* attempts of connect_with, the negotiation of each over signals that are *)
(* lost, repeated and reordered, the session it spawns (session/mod.rs)    *)
(* and the byte stream over the connected session.                         *)
(*                                                                         *)
(* Concurrent: the task that connects, and later reads and writes; per     *)
(* attempt a driver and a forwarder of late candidates; the peer and the   *)
(* network.  An attempt's connection id is random and fresh: attempts are  *)
(* numbered.                                                               *)
(***************************************************************************)
EXTENDS Naturals, FiniteSets

CONSTANTS
  MaxAttempts,    \* config.attempts
  Negotiation,    \* config.timeouts.negotiation
  None,           \* absence
  MaxWrites       \* bound: writes to the stream

attempts == IF MaxAttempts = 0 THEN 1 ELSE MaxAttempts
Attempts == 1 .. attempts
SignalTypes == {"offer", "answer", "candidate", "error"}
Signals == [conn : Attempts, type : SignalTypes]

ASSUME NetherClientAssumption ==
  /\ MaxAttempts \in Nat
  /\ Negotiation \in Nat \ {0}
  /\ MaxWrites \in Nat
  /\ None \notin Attempts
  /\ None \notin {"queued", "ok", "error", "timeout", "closed", "signaled", "other"}

VARIABLES
  \* connect_with and negotiate.
  trickle,        \* IceMode::Trickle: signaling over LAN
  attempt,        \* the attempt under way
  phase,          \* where negotiate is, or what connect_with has returned
  error,          \* the error it returned
  need_candidate, \* no candidate came yet
  described,      \* whose answer the attempt's connection has, or None
  left,           \* time left to the negotiation's deadline
  cancelled,      \* config.cancel_token
  \* Per attempt.
  session,        \* its driver's task
  ready,          \* attempts whose session reported Ready
  closed,         \* attempts whose close_token is cancelled
  forwarding,     \* attempts whose forwarder runs
  \* AsyncWrite of the connected client.
  send_future,    \* the send under way: its command queued, or its result
  handled,        \* sends the session has taken
  reported,       \* sends that failed, and a later call has said so
  written,        \* writes that returned Ok
  \* The peer and the network.
  sent            \* signals of the peer, delivered any number of times

attemptVars == <<attempt, need_candidate, described, left>>
resultVars == <<phase, error>>
sessionVars == <<session, ready, closed, forwarding>>
streamVars == <<send_future, handled, reported, written>>
vars == <<trickle, attemptVars, resultVars, cancelled, sessionVars, streamVars, sent>>

Init ==
  /\ trickle \in BOOLEAN
  /\ attempt = 1
  /\ phase = "offer"
  /\ error = None
  /\ need_candidate = FALSE
  /\ described = None
  /\ left = 0
  /\ cancelled = FALSE
  /\ session = [a \in Attempts |-> "none"]
  /\ ready = {}
  /\ closed = {}
  /\ forwarding = {}
  /\ send_future = None
  /\ handled = 0
  /\ reported = 0
  /\ written = 0
  /\ sent = {}
-----------------------------------------------------------------------------
(* connect_with                                                            *)

\* Mutant: the session is kept, as by a task that holds a clone of it.
DropSession_kept == UNCHANGED <<session, closed>>

\* negotiate returns an error or is dropped, and with it the attempt's Session
\* and receivers, the only ones that hold its guard.
DropSession ==
  IF session[attempt] = "none"
  THEN UNCHANGED <<session, closed>>
  ELSE /\ session' = [session EXCEPT ![attempt] = "ended"]
       /\ closed' = closed \cup {attempt}

\* An attempt fails: after a timeout another one is made while there are any,
\* every other error is returned.
Fail(e) ==
  /\ DropSession
  /\ IF e = "timeout" /\ attempt < attempts
     THEN /\ attempt' = attempt + 1
          /\ phase' = "offer"
          /\ error' = error
          /\ described' = None
     ELSE /\ phase' = "failed"
          /\ error' = e
          /\ UNCHANGED <<attempt, described>>
  /\ UNCHANGED <<trickle, need_candidate, left, cancelled, ready, forwarding, streamVars, sent>>

Cancelled ==
  /\ phase \in {"offer", "negotiate", "establish"}
  /\ cancelled
  /\ Fail("closed")
-----------------------------------------------------------------------------
(* negotiate                                                               *)

\* The offer, and over LAN the candidates, are sent; over HTTP the request's
\* response is the answer, put in the stream that was opened before.
SendOffer ==
  /\ phase = "offer"
  /\ phase' = "negotiate"
  /\ need_candidate' = trickle
  /\ left' = Negotiation
  /\ sent' = IF trickle THEN sent ELSE sent \cup {[conn |-> attempt, type |-> "answer"]}
  /\ UNCHANGED <<trickle, attempt, error, described, cancelled, sessionVars, streamVars>>

\* No socket, no session, or the offer is not sent; over HTTP also when the
\* response to its request is a refusal.
OfferFails == phase = "offer" /\ Fail("other")

\* Mutant: signals are told apart by their network id only.
Matches_network(s) == TRUE

\* The stream's signals are those of the attempt.
Matches(s) == s.conn = attempt

\* The loop is left: the session is spawned, with the forwarder.
Spawn ==
  /\ phase' = "establish"
  /\ session' = [session EXCEPT ![attempt] = "opening"]
  /\ forwarding' = forwarding \cup {attempt}
  /\ UNCHANGED <<ready, closed>>

\* An answer the connection takes, again if it is repeated; the negotiation is
\* over if a candidate came before.
HandleAnswer(s) ==
  /\ phase = "negotiate"
  /\ Matches(s)
  /\ s.type = "answer"
  /\ described' = s.conn
  /\ IF need_candidate THEN UNCHANGED <<phase, sessionVars>> ELSE Spawn
  /\ UNCHANGED <<trickle, attempt, error, need_candidate, left, cancelled, streamVars, sent>>

\* A candidate.  It ends the loop only if the connection has a remote address,
\* which it has not: its session selects a pair from packets, and gets none
\* before it is spawned.
HandleCandidate(s) ==
  /\ phase = "negotiate"
  /\ Matches(s)
  /\ s.type = "candidate"
  /\ need_candidate' = FALSE
  /\ UNCHANGED <<trickle, attempt, described, left, resultVars, cancelled, sessionVars, streamVars, sent>>

\* An error of the peer, or an offer, ends the attempt.
HandleRefusal(s) ==
  /\ phase = "negotiate"
  /\ Matches(s)
  /\ \/ s.type = "error" /\ Fail("signaled")
     \/ s.type = "offer" /\ Fail("other")

\* An answer that is not trusted or not accepted, or a candidate that is not.
RefuseSignal(s) ==
  /\ phase = "negotiate"
  /\ Matches(s)
  /\ s.type \in {"answer", "candidate"}
  /\ Fail("other")

NegotiationTimeout == phase = "negotiate" /\ left = 0 /\ Fail("timeout")

\* The session is ready in time, if only for a moment.
Connected ==
  /\ phase = "establish"
  /\ attempt \in ready
  /\ phase' = "connected"
  /\ UNCHANGED <<trickle, attemptVars, error, cancelled, sessionVars, streamVars, sent>>

\* The driver has ended without Ready.
EstablishClosed ==
  /\ phase = "establish"
  /\ attempt \notin ready
  /\ session[attempt] = "ended"
  /\ Fail("closed")

EstablishTimeout ==
  /\ phase = "establish"
  /\ attempt \notin ready
  /\ session[attempt] # "ended"
  /\ Fail("timeout")
-----------------------------------------------------------------------------
(* The tasks of a session                                                  *)

DriverReady(a) ==
  /\ session[a] = "opening"
  /\ described # None
  /\ session' = [session EXCEPT ![a] = "open"]
  /\ ready' = ready \cup {a}
  /\ UNCHANGED <<trickle, attemptVars, resultVars, cancelled, closed, forwarding, streamVars, sent>>

\* The transport fails, at the establish deadline at the latest, or the token is
\* seen; a send that waits for its reply gets none.
DriverEnds(a) ==
  /\ session[a] \in {"opening", "open"}
  /\ session' = [session EXCEPT ![a] = "ended"]
  /\ closed' = closed \cup {a}
  /\ send_future' = IF send_future = "queued" /\ a = attempt THEN "error" ELSE send_future
  /\ UNCHANGED <<trickle, attemptVars, resultVars, cancelled, ready, forwarding, handled, reported,
                 written, sent>>

\* The driver takes the queued send: it succeeds, or the session refuses it.
DriverSends(a) ==
  /\ a = attempt
  /\ session[a] = "open"
  /\ send_future = "queued"
  /\ \/ send_future' = "ok" /\ handled' = handled + 1
     \/ send_future' = "error" /\ handled' = handled
  /\ UNCHANGED <<trickle, attemptVars, resultVars, cancelled, sessionVars, reported, written, sent>>

\* A late candidate of an attempt goes to its session; the forwarder ends when
\* there is no driver to take it.
Forward(s) ==
  /\ s.conn \in forwarding
  /\ s.type = "candidate"
  /\ session[s.conn] = "ended"
  /\ forwarding' = forwarding \ {s.conn}
  /\ UNCHANGED <<trickle, attemptVars, resultVars, cancelled, session, ready, closed, streamVars, sent>>
-----------------------------------------------------------------------------
(* The connected client                                                    *)

\* Mutant: a write does not look at the one before it.
poll_write_replaces ==
  /\ phase = "connected"
  /\ written < MaxWrites
  /\ IF session[attempt] = "ended"
     THEN send_future' = None /\ UNCHANGED <<reported, written>>
     ELSE send_future' = "queued" /\ written' = written + 1 /\ UNCHANGED reported
  /\ UNCHANGED <<trickle, attemptVars, resultVars, cancelled, sessionVars, handled, sent>>

\* A write waits for the one before it, returns that one's error, or queues its
\* own and returns Ok; it fails at once when the driver has ended.
poll_write ==
  /\ phase = "connected"
  /\ written < MaxWrites
  /\ \/ /\ send_future = "error"
        /\ send_future' = None
        /\ reported' = reported + 1
        /\ UNCHANGED written
     \/ /\ send_future \in {None, "ok"}
        /\ IF session[attempt] = "ended"
           THEN send_future' = None /\ UNCHANGED written
           ELSE send_future' = "queued" /\ written' = written + 1
        /\ UNCHANGED reported
  /\ UNCHANGED <<trickle, attemptVars, resultVars, cancelled, sessionVars, handled, sent>>

\* A flush waits for the send under way and returns its result.
poll_flush ==
  /\ phase = "connected"
  /\ send_future \in {"ok", "error"}
  /\ send_future' = None
  /\ reported' = IF send_future = "error" THEN reported + 1 ELSE reported
  /\ UNCHANGED <<trickle, attemptVars, resultVars, cancelled, sessionVars, handled, written, sent>>

\* A shutdown flushes, and closes the session unless that fails.
poll_shutdown ==
  /\ phase = "connected"
  /\ send_future # "queued"
  /\ send_future' = None
  /\ IF send_future = "error"
     THEN reported' = reported + 1 /\ UNCHANGED closed
     ELSE closed' = closed \cup {attempt} /\ UNCHANGED reported
  /\ UNCHANGED <<trickle, attemptVars, resultVars, cancelled, session, ready, forwarding, handled,
                 written, sent>>

close ==
  /\ phase = "connected"
  /\ closed' = closed \cup {attempt}
  /\ UNCHANGED <<trickle, attemptVars, resultVars, cancelled, session, ready, forwarding, streamVars, sent>>

\* The client is dropped, with its session, its receivers and the send under way.
Drop ==
  /\ phase = "connected"
  /\ phase' = "dropped"
  /\ send_future' = None
  /\ DropSession
  /\ UNCHANGED <<trickle, attemptVars, error, cancelled, ready, forwarding, handled, reported,
                 written, sent>>

CancelConfig ==
  /\ ~ cancelled
  /\ cancelled' = TRUE
  /\ UNCHANGED <<trickle, attemptVars, resultVars, sessionVars, streamVars, sent>>
-----------------------------------------------------------------------------
(* The peer and time                                                       *)

\* Over LAN the peer signals about any offer it may have had, at any time.
PeerSignals(s) ==
  /\ trickle
  /\ s.conn <= attempt
  /\ s.conn = attempt => phase # "offer"
  /\ sent' = sent \cup {s}
  /\ UNCHANGED <<trickle, attemptVars, resultVars, cancelled, sessionVars, streamVars>>

Tick ==
  /\ phase = "negotiate"
  /\ left > 0
  /\ left' = left - 1
  /\ UNCHANGED <<trickle, attempt, need_candidate, described, resultVars, cancelled, sessionVars,
                 streamVars, sent>>

Connect ==
  \/ SendOffer \/ OfferFails
  \/ \E s \in sent : HandleAnswer(s) \/ HandleCandidate(s) \/ HandleRefusal(s) \/ RefuseSignal(s)
  \/ NegotiationTimeout
  \/ Connected \/ EstablishClosed \/ EstablishTimeout
  \/ Cancelled

Stream == poll_write \/ poll_flush \/ poll_shutdown \/ close \/ Drop

Tasks ==
  \/ \E a \in Attempts : DriverReady(a) \/ DriverEnds(a) \/ DriverSends(a)
  \/ \E s \in sent : Forward(s)

Next == Connect \/ Stream \/ Tasks \/ CancelConfig \/ (\E s \in Signals : PeerSignals(s)) \/ Tick

Spec == Init /\ [][Next]_vars

\* The signaling takes or refuses an offer, time passes and timers fire; a task
\* that is ready runs.  Nothing is assumed of the peer.
FairSpec ==
  /\ Spec
  /\ WF_vars(SendOffer \/ OfferFails)
  /\ WF_vars(Tick)
  /\ WF_vars(NegotiationTimeout)
  /\ WF_vars(Connected \/ EstablishClosed \/ EstablishTimeout)
  /\ WF_vars(\E a \in Attempts : a \in closed /\ DriverEnds(a))
  /\ WF_vars(\E a \in Attempts : DriverSends(a))
-----------------------------------------------------------------------------
TypeOK ==
  /\ trickle \in BOOLEAN
  /\ attempt \in Attempts
  /\ phase \in {"offer", "negotiate", "establish", "connected", "failed", "dropped"}
  /\ error \in {None, "timeout", "closed", "signaled", "other"}
  /\ need_candidate \in BOOLEAN
  /\ described \in Attempts \cup {None}
  /\ left \in 0 .. Negotiation
  /\ cancelled \in BOOLEAN
  /\ session \in [Attempts -> {"none", "opening", "open", "ended"}]
  /\ ready \subseteq Attempts
  /\ closed \subseteq Attempts
  /\ forwarding \subseteq Attempts
  /\ send_future \in {None, "queued", "ok", "error"}
  /\ handled \in Nat
  /\ reported \in Nat
  /\ written \in Nat
  /\ sent \subseteq Signals

\* A session is spawned with the answer to its own offer, in whatever order the
\* answer and the candidates came and whatever is left of earlier attempts: the
\* forwarder passes on candidates only, so an answer that is not taken by then
\* never is (negotiate 233-302, spawn_late_signal_forwarder 60).
SpawnedIsDescribed == phase \in {"establish", "connected"} => described = attempt

\* What the peer says of an earlier attempt does not fail a later one: an error
\* is returned as the peer's only if it was about the offer under way
\* (negotiate 237, 274-277).
RefusedIsOwn == error = "signaled" => [conn |-> attempt, type |-> "error"] \in sent

\* At most one session is alive, that of the attempt under way, and none after
\* connect_with failed or the client was dropped: a session that got ready too
\* late is not left behind with no one to own it (connect_with 114-127,
\* TaskGuard::drop).
OneSession ==
  \A a \in Attempts :
    session[a] \in {"opening", "open"} => a = attempt /\ phase \in {"establish", "connected"}

\* A write that returned Ok is taken by the session, or under way, or reported
\* as failed by a later call, also when the session ends in between, as long as
\* the client is not dropped (poll_write 394-422, poll_flush, poll_shutdown).
WritesAreAccounted ==
  phase # "dropped" =>
    written = handled + reported + (IF send_future \in {"queued", "error"} THEN 1 ELSE 0)

\* connect_with returns, whatever the peer signals and however often: the
\* negotiation's deadline is fixed when the offer is sent.
ConnectEnds == <>(phase \in {"connected", "failed"})
=============================================================================
