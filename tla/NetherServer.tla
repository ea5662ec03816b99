---------------------------- MODULE NetherServer ----------------------------
(***************************************************************************)
(* The tokio server (nethernet-tokio/src/transport/server.rs), its pending *)
(* offers (pending.rs) and the tasks of the sessions it answers            *)
(* (session/mod.rs).                                                       *)
(*                                                                         *)
(* Concurrent: the signal handler, which takes one signal at a time; per   *)
(* session a driver, a forwarder of late signals and, until it is ready,   *)
(* a task that waits for it with the pending slot; and the application.    *)
(* A session lives while a handle, a receiver or its forwarder holds its   *)
(* TaskGuard.  Offers may be repeated: signaling is unreliable.            *)
(***************************************************************************)
EXTENDS Naturals, FiniteSets, Sequences

CONSTANTS
  Keys,           \* connection keys (network id, connection id)
  Networks,       \* network ids
  NetworkOf,      \* key -> its network id
  None,           \* absence
  MaxPending,     \* config.max_pending
  MaxPendingOfNetwork,  \* config.max_pending_per_network_id
  MaxSessions     \* bound: sessions spawned

Sessions == 1 .. MaxSessions

ASSUME NetherServerAssumption ==
  /\ NetworkOf \in [Keys -> Networks]
  /\ MaxPending \in Nat
  /\ MaxPendingOfNetwork \in Nat
  /\ MaxSessions \in Nat
  /\ None \notin Keys
  /\ None \notin Sessions

VARIABLES
  \* The signal handler's task.
  alive,          \* its loop runs
  answering,      \* the key of the offer in answer_offer, with its slot, or None
  dispatchers,    \* key -> the session whose forwarder gets its signals, or None
  counts,         \* PendingOffers: network id -> slots held
  \* NetherServer.
  cancelled,      \* its cancel_token
  incoming,       \* the queue of connected sessions
  incoming_open,  \* the queue takes sessions
  closing,        \* how far close() is, or that the server was dropped
  config_cancelled,  \* config.cancel_token, the application's
  \* Sessions, in the order in which they were spawned.
  key,            \* the key of each, None before it is spawned
  driver,         \* its driver's task
  closed,         \* sessions with their close_token cancelled
  ready,          \* sessions that reported Ready
  waiting,        \* sessions whose task waits for Ready, with a slot
  held,           \* what the task, the queue or the application holds of each
  forwarding,     \* sessions whose forwarder runs
  accepted        \* sessions given to the application

serverVars == <<cancelled, incoming, incoming_open, closing>>
handlerVars == <<alive, answering, dispatchers, counts>>
vars == <<handlerVars, serverVars, config_cancelled, key, driver, closed, ready, waiting,
          held, forwarding, accepted>>

Init ==
  /\ alive = TRUE
  /\ answering = None
  /\ dispatchers = [k \in Keys |-> None]
  /\ counts = [n \in Networks |-> 0]
  /\ cancelled = FALSE
  /\ incoming = << >>
  /\ incoming_open = TRUE
  /\ closing = "no"
  /\ config_cancelled = FALSE
  /\ key = [s \in Sessions |-> None]
  /\ driver = [s \in Sessions |-> "none"]
  /\ closed = {}
  /\ ready = {}
  /\ waiting = {}
  /\ held = [s \in Sessions |-> {}]
  /\ forwarding = {}
  /\ accepted = {}

\* "handle" stands for the clones of the Session, which also send commands;
\* "reliable" for the receiver the driver waits for.  The unreliable receiver
\* holds a guard only and goes with the reliable one.
Parts == {"handle", "reliable"}

Spawned == {s \in Sessions : key[s] # None}

\* Sessions whose TaskGuard nothing holds.
Unguarded == {s \in Spawned : held[s] = {} /\ s \notin forwarding}

\* What becomes of the drivers when the step leaves them as given by d and
\* cancels the tokens of C: dropping the last guard cancels and aborts.
Guards(C, d) ==
  /\ closed' = closed \cup C \cup Unguarded'
  /\ driver' = [s \in Sessions |-> IF s \in Unguarded' THEN "ended" ELSE d[s]]
-----------------------------------------------------------------------------
(* The signal handler                                                      *)

\* The sum of the counts: the size of the set with counts[n] members for n.
Counted == UNION {{<<n, i>> : i \in 1 .. counts[n]} : n \in Networks}
Total == Cardinality(Counted)

\* try_admit's test.
Full(n) == Total >= MaxPending \/ counts[n] >= MaxPendingOfNetwork

\* An offer arrives: closed dispatchers are dropped, then a slot is taken, or
\* the offer refused with IncomingConnectionIgnored.
TakeOffer(k) ==
  /\ alive
  /\ answering = None
  /\ dispatchers' = [j \in Keys |-> IF dispatchers[j] \in forwarding THEN dispatchers[j] ELSE None]
  /\ IF Full(NetworkOf[k])
     THEN UNCHANGED <<answering, counts>>
     ELSE /\ answering' = k
          /\ counts' = [counts EXCEPT ![NetworkOf[k]] = @ + 1]
  /\ UNCHANGED <<alive, serverVars, config_cancelled, key, driver, closed, ready, waiting, held,
                 forwarding, accepted>>

\* answer_offer returns an error, or is dropped by config.cancel_token: the
\* offer does not parse or is not trusted, no socket, the answer is not sent.
RefuseOffer ==
  /\ answering # None
  /\ answering' = None
  /\ counts' = [counts EXCEPT ![NetworkOf[answering]] = @ - 1]
  /\ UNCHANGED <<alive, dispatchers, serverVars, config_cancelled, key, driver, closed, ready,
                 waiting, held, forwarding, accepted>>

\* The answer is sent and the session spawned, with its forwarder and with the
\* task that waits for it; the slot goes to that task.
AnswerOffer(s) ==
  /\ answering # None
  /\ key[s] = None
  /\ \A t \in Sessions : t < s => key[t] # None
  /\ answering' = None
  /\ key' = [key EXCEPT ![s] = answering]
  /\ driver' = [driver EXCEPT ![s] = "opening"]
  /\ held' = [held EXCEPT ![s] = Parts]
  /\ dispatchers' = [dispatchers EXCEPT ![answering] = s]
  /\ forwarding' = forwarding \cup {s}
  /\ waiting' = waiting \cup {s}
  /\ UNCHANGED <<alive, counts, serverVars, config_cancelled, closed, ready, accepted>>

\* A candidate, an answer or an error arrives: the forwarder of its key passes
\* candidates on to the session; a forwarder that is gone is forgotten.
Dispatch(k) ==
  /\ alive
  /\ answering = None
  /\ dispatchers[k] # None
  /\ dispatchers' = IF dispatchers[k] \in forwarding THEN dispatchers
                    ELSE [dispatchers EXCEPT ![k] = None]
  /\ UNCHANGED <<alive, answering, counts, serverVars, config_cancelled, key, driver, closed, ready,
                 waiting, held, forwarding, accepted>>

\* Mutant: the dispatchers outlive the loop.
StopHandler_keeps ==
  /\ alive
  /\ answering = None
  /\ cancelled
  /\ alive' = FALSE
  /\ UNCHANGED <<answering, dispatchers, counts, serverVars, config_cancelled, key, driver, closed,
                 ready, waiting, held, forwarding, accepted>>

\* The loop sees the token between two signals and drops every dispatcher.  The
\* signals do not end before: the handler itself holds a sender of theirs.
StopHandler ==
  /\ alive
  /\ answering = None
  /\ cancelled
  /\ alive' = FALSE
  /\ dispatchers' = [k \in Keys |-> None]
  /\ UNCHANGED <<answering, counts, serverVars, config_cancelled, key, driver, closed, ready,
                 waiting, held, forwarding, accepted>>
-----------------------------------------------------------------------------
(* The tasks of a session                                                  *)

\* The task that waits with the slot: the session is ready and goes to the
\* queue, or is dropped when the queue takes none.
Establish(s) ==
  /\ s \in waiting
  /\ s \in ready
  /\ waiting' = waiting \ {s}
  /\ counts' = [counts EXCEPT ![NetworkOf[key[s]]] = @ - 1]
  /\ IF incoming_open
     THEN incoming' = Append(incoming, s) /\ UNCHANGED held
     ELSE held' = [held EXCEPT ![s] = {}] /\ UNCHANGED incoming
  /\ UNCHANGED <<alive, answering, dispatchers, cancelled, incoming_open, closing, config_cancelled,
                 key, ready, forwarding, accepted>>
  /\ Guards({}, driver)

\* Mutants: the slot is lost; a session that ends before it is ready is waited
\* for.
GiveUp_leaks(s) ==
  /\ s \in waiting
  /\ s \notin ready \/ config_cancelled
  /\ waiting' = waiting \ {s}
  /\ held' = [held EXCEPT ![s] = {}]
  /\ UNCHANGED <<handlerVars, serverVars, config_cancelled, key, ready, forwarding, accepted>>
  /\ Guards({s}, driver)

GiveUp_cancelled(s) ==
  /\ s \in waiting
  /\ config_cancelled
  /\ waiting' = waiting \ {s}
  /\ counts' = [counts EXCEPT ![NetworkOf[key[s]]] = @ - 1]
  /\ held' = [held EXCEPT ![s] = {}]
  /\ UNCHANGED <<alive, answering, dispatchers, serverVars, config_cancelled, key, ready,
                 forwarding, accepted>>
  /\ Guards({s}, driver)

\* The same task gives up: its timer, the driver's end or config.cancel_token.
GiveUp(s) ==
  /\ s \in waiting
  /\ s \notin ready \/ config_cancelled
  /\ waiting' = waiting \ {s}
  /\ counts' = [counts EXCEPT ![NetworkOf[key[s]]] = @ - 1]
  /\ held' = [held EXCEPT ![s] = {}]
  /\ UNCHANGED <<alive, answering, dispatchers, serverVars, config_cancelled, key, ready,
                 forwarding, accepted>>
  /\ Guards({s}, driver)

DriverReady(s) ==
  /\ driver[s] = "opening"
  /\ driver' = [driver EXCEPT ![s] = "open"]
  /\ ready' = ready \cup {s}
  /\ UNCHANGED <<handlerVars, serverVars, config_cancelled, key, closed, waiting, held, forwarding, accepted>>

\* The loop is left: the transport fails, at the latest at the establish deadline
\* while opening, the token is seen, or the commands end.
DriverEnds(s) ==
  /\ driver' = [driver EXCEPT ![s] = "ended"]
  /\ closed' = closed \cup {s}
  /\ UNCHANGED <<handlerVars, serverVars, config_cancelled, key, ready, waiting, held, forwarding, accepted>>

\* At any time: Failed of the transport.
DriverFails(s) == driver[s] \in {"opening", "open"} /\ DriverEnds(s)

DriverSeesClose(s) == driver[s] \in {"opening", "open"} /\ s \in closed /\ DriverEnds(s)

\* Nothing is left that could send it a command, though a receiver is.
DriverUnheard(s) ==
  /\ driver[s] \in {"opening", "open"}
  /\ "handle" \notin held[s]
  /\ s \notin forwarding
  /\ DriverEnds(s)

\* A reliable message, which may come before the session is ready, finds its
\* channel full: the driver awaits room and sees neither its token nor its timer
\* nor the transport.
DriverBlocks(s) ==
  /\ driver[s] \in {"opening", "open"}
  /\ "reliable" \in held[s]
  /\ driver' = [driver EXCEPT ![s] = "blocked"]
  /\ UNCHANGED <<handlerVars, serverVars, config_cancelled, key, closed, ready, waiting, held,
                 forwarding, accepted>>

\* The receiver is gone: sending fails and the loop goes on.
DriverUnblocks(s) ==
  /\ driver[s] = "blocked"
  /\ "reliable" \notin held[s]
  /\ driver' = [driver EXCEPT ![s] = IF s \in ready THEN "open" ELSE "opening"]
  /\ UNCHANGED <<handlerVars, serverVars, config_cancelled, key, closed, ready, waiting, held,
                 forwarding, accepted>>

\* Mutant: a forwarder that ends takes the dispatcher of its key with it.
ForwarderEnds_removes(s) ==
  /\ s \in forwarding
  /\ s \in closed \/ dispatchers[key[s]] # s
  /\ forwarding' = forwarding \ {s}
  /\ dispatchers' = [dispatchers EXCEPT ![key[s]] = None]
  /\ UNCHANGED <<alive, answering, counts, serverVars, config_cancelled, key, ready, waiting, held,
                 accepted>>
  /\ Guards({}, driver)

\* The forwarder of late signals ends when the session is closed (a driver that
\* takes no more commands is), or when its sender is gone, and drops the handle
\* it keeps.
ForwarderEnds(s) ==
  /\ s \in forwarding
  /\ s \in closed \/ dispatchers[key[s]] # s
  /\ forwarding' = forwarding \ {s}
  /\ UNCHANGED <<handlerVars, serverVars, config_cancelled, key, ready, waiting, held, accepted>>
  /\ Guards({}, driver)
-----------------------------------------------------------------------------
(* The application                                                         *)

accept ==
  /\ closing = "no"
  /\ incoming # << >>
  /\ accepted' = accepted \cup {Head(incoming)}
  /\ incoming' = Tail(incoming)
  /\ UNCHANGED <<handlerVars, cancelled, incoming_open, closing, config_cancelled, key, driver,
                 closed, ready, waiting, held, forwarding>>

\* A receiver that is read makes room.
Read(s) ==
  /\ s \in accepted
  /\ driver[s] = "blocked"
  /\ "reliable" \in held[s]
  /\ driver' = [driver EXCEPT ![s] = "open"]
  /\ UNCHANGED <<handlerVars, serverVars, config_cancelled, key, closed, ready, waiting, held,
                 forwarding, accepted>>

CloseSession(s) ==
  /\ s \in accepted
  /\ "handle" \in held[s]
  /\ closed' = closed \cup {s}
  /\ UNCHANGED <<handlerVars, serverVars, config_cancelled, key, driver, ready, waiting, held,
                 forwarding, accepted>>

DropPart(s, p) ==
  /\ s \in accepted
  /\ p \in held[s]
  /\ held' = [held EXCEPT ![s] = @ \ {p}]
  /\ UNCHANGED <<handlerVars, serverVars, config_cancelled, key, ready, waiting, forwarding,
                 accepted>>
  /\ Guards({}, driver)

CancelConfig ==
  /\ ~ config_cancelled
  /\ config_cancelled' = TRUE
  /\ UNCHANGED <<handlerVars, serverVars, key, driver, closed, ready, waiting, held, forwarding, accepted>>

\* NetherServer::close: cancel, close the queue, drain it, join the handler.
CloseCancel ==
  /\ closing = "no"
  /\ cancelled' = TRUE
  /\ closing' = "cancelled"
  /\ UNCHANGED <<handlerVars, incoming, incoming_open, config_cancelled, key, driver, closed, ready,
                 waiting, held, forwarding, accepted>>

CloseIncoming ==
  /\ closing = "cancelled"
  /\ incoming_open' = FALSE
  /\ closing' = "drain"
  /\ UNCHANGED <<handlerVars, cancelled, incoming, config_cancelled, key, driver, closed, ready,
                 waiting, held, forwarding, accepted>>

\* A drained session is closed and dropped.
CloseDrain ==
  /\ closing = "drain"
  /\ incoming # << >>
  /\ incoming' = Tail(incoming)
  /\ held' = [held EXCEPT ![Head(incoming)] = {}]
  /\ UNCHANGED <<handlerVars, cancelled, incoming_open, closing, config_cancelled, key, ready,
                 waiting, forwarding, accepted>>
  /\ Guards({Head(incoming)}, driver)

CloseJoin ==
  /\ \/ closing = "drain" /\ incoming = << >> /\ closing' = "join"
     \/ closing = "join" /\ ~ alive /\ closing' = "done"
  /\ UNCHANGED <<handlerVars, cancelled, incoming, incoming_open, config_cancelled, key, driver,
                 closed, ready, waiting, held, forwarding, accepted>>

\* The server is dropped, maybe with close() waiting for the handler: what is
\* queued is dropped with it.
DropServer ==
  /\ closing \in {"no", "join"}
  /\ cancelled' = TRUE
  /\ closing' = "dropped"
  /\ incoming_open' = FALSE
  /\ incoming' = << >>
  /\ held' = [s \in Sessions |-> IF \E i \in DOMAIN incoming : incoming[i] = s THEN {} ELSE held[s]]
  /\ UNCHANGED <<handlerVars, config_cancelled, key, ready, waiting, forwarding, accepted>>
  /\ Guards({}, driver)

Handler ==
  \/ \E k \in Keys : TakeOffer(k) \/ Dispatch(k)
  \/ RefuseOffer
  \/ \E s \in Sessions : AnswerOffer(s)
  \/ StopHandler

Tasks(s) ==
  \/ Establish(s) \/ GiveUp(s)
  \/ DriverReady(s) \/ DriverFails(s) \/ DriverSeesClose(s) \/ DriverUnheard(s)
  \/ DriverBlocks(s) \/ DriverUnblocks(s)
  \/ ForwarderEnds(s)

CloseServer == CloseCancel \/ CloseIncoming \/ CloseDrain \/ CloseJoin

Application ==
  \/ accept
  \/ \E s \in Sessions : Read(s) \/ CloseSession(s) \/ (\E p \in Parts : DropPart(s, p))
  \/ CancelConfig
  \/ CloseServer
  \/ DropServer

Next == Handler \/ Application \/ \E s \in Sessions : Tasks(s)

Spec == Init /\ [][Next]_vars

\* Tasks run; a select picks among its ready branches at random, so that the
\* handler sees its token; a session that does not open meets its deadline;
\* close() is polled to its end.  The application owes nothing else.
FairSpec ==
  /\ Spec
  /\ WF_vars(RefuseOffer \/ \E s \in Sessions : AnswerOffer(s))
  /\ SF_vars(StopHandler)
  /\ WF_vars(CloseIncoming \/ CloseDrain \/ CloseJoin)
  /\ \A s \in Sessions :
       /\ WF_vars(Establish(s) \/ GiveUp(s))
       /\ WF_vars(driver[s] = "opening" /\ (DriverReady(s) \/ DriverFails(s)))
       /\ WF_vars(DriverSeesClose(s))
       /\ WF_vars(DriverUnblocks(s))
       /\ WF_vars(ForwarderEnds(s))
-----------------------------------------------------------------------------
TypeOK ==
  /\ alive \in BOOLEAN
  /\ answering \in Keys \cup {None}
  /\ dispatchers \in [Keys -> Sessions \cup {None}]
  /\ counts \in [Networks -> Nat]
  /\ cancelled \in BOOLEAN
  /\ incoming \in Seq(Sessions)
  /\ incoming_open \in BOOLEAN
  /\ closing \in {"no", "cancelled", "drain", "join", "done", "dropped"}
  /\ config_cancelled \in BOOLEAN
  /\ key \in [Sessions -> Keys \cup {None}]
  /\ driver \in [Sessions -> {"none", "opening", "open", "blocked", "ended"}]
  /\ closed \subseteq Sessions
  /\ ready \subseteq Sessions
  /\ waiting \subseteq Spawned
  /\ held \in [Sessions -> SUBSET Parts]
  /\ forwarding \subseteq Spawned
  /\ accepted \subseteq Spawned

\* The slots of a network id that are held: by the offer being answered and by
\* the sessions that are waited for.
Slots(n) ==
  Cardinality({s \in waiting : NetworkOf[key[s]] = n})
    + (IF answering # None /\ NetworkOf[answering] = n THEN 1 ELSE 0)

\* Whatever becomes of an offer, its slot is given back once: the counts are
\* the slots held, within the cap of each network id and, all together, within
\* max_pending (PendingOffers::try_admit, PendingSlot::drop).
SlotsMatch ==
  /\ \A n \in Networks : counts[n] = Slots(n) /\ counts[n] <= MaxPendingOfNetwork
  /\ Cardinality(waiting) + (IF answering = None THEN 0 ELSE 1) <= MaxPending

\* The session that answered the newest offer of a key gets the key's signals
\* as long as its forwarder runs, also when the forwarder of an earlier session
\* of the key ends late (handle_offer 315-320, start_signal_handler 146-153).
NewestIsSignaled ==
  \A s \in forwarding :
    alive /\ (\A t \in Sessions : t > s => key[t] # key[s]) => dispatchers[key[s]] = s

\* Once close() has drained the queue nothing is put in it again, and when it
\* returns the handler is gone: "Stops signaling and closes sessions that were
\* not yet accepted" (close 364-379).
CloseIsFinal ==
  /\ closing \in {"join", "done", "dropped"} => incoming = << >>
  /\ closing = "done" => ~ alive /\ answering = None

\* A slot does not outlive its offer: a session that never becomes ready is
\* given up (answer_offer 324-330).
SlotsAreFreed == \A s \in Sessions : s \in waiting ~> s \notin waiting

\* A server that is closed or dropped leaves no session behind but those the
\* application accepted, also not one whose offer was being answered or that
\* was about to become ready.
UnacceptedEnd ==
  \A s \in Sessions :
    cancelled /\ s \in Spawned \ accepted ~> s \in accepted \/ driver[s] = "ended"

\* A session that closes leaves nothing behind: its forwarder ends and so does
\* its driver, unless that waits for an application that neither reads nor drops
\* the reliable receiver (drive 189, 258, spawn_late_signal_forwarder 410).
ClosedEnd ==
  \A s \in Sessions :
    s \in closed ~>
      /\ s \notin forwarding
      /\ driver[s] = "ended" \/ (driver[s] = "blocked" /\ "reliable" \in held[s])

\* No session outlives what should end it.
NoSessionIsLeft == UnacceptedEnd /\ ClosedEnd

\* "The connection closes once every handle and receiver is dropped" (Session,
\* session/mod.rs 75), of a session the application has accepted.
AbandonedEnd ==
  \A s \in Sessions : s \in accepted /\ held[s] = {} ~> driver[s] = "ended"
=============================================================================
