---------------------------- MODULE BevyClient -----------------------------
(***************************************************************************)
(* The LAN client of a game (bevy-nethernet/src/client.rs) over its pool,  *)
(* which runs one session at a time under one key.  connect() and          *)
(* disconnect() are called between frames; update() handles the signals of *)
(* a frame, the pool's events and the deadline, while the pool's thread    *)
(* runs.  The LAN signaler inside the client is modelled in LanSignaler;   *)
(* what a signal does to a Connection is not visible to the pool.          *)
(***************************************************************************)
EXTENDS SessionPool
LOCAL INSTANCE FiniteSetsExt

CONSTANTS
  Key,            \* the one key of the pool, () in the code
  Attempts,       \* attempts.max(1)
  Negotiation,    \* timeouts.negotiation
  Establish       \* timeouts.establish()

VARIABLES
  connected,      \* the pool was given a session
  deadline,       \* connecting_deadline: time left, or None
  answered,
  attempts_left,
  ready,          \* what is_connected() returns
  c_at,           \* "app" between frames, "update", or "add" in SessionPool::add
  c_created,      \* Connections created so far
  last            \* the last of Connected and Disconnected that was pushed

clientVars == <<connected, deadline, answered, attempts_left, ready, c_at, c_created, last>>
vars == <<poolVars, clientVars>>

Init ==
  /\ PoolInit
  /\ connected = FALSE
  /\ deadline = None
  /\ answered = FALSE
  /\ attempts_left = 0
  /\ ready = FALSE
  /\ c_at = "app"
  /\ c_created = 0
  /\ last = None

thread == <<entries, router, pool_at, todo, failed>>

Command(kind) == [kind |-> kind, key |-> Key, gen |-> c_created]
-----------------------------------------------------------------------------
(* begin_attempt: either a step of the set-up fails, or the game thread    *)
(* waits for the pool in SessionPool::add and Added sets the state.        *)

\* The offer has gone to the signaler; left attempts remained before it.
Attempt(left) ==
  /\ c_created < MaxSessions
  /\ attempts_left' = left - 1
  /\ c_created' = c_created + 1
  /\ commands' = commands \o (IF connected THEN <<Command("Remove")>> ELSE <<>>)
                          \o <<[kind |-> "Add", key |-> Key, gen |-> c_created + 1]>>
  /\ c_at' = "add"

\* The pool has acknowledged the Add: it is the last command queued.
Added ==
  /\ c_at = "add"
  /\ commands = <<>>
  /\ c_at' = "app"
  /\ connected' = TRUE
  /\ deadline' = Negotiation
  /\ answered' = FALSE
  /\ ready' = FALSE
  /\ UNCHANGED <<poolVars, attempts_left, c_created, last>>
-----------------------------------------------------------------------------
(* The game between frames                                                 *)

connect ==
  /\ c_at = "app"
  /\ Attempt(Attempts)
  /\ UNCHANGED <<events, thread, connected, deadline, answered, ready, last>>

\* connect() returns an error: only the count of attempts has changed.
ConnectFails ==
  /\ c_at = "app"
  /\ attempts_left' = Attempts - 1
  /\ UNCHANGED <<poolVars, connected, deadline, answered, ready, c_at, c_created, last>>

disconnect ==
  /\ c_at = "app"
  /\ deadline' = None
  /\ commands' = IF connected THEN Append(commands, Command("Remove")) ELSE commands
  /\ connected' = FALSE
  /\ ready' = FALSE
  /\ last' = IF ready THEN "Disconnected" ELSE last
  /\ UNCHANGED <<events, thread, answered, attempts_left, c_at, c_created>>

send_on ==
  /\ c_at = "app"
  /\ connected
  /\ Len(commands) < MaxQueued
  /\ commands' = Append(commands, Command("Send"))
  /\ UNCHANGED <<events, thread, clientVars>>
-----------------------------------------------------------------------------
(* A frame                                                                 *)

BeginUpdate ==
  /\ c_at = "app"
  /\ c_at' = "update"
  /\ UNCHANGED <<poolVars, connected, deadline, answered, attempts_left, ready, c_created, last>>

Connecting == deadline # None

\* Mutant: every answer moves the deadline.
HandleAnswer_again ==
  /\ c_at = "update"
  /\ connected
  /\ Len(commands) < MaxQueued
  /\ answered' = TRUE
  /\ deadline' = IF Connecting THEN Establish ELSE deadline
  /\ commands' = Append(commands, Command("Signal"))
  /\ UNCHANGED <<events, thread, connected, attempts_left, ready, c_at, c_created, last>>

\* handle_signal with an answer of any attempt: the connection id in it is only
\* looked at by the Connection, in the pool.
HandleAnswer ==
  /\ c_at = "update"
  /\ connected
  /\ Len(commands) < MaxQueued
  /\ answered' = (answered \/ Connecting)
  /\ deadline' = IF ~ answered /\ Connecting THEN Establish ELSE deadline
  /\ commands' = Append(commands, Command("Signal"))
  /\ UNCHANGED <<events, thread, connected, attempts_left, ready, c_at, c_created, last>>

\* An answer whose identity is not trusted: the attempt ends, unless another
\* answer was taken or the connection is up.
RefuseAnswer ==
  /\ c_at = "update"
  /\ connected
  /\ ~ answered
  /\ Connecting
  /\ deadline' = None
  /\ commands' = Append(commands, Command("Remove"))
  /\ connected' = FALSE
  /\ last' = "Disconnected"
  /\ UNCHANGED <<events, thread, answered, attempts_left, ready, c_at, c_created>>

\* Candidates and errors are passed on.
HandleSignal ==
  /\ c_at = "update"
  /\ connected
  /\ Len(commands) < MaxQueued
  /\ commands' = Append(commands, Command("Signal"))
  /\ UNCHANGED <<events, thread, clientVars>>

\* The rest of update() returns early; the pool's events stay queued.
EndIdle ==
  /\ c_at = "update"
  /\ ~ connected
  /\ c_at' = "app"
  /\ UNCHANGED <<poolVars, connected, deadline, answered, attempts_left, ready, c_created, last>>

Places(kind) == {i \in DOMAIN events : events[i].kind = kind}

\* The events that push one to the game: the first Ready, unless the client is
\* ready, and every Failed.
Pushes == Places("Failed") \cup (IF ready \/ Places("Ready") = {} THEN {} ELSE {Min(Places("Ready"))})

\* The drained events and what they leave of the connection.  Failed does not
\* clear ready, so is_connected() stays TRUE.
DrainEvents ==
  /\ events' = <<>>
  /\ ready' = (ready \/ Places("Ready") # {})
  /\ connected' = (Places("Failed") = {})

LastPushed ==
  IF Pushes = {} THEN last
  ELSE IF events[Max(Pushes)].kind = "Ready" THEN "Connected" ELSE "Disconnected"

DeadlinePassed == deadline = 0 /\ Pushes = {}

EndUpdate ==
  /\ c_at = "update"
  /\ connected
  /\ ~ DeadlinePassed
  /\ DrainEvents
  /\ c_at' = "app"
  /\ deadline' = IF Pushes = {} THEN deadline ELSE None
  /\ last' = LastPushed
  /\ UNCHANGED <<commands, thread, answered, attempts_left, c_created>>

Retry ==
  /\ c_at = "update"
  /\ connected
  /\ DeadlinePassed
  /\ ~ answered
  /\ attempts_left > 0
  /\ Attempt(attempts_left)
  /\ events' = <<>>
  /\ UNCHANGED <<thread, connected, deadline, answered, ready, last>>

\* No attempt is left, an answer was taken, or the next attempt fails.
GiveUp ==
  /\ c_at = "update"
  /\ connected
  /\ DeadlinePassed
  /\ attempts_left' = IF answered \/ attempts_left = 0 THEN attempts_left ELSE attempts_left - 1
  /\ events' = <<>>
  /\ commands' = Append(commands, Command("Remove"))
  /\ deadline' = None
  /\ connected' = FALSE
  /\ last' = "Disconnected"
  /\ c_at' = "app"
  /\ UNCHANGED <<thread, answered, ready, c_created>>

\* One unit of time, between two frames: a frame takes the time once.
Tick ==
  /\ c_at = "app"
  /\ Connecting
  /\ deadline > 0
  /\ deadline' = deadline - 1
  /\ UNCHANGED <<poolVars, connected, answered, attempts_left, ready, c_at, c_created, last>>

PoolRuns == PoolStep /\ UNCHANGED clientVars

Frame == BeginUpdate \/ EndIdle \/ EndUpdate \/ Retry \/ GiveUp \/ Added

Next ==
  \/ PoolRuns
  \/ connect \/ ConnectFails \/ disconnect \/ send_on
  \/ HandleAnswer \/ RefuseAnswer \/ HandleSignal
  \/ Frame
  \/ Tick

Spec == Init /\ [][Next]_vars

\* The game runs a frame again and again, the pool's thread runs, time passes.
FairSpec ==
  /\ Spec
  /\ WF_vars(PoolRuns)
  /\ WF_vars(Frame)
  /\ SF_vars(Tick)
-----------------------------------------------------------------------------
TypeOK ==
  /\ PoolTypeOK
  /\ connected \in BOOLEAN
  /\ deadline \in 0 .. Negotiation + Establish \cup {None}
  /\ answered \in BOOLEAN
  /\ attempts_left \in 0 .. Attempts
  /\ ready \in BOOLEAN
  /\ c_at \in {"app", "update", "add"}
  /\ c_created \in 0 .. MaxSessions
  /\ last \in {None, "Connected", "Disconnected"}

\* A client that is negotiating or establishing comes to an end of it, whatever
\* the peers signal: it is told Connected or Disconnected, or it was asked to
\* disconnect (connecting_deadline, attempts_left).
AttemptsEnd == Connecting ~> ~ Connecting
=============================================================================
