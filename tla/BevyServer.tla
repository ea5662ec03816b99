---------------------------- MODULE BevyServer -----------------------------
(***************************************************************************)
(* The LAN server of a game (bevy-nethernet/src/server.rs) over its pool   *)
(* of sessions: offers are answered and pool events applied once a frame   *)
(* by update(), on the game thread, while the pool's thread runs.          *)
(***************************************************************************)
EXTENDS SessionPool

CONSTANTS
  NetworkOf,      \* session id -> the network id in it
  MaxPending,     \* pending_limits.max_pending
  MaxPendingOfNetwork,  \* pending_limits.max_pending_per_network_id
  Establish       \* timeouts.establish()

SessionType == [gen : Gens, ready : BOOLEAN, age : 0 .. Establish, rtt : BOOLEAN]

ASSUME ServerAssumption ==
  /\ DOMAIN NetworkOf = Keys
  /\ MaxPending \in Nat
  /\ MaxPendingOfNetwork \in Nat
  /\ Establish \in Nat \ {0}
  /\ None \notin SessionType

VARIABLES
  sessions,  \* session id -> SessionEntry or None
  game_at,   \* "app" between frames, "update", or "add" in SessionPool::add
  adding,    \* the session id being added, or None
  created,   \* Connections created so far
  told       \* ids whose last event to the game is SessionConnected

gameVars == <<sessions, game_at, adding, created, told>>
vars == <<poolVars, gameVars>>

Init ==
  /\ PoolInit
  /\ sessions = [k \in Keys |-> None]
  /\ game_at = "app"
  /\ adding = None
  /\ created = 0
  /\ told = {}

Open == {k \in Keys : sessions[k] # None}
Pending == {k \in Open : ~ sessions[k].ready}

Command(kind, k) == [kind |-> kind, key |-> k, gen |-> sessions[k].gen]

\* A Remove for each of the sessions, in any order.
QueueRemoves(gone) ==
  \E order \in [1 .. Cardinality(gone) -> gone] :
    /\ \A k \in gone : \E i \in DOMAIN order : order[i] = k
    /\ commands' = commands \o [i \in DOMAIN order |-> Command("Remove", order[i])]
-----------------------------------------------------------------------------
(* The game between frames                                                 *)

disconnect(k) ==
  /\ game_at = "app"
  /\ k \in Open
  /\ sessions' = [sessions EXCEPT ![k] = None]
  /\ commands' = Append(commands, Command("Remove", k))
  /\ told' = told \ {k}
  /\ UNCHANGED <<events, entries, router, pool_at, todo, failed,
                 game_at, adding, created>>

send_on(k) ==
  /\ game_at = "app"
  /\ k \in Open
  /\ Len(commands) < MaxQueued
  /\ commands' = Append(commands, Command("Send", k))
  /\ UNCHANGED <<events, entries, router, pool_at, todo, failed, gameVars>>
-----------------------------------------------------------------------------
(* A frame: signals, then pool events, then expiry                         *)

BeginUpdate ==
  /\ game_at = "app"
  /\ game_at' = "update"
  /\ UNCHANGED <<poolVars, sessions, adding, created, told>>

handle_signal(k) ==
  /\ game_at = "update"
  /\ k \in Open
  /\ Len(commands) < MaxQueued
  /\ commands' = Append(commands, Command("Signal", k))
  /\ UNCHANGED <<events, entries, router, pool_at, todo, failed, gameVars>>

admits_offer(k) ==
  /\ Cardinality(Pending) < MaxPending
  /\ Cardinality({j \in Pending : NetworkOf[j] = NetworkOf[k]}) < MaxPendingOfNetwork

\* An offer, a repeated one included, whose session id is free.  One past the
\* limits, or refused by the policy, only has an error signaled back.  The game
\* thread then waits in SessionPool::add.
handle_offer(k) ==
  /\ game_at = "update"
  /\ k \notin Open
  /\ admits_offer(k)
  /\ created < MaxSessions
  /\ created' = created + 1
  /\ commands' = Append(commands, [kind |-> "Add", key |-> k, gen |-> created + 1])
  /\ adding' = k
  /\ game_at' = "add"
  /\ UNCHANGED <<events, entries, router, pool_at, todo, failed, sessions, told>>

\* The pool has acknowledged the Add: it is the last command queued.
Added ==
  /\ game_at = "add"
  /\ commands = <<>>
  /\ sessions' = [sessions EXCEPT ![adding] =
       [gen |-> created, ready |-> FALSE, age |-> 0, rtt |-> FALSE]]
  /\ adding' = None
  /\ game_at' = "update"
  /\ UNCHANGED <<poolVars, created, told>>

\* The keys the drained events report, applied to sessions that still exist.
Reported(kind) == {k \in Open : \E i \in DOMAIN events : events[i].kind = kind /\ events[i].key = k}

expired(k) ==
  k \in Pending \ Reported("Ready") /\ sessions[k].age >= Establish

\* Mutant: an expired session is not removed from the pool.
EndUpdate_expires_silently ==
  LET gone == Reported("Failed") \cup {k \in Open : expired(k)}
  IN  /\ game_at = "update"
      /\ game_at' = "app"
      /\ events' = <<>>
      /\ sessions' = [k \in Keys |->
           IF k \notin Open \/ k \in gone THEN None
           ELSE [sessions[k] EXCEPT !.ready = @ \/ k \in Reported("Ready"),
                                    !.rtt = @ \/ k \in Reported("Rtt")]]
      /\ told' = (told \cup (Pending \cap Reported("Ready"))) \ Reported("Failed")
      /\ QueueRemoves(Reported("Failed"))
      /\ UNCHANGED <<entries, router, pool_at, todo, failed, adding, created>>

\* pool.drive and what follows: every event queued is applied, failed sessions
\* are disconnected, then unestablished ones past the deadline are removed.
EndUpdate ==
  LET gone == Reported("Failed") \cup {k \in Open : expired(k)}
  IN  /\ game_at = "update"
      /\ game_at' = "app"
      /\ events' = <<>>
      /\ sessions' = [k \in Keys |->
           IF k \notin Open \/ k \in gone THEN None
           ELSE [sessions[k] EXCEPT !.ready = @ \/ k \in Reported("Ready"),
                                    !.rtt = @ \/ k \in Reported("Rtt")]]
      /\ told' = (told \cup (Pending \cap Reported("Ready"))) \ Reported("Failed")
      /\ QueueRemoves(gone)
      /\ UNCHANGED <<entries, router, pool_at, todo, failed, adding, created>>

\* One unit of time, between two frames: a frame takes the time once.
Tick ==
  /\ game_at = "app"
  /\ \E k \in Pending : sessions[k].age < Establish
  /\ sessions' = [k \in Keys |->
       IF k \in Pending /\ sessions[k].age < Establish
       THEN [sessions[k] EXCEPT !.age = @ + 1] ELSE sessions[k]]
  /\ UNCHANGED <<poolVars, game_at, adding, created, told>>

PoolRuns == PoolStep /\ UNCHANGED gameVars

Frame == BeginUpdate \/ Added \/ EndUpdate

Next ==
  \/ PoolRuns
  \/ \E k \in Keys : disconnect(k) \/ send_on(k) \/ handle_signal(k) \/ handle_offer(k)
  \/ Frame
  \/ Tick

Spec == Init /\ [][Next]_vars

\* The game runs a frame again and again, the pool's thread runs, time passes.
FairSpec ==
  /\ Spec
  /\ WF_vars(PoolRuns)
  /\ WF_vars(Frame)
  /\ SF_vars(Tick)
-----------------------------------------------------------------------------
TypeOK ==
  /\ PoolTypeOK
  /\ sessions \in [Keys -> SessionType \cup {None}]
  /\ game_at \in {"app", "update", "add"}
  /\ adding \in Keys \cup {None}
  /\ created \in 0 .. MaxSessions
  /\ told \subseteq Keys

Queued(q, kind, k) == \E i \in DOMAIN q : q[i].kind = kind /\ q[i].key = k

Holds(k, g) == k \in Open /\ sessions[k].gen = g
Runs(k, g) == k \in Live /\ entries[k].gen = g

\* No session is left behind on either side: the pool runs a session the
\* server does not have only until a Remove or an Add under way is executed,
\* and the server has one the pool dropped only until its Failed is applied.
PoolAndServerAgree ==
  \A k \in Keys :
    /\ \A g \in Gens : Runs(k, g) /\ ~ Holds(k, g) => Queued(commands, "Remove", k) \/ adding = k
    /\ \A g \in Gens : Holds(k, g) /\ ~ Runs(k, g) => Queued(events, "Failed", k)

\* Offers answered but not established stay within both limits.
PendingWithinLimits ==
  /\ Cardinality(Pending) <= MaxPending
  /\ \A k \in Keys :
       Cardinality({j \in Pending : NetworkOf[j] = NetworkOf[k]}) <= MaxPendingOfNetwork

\* What the game was told is what sessions() lists: a session that was
\* announced is only taken away with a SessionDisconnected.
ToldWhatIsListed == told = {k \in Open : sessions[k].ready}

\* A session that does not establish in time leaves the table or is announced
\* (expire_unestablished), and one that the pool dropped leaves it.
DeadSessionsLeave ==
  \A k \in Keys :
    LET doomed == k \in Open /\ (k \in Pending \/ ~ Runs(k, sessions[k].gen))
    IN  doomed ~> ~ doomed

\* "SessionConnected fires once both data channels are open": a session that
\* was announced is one whose own Connection reported Ready.
ConnectedIsOpen ==
  \A k \in Open :
    sessions[k].ready /\ Runs(k, sessions[k].gen) => entries[k].phase = "open"
=============================================================================
