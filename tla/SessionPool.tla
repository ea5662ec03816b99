---------------------------- MODULE SessionPool ----------------------------
(***************************************************************************)
(* The thread that runs every session of a game process over one socket    *)
(* (bevy-nethernet/src/connection.rs): its queue of commands, its queue of *)
(* events, the entry of each session and the router of datagrams.          *)
(*                                                                         *)
(* A session is known by its key alone; gen, the number of the Connection  *)
(* object, is what the code does not carry: entries, commands and events   *)
(* are tagged with it so that properties can speak of it.  It also stands  *)
(* for the Connection's ICE user fragment, drawn at random for each.       *)
(* What a Connection does is abstracted to its contract: it selects one    *)
(* remote address, then hears the peer, then reports Ready once and        *)
(* Failed once, and reports messages and round trips from the selection on.*)
(***************************************************************************)
EXTENDS Naturals, Sequences, FiniteSets

CONSTANTS
  Keys,         \* session ids
  Addrs,        \* socket addresses of peers
  Reports,      \* the reports modelled, a subset of {"Message", "Rtt"}
  MaxSessions,  \* bound: Connections created
  MaxQueued,    \* bound: commands in the queue when Send or Signal is called
  None          \* absence

Gens == 1 .. MaxSessions
Phases == {"checking", "selected", "heard", "open"}

EntryType == [gen : Gens, phase : Phases, selected : Addrs \cup {None},
              remote : Addrs \cup {None}, reported : SUBSET Reports]
CommandType == [kind : {"Add", "Signal", "Send", "Remove"}, key : Keys, gen : Gens]
EventType == [kind : {"Ready", "Failed"} \cup Reports, key : Keys, gen : Gens]

ASSUME PoolAssumption ==
  /\ IsFiniteSet(Keys)
  /\ MaxSessions \in Nat \ {0}
  /\ MaxQueued \in Nat
  /\ Reports \subseteq {"Message", "Rtt"}
  /\ None \notin Keys \cup Addrs \cup EntryType

VARIABLES
  commands,     \* queue of commands, filled by the game thread
  events,       \* queue of events, drained by the game thread
  entries,      \* key -> entry or None
  by_addr,      \* Router: address -> key or None
  provisional,  \* Router: address -> keys that sent there
  by_ufrag,     \* Router: gen -> key or None
  pool_at,      \* where the thread is in its loop
  todo,         \* entries not polled yet in this round
  failed        \* keys that reported Failed in this round

router == <<by_addr, provisional, by_ufrag>>
poolVars == <<commands, events, entries, router, pool_at, todo, failed>>

PoolInit ==
  /\ commands = <<>>
  /\ events = <<>>
  /\ entries = [k \in Keys |-> None]
  /\ by_addr = [a \in Addrs |-> None]
  /\ provisional = [a \in Addrs |-> {}]
  /\ by_ufrag = [g \in Gens |-> None]
  /\ pool_at = "receive"
  /\ todo = {}
  /\ failed = {}

\* The handle is dropped: the thread ends and takes queues, entries and router
\* along.
DropPool ==
  /\ commands' = <<>>
  /\ events' = <<>>
  /\ entries' = [k \in Keys |-> None]
  /\ by_addr' = [a \in Addrs |-> None]
  /\ provisional' = [a \in Addrs |-> {}]
  /\ by_ufrag' = [g \in Gens |-> None]
  /\ pool_at' = "receive"
  /\ todo' = {}
  /\ failed' = {}

Live == {k \in Keys : entries[k] # None}

Event(kind, k) == [kind |-> kind, key |-> k, gen |-> entries[k].gen]
-----------------------------------------------------------------------------
(* Router                                                                  *)

\* A datagram is a STUN request naming the user fragment of a gen, a STUN
\* response, or media.
Datagrams == [kind : {"request"}, gen : Gens] \cup [kind : {"response", "media"}]

route(from, d) ==
  IF by_addr[from] # None THEN {by_addr[from]}
  ELSE IF d.kind = "media" THEN {}
  ELSE IF d.kind = "request" /\ by_ufrag[d.gen] # None THEN {by_ufrag[d.gen]}
  ELSE provisional[from]

claim_addr(a, k) == [by_addr EXCEPT ![a] = IF @ = None THEN k ELSE @]

note_sent(a, k) == [provisional EXCEPT ![a] = @ \cup {k}]

\* Mutant: the addresses a session sent to keep naming it.
release_keeps_provisional(k) ==
  /\ by_ufrag' = [by_ufrag EXCEPT ![entries[k].gen] = None]
  /\ by_addr' = [a \in Addrs |->
       IF a = entries[k].remote /\ by_addr[a] = k THEN None ELSE by_addr[a]]
  /\ UNCHANGED provisional

release(k) ==
  /\ by_ufrag' = [by_ufrag EXCEPT ![entries[k].gen] = None]
  /\ by_addr' = [a \in Addrs |->
       IF a = entries[k].remote /\ by_addr[a] = k THEN None ELSE by_addr[a]]
  /\ provisional' = [a \in Addrs |-> provisional[a] \ {k}]
-----------------------------------------------------------------------------
(* One round of the thread: a datagram or a timeout, every command queued, *)
(* every entry polled, the failed entries dropped.                         *)

\* A Connection after a datagram that it takes as its own; it may ignore one.
Advanced(e, from, d) ==
  CASE d.kind = "media" /\ e.phase = "selected" -> [e EXCEPT !.phase = "heard"]
    [] d.kind # "media" /\ e.phase = "checking" /\ (d.kind = "request" => d.gen = e.gen) ->
         [e EXCEPT !.phase = "selected", !.selected = from]
    [] OTHER -> e

Receive(from, d) ==
  /\ pool_at = "receive"
  /\ pool_at' = "commands"
  /\ \E taken \in SUBSET (route(from, d) \cap Live) :
       entries' = [k \in Keys |->
         IF k \in taken THEN Advanced(entries[k], from, d) ELSE entries[k]]
  /\ UNCHANGED <<commands, events, router, todo, failed>>

ReceiveTimeout ==
  /\ pool_at = "receive"
  /\ pool_at' = "commands"
  /\ UNCHANGED <<commands, events, entries, router, todo, failed>>

NewEntry(g) ==
  [gen |-> g, phase |-> "checking", selected |-> None, remote |-> None, reported |-> {}]

\* The commands Signal and Send reach the Connection and change nothing the
\* pool can see.
Execute ==
  /\ pool_at = "commands"
  /\ commands # <<>>
  /\ commands' = Tail(commands)
  /\ LET c == Head(commands)
     IN  CASE c.kind = "Add" ->
                /\ by_ufrag' = [by_ufrag EXCEPT ![c.gen] = c.key]
                /\ entries' = [entries EXCEPT ![c.key] = NewEntry(c.gen)]
                /\ UNCHANGED <<by_addr, provisional>>
           [] c.kind = "Remove" /\ c.key \in Live ->
                /\ entries' = [entries EXCEPT ![c.key] = None]
                /\ release(c.key)
           [] OTHER -> UNCHANGED <<entries, router>>
  /\ UNCHANGED <<events, pool_at, todo, failed>>

EndCommands ==
  /\ pool_at = "commands"
  /\ commands = <<>>
  /\ pool_at' = IF Live = {} THEN "receive" ELSE "poll"
  /\ todo' = Live
  /\ UNCHANGED <<commands, events, entries, router, failed>>

\* What a Connection may output when it is polled.
Outputs(e) ==
  {"none"} \cup (IF e.phase = "heard" THEN {"Ready"} ELSE {})
           \cup (IF e.phase # "checking" THEN Reports \ e.reported ELSE {})

\* The Timeout input, the claim of the selected address, and the outputs: a
\* datagram sent to an address, at most one report, and Failed.
Poll(k, out, to, fails) ==
  LET e == entries[k]
      remote == IF e.remote = None THEN e.selected ELSE e.remote
  IN  /\ pool_at = "poll"
      /\ k \in todo
      /\ out \in Outputs(e)
      /\ todo' = todo \ {k}
      /\ by_addr' = IF e.remote = None /\ e.selected # None
                    THEN claim_addr(e.selected, k) ELSE by_addr
      /\ provisional' = IF remote = None /\ to # None THEN note_sent(to, k) ELSE provisional
      /\ entries' = [entries EXCEPT ![k] =
           [e EXCEPT !.remote = remote,
                     !.phase = IF out = "Ready" THEN "open" ELSE e.phase,
                     !.reported = e.reported \cup ({out} \cap Reports)]]
      /\ events' = IF out = "none" THEN events ELSE Append(events, Event(out, k))
      /\ failed' = IF fails THEN failed \cup {k} ELSE failed
      /\ pool_at' = IF todo' # {} THEN "poll" ELSE IF failed' # {} THEN "fail" ELSE "receive"
      /\ UNCHANGED <<commands, by_ufrag>>

\* Mutant: the game is not told.
DropFailed_silent(k) ==
  /\ pool_at = "fail"
  /\ k \in failed
  /\ failed' = failed \ {k}
  /\ entries' = [entries EXCEPT ![k] = None]
  /\ release(k)
  /\ pool_at' = IF failed' # {} THEN "fail" ELSE "receive"
  /\ UNCHANGED <<commands, events, todo>>

DropFailed(k) ==
  /\ pool_at = "fail"
  /\ k \in failed
  /\ failed' = failed \ {k}
  /\ entries' = [entries EXCEPT ![k] = None]
  /\ release(k)
  /\ events' = Append(events, Event("Failed", k))
  /\ pool_at' = IF failed' # {} THEN "fail" ELSE "receive"
  /\ UNCHANGED <<commands, todo>>

PoolStep ==
  \/ \E a \in Addrs, d \in Datagrams : Receive(a, d)
  \/ ReceiveTimeout
  \/ Execute
  \/ EndCommands
  \/ \E k \in Keys, out \in {"none", "Ready"} \cup Reports, to \in Addrs \cup {None},
        fails \in BOOLEAN : Poll(k, out, to, fails)
  \/ \E k \in Keys : DropFailed(k)
-----------------------------------------------------------------------------
PoolTypeOK ==
  /\ commands \in Seq(CommandType)
  /\ events \in Seq(EventType)
  /\ entries \in [Keys -> EntryType \cup {None}]
  /\ by_addr \in [Addrs -> Keys \cup {None}]
  /\ provisional \in [Addrs -> SUBSET Keys]
  /\ by_ufrag \in [Gens -> Keys \cup {None}]
  /\ pool_at \in {"receive", "commands", "poll", "fail"}
  /\ todo \subseteq Live
  /\ failed \subseteq Live

\* The router names live sessions only: each entry by the fragment of the
\* Connection it holds, and nothing of a session that is gone (Router::release).
RouterNamesTheLiving ==
  /\ \A a \in Addrs :
       /\ provisional[a] \subseteq Live
       /\ by_addr[a] # None => by_addr[a] \in Live /\ entries[by_addr[a]].remote = a
  /\ \A g \in Gens, k \in Keys : by_ufrag[g] = k <=> k \in Live /\ entries[k].gen = g
=============================================================================
