# NetherNet: a verification project

TLA+ models of the NetherNet transport (crates `nethernet`, `nethernet-tokio`
and `bevy-nethernet`), checked with TLC on small instances and, where a theorem
is stated, proved with TLAPS for every instance. `PROJECT.json` lists the
components, the runs, the mutants, the lines of source behind each definition,
the findings, the hazards and the theorems.

## The system

A peer reaches another by *signaling* (offer, answer, candidates), then opens a
*session*: ICE selects an address pair, DTLS and SCTP come up on it, two data
channels are opened. `nethernet` holds the protocol logic as sans-io state
machines (`handle(input)`, `poll() -> output`); `nethernet-tokio` drives them
with tasks and channels; `bevy-nethernet` with a thread and a per-frame update.

| Component | State | Operations | Meets others through |
|---|---|---|---|
| LAN signaler | addresses, discovered, pending signals, last broadcast | datagram, signal, server data, update | UDP datagrams of other signalers |
| HTTP signaler | connections, counts per address, pending joins | connected, request, answer, reject, closed, update | its driver's outputs |
| HTTP signaling server (tokio) | command queue, waiting replies, timer | accept, serve, signal, drive, shutdown | channels to connection tasks and the game |
| Session | pending role, certificate, early packets, transports, channels, deadline | packet, description, candidate, send, timeout | external ICE, DTLS, SCTP |
| Shared socket (tokio) | routes, by_addr, provisional, by_ufrag | route, dispatch, send, claim, drop | a mutex shared by the drivers |
| Session pool (bevy) | entries, router, command and event queues | add, signal, send, remove, its loop | two queues with the game thread |
| LAN server (bevy) | table of sessions, events for the game | update, disconnect, send | the pool, the LAN signaler |
| Server (tokio) | pending slots, dispatchers, queue of connected sessions | offers, late signals, accept, close, drop | a task per session, the sessions' guards, signaling |
| Client (tokio) | attempt, negotiation, send under way | connect, signals, write, flush, shutdown, drop | signaling, a driver and a forwarder per attempt |
| Session driver (tokio) | command queue, outputs, two bounded channels, player | send, player, close, recv, drop | the sans-io session, the socket, the application's tasks |
| Framing | reassembly buffer, expected segments | split, add_segment | the reliable channel of a session |
| LAN client (bevy) | connection, deadline, attempts left, ready | connect, disconnect, update | the pool, the LAN signaler |
| HTTP client (bevy) | query, join, pool, deadline | query, connect, disconnect, update | streams to the server, a pool per connection |
| HTTP server (bevy) | table of connections, sessions, events for the game | update, disconnect | the HTTP signaler, the pool, streams |
| HTTP streams and parsers (bevy) | inbound, outbound, TLS session | fill, drain, flush, close, parse | the peer's stream |
| Connection, admission | local id, remote description, candidates | handle_signal, admit, verify_answer | signalers, both ends of a session |
| Signing keys | shared set, missed flag, time of the last fetch | refresh, watch, validate | whoever validates a token |
| Identity, wire formats | none | validate, encode, decode | used by the above |

What is hard here: two threads or many tasks share tables that are keyed by
names the peer chooses (session ids, fragments, addresses); UDP repeats and
reorders; deadlines race answers; an error in the middle of a handler leaves the
rest of it undone; nothing may stay behind when a session ends.

What makes each part correct:

- *Sockets and pools*: a datagram reaches the session it belongs to; no session
  takes an address from another; a session that ends leaves no trace.
- *Signalers*: each request is answered once; counts are exact; limits hold;
  retransmission ends; servers are found.
- *Session*: each event once, Ready only with both channels, Ready or Failed by
  the deadline, no failure lost.
- *Servers*: the table and the pool agree; the game is told what is listed;
  pending slots are exact; closing leaves nothing behind.
- *Clients*: an attempt acts on its own signals, one session lives at a time, no
  write is lost silently, connecting ends.
- *Session driver and framing*: messages arrive whole, once and in order, whatever
  their length and however slowly they are read; every call returns.
- *Formats and streams*: what is read is what was meant, in any fragmentation;
  what was damaged is refused.
- *Trust*: a description that needs an identity is used only with a valid one;
  rotated keys reach everyone who validates.

## Modules

| Module | Models | How state and actions correspond |
|---|---|---|
| `SharedSocket` | `transport/shared.rs` and the socket part of `session/mod.rs` (tokio) | `State` and `Router` are variables; every access under the mutex is an action; a driver's loop is `Wake`, `SendTo`, `Claim`, `EndLoop` |
| `HttpSignaler` | `signaling/http/mod.rs` | one action per input; instants are times left to the deadline |
| `HttpSignalingServer` | `signaling/http/server.rs`, extends `HttpSignaler` | acceptor, tasks and game put commands into the queue; the driver's `select!` arms are the `Handle...` actions, followed by `Drain` of all outputs |
| `LanSignaler` | `signaling/lan/mod.rs` and the loop of `lan.rs` (tokio) | per node the signaler's tables; `Update` is retransmit, broadcast, expire in one step; `network` is a set of datagrams delivered any number of times |
| `Session` | `session/mod.rs` | one record with the fields of `Session`; `pump` is a function of the session and of the outcomes of the calls it makes, cut off by the first error |
| `SessionPool` | `connection.rs` (bevy) | the thread's loop: receive, commands one by one, poll of each entry, drop of the failed |
| `BevyServer` | `server.rs`, `pending.rs` (bevy), extends `SessionPool` | a frame is `BeginUpdate`, signals and offers, `EndUpdate`; `SessionPool::add` blocks the game in `add` until the queue was executed |
| `NetherServer` | `transport/server.rs`, `transport/pending.rs` and the tasks of `session/mod.rs` (tokio) | the signal handler (`TakeOffer` to `StopHandler`; `answering` is the offer across the awaits of `answer_offer`), per session a waiting task (`Establish`, `GiveUp`), a driver and a forwarder, and the application; `Guards` is the drop of the last `TaskGuard` |
| `NetherClient` | `transport/client.rs`, the offer of `signaling/http/client.rs` (tokio) | `connect_with` and `negotiate` are one task (`SendOffer` to `EstablishTimeout`), each way out of an attempt is `Fail`; `sent` holds the peer's signals, delivered any number of times in any order; `poll_...` are the stream's |
| `MessageChannel` | what a reliable channel promises | the abstract specification: messages taken and delivered whole, in order |
| `Framing` | `protocol/message.rs`, `Session::send` and its reads | `Send` cuts a message, `Receive` is `add_segment`, one disjunct for each of its ways out; a foreign peer sends any segments |
| `SessionDriver` | `session/mod.rs`, `session/command.rs` (tokio) | the task is in its `select!`, polling outputs, blocked on a full channel, or ended; each call of a handle is an action, its reply another |
| `BevyClient` | `client.rs` (bevy), extends `SessionPool` | calls between frames; a frame is `BeginUpdate`, signals, then `EndUpdate`, `Retry` or `GiveUp`; `Added` ends the wait of `SessionPool::add` |
| `BevyHttpClient` | `http_client.rs` (bevy), extends `SessionPool` | a query and a join as states of their streams, driven once a frame; a new pool for every join that is answered |
| `BevyHttpServer` | `http_server.rs` (bevy), extends `HttpSignaler` | the phases of `update()` (accept, pump, outputs, idle) are steps, because each walks over a table in any order; the pool is reduced to what the server sees |
| `Negotiation` | `connection.rs`, `admission.rs`, the signal handlers of the bevy client and server | the network is the set of signals ever sent, delivered in any order any number of times, those of a stranger and the answers of a client of another make too |
| `Jwks` | `util/jwks.rs` (tokio), `identity/trust.rs`, `jwk.rs`, `jwt.rs` | validation, the watch task and the application's refresh interleave at the mutex and at the fetch |
| `HttpWire` | `http_wire.rs`, `http_stream.rs`, `tcp_wire.rs` (bevy) | a message is a sequence of units that may be cut anywhere; after every piece the reader parses all that it has |
| `DiscoveryCodec` | `protocol/codec.rs`, `protocol/packet/discovery/` | integers digit by digit with scaled widths, lengths, the four versions of a record, padding and checksum; status JSON and pong strings |

`BevyServer` and both bevy clients compose their own state with the thread of
`SessionPool`; `HttpSignalingServer` and `BevyHttpServer` compose two different
drivers with the same `HttpSignaler`. `Framing` implements `MessageChannel`
(`ImplementsChannel`, an `INSTANCE ... WITH` whose mapping hides the segments; of
what a foreign peer sends nothing is promised).

`MC...` modules give constants their values. `MCLan`, `MCSession`, `MCClients`,
`MCGame` and `MCPeer` hold several modules side by side: a behaviour chooses one of
them at its start and the others keep their initial state, so that one run asks
the related questions and its states are the union, not the product, of theirs.

`...Proofs` modules hold the theorems of the modules they extend; `GameProofs`,
`NetherClientProofs`, `NegotiationProofs` and `SessionProofs` extend `MCGame`,
`MCClients`, `MCPeer` and `MCSession`, whose assumptions and combined specifications
they use.

A name that ends in a description after an underscore and stands under the comment
`Mutant` (`OutOfSequence_keeps`) is a plausible bug of the definition after it; no
specification uses it.

## Runs

| Run | Instance | Shows |
|---|---|---|
| `shared_socket` | 2 sessions, 2 hosts (one also in mapped form), 1 fragment, channel of 1 | `OwnersMatchClaims`, `NoTraceOfDropped`, `NewestHoldsUfrag`; a freed host is claimed again (`FreedHostIsReclaimed`) |
| `http_signaling` | 2 connections, 2 requests, 2 joins, limits of 1, 2 queued commands | counts are exact, one reply per request, nothing stays after the end, every request is answered |
| `lan` | a client against foreign hosts with 2 ids and 2 addresses, 2 retries, timeout 2; or client and server, offer and answer, lossy network, timeout 1 | pins and tables (`DiscoveredReachable`, `PinnedUntilQuiet`), retransmission ends, servers are found |
| `session` | both roles, 2 early packets, deadline 2; or 4 messages of 0 to 7 bytes in segments of 2 with a u8 of 3, or 4 foreign segments; or 2 tasks with 2 calls, 2 messages put out in batches of up to 2, channels of 1 | `EventsAreTrue`, `NoEarlyPacketStranded`, `DeadlineCounts`; `DeliveredWhole`, `ImplementsChannel`; `ReliableInOrder`, `CallsReturn` |
| `nether_server` | 1 key whose offer is repeated, 2 sessions, caps of 2 | slots, signals to the newest session, nothing outlives its session or the server (`NoSessionIsLeft`) |
| `clients` | tokio: both kinds of signaling, 2 attempts, 2 units to negotiate, 2 writes; bevy: 2 attempts, 3 sessions, times of 1 | own signals only, one session, no silent loss of a write; `ConnectedIsOwn` of the HTTP client; all of them end (`ClientsEnd`) |
| `game` | LAN: 2 ids of one network, 2 sessions, 1 address; HTTP: 2 connections, 2 joins, limits and times of 1 | router and tables agree, limits, events match the list, dead sessions leave, connections end |
| `peer` | messages around a limit of 8 units read in pieces of up to 3; records at the bounds of their encodings; 2 attempts and 2 sessions; 2 keys and one rotation | `MessagesAreRead`, `ReadIsSaid`, `PairsMatch`, `RemoteIsTrusted`, `FetchesAreSpaced`, `KeysConverge` |
| `lan_repeats` | client and server | violation: a repeated offer ends the retransmission of the answer |
| `session_lost` | 2 early packets, deadline 2 | violation: the loss of SCTP is swallowed by a later error |
| `bevy_stale` | 1 id, 2 sessions | violation: a stale Ready announces a session that is not open |
| `nether_abandoned` | 1 key, 1 session | violation: a session the application dropped stays open |

Some properties are conjunctions of named parts, defined in their modules:
`EventsAreTrue` (`EventsOnce`, `IceFailureReported`), `DeadlineCounts`
(`ReadyOutlivesDeadline`, `EstablishesOrFails`), `NoSessionIsLeft`
(`UnacceptedEnd`, `ClosedEnd`), `SessionsAreAccounted` (`PoolAndServerAgree`,
`PendingWithinLimits`), `SessionsAreTold` (`ToldWhatIsListed`, `SessionsAreReal` of
the HTTP server), `ClientsEnd` (`ConnectEnds`, `AttemptsEnd`, `JoinsEnd`),
`MessagesAreRead` (`ReadAsMeant`, `WholeIsDecided`).

The bounds are the smallest that let the hazards happen: two sessions to compete
for a name and one more registration after a drop, limits of one so that they are
met, timeouts of one or two units so that events fall before, at and after them.
A u8 of 3 keeps the proportions of 255 segments: a message of exactly the largest
size, one segment less and one more are all sent, and a foreign count may be out of
range. The widths of `DiscoveryCodec` are scaled in the same way: a byte of 4 bits,
a digit of 3, so that a varint has three digits and its last one a bit to spare.
One rotation of two keys is enough for a token whose key is not known yet when it
is presented. Queues are bounded only where a caller could fill them for ever
(`MaxCommands`, `MaxQueued`, `MaxReads`, `MaxCalls`, `MaxPackets`, `MaxSent`);
counters that name objects by `MaxSessions`, `MaxJoins`, `MaxRequests`,
`MaxAttempts`, `MaxRotations`.

`CHECK_DEADLOCK FALSE` stands in the cfgs of systems that may stop: the HTTP
server after its shutdown, a LAN signaler whose signals are all sent, and the
tokio server once it is closed or dropped and its sessions have ended, the
tokio client once it has failed or was dropped, a driver that has ended, a channel
that has delivered all, a bounded exchange that is over.

Type invariants are part of the inductive invariant of the proofs below; those of
modules without a proof document the module's states.

### Fairness

Liveness is checked under weak fairness of what the code schedules by itself: a
tokio task that is ready runs, a driver's timer fires, the pool's thread loops,
the game runs its frames, time passes. `LanSignaler!FairNetworkSpec` adds strong
fairness of the delivery of requests and responses, as discovery over a network
that loses everything is impossible. `Session!FairSpec` assumes only that not
every timeout meets an error; nothing is assumed of the peer. In
`NetherServer!FairSpec` the handler's stop is strongly fair, because `select!`
picks at random among its ready branches and signals may arrive for ever; a
session that does not open ends at its deadline; of the application only that it
polls a `close()` it has begun. `NetherClient!FairSpec` assumes that signaling
takes or refuses an offer, that time passes and timers fire; nothing of the peer.
`SessionDriver!FairSpec` assumes that the task runs and that the application reads
its reliable messages: with a full channel that nobody reads the driver waits for
ever, as the code intends. Datagrams are finitely many there, since the biased
`select!` prefers the socket to the commands. The bevy clients and servers assume
frames, the pool's thread and time, which is strongly fair because it passes
between frames only; nothing of the peer, whose stream may stay blocked.
`Jwks!FairSpec` assumes that tasks run, that a fetch ends by its time-out, and that
one that is tried again and again is answered in the end.

## Findings

- **An answer may stop being repeated although it was lost.** `LanSignaler`
  drops what is pending for a peer on any signal of that peer on the connection;
  an offer that the client repeats because it has no answer is such a signal.
- **The loss of an association may go unreported.** `Session::pump` keeps it in
  a local flag, and an error of an ack or of DTLS later in the same call returns
  before the flag is read. A session that was ready has no deadline left.
- **A session may be announced before it is open.** The pool's events carry the
  session id only; a Ready queued when the session was removed is applied to the
  session that a repeated offer creates under the same id.
- **An abandoned session stays open.** The forwarder of late signals waits for
  `closed()` on a clone of the session, which holds a `TaskGuard`. While the
  server runs and the key gets no other offer, the session does not close
  although the application has dropped every handle and receiver.

Two more behaviours were met that no run is about. `NetherClient` of the bevy crate
keeps `ready` when its session fails, so that `is_connected()` holds after
`Disconnected` and a `disconnect()` pushes a second one; and events that are queued
when it disconnects reach its next connection. A session of the bevy HTTP server
that is not established in time leaves the table without a `Remove`; should it open
in that very moment, it stays in the pool. No document promises otherwise in terms
that a property could state.

`RemoteIsTrusted` promises less of the server of a game than of its client. Token
trust is asked when an offer is admitted. `NetherServer::handle_signal` of the bevy
crate passes every other signal of a listed session to its `Connection`, and that
takes an answer whatever its role (`connection.rs:142`): the description of the
offer, whose identity was found valid, is replaced by one nobody looks at, until
DTLS starts. Stated without this exception for both ends, TLC refutes the property
in three steps: an offer, its admission, an answer of the admitted client. The tokio
server hands only candidates to the `Connection` of a session
(`transport/server.rs:416`). The client of this project never answers; the module
has the answers of a client of another make (`Foreign`). `admission.rs:46` speaks
of offers only, so no line of the repository is contradicted.

## Proofs

`SharedSocketProofs` proves type correctness, ownership, that a drop leaves no
trace, that the newest session of a fragment is reachable and that no address is
taken over, for any number of sessions, hosts and fragments. The invariant of
the argument adds to the checked ones that every id in a table is that of a
registered session and that ids grow; without it a release could meet an owner
it does not know. Assumed: `SocketAssumption` (an absent value is none of the
names).

`HttpSignalerProofs` proves over `SignalerSpec`, which allows the signaler's
inputs in any order, that counts are exact and pending joins bounded. Counts are
cardinalities, so each step cites how a cardinality changes when one connection
is added or removed; finiteness of the sets is part of the invariant. Over
`Spec` of `HttpSignalingServer` it proves type correctness, the same counts, that
a reply belongs to its request (`RepliesMatchRequests`) and that a connection
that ended leaves nothing (`EndedLeavesNothing`). `ServerInv` adds to the two
what the command queue may hold of a connection (`InTurn`: `Connected`, then one
request at a time, then `Closed`) and what the driver holds of it by the state of
its task (`TaskHolds`): without the first a request could be fed behind its
`Closed`, without the second a request could overwrite a sender that is still
waited for. That an unused join id is not pending (`Fresh`) keeps a new join from
taking the place of another. What is said of the tables holds while the driver
runs; its shutdown drops them.

`LanSignalerProofs` proves type correctness, that the datagrams sent for a
signal are counted, that what is discovered is reachable and within its limit,
and that an id stays pinned until its address was quiet, for every set of nodes,
ids and addresses. The bound on sends is inductive only together with the
two other parts of `SendsCounted`: a pending entry's attempts are the sends of
its signal so far, and a signal that was never handed over was never sent. The
limit of discovered servers is about a cardinality and needs the ids to be
finite. `LanAssumption` names what is assumed of the constants; intervals and
the timeout are positive, retries any natural.

`NetherServerProofs` proves that pending slots are exact and within the cap of
each network id, that the newest session of a key gets its signals, and that
`close()` is final, for every set of keys, every cap and any number of sessions.
The invariant adds the order in which sessions are spawned (without it a session
spawned later might not be the newest) and that the queue is closed from the
drain on (without it an `Establish` could refill it). The sum that `try_admit`
compares with the cap on all slots is the cardinality of the set of slots counted
(`Counted`), which a slot taken enlarges by one (`TotalTakes`) and a slot given back
makes smaller by one (`TotalFrees`); the invariant says that the offers that hold a
slot are as many (`InTotal`).

`NetherClientProofs` proves four safety properties of the tokio client for any
number of attempts and writes and whatever the peer signals. The invariant adds
that an error is returned once, by the last attempt: without it a later timeout
could carry an earlier error to another attempt. Over `MCSpec` of `MCClients`,
which chooses one of the three clients, it also proves `ConnectedIsOwn` of the HTTP
client of a game, for any number of joins and all times, with a pool whose sessions
report `Ready` and `Failed` only. `HttpClientInv` says that there is a pool from the
answer to a join to the end of its connection and that it is empty otherwise, while
the next join runs too (`PoolOfJoin`); that the only `Add` is that of the newest
join, alone in the queue of a new pool; and that a `Ready` in the queue belongs to a
session that is open or gone, an end to a `Failed` not taken yet (`SessionOfJoin`).

`NegotiationProofs` proves `PairsMatch` and `RemoteIsTrusted` for any number of
attempts and sessions, with both properties allowing for the one description a
server's session may hold that is not its offer's: an answer of its own peer under
its own id (`ReplacedByPeer`). For the client there is no exception. The network keeps every signal for ever, so the invariant
says what each signal on it tells of its sender (`SignalsAreTrue`), and that every
session the server ever made, not only the one in its table, holds the client's
side of its own attempt, its offer or its answer (`SessionsMatch`): a late answer may come from a session
that is no longer listed. Over `MCSpec` of `MCPeer` it proves `FetchesAreSpaced` for
every minimal interval and any keys: who fetches holds the mutex alone and took it
when the keys were old enough, and keys only grow older until the fetch is stored
(`KeysInv`).

Two more of its theorems are about bytes, over `MCSpec` too, and state a checked
property on a part of its cases:

- `LengthedMessagesAreRead`: `MessagesAreRead` for messages framed by one
  `Content-Length`, whatever else is wrong with them; all messages this crate writes
  are such. `WireInv` says that what the reader has, what is on the network and what
  the TLS session holds are, one after the other, the beginning of the message that
  the writer has passed on (`InTransit`), that a closed stream was written to its end
  (`Ending`), and that the verdict is the parser's on what the reader has, or `Failed`
  at the end of the stream (`Verdict`). The lemmas follow the parser over a beginning
  of such a message: while the head is not whole it is `Partial`, a bad head is
  refused, and the body is complete with its last octet (`JudgedAsMeant`). Assumed
  (`HttpAssumption`): messages have the type of messages, the absent value is no
  verdict.
- `PacketsAreReadAsSaid`: `ReadIsSaid` for requests, messages, status and pong.
  `CodecInv` says what is on its way (`OnItsWay`): what was said, a packet of another
  length, or one that differs from what was sealed. The padding names its own length,
  so that only the packet that was sealed opens under its checksum (`OpensAsSealed`);
  a packet that opens is read if it ends where it says (`RequestOpens`,
  `MessageOpens`). Assumed (`CodecAssumption`): records are well formed and the length
  of a name fits the length field, a `u32` in the code.

`SessionProofs` is about one session. Of `Session` it proves type correctness,
`EventsAreTrue`, `NoEarlyPacketStranded` and the action property
`ReadyOutlivesDeadline`. `pump` is a chain of functions of the session, each cut
off by the first error, so the lemmas follow the chain: each part keeps
`Consistent`, which says of a session in the middle of an input that it is sound,
that the events put out so far are those its flags announce, and that a failure
has a cause. Of `Framing` it proves type correctness, `DeliveredWhole` and the
refinement of `MessageChannel`. `FramingInv` ties the segments on the wire to the
messages: the wire is the rest of the message being read followed by whole ones,
each segment followed by the next of its message or the first of the next
message; the buffer holds the beginning of the message after those taken, and
what is expected is its count less that. Under the mapping an accepted message is a
send, the last segment a delivery and every other step a stutter. Assumed: sizes
and the largest u8 are positive, lengths are naturals.

Of `SessionDriver` it proves, over `MCSpec` of `MCSession`:

- `ReliableStaysInOrder`, for any number of datagrams and calls and any capacity of
  the channels. Messages are numbered as the session puts them out, so that order
  is that of the numbers. `OrderInv` says that the numbers grow from what was read
  over the channel to the outputs not polled yet, that a driver that is blocked has
  a reliable message in hand, which therefore is neither lost nor sent twice when
  there is room again, and that together these are all that were put out;
- `PlayerIsAlwaysRead`, the safety part of `CallsReturn`: players are numbered by
  the calls that set them. `CallInv` says that the queue sets them in this order
  (`Ascending`), that a task waits for one reply at most (`Waits`), and that before
  its question in the queue there is its own player or a later one, or it was set
  already (`SetBefore`);
- `NoReplyIsLost`: a call waits only while its command is in the queue of a driver
  that runs (`CallsAreQueued`). The end of the driver answers what is queued, so no
  task waits for a driver that is gone.

Assumed (`DriverAssumption`): the absent value is no number and no name of a reply.

`GameProofs` is about the two servers of a game. Over `Spec` of `BevyServer` it
proves type correctness, `RouterNamesTheLiving` and `SessionsAreAccounted`
(`PoolAndServerAgree` and both limits on unestablished sessions) for every set of
ids and addresses, every limit and any number of sessions. `LanInv` adds:

- `Adding`: at most one `Add` is queued, as the last command, and the game waits
  for it; otherwise a `Remove` queued behind it would hit the new session;
- `Numbered`: the number of the Connection in that `Add` is new to the pool;
- `Agree`: a session the server holds has no `Remove` in the queue. This is what
  makes `PoolAndServerAgree` inductive although ids are used again;
- `Rounds`: what the thread has left to do belongs to its place in the loop.

Over `MCSpec`, which chooses a server and keeps the other as it is, it proves
`SessionsAreTold` and `ConnectionsAgree`, for every set of connections, any number
of joins and all timeouts and limits; peers are one address that posts valid
joins, as the instance of `BevyHttpServer` in `MCGame` says. `ConnectionsAgree` is
about the time between frames; `HttpInv` says what holds within one: the tables
agree at every step (`Tables`), a join that waits has its offer in the queue and
no offer is queued twice (`Offers`), and what a frame collects is empty outside
its phase (`Frames`). So the queue is empty at the end of a frame only with
nothing pending. `Offers` also says that an id on offer or to come has no session
and no `Remove`, without which a `Remove` could drop a session just begun.
`GameAssumption` says that bounds are naturals and that the absent value is none
of the records.

`NoTakeover`, `PendingWithinLimit`, `SendsCounted`, `CloseIsFinal` and
`SpawnedIsDescribed` are proved for every instance and therefore not part of a run;
`ReadyOutlivesDeadline` is checked as a part of `DeadlineCounts`.

Only model-checked:

- everything under fairness: the liveness properties, and the liveness part of
  `DeadlineCounts`. Liveness and `ENABLED` are outside what the installed provers
  handle;
- of `MessagesAreRead`, the messages that are not framed by one `Content-Length`,
  chunked ones above all: `ChunkedBody::decode` is a recursive function, and what it
  computes needs an induction over data, which is out of the provers' reach;
- of `ReadIsSaid`, the record in a discovery response, for the same reason: its
  integers are a recursive function, its fields are read by a fold.

## Not modelled

- Cryptography, base64, JSON text, SDP, ICE candidates and their inference from a
  peer's address (`util/candidate.rs`), endpoints, address ranges and STUN headers:
  stateless functions on bytes. Models see whether such a thing parses, is signed
  by a key and is trusted.
- The ICE, DTLS and SCTP stacks of crate `rtc`, `httparse`, `hyper`, `rustls`:
  external, they appear as choices. The TLS handshake and the dialling of sockets
  are left out of `HttpWire`.
- The maps `addresses`, `players` and `hosts` of the tokio HTTP driver, whose
  entries go when the game answers; setters of the configuration.
- The tokio client's timer and the session's own deadline have the same length but
  start at different times; `NetherClient` lets the timer fire at any time, which
  covers both orders.
- Examples, benchmarks and the derive of errors.

## Plan

1. *(done)* sockets, both signalers, session, bevy pool and server, tokio server
   and client.
2. *(done)* the session's driver and framing with the refinement, the bevy clients
   and HTTP server, negotiation and admission, signing keys, HTTP streams and
   discovery packets.
3. *(done)* proofs of the session, framing and its refinement, negotiation, the HTTP
   signaling server, and both servers of a game over their pools.
4. *(done)* proofs of the spacing of key fetches and of the HTTP client of a game.
5. *(done)* proofs of the session's driver, of the cap on all slots of the tokio
   server, of HTTP messages with a `Content-Length` and of discovery packets.
