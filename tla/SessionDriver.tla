---------------------------- MODULE SessionDriver ---------------------------
(***************************************************************************)
(* The task that drives one session of the tokio crate and the handles the *)
(* application holds (nethernet-tokio/src/session/mod.rs): a queue of      *)
(* commands, a select over close, socket, commands and timer in this       *)
(* order, and the outputs of the sans-io connection, whose reliable        *)
(* messages wait for room in a bounded channel.                            *)
(*                                                                         *)
(* The connection is external to this module (Session): a datagram makes   *)
(* it put out Ready once, messages or Failed.  A write of the application  *)
(* is a number, a message of the peer too.  Failed and close also come     *)
(* from the server and the client: NetherServer and NetherClient.          *)
(***************************************************************************)
EXTENDS Naturals, Sequences, FiniteSets

CONSTANTS
  None,        \* absence
  Tasks,       \* tasks of the application with a clone of the Session
  Capacity,    \* PACKET_CHANNEL_CAPACITY
  MaxCalls,    \* bound: calls of the application
  MaxPackets,  \* bound: outputs of the connection
  MaxBatch     \* bound: outputs that one input makes it put out

\* What holds the TaskGuard: the clones and the two receivers.
Parts == Tasks \cup {"reliable", "unreliable"}

VARIABLES
  parts,       \* parts not dropped yet
  token,       \* close_token is cancelled
  task,        \* "select", "poll", "blocked" in packet_tx.send, or "ended"
  commands,    \* the command queue
  waiting,     \* task -> the call it waits for, or None
  calls,       \* calls so far
  player,      \* the driver's local player
  set_by,      \* history: task -> the player it set last, or None
  outputs,     \* outputs of the connection not polled yet
  packets,     \* outputs so far; the peer's messages are numbered by them
  reliable,    \* the channel of reliable messages
  unreliable,  \* the channel of unreliable messages
  read,        \* history: reliable messages the application has read
  emitted,     \* history: the reliable messages the connection has put out
  stale        \* history: a task read another player than it had set

appVars == <<parts, waiting, calls, set_by, read, stale>>
connVars == <<outputs, packets, emitted>>
vars == <<appVars, connVars, token, task, commands, player, reliable, unreliable>>

Init ==
  /\ parts = Parts
  /\ token = FALSE
  /\ task = "select"
  /\ commands = <<>>
  /\ waiting = [t \in Tasks |-> None]
  /\ calls = 0
  /\ player = None
  /\ set_by = [t \in Tasks |-> None]
  /\ outputs = <<>>
  /\ packets = 0
  /\ reliable = <<>>
  /\ unreliable = <<>>
  /\ read = <<>>
  /\ emitted = {}
  /\ stale = FALSE
-----------------------------------------------------------------------------
(* The end of the task                                                     *)

\* Mutant: calls whose command is still queued keep waiting.
Return_unheard == waiting

\* The reply channels go with the queue: every call returns ConnectionClosed.
Return == [t \in Tasks |-> None]

\* The queue and the senders of both channels are dropped.
End ==
  /\ task' = "ended"
  /\ token' = TRUE
  /\ commands' = <<>>
  /\ waiting' = Return
  /\ UNCHANGED <<parts, calls, set_by, read, stale, connVars, player, reliable, unreliable>>
-----------------------------------------------------------------------------
(* The application                                                         *)

Calls(t) == t \in parts /\ waiting[t] = None /\ calls < MaxCalls

\* A command with a reply channel; after the end of the task it fails at once.
Call(t, command) ==
  /\ Calls(t)
  /\ calls' = calls + 1
  /\ IF task = "ended" THEN UNCHANGED <<commands, waiting>>
     ELSE /\ commands' = Append(commands, command)
          /\ waiting' = [waiting EXCEPT ![t] = command.kind]
  /\ UNCHANGED <<parts, set_by, read, stale, connVars, token, task, player, reliable,
                 unreliable>>

send_on(t) == Call(t, [kind |-> "Send", by |-> t])

\* player, and likewise host, remote_addr and rtt.
get_player(t) == Call(t, [kind |-> "Player", by |-> t])

\* set_player, and likewise set_host: no reply.
set_player(t) ==
  /\ Calls(t)
  /\ calls' = calls + 1
  /\ IF task = "ended" THEN UNCHANGED <<commands, set_by>>
     ELSE /\ commands' = Append(commands, [kind |-> "SetPlayer", by |-> t, value |-> calls + 1])
          /\ set_by' = [set_by EXCEPT ![t] = calls + 1]
  /\ UNCHANGED <<parts, waiting, read, stale, connVars, token, task, player, reliable,
                 unreliable>>

close(t) ==
  /\ t \in parts
  /\ waiting[t] = None
  /\ ~ token
  /\ token' = TRUE
  /\ UNCHANGED <<appVars, connVars, task, commands, player, reliable, unreliable>>

\* SessionReceiver::recv; what is queued can be read after the end.
recv ==
  /\ "reliable" \in parts
  /\ reliable # <<>>
  /\ read' = Append(read, Head(reliable))
  /\ reliable' = Tail(reliable)
  /\ UNCHANGED <<parts, waiting, calls, set_by, stale, connVars, token, task, commands, player,
                 unreliable>>

recv_unreliable ==
  /\ "unreliable" \in parts
  /\ unreliable # <<>>
  /\ unreliable' = Tail(unreliable)
  /\ UNCHANGED <<appVars, connVars, token, task, commands, player, reliable>>

\* A clone or a receiver is dropped; the last one aborts the task at its await.
DropPart(x) ==
  /\ x \in parts
  /\ x \in Tasks => waiting[x] = None
  /\ parts' = parts \ {x}
  /\ IF parts = {x} /\ task # "ended"
     THEN task' = "ended" /\ token' = TRUE /\ commands' = <<>>
     ELSE UNCHANGED <<task, token, commands>>
  /\ UNCHANGED <<waiting, calls, set_by, read, stale, connVars, player, reliable, unreliable>>
-----------------------------------------------------------------------------
(* The driver: select                                                      *)

SelectClose ==
  /\ task = "select"
  /\ token
  /\ End

\* What one input may make the connection put out, in this order.
Batches == UNION {[1 .. n -> {"Reliable", "Unreliable", "Failed"}] : n \in 1 .. MaxBatch}

\* The numbers of the reliable messages among outputs.
Reliable(outs) == {outs[i].number : i \in {j \in DOMAIN outs : outs[j].kind = "Reliable"}}

\* A datagram, or the timer: the connection puts out messages, or Failed.
Packet(batch) ==
  /\ task = "select"
  /\ ~ token
  /\ packets + Len(batch) <= MaxPackets
  /\ packets' = packets + Len(batch)
  /\ LET put == [i \in DOMAIN batch |-> [kind |-> batch[i], number |-> packets + i]]
     IN  /\ outputs' = outputs \o put
         /\ emitted' = emitted \cup Reliable(put)
  /\ task' = "poll"
  /\ UNCHANGED <<appVars, token, commands, player, reliable, unreliable>>

\* The timer of at most MAX_IDLE; outputs left over are polled.
Timeout ==
  /\ task = "select"
  /\ ~ token
  /\ outputs # <<>>
  /\ task' = "poll"
  /\ UNCHANGED <<appVars, connVars, token, commands, player, reliable, unreliable>>

\* One command.  The queue is closed when every clone is gone and it is empty;
\* receivers may still be there.
Command ==
  /\ task = "select"
  /\ ~ token
  /\ commands # <<>>
  /\ LET c == Head(commands)
     IN  /\ commands' = Tail(commands)
         /\ player' = IF c.kind = "SetPlayer" THEN c.value ELSE player
         /\ waiting' = IF c.kind = "SetPlayer" THEN waiting ELSE [waiting EXCEPT ![c.by] = None]
         /\ stale' = (stale \/ (c.kind = "Player" /\ set_by[c.by] # None
                                /\ (player = None \/ player < set_by[c.by])))
  /\ task' = "poll"
  /\ UNCHANGED <<parts, calls, set_by, read, connVars, token, reliable, unreliable>>

CommandsClosed ==
  /\ task = "select"
  /\ ~ token
  /\ commands = <<>>
  /\ parts \cap Tasks = {}
  /\ End
-----------------------------------------------------------------------------
(* The driver: outputs                                                     *)

Out(kind) == task = "poll" /\ outputs # <<>> /\ Head(outputs).kind = kind

PollDone ==
  /\ task = "poll"
  /\ outputs = <<>>
  /\ task' = "select"
  /\ UNCHANGED <<appVars, connVars, token, commands, player, reliable, unreliable>>

PollFailed ==
  /\ Out("Failed")
  /\ End

\* try_send: an unreliable message that finds no room is dropped.
PollUnreliable ==
  /\ Out("Unreliable")
  /\ outputs' = Tail(outputs)
  /\ unreliable' = IF "unreliable" \in parts /\ Len(unreliable) < Capacity
                   THEN Append(unreliable, Head(outputs).number) ELSE unreliable
  /\ UNCHANGED <<appVars, packets, emitted, token, task, commands, player, reliable>>

\* Mutant: a reliable message that finds no room is dropped.
PollReliable_try ==
  /\ Out("Reliable")
  /\ outputs' = Tail(outputs)
  /\ reliable' = IF Len(reliable) < Capacity
                 THEN Append(reliable, Head(outputs).number) ELSE reliable
  /\ UNCHANGED <<appVars, packets, emitted, token, task, commands, player, unreliable>>

PollReliable ==
  /\ Out("Reliable")
  /\ "reliable" \in parts
  /\ IF Len(reliable) < Capacity
     THEN /\ outputs' = Tail(outputs)
          /\ reliable' = Append(reliable, Head(outputs).number)
          /\ UNCHANGED task
     ELSE /\ task' = "blocked"
          /\ UNCHANGED <<outputs, reliable>>
  /\ UNCHANGED <<appVars, packets, emitted, token, commands, player, unreliable>>

\* Room again: the message goes in and the polling goes on.
Unblock ==
  /\ task = "blocked"
  /\ "reliable" \in parts
  /\ Len(reliable) < Capacity
  /\ outputs' = Tail(outputs)
  /\ reliable' = Append(reliable, Head(outputs).number)
  /\ task' = "poll"
  /\ UNCHANGED <<appVars, packets, emitted, token, commands, player, unreliable>>

\* The receiver is gone: the message is lost and what is left of the outputs
\* waits for the next round, since the break leaves the inner loop only.
Unreceived ==
  /\ Out("Reliable") \/ task = "blocked"
  /\ "reliable" \notin parts
  /\ outputs' = Tail(outputs)
  /\ task' = "select"
  /\ UNCHANGED <<appVars, packets, emitted, token, commands, player, reliable, unreliable>>

Driver ==
  \/ SelectClose \/ Timeout \/ Command \/ CommandsClosed
  \/ PollDone \/ PollFailed \/ PollUnreliable \/ PollReliable
  \/ Unblock \/ Unreceived

Next ==
  \/ \E t \in Tasks : send_on(t) \/ get_player(t) \/ set_player(t) \/ close(t)
  \/ recv \/ recv_unreliable
  \/ \E x \in Parts : DropPart(x)
  \/ \E batch \in Batches : Packet(batch)
  \/ Driver

Spec == Init /\ [][Next]_vars

\* The driver runs; the application reads its reliable messages, or drops the
\* receiver.  The peer does not flood the socket, which is looked at before
\* the commands: its datagrams are finitely many.
FairSpec ==
  /\ Spec
  /\ WF_vars(Driver)
  /\ WF_vars(recv)
-----------------------------------------------------------------------------
TypeOK ==
  /\ parts \subseteq Parts
  /\ token \in BOOLEAN
  /\ task \in {"select", "poll", "blocked", "ended"}
  /\ waiting \in [Tasks -> {None, "Send", "Player"}]
  /\ calls \in 0 .. MaxCalls
  /\ packets \in 0 .. MaxPackets
  /\ Len(reliable) <= Capacity
  /\ Len(unreliable) <= Capacity

\* No reliable message is lost, doubled or out of order between the connection
\* and a receiver that is held, whether the channel was full or the session
\* closed in between: read and queued are in the order they were put out, those
\* still to be polled come after them, and together they are what was put out.
ReliableInOrder ==
  "reliable" \in parts =>
    LET got == read \o reliable
    IN  /\ \A i, j \in DOMAIN got : i < j => got[i] < got[j]
        /\ \A i \in DOMAIN got, n \in Reliable(outputs) : got[i] < n
        /\ emitted = {got[i] : i \in DOMAIN got} \cup Reliable(outputs)

\* A player that a task sets is what it reads afterwards, or one set later: the
\* queue keeps the order of the calls.
PlayerIsRead == ~ stale

\* A call on a session returns, if only with ConnectionClosed: no reply is lost
\* in the queue of a driver that closes, fails, is aborted or is blocked by
\* back pressure; and a player that a task sets is what it reads afterwards.
CallsReturn ==
  /\ []PlayerIsRead
  /\ \A t \in Tasks : waiting[t] # None ~> waiting[t] = None
=============================================================================
