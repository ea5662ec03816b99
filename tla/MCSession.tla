------------------------------ MODULE MCSession -----------------------------
(***************************************************************************)
(* The three layers of a session, each on its own: the state machine over  *)
(* ICE, DTLS and SCTP (Session), the messages over its reliable channel    *)
(* (Framing) and the task that drives it (SessionDriver).  Which of them   *)
(* runs is chosen at the start; the others stay as they are.               *)
(***************************************************************************)
EXTENDS Session, Framing

CONSTANTS None, t1, t2, Tasks, Capacity, MaxCalls, MaxPackets, MaxBatch

ASSUME DriverAssumption == None \notin Nat \cup {"Send", "Player"}

VARIABLES
  layer,
  parts, token, task, commands, waiting, calls, player, set_by, outputs, packets, reliable,
  unreliable, read, emitted, stale

Driver == INSTANCE SessionDriver

driverVars == <<parts, token, task, commands, waiting, calls, player, set_by, outputs, packets,
                reliable, unreliable, read, emitted, stale>>
allVars == <<layer, vars, framingVars, driverVars>>

MCInit ==
  /\ layer \in {"session", "framing", "driver"}
  /\ Init
  /\ FramingInit
  /\ Driver!Init
  /\ layer # "session" => ~ session.is_controlling
  /\ layer # "framing" => ~ foreign

InSession(A) == layer = "session" /\ A /\ UNCHANGED <<layer, framingVars, driverVars>>
InFraming(A) == layer = "framing" /\ A /\ UNCHANGED <<layer, vars, driverVars>>
InDriver(A) == layer = "driver" /\ A /\ UNCHANGED <<layer, vars, framingVars>>

MCNext ==
  \/ InSession(Next)
  \/ InFraming(FramingNext)
  \/ InDriver(Driver!Next)

\* The fairness of each layer, in the layer that runs.
MCSpec ==
  /\ MCInit
  /\ [][MCNext]_allVars
  /\ WF_allVars(InSession(Tick) \/ InDriver(Driver!Driver))
  /\ WF_allVars(InSession(quiet_timeout) \/ InDriver(Driver!recv))

\* No reliable message is lost, doubled or put out of order by the driver.
ReliableInOrder == Driver!ReliableInOrder

\* A call on a session returns, if only with ConnectionClosed.
CallsReturn == Driver!CallsReturn
=============================================================================
