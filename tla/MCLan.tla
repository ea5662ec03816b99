------------------------------- MODULE MCLan --------------------------------
(***************************************************************************)
(* LAN signaling, in one of two settings chosen at the start: a signaler   *)
(* against foreign hosts that use two ids and two addresses; or a client   *)
(* with a server, over a network that loses, repeats and reorders, where   *)
(* the answer is handed over after its offer arrived.  The one that was    *)
(* not chosen stays as it is.                                              *)
(***************************************************************************)
EXTENDS LanSignaler

CONSTANTS client, server, other, a1, a2, a3

VARIABLES
  setting,
  p_addresses, p_discovered, p_pending, p_server_data, p_since_broadcast, p_network, p_handed,
  p_sends, p_received

MCOffer == [from |-> client, to |-> server, conn |-> 1, type |-> "offer"]
MCCandidate == [from |-> client, to |-> server, conn |-> 1, type |-> "candidate"]
MCAnswer == [from |-> server, to |-> client, conn |-> 1, type |-> "answer"]
MCHome == [n \in {client} |-> a1]
ClientSignals == {MCOffer, MCCandidate}
MCAfter == [s \in ClientSignals |-> {}]
ForeignHosts == {<<server, a2>>, <<server, a3>>, <<other, a3>>}

Pair == INSTANCE LanSignaler WITH
  Nodes <- {client, server}, Ids <- {client, server},
  Home <- [n \in {client, server} |-> IF n = client THEN a1 ELSE a2],
  Signals <- {MCOffer, MCAnswer},
  After <- [s \in {MCOffer, MCAnswer} |-> IF s = MCAnswer THEN {MCOffer} ELSE {}],
  AddressTimeout <- 1, OfferInterval <- 1, Retries <- 1, Foreign <- {},
  addresses <- p_addresses, discovered <- p_discovered, pending <- p_pending,
  server_data <- p_server_data, since_broadcast <- p_since_broadcast, network <- p_network,
  handed <- p_handed, sends <- p_sends, received <- p_received

pairVars == <<p_addresses, p_discovered, p_pending, p_server_data, p_since_broadcast, p_network,
              p_handed, p_sends, p_received>>
allVars == <<setting, vars, pairVars>>

MCInit ==
  /\ setting \in {"foreign", "pair"}
  /\ Init
  /\ Pair!Init

InForeign(A) == setting = "foreign" /\ A /\ UNCHANGED <<setting, pairVars>>
InPair(A) == setting = "pair" /\ A /\ UNCHANGED <<setting, vars>>

MCNext ==
  \/ InForeign(Next)
  \/ InPair(Pair!Next)

\* The fairness of LanSignaler for both settings; in the pair a packet that is
\* sent again and again is delivered now and then.
MCSpec ==
  /\ MCInit
  /\ [][MCNext]_allVars
  /\ WF_allVars(InForeign(Tick) \/ InPair(Pair!Tick))
  /\ WF_allVars(InForeign(Update(client)) \/ InPair(Pair!Update(client)))
  /\ WF_allVars(InPair(Pair!Update(server)))
  /\ \A n \in {client, server}, kind \in {"request", "response"} :
       SF_allVars(InPair(\E d \in p_network : d.kind = kind /\ Pair!Deliver(n, d)))

\* A node that broadcasts finds every server that has data to show, and finds
\* it again after it forgot it.
PairServersAreFound == Pair!ServersAreFound
=============================================================================
