---------------------------- MODULE MCLanRepeats ----------------------------
(***************************************************************************)
(* A client that offers and a server that answers once the offer arrived,  *)
(* over a network that loses, repeats and reorders.                        *)
(***************************************************************************)
EXTENDS LanSignaler
CONSTANTS client, server, a1, a2
MCHome == [n \in Nodes |-> IF n = client THEN a1 ELSE a2]
MCOffer == [from |-> client, to |-> server, conn |-> 1, type |-> "offer"]
MCAnswer == [from |-> server, to |-> client, conn |-> 1, type |-> "answer"]
PairSignals == {MCOffer, MCAnswer}
MCAfter == [s \in Signals |-> IF s = MCAnswer THEN {MCOffer} ELSE {}]
=============================================================================
