-------------------------- MODULE MCNetherServer ---------------------------
(***************************************************************************)
(* One key whose offer is repeated, and two sessions that may both answer  *)
(* it, at the same time or one after the other.                            *)
(***************************************************************************)
EXTENDS NetherServer
CONSTANTS k1, n1
MCNetworkOf == [k \in Keys |-> n1]
=============================================================================
