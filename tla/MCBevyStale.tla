---------------------------- MODULE MCBevyStale -----------------------------
(***************************************************************************)
(* One session id, used by one session after another.                      *)
(***************************************************************************)
EXTENDS BevyServer
CONSTANTS k1, a1, n1
MCNetworkOf == [k \in Keys |-> n1]
=============================================================================
