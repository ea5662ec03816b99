--------------------------- MODULE MCSharedSocket ---------------------------
(***************************************************************************)
(* Two sessions under one fragment and two hosts, one of them in both of   *)
(* its address forms, so that an owner and a session that waits for its    *)
(* host exist at once.                                                     *)
(***************************************************************************)
EXTENDS SharedSocket
CONSTANTS h1, h2, u1
MCAddrs == {<<h1, "plain">>, <<h1, "mapped">>, <<h2, "plain">>}
=============================================================================
