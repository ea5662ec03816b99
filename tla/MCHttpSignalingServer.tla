----------------------- MODULE MCHttpSignalingServer -----------------------
(***************************************************************************)
(* Two connections from one plain peer and one proxy, one place per      *)
(* address and one pending join: a connection can be refused, a join can   *)
(* be turned away, and a second request can follow a timed-out one.        *)
(***************************************************************************)
EXTENDS HttpSignalingServer
CONSTANTS client, proxy

\* One request for each way a request is judged.
MCRequestKinds ==
  {[path |-> "join", method |-> "POST", valid |-> TRUE],
   [path |-> "join", method |-> "POST", valid |-> FALSE],
   [path |-> "join", method |-> "GET", valid |-> FALSE],
   [path |-> "status", method |-> "GET", valid |-> FALSE],
   [path |-> "status", method |-> "POST", valid |-> FALSE],
   [path |-> "other", method |-> "GET", valid |-> FALSE]}
=============================================================================
