------------------------------- MODULE MCGame -------------------------------
(***************************************************************************)
(* The two servers of a game, one of them chosen at the start: over LAN    *)
(* (BevyServer) with two session ids of one network, so that the limits    *)
(* bite, and an address that both peers may use; and over HTTP             *)
(* (BevyHttpServer) with two connections and two joins of one peer.        *)
(***************************************************************************)
EXTENDS BevyServer

CONSTANTS k1, k2, a1, n1, client, Connections, MaxPerAddress, MaxPendingJoins, AnswerTimeout,
          MaxJoins, IdleTimeout, MaxReads

VARIABLES
  which,  \* the server that was chosen
  connections, per_address, pending, next_join, server_data, token_trust, output,
  conn, opened, h_at, h_todo, reqs, gone,
  signs, h_sessions, pool, p_events, removes, refused, h_told

MCNetworkOf == [k \in Keys |-> n1]

Http == INSTANCE BevyHttpServer WITH
  Peers <- {client}, TrustedProxies <- {}, ServeMotd <- TRUE, MaxPending <- 1,
  RequestKinds <- {[path |-> "join", method |-> "POST", valid |-> TRUE]},
  todo <- h_todo, sessions <- h_sessions, told <- h_told

ASSUME GameAssumption ==
  /\ MaxJoins \in Nat /\ AnswerTimeout \in Nat /\ IdleTimeout \in Nat /\ MaxReads \in Nat
  /\ None \notin Http!ConnType
  /\ None \notin [peer : {client}, counted : BOOLEAN]
  /\ None \notin [connection : Connections, left : 0 .. AnswerTimeout]
  /\ None \notin [ready : BOOLEAN, age : 0 .. Establish]

httpVars ==
  <<connections, per_address, pending, next_join, server_data, token_trust, output,
    conn, opened, h_at, h_todo, reqs, gone,
    signs, h_sessions, pool, p_events, removes, refused, h_told>>
allVars == <<which, vars, httpVars>>

\* An identity may be set later.
MCInit ==
  /\ which \in {"lan", "http"}
  /\ Init
  /\ Http!Init
  /\ token_trust
  /\ ~ signs

InLan(A) == which = "lan" /\ A /\ UNCHANGED <<which, httpVars>>
InHttp(A) == which = "http" /\ A /\ UNCHANGED <<which, vars>>

MCNext == InLan(Next) \/ InHttp(Http!Next)

\* The fairness of both: frames, time, and the pool's thread.
MCSpec ==
  /\ MCInit
  /\ [][MCNext]_allVars
  /\ WF_allVars(InLan(PoolRuns))
  /\ WF_allVars(InLan(Frame) \/ InHttp(Http!Frame))
  /\ SF_allVars(InLan(Tick) \/ InHttp(Http!Tick))
-----------------------------------------------------------------------------
\* Table and signaler of the HTTP server hold the same connections.
ConnectionsAgree == Http!ConnectionsAgree

\* No session is left behind by the LAN server or its pool, or past its limits.
SessionsAreAccounted == PoolAndServerAgree /\ PendingWithinLimits

\* What the game was told is what each server lists, and the pool runs.
SessionsAreTold == ToldWhatIsListed /\ Http!SessionsAreReal

\* The connections of the HTTP server come to an end.
ConnectionsEnd == Http!ConnectionsEnd
=============================================================================
