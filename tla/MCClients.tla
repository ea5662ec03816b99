----------------------------- MODULE MCClients ------------------------------
(***************************************************************************)
(* The three clients, one of them chosen at the start: the tokio client    *)
(* (NetherClient), and the clients of a game over LAN (BevyClient) and     *)
(* over HTTP (BevyHttpClient).  Each makes two attempts of a connection,   *)
(* and a client of a game can connect again after it.  The clients of a    *)
(* game share their variables: only one of them is there.                  *)
(***************************************************************************)
EXTENDS NetherClient

CONSTANTS Key, Addrs, MaxSessions, GameAttempts, GameNegotiation, Establish

VARIABLES
  which,  \* the client that was chosen
  commands, events, entries, by_addr, provisional, by_ufrag, pool_at, todo, failed,
  connected, deadline, answered, attempts_left, is_connected, c_at, c_created, last,
  query, join, has_pool

Lan == INSTANCE BevyClient WITH
  Keys <- {Key}, Reports <- {}, MaxQueued <- 1,
  Attempts <- GameAttempts, Negotiation <- GameNegotiation, ready <- is_connected

Http == INSTANCE BevyHttpClient WITH
  Keys <- {Key}, Reports <- {}, MaxQueued <- 1,
  Attempts <- GameAttempts, Negotiation <- GameNegotiation, ready <- is_connected

ASSUME GameAssumption ==
  /\ MaxSessions \in Nat \ {0}
  /\ None \notin {Key} \cup Addrs \cup Http!EntryType \cup Http!StreamStates

lanVars ==
  <<commands, events, entries, by_addr, provisional, by_ufrag, pool_at, todo, failed,
    connected, deadline, answered, attempts_left, is_connected, c_at, c_created, last>>
httpVars == <<query, join, has_pool>>
allVars == <<which, vars, lanVars, httpVars>>

MCInit ==
  /\ which \in {"tokio", "lan", "http"}
  /\ Init
  /\ Lan!Init
  /\ Http!Init
  /\ which # "tokio" => trickle

InTokio(A) == which = "tokio" /\ A /\ UNCHANGED <<which, lanVars, httpVars>>
InLan(A) == which = "lan" /\ A /\ UNCHANGED <<which, vars, httpVars>>
InHttp(A) == which = "http" /\ A /\ UNCHANGED <<which, vars, answered>>

MCNext == InTokio(Next) \/ InLan(Lan!Next) \/ InHttp(Http!Next)

\* The fairness of the three.
MCSpec ==
  /\ MCInit
  /\ [][MCNext]_allVars
  /\ WF_allVars(InTokio(SendOffer \/ OfferFails) \/ InLan(Lan!PoolRuns) \/ InHttp(Http!PoolRuns))
  /\ WF_allVars(InTokio(NegotiationTimeout) \/ InLan(Lan!Frame) \/ InHttp(Http!Frame))
  /\ SF_allVars(InLan(Lan!Tick) \/ InHttp(Http!Tick))
  /\ WF_allVars(InTokio(Tick))
  /\ WF_allVars(InTokio(Connected \/ EstablishClosed \/ EstablishTimeout))
  /\ WF_allVars(InTokio(\E a \in Attempts : a \in closed /\ DriverEnds(a)))
  /\ WF_allVars(InTokio(\E a \in Attempts : DriverSends(a)))
-----------------------------------------------------------------------------
\* No client stays between connected and disconnected: connect_with of the tokio
\* client returns, and so do the attempts, joins and queries of a game.
ClientsEnd ==
  /\ which = "tokio" => ConnectEnds
  /\ which = "lan" => Lan!AttemptsEnd
  /\ which = "http" => Http!JoinsEnd

\* An HTTP client that says it is connected runs the session of its newest join.
ConnectedIsOwn == which = "http" => Http!ConnectedIsOwn
=============================================================================
