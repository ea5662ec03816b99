------------------------------- MODULE MCPeer -------------------------------
(***************************************************************************)
(* What a side takes from its peer, in one of four settings chosen at the  *)
(* start: the bytes of an HTTP message (HttpWire), the bytes of a          *)
(* discovery datagram (DiscoveryCodec), the signals of a negotiation       *)
(* (Negotiation), and the keys that peers' tokens are held against (Jwks). *)
(* The settings that were not chosen stay as they are.                     *)
(***************************************************************************)
EXTENDS Integers, Sequences, Negotiation

CONSTANTS
  k1, k2,
  Messages, MaxBody, ReadChunk,                        \* HttpWire
  Records, MaxBytes,                                   \* DiscoveryCodec
  Keys, MinInterval, MaxAge, WatchInterval, MaxRotations  \* Jwks

ASSUME KeysAssumption == MinInterval \in Nat

VARIABLES
  setting,
  role, tls, message, outbound, written, buffered, writer, network, inbound, parsed,
  data, channel, spoken, stage, damage, wire, result,
  published, rotations, keys, missed, age, at, reply, sleep, held, check, verdict
-----------------------------------------------------------------------------
(* HTTP messages                                                           *)

Unit(type, n) == [type |-> type, n |-> n]
Octets(n) == [i \in 1 .. n |-> i]
Message(head, framing, body, chunks, trailer) ==
  [head |-> head, framing |-> framing, body |-> body, chunks |-> chunks, trailer |-> trailer]
Framed(framing, body) == Message("ok", framing, body, <<>>, "ok")

\* Messages of this crate up to one that is larger than MaxBody with its head,
\* and messages of others: whole ones, one that announces too much or too
\* little, ones with framing or text that is refused, and chunked ones.
MCMessages ==
  {Framed(<<Unit("length", n)>>, Octets(n)) : n \in {0, 2, 5, 6}}
  \cup {Framed(<<Unit("length", n)>>, Octets(2)) : n \in {1, 3, MaxBody + 1}}
  \cup {Framed(<<>>, <<>>), Framed(<<Unit("badlength", 0)>>, <<1>>),
        Framed(<<Unit("length", 2)>>, <<1, 0>>), Framed(<<Unit("other", 0)>>, <<1>>),
        Message("ok", <<Unit("length", 1), Unit("chunked", 0)>>, <<1>>, <<1>>, "ok")}
  \cup {Message(head, <<Unit("length", 1)>>, <<1>>, <<>>, "ok") : head \in {"bad", "many", "unusable"}}
  \cup {Message("ok", <<Unit("chunked", 0)>>, Octets(2), <<1, 1>>, trailer) :
          trailer \in {"ok", "bad", "many"}}
  \cup {Message("ok", <<Unit("chunked", 0)>>, Octets(9), <<2, 7>>, "ok")}

Http == INSTANCE HttpWire WITH
  Requests <- Messages, Responses <- Messages, session <- buffered, verdict <- parsed

ASSUME HttpAssumption ==
  /\ MaxBody \in Nat
  /\ ReadChunk \in Nat
  /\ Messages \subseteq Http!MessageType
  /\ None \notin [type : {"Message", "Refused", "Failed"}, status : Nat, body : Seq(Nat)]

httpVars == <<role, tls, message, outbound, written, buffered, writer, network, inbound, parsed>>
-----------------------------------------------------------------------------
(* Records                                                                 *)

Text(n) == [i \in 1 .. n |-> i % 5]
Default ==
  [server_name |-> <<>>, level_name |-> <<>>, game_type |-> 0, player_count |-> 1,
   max_player_count |-> 8, editor_world |-> FALSE, hardcore |-> FALSE, flag_a |-> TRUE,
   flag_b |-> TRUE, session_id |-> <<>>, transport_layer |-> 2, connection_type |-> 4,
   protocol_version |-> 0, game_version |-> <<>>]

\* Numbers and lengths at the bounds of their encodings; one record that is too
\* long for a datagram.
MCRecords ==
  {Default}
  \cup {[Default EXCEPT !.player_count = p[1], !.max_player_count = -1 - p[1],
                        !.server_name = Text(p[2]), !.protocol_version = p[1] % 256] :
          p \in {<<-128, 0>>, <<-33, 7>>, <<-32, 8>>, <<-1, 15>>, <<31, 16>>, <<4, 0>>, <<127, 7>>}}
  \cup {[Default EXCEPT !.level_name = Text(40)]}
  \cup {[Default EXCEPT !.game_type = g, !.connection_type = 15 - g, !.transport_layer = 7,
                        !.flag_a = FALSE, !.hardcore = TRUE, !.session_id = Text(3),
                        !.game_version = Text(2)] : g \in {1, 7, 8, 15}}
  \cup {[Default EXCEPT !.game_type = 6, !.connection_type = 0, !.transport_layer = 1]}

Codec == INSTANCE DiscoveryCodec

\* The length of a text fits a word.
ASSUME CodecAssumption ==
  /\ MaxBytes \in Nat
  /\ \A d \in Records : Codec!IsRecord(d) /\ Len(d.server_name) < Codec!Word

codecVars == <<data, channel, spoken, stage, damage, wire, result>>
-----------------------------------------------------------------------------
(* Signals and keys                                                        *)

Token(kid, signer) ==
  [fresh |-> TRUE, rs256 |-> TRUE, kid |-> kid, signer |-> signer, claims |-> TRUE, bound |-> TRUE]

Jwk == INSTANCE Jwks WITH
  Tokens <- {Token(k2, k2), [Token(k1, k1) EXCEPT !.fresh = FALSE]}

jwkVars == <<published, rotations, keys, missed, age, at, reply, sleep, held, check, verdict>>
-----------------------------------------------------------------------------
allVars == <<setting, httpVars, codecVars, vars, jwkVars>>

MCInit ==
  /\ setting \in {"http", "codec", "signals", "keys"}
  /\ Http!Init
  /\ Codec!Init
  /\ Init
  /\ Jwk!Init
  /\ setting # "http" => role = "server" /\ ~ tls /\ message = Framed(<<>>, <<>>)
  /\ setting # "codec" => data = Default /\ channel = "status"
  /\ setting # "keys" => published = {}

InHttp(A) == setting = "http" /\ A /\ UNCHANGED <<setting, codecVars, vars, jwkVars>>
InCodec(A) == setting = "codec" /\ A /\ UNCHANGED <<setting, httpVars, vars, jwkVars>>
InSignals(A) == setting = "signals" /\ A /\ UNCHANGED <<setting, httpVars, codecVars, jwkVars>>
InKeys(A) == setting = "keys" /\ A /\ UNCHANGED <<setting, httpVars, codecVars, vars>>

MCNext ==
  \/ InHttp(Http!Next)
  \/ InCodec(Codec!Next)
  \/ InSignals(Next)
  \/ InKeys(Jwk!Next)

\* The fairness of Jwks.
MCSpec ==
  /\ MCInit
  /\ [][MCNext]_allVars
  /\ WF_allVars(InKeys(Jwk!Tick))
  /\ WF_allVars(InKeys(Jwk!Watching))
  /\ \A c \in {"watch", "app"} : /\ SF_allVars(InKeys(Jwk!Lock(c)))
                                 /\ WF_allVars(InKeys(Jwk!Fetching(c)))
                                 /\ SF_allVars(InKeys(Jwk!Store(c)))
  /\ SF_allVars(InKeys(Jwk!Serve))
-----------------------------------------------------------------------------
\* An HTTP message is read as it was meant, however it was cut into pieces, and
\* no reader waits for more than was sent.
MessagesAreRead == Http!ReadAsMeant /\ Http!WholeIsDecided

\* What arrives is what the server said, in every field the channel carries, and
\* what was damaged is refused.
ReadIsSaid == Codec!ReadIsSaid

\* Keys are stored at most once in MinInterval.
FetchesAreSpaced == Jwk!FetchesAreSpaced

\* A rotation of the published keys reaches everyone who validates.
KeysConverge == Jwk!KeysConverge
=============================================================================
