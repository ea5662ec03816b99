--------------------------- MODULE DiscoveryCodec ---------------------------
(***************************************************************************)
(* What a server says of itself on its way to a client: as a record in a   *)
(* discovery datagram (nethernet/src/protocol/codec.rs and packet/         *)
(* discovery/), as the JSON of the HTTP status, or as a pong string        *)
(* (server_data.rs).                                                       *)
(*                                                                         *)
(* Widths are scaled down, their proportions kept: a byte has 4 bits, a    *)
(* varint digit 3, a 32-bit word 8 in two bytes, so that a varint has      *)
(* three digits and a bit to spare; a length in a datagram is up to        *)
(* MaxBytes.  Encryption and HMAC are external: a datagram opens only as   *)
(* it was sealed.  Byte 15 is never part of UTF-8 text.                    *)
(***************************************************************************)
EXTENDS Integers, Sequences, SequencesExt

CONSTANTS
  None,      \* absence
  Records,   \* what servers say of themselves
  MaxBytes   \* MAX_BYTES and u16::MAX

Byte == 16
Digit == 8
Word == 256
MaxDigits == 3
Block == 4      \* BLOCK_SIZE
Hex == 4        \* values of a hexadecimal character

\* ServerData with numbers of the scaled widths
IsRecord(d) ==
  /\ \A f \in {"server_name", "level_name", "session_id", "game_version"} :
       d[f] \in Seq(0 .. Byte - 2)
  /\ \A f \in {"player_count", "max_player_count"} : d[f] \in -(Word \div 2) .. (Word \div 2) - 1
  /\ \A f \in {"game_type", "transport_layer", "connection_type"} : d[f] \in 0 .. Byte - 1
  /\ \A f \in {"editor_world", "hardcore", "flag_a", "flag_b"} : d[f] \in BOOLEAN
  /\ d.protocol_version \in 0 .. Word - 1

VARIABLES
  data,      \* what the server says
  channel,   \* how it is sent
  spoken,    \* the version of its sender's records
  stage,     \* "made", "sent", "read"
  damage,    \* what went wrong on the way
  wire,      \* what is under way
  result     \* what the client reads

vars == <<data, channel, spoken, stage, damage, wire, result>>
-----------------------------------------------------------------------------
(* Primitives.  A reader is a cursor: the bytes left, whether all went     *)
(* well, and the last value.                                               *)

Cursor(left, value) == [ok |-> TRUE, left |-> left, value |-> value]
Failure == [ok |-> FALSE, left |-> <<>>, value |-> 0]

Drop(s, n) == SubSeq(s, n + 1, Len(s))

Signed(w) == IF w >= Word \div 2 THEN w - Word ELSE w

write_varuint32(value) ==
  LET digits[v \in 0 .. Word - 1] ==
        IF v >= Digit THEN <<Digit + (v % Digit)>> \o digits[v \div Digit] ELSE <<v>>
  IN  digits[value]

\* Mutant: one digit fewer is read.
read_varuint32_short(bytes) ==
  LET n == SelectInSeq(bytes, LAMBDA b : b < Digit)
  IN  IF n = 0 \/ n > MaxDigits - 1 THEN Failure
      ELSE Cursor(Drop(bytes, n), FoldLeft(LAMBDA v, b : v * Digit + (b % Digit), 0,
                                           Reverse(SubSeq(bytes, 1, n))) % Word)

\* Bits of the last digit that do not fit are dropped.
read_varuint32(bytes) ==
  LET n == SelectInSeq(bytes, LAMBDA b : b < Digit)
  IN  IF n = 0 \/ n > MaxDigits THEN Failure
      ELSE Cursor(Drop(bytes, n), FoldLeft(LAMBDA v, b : v * Digit + (b % Digit), 0,
                                           Reverse(SubSeq(bytes, 1, n))) % Word)

\* Zigzag: xor with the sign.
write_varint32(value) ==
  write_varuint32(IF value < 0 THEN Word - 1 - ((2 * value) % Word) ELSE (2 * value) % Word)

read_varint32(bytes) ==
  LET raw == read_varuint32(bytes)
      half == raw.value \div 2
  IN  [raw EXCEPT !.value = Signed(IF raw.value % 2 = 1 THEN Word - 1 - half ELSE half)]

write_i32(value) == <<(value % Word) % Byte, (value % Word) \div Byte>>

read_u32(bytes) ==
  IF Len(bytes) < 2 THEN Failure ELSE Cursor(Drop(bytes, 2), bytes[1] + Byte * bytes[2])

read_i32(bytes) == LET raw == read_u32(bytes) IN [raw EXCEPT !.value = Signed(@)]

read_u8(bytes) == IF bytes = <<>> THEN Failure ELSE Cursor(Tail(bytes), Head(bytes))

\* read_len_bytes, after its length
read_len_bytes(length) ==
  IF ~ length.ok \/ length.value > MaxBytes \/ length.value > Len(length.left) THEN Failure
  ELSE Cursor(Drop(length.left, length.value), SubSeq(length.left, 1, length.value))

text(bytes) ==
  IF bytes.ok /\ \E i \in DOMAIN bytes.value : bytes.value[i] = Byte - 1 THEN Failure ELSE bytes
-----------------------------------------------------------------------------
(* Records                                                                 *)

\* ServerData::new
new ==
  [server_name |-> <<>>, level_name |-> <<>>, game_type |-> 0, player_count |-> 1,
   max_player_count |-> 8, editor_world |-> FALSE, hardcore |-> FALSE, flag_a |-> TRUE,
   flag_b |-> TRUE, session_id |-> <<>>, transport_layer |-> 2, connection_type |-> 4,
   protocol_version |-> 0, game_version |-> <<>>]

F(field, kind) == [field |-> field, kind |-> kind]
Worlds == <<F("editor_world", "bool"), F("hardcore", "bool")>>
Flags == <<F("flag_a", "bool"), F("flag_b", "bool")>>
Counts == <<F("player_count", "i32"), F("max_player_count", "i32")>>
Layers(kind) == <<F("transport_layer", kind), F("connection_type", kind)>>
Names(kind) == <<F("server_name", kind), F("level_name", kind), F("game_type", "half")>>

\* The fields of a record, by the version in its first byte.
Layout(version) ==
  CASE version = 4 -> Names("text8") \o Counts \o Worlds \o Layers("half")
    [] version = 5 ->
         <<F("server_name", "vartext"), F("level_name", "vartext"), F("game_type", "small")>>
           \o Counts \o Worlds \o Flags \o Layers("small")
    [] version = 6 ->
         Names("text8") \o Counts \o Worlds \o Flags \o <<F("session_id", "text8")>> \o Layers("half")
    [] version = 7 ->
         <<F("server_name", "vartext"), F("protocol_version", "varint"), F("game_version", "vartext"),
           F("level_name", "vartext"), F("player_count", "varint"), F("max_player_count", "varint"),
           F("game_type", "small")>>
           \o Worlds \o Flags \o <<F("session_id", "vartext"), F("connection_type", "small")>>

Versions == 4 .. 7
CURRENT == 7

Written(kind, v) ==
  CASE kind = "text8" -> <<Len(v)>> \o v
    [] kind = "vartext" -> write_varuint32(Len(v)) \o v
    [] kind = "half" -> <<2 * v>>
    [] kind \in {"varint", "small"} -> write_varint32(Signed(v % Word))
    [] kind = "i32" -> write_i32(v)
    [] kind = "bool" -> <<IF v THEN 1 ELSE 0>>

\* serialize, for the current version; a peer of another version writes its
\* own layout.
serialize(version, d) ==
  <<version>> \o FlattenSeq([i \in DOMAIN Layout(version) |->
                    Written(Layout(version)[i].kind, d[Layout(version)[i].field])])

\* A "small" number has to fit a u8.
Read(field, kind, bytes) ==
  LET number == read_varint32(bytes)
  IN  CASE kind = "text8" -> text(read_len_bytes(read_u8(bytes)))
        [] kind = "vartext" -> text(read_len_bytes(read_varuint32(bytes)))
        [] kind = "half" -> [read_u8(bytes) EXCEPT !.value = @ \div 2]
        [] kind = "varint" ->
             IF field = "protocol_version" THEN [number EXCEPT !.value = @ % Word] ELSE number
        [] kind = "small" -> IF number.value \in 0 .. Byte - 1 THEN number ELSE Failure
        [] kind = "i32" -> read_i32(bytes)
        [] kind = "bool" -> [read_u8(bytes) EXCEPT !.value = @ # 0]

\* A field that is not in the layout has the value of new.
deserialize(bytes) ==
  LET step(c, f) ==
        LET r == Read(f.field, f.kind, c.left)
        IN  IF ~ c.ok \/ ~ r.ok THEN Failure
            ELSE [r EXCEPT !.value = [c.value EXCEPT ![f.field] = r.value]]
  IN  IF bytes = <<>> \/ Head(bytes) \notin Versions THEN Failure
      ELSE FoldLeft(step, Cursor(Tail(bytes), new), Layout(Head(bytes)))

Refused == [ok |-> FALSE, value |-> new]
Accepted(d) == [ok |-> TRUE, value |-> d]

\* ServerData::decode
decode(bytes) ==
  LET r == deserialize(bytes) IN IF r.ok /\ r.left = <<>> THEN Accepted(r.value) ELSE Refused
-----------------------------------------------------------------------------
(* Datagrams                                                               *)

Ids == [request |-> 0, response |-> 1, message |-> 2]

\* The body of a packet: a request has none, a response has a record in
\* hexadecimal, a message has its recipient and a text.
ResponseBody(bytes) ==
  write_i32(2 * Len(bytes)) \o FlattenSeq([i \in DOMAIN bytes |-> <<bytes[i] \div Hex, bytes[i] % Hex>>])

MessageBody(recipient, bytes) == <<recipient>> \o write_i32(Len(bytes)) \o bytes

\* The length, then the header with packet id, sender and padding.
payload(id, body) == write_i32(3 + Len(body)) \o <<id, 1, 0>> \o body

Fits(p) == Len(p) - 2 <= MaxBytes

\* encrypt fills up the last block, by a whole one if need be.
encrypt(p) ==
  LET n == Block - (Len(p) % Block) IN p \o [i \in 1 .. n |-> n]

seal(p) == [checksum |-> p, body |-> encrypt(p)]

Padding(b) == b[Len(b)]

\* The payload of a datagram that opens.
opens(d) ==
  LET b == d.body
      n == Len(b)
  IN  /\ n > 0
      /\ n % Block = 0
      /\ Padding(b) \in 1 .. Block
      /\ \A i \in n - Padding(b) + 1 .. n : b[i] = Padding(b)
      /\ d.checksum = SubSeq(b, 1, n - Padding(b))

Unhex(bytes) ==
  IF /\ bytes.ok
     /\ Len(bytes.value) % 2 = 0
     /\ \A i \in DOMAIN bytes.value : bytes.value[i] < Hex
  THEN [bytes EXCEPT !.value = [i \in 1 .. Len(@) \div 2 |-> Hex * @[2 * i - 1] + @[2 * i]]]
  ELSE Failure

\* packet::decode: the body that was sent, of a packet that is read to its end.
\* The length in front is not looked at.
open(d) ==
  LET p == d.checksum
      body == Drop(p, 5)
      read == CASE p[3] = Ids.request -> Cursor(body, <<>>)
                [] p[3] = Ids.response -> Unhex(read_len_bytes(read_u32(body)))
                [] p[3] = Ids.message ->
                     IF body = <<>> THEN Failure
                     ELSE text(read_len_bytes(read_u32(Tail(body))))
                [] OTHER -> Failure
  IN  IF ~ opens(d) \/ Len(p) < 5 THEN Failure
      ELSE IF read.ok /\ read.left # <<>> THEN Failure ELSE read
-----------------------------------------------------------------------------
(* Status and pong                                                         *)

StatusFields == {"server_name", "protocol_version", "game_version", "level_name", "player_count",
                 "max_player_count", "game_type"}

to_json(d) == [f \in StatusFields |-> d[f]]

from_json(json) ==
  IF DOMAIN json # StatusFields THEN Refused
  ELSE Accepted([f \in DOMAIN new |-> IF f \in StatusFields THEN json[f] ELSE new[f]])

\* A pong string cut at its semicolons; a number that cannot be parsed is 0.
PongFields == <<"edition", "server_name", "protocol_version", "game_version", "player_count",
                "max_player_count", "guid", "level_name", "mode">>
Modes == [survival |-> 0, creative |-> 1, adventure |-> 2, spectator |-> 6]

ModeOf(game_type) ==
  IF \E m \in DOMAIN Modes : Modes[m] = game_type
  THEN CHOOSE m \in DOMAIN Modes : Modes[m] = game_type ELSE "other"

Pong(d) ==
  [i \in DOMAIN PongFields |->
     CASE PongFields[i] \in {"edition", "guid"} -> <<>>
       [] PongFields[i] = "mode" -> ModeOf(d.game_type)
       [] OTHER -> d[PongFields[i]]]

from_pong_data(parts) ==
  IF Len(parts) < 9 THEN Refused
  ELSE Accepted([new EXCEPT !.server_name = parts[2], !.protocol_version = parts[3],
                            !.game_version = parts[4], !.player_count = parts[5],
                            !.max_player_count = parts[6], !.level_name = parts[8],
                            !.game_type = IF parts[9] \in DOMAIN Modes THEN Modes[parts[9]] ELSE 0])
-----------------------------------------------------------------------------
Channels == DOMAIN Ids \cup {"status", "pong"}

\* What a peer of an older version can say: lengths in a byte, and numbers in
\* half of one.
Sayable(version, d) ==
  version \in {4, 6} =>
    /\ \A f \in {"server_name", "level_name", "session_id"} : Len(d[f]) < Byte
    /\ \A f \in {"game_type", "transport_layer", "connection_type"} : d[f] < Byte \div 2

Init ==
  /\ data \in Records
  /\ IsRecord(data)
  /\ channel \in Channels
  /\ spoken \in IF channel = "response" THEN Versions ELSE {CURRENT}
  /\ Sayable(spoken, data)
  /\ stage = "made"
  /\ damage = "none"
  /\ wire = None
  /\ result = None

Body(bytes) ==
  CASE channel = "request" -> <<>>
    [] channel = "response" -> ResponseBody(bytes)
    [] channel = "message" -> MessageBody(3, bytes)

Bytes == IF channel = "response" THEN serialize(spoken, data) ELSE data.server_name

OnLan == channel \in DOMAIN Ids

Sent(w, how) ==
  /\ stage = "made"
  /\ stage' = "sent"
  /\ wire' = w
  /\ damage' = how
  /\ UNCHANGED <<data, channel, spoken, result>>

\* packet::encode: what is too long for a datagram is not sent.
Send ==
  \/ /\ OnLan
     /\ Fits(payload(Ids[channel], Body(Bytes)))
     /\ Sent(seal(payload(Ids[channel], Body(Bytes))), "none")
  \/ channel = "status" /\ Sent(to_json(data), "none")
  \/ channel = "pong" /\ Sent(Pong(data), "none")

\* Something that ends early or goes on.
Misshapen(s) == {SubSeq(s, 1, n) : n \in 0 .. Len(s) - 1} \cup {s \o <<b>> : b \in {0, Byte - 1}}

\* A peer sends a packet, a record, a status or a pong that is misshapen.
SendMisshapen ==
  \/ /\ OnLan
     /\ \E p \in Misshapen(payload(Ids[channel], Body(Bytes))) : Sent(seal(p), "packet")
  \/ /\ channel = "response"
     /\ \E r \in Misshapen(Bytes) : Sent(seal(payload(Ids[channel], Body(r))), "record")
  \/ /\ channel = "status"
     /\ \E f \in StatusFields : Sent([g \in StatusFields \ {f} |-> data[g]], "status")
  \/ /\ channel = "pong"
     /\ \E n \in 0 .. 8 : Sent(SubSeq(Pong(data), 1, n), "pong")

\* A byte changes on the way.
Corrupt(i, b) ==
  /\ stage = "sent"
  /\ damage = "none"
  /\ OnLan
  /\ i \in DOMAIN wire.body
  /\ wire.body[i] # b
  /\ wire' = [wire EXCEPT !.body[i] = b]
  /\ damage' = "corrupt"
  /\ UNCHANGED <<data, channel, spoken, stage, result>>

Receive ==
  /\ stage = "sent"
  /\ stage' = "read"
  /\ result' = LET d == open(wire)
               IN  CASE channel = "response" -> IF d.ok THEN decode(d.value) ELSE Refused
                     [] channel = "message" ->
                          IF d.ok THEN Accepted([new EXCEPT !.server_name = d.value]) ELSE Refused
                     [] channel = "request" -> IF d.ok THEN Accepted(new) ELSE Refused
                     [] channel = "status" -> from_json(wire)
                     [] channel = "pong" -> from_pong_data(wire)
  /\ UNCHANGED <<data, channel, spoken, damage, wire>>

Next ==
  \/ Send
  \/ SendMisshapen
  \/ OnLan /\ stage = "sent" /\ \E i \in DOMAIN wire.body : Corrupt(i, (wire.body[i] + 1) % Byte)
  \/ Receive

Spec == Init /\ [][Next]_vars
-----------------------------------------------------------------------------
\* The fields a channel carries.
Carried ==
  CASE channel = "request" -> {}
    [] channel = "message" -> {"server_name"}
    [] channel = "response" -> {Layout(spoken)[i].field : i \in DOMAIN Layout(spoken)}
    [] OTHER -> StatusFields

\* What arrives is what the server said, in every field the channel carries, up
\* to the bounds of every number and of every length; the others have the value
\* of new.  A pong has names for four game types only.  What was changed on the
\* way, ends early or goes on after its end is refused, never taken for another
\* packet or record (serialize and deserialize, ServerData::decode,
\* packet::decode, to_json and from_json, from_pong_data).
ReadIsSaid ==
  stage = "read" =>
    IF damage # "none" THEN ~ result.ok
    ELSE /\ result.ok
         /\ \A f \in DOMAIN new :
              \/ result.value[f] = IF f \in Carried THEN data[f] ELSE new[f]
              \/ /\ channel = "pong" /\ f = "game_type"
                 /\ data[f] \notin {0, 1, 2, 6} /\ result.value[f] = 0
=============================================================================
