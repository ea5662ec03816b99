------------------------------ MODULE HttpWire ------------------------------
(***************************************************************************)
(* One HTTP message between two HttpStreams (bevy-nethernet/src/           *)
(* http_wire.rs, http_stream.rs, tcp_wire.rs): it is written in pieces,    *)
(* with TLS through the buffer of the TLS session, read in pieces of any   *)
(* size, and parsed again from the start whenever a piece arrived.         *)
(*                                                                         *)
(* Text is abstracted to units: a line of the head, the head's end, a      *)
(* chunk's size line, a chunk's end, an octet of the body.  A message may  *)
(* be cut between any two.  httparse and rustls are external: the one      *)
(* finds the head's end or the first unit it does not accept, the other    *)
(* passes on what it is given; the TLS handshake is left out.              *)
(***************************************************************************)
EXTENDS Naturals, Sequences, SequencesExt

CONSTANTS
  None,       \* absence
  Requests,   \* messages on their way to a server of this crate
  Responses,  \* messages on their way to a client of this crate
  MaxBody,    \* MAX_BODY, in units
  ReadChunk   \* the most a read brings, in units

Unit(type, n) == [type |-> type, n |-> n]
Octets(body) == [i \in DOMAIN body |-> Unit("octet", body[i])]
End == Unit("end", 0)

\* A message as its sender means it.  Its head may be malformed, have too many
\* headers, or be refused when the message is built; framing are its framing
\* headers, chunks the sizes its body is cut into if it is chunked.  Octet 0
\* is not text.
MessageType ==
  [head : {"ok", "bad", "many", "unusable"},
   framing : Seq([type : {"length", "badlength", "chunked", "other"}, n : Nat]),
   body : Seq(Nat), chunks : Seq(Nat), trailer : {"ok", "bad", "many"}]

VARIABLES
  role,      \* who reads: "server" or "client"
  tls,       \* whether the streams are TLS
  message,   \* the message under way
  outbound,  \* HttpStream::outbound of the writer
  written,   \* HttpStream::written
  session,   \* what the TLS session of the writer still has to write
  writer,    \* the writing end: "open", "closing", "closed", or "cut" by a failure
  network,   \* units between the two sockets
  inbound,   \* HttpStream::inbound of the reader
  verdict    \* what the reader made of the message

vars == <<role, tls, message, outbound, written, session, writer, network, inbound, verdict>>
-----------------------------------------------------------------------------
(* What is on the wire                                                     *)

\* WireFormat::serialize: the one Content-Length is that of the body, whatever
\* headers it is given, and nothing is chunked.
serialize(body) == <<Unit("line", 1), Unit("length", Len(body)), End>> \o Octets(body)

\* A message of this crate's writers.
Written(body) ==
  [head |-> "ok", framing |-> <<Unit("length", Len(body))>>, body |-> body,
   chunks |-> <<>>, trailer |-> "ok"]

Total(sizes) == FoldSeq(LAMBDA x, y : x + y, 0, sizes)

Chunk(m, i) ==
  LET from == Total(SubSeq(m.chunks, 1, i - 1))
  IN  <<Unit("size", m.chunks[i])>>
        \o Octets(SubSeq(m.body, from + 1, from + m.chunks[i])) \o <<Unit("crlf", 0)>>

\* Any sender's message.
Wire(m) ==
  (CASE m.head = "ok" -> <<Unit("line", 1)>>
     [] m.head = "unusable" -> <<Unit("line", 0)>>
     [] OTHER -> <<Unit("line", 1), Unit(m.head, 0)>>)
  \o m.framing \o <<End>>
  \o (IF \E i \in DOMAIN m.framing : m.framing[i].type = "chunked"
      THEN FlattenSeq([i \in DOMAIN m.chunks |-> Chunk(m, i)]) \o <<Unit("size", 0)>>
             \o (IF m.trailer = "ok" THEN <<End>> ELSE <<Unit(m.trailer, 0), End>>)
      ELSE Octets(m.body))

Init ==
  /\ \/ role = "server" /\ message \in Requests
     \/ role = "client" /\ message \in Responses
  /\ tls \in BOOLEAN
  /\ outbound = IF message = Written(message.body) THEN serialize(message.body) ELSE Wire(message)
  /\ written = 0
  /\ session = <<>>
  /\ writer = "open"
  /\ network = <<>>
  /\ inbound = <<>>
  /\ verdict = None
-----------------------------------------------------------------------------
(* Parsing                                                                 *)

Error(kind) == [type |-> kind, body |-> <<>>]
Partial == Error("Partial")
Complete(body) == [type |-> "Complete", body |-> body]

\* httparse on a head or on trailers: the first unit that decides.
Stop(buf) == SelectInSeq(buf, LAMBDA u : u.type \in {"end", "bad", "many"})

Parsed(buf) ==
  IF Stop(buf) = 0 THEN "Partial"
  ELSE [end |-> "Complete", bad |-> "Malformed", many |-> "HeaderCountExceeded"][buf[Stop(buf)].type]

\* ChunkedBody::decode: size lines and chunks from the start of buf; a chunk
\* counts once the line end after it is there.
decode(buf) ==
  LET chunk[at \in 1 .. Len(buf) + 1, got \in 0 .. MaxBody] ==
        LET size == buf[at].n
            end == at + size + 1
            rest == chunk[end + 1, got + size]
            trailer == Parsed(SubSeq(buf, at + 1, Len(buf)))
        IN  IF at > Len(buf) THEN Partial
            ELSE IF buf[at].type # "size" THEN Error("Malformed")
            ELSE IF size = 0 THEN IF trailer = "Complete" THEN Complete(<<>>) ELSE Error(trailer)
            ELSE IF size > MaxBody - got THEN Error("SizeExceeded")
            ELSE IF end > Len(buf) THEN Partial
            ELSE IF buf[end].type # "crlf" THEN Error("Malformed")
            ELSE [rest EXCEPT !.body = SubSeq(buf, at + 1, end - 1) \o @]
  IN  chunk[1, 0]

\* The framing headers of a head.
Has(head, types) == \E i \in DOMAIN head : head[i].type \in types
lengths == {"length", "badlength"}
encodings == {"chunked", "other"}

\* BodyFraming::of and read: the body a head announces, in buf after the head.
\* A head with neither header has the body Unframed.
read_body(head, buf, unframed) ==
  LET length == head[SelectInSeq(head, LAMBDA u : u.type \in lengths)]
      encoding == head[SelectInSeq(head, LAMBDA u : u.type \in encodings)]
  IN  IF Has(head, lengths) /\ Has(head, encodings) THEN Error("Malformed")
      ELSE IF Has(head, encodings)
        THEN IF encoding.type = "chunked" THEN decode(buf) ELSE Error("Malformed")
      ELSE IF ~ Has(head, lengths) THEN unframed
      ELSE IF length.type = "badlength" THEN Error("Malformed")
      ELSE IF length.n > MaxBody THEN Error("SizeExceeded")
      ELSE IF Len(buf) < length.n THEN Partial
      ELSE Complete(SubSeq(buf, 1, length.n))

\* The message is built from a complete body.
Built(head, body) ==
  IF body.type = "Complete" /\ head[1] = Unit("line", 0) THEN Error("Malformed") ELSE body

\* A parser's first step, the head; what follows it is read as body.
HeadOf(buf) == SubSeq(buf, 1, Stop(buf))
AfterHead(buf) == SubSeq(buf, Stop(buf) + 1, Len(buf))
Parse(buf, body) ==
  IF Parsed(buf) # "Complete" THEN Error(Parsed(buf)) ELSE Built(HeadOf(buf), body)

RequestBody(head, buf) ==
  IF Has(head, encodings)
  THEN Error(IF Has(head, lengths) THEN "Malformed" ELSE "LengthRequired")
  ELSE read_body(head, buf, Complete(<<>>))

ResponseBody(head, buf) == read_body(head, buf, Error("UnboundedBody"))

\* RequestReader::parse and ResponseReader::parse
RequestReader(buf) == Parse(buf, RequestBody(HeadOf(buf), AfterHead(buf)))
ResponseReader(buf) == Parse(buf, ResponseBody(HeadOf(buf), AfterHead(buf)))

IsText(body) == \A i \in DOMAIN body : body[i] # 0

Values(units) == [i \in DOMAIN units |-> units[i].n]

\* What a server answers what it cannot read with.
StatusOf ==
  [HeaderCountExceeded |-> 431, Malformed |-> 400, SizeExceeded |-> 413, LengthRequired |-> 411]

Message(body) == [type |-> "Message", status |-> 0, body |-> body]
Refused(status) == [type |-> "Refused", status |-> status, body |-> <<>>]
Failed == [type |-> "Failed", status |-> 0, body |-> <<>>]

\* pump_connections after a read: None while more is awaited.
ServerVerdict(buf) ==
  LET parsed == RequestReader(buf)
  IN  CASE parsed.type = "Complete" ->
             IF IsText(Values(parsed.body)) THEN Message(Values(parsed.body)) ELSE Refused(400)
        [] parsed.type = "Partial" -> IF Len(buf) > MaxBody THEN Refused(413) ELSE None
        [] OTHER -> Refused(StatusOf[parsed.type])

\* drive_join after a read.
ClientVerdict(buf) ==
  LET parsed == ResponseReader(buf)
  IN  CASE parsed.type = "Complete" ->
             IF IsText(Values(parsed.body)) THEN Message(Values(parsed.body)) ELSE Failed
        [] parsed.type = "Partial" -> IF Len(buf) > MaxBody THEN Failed ELSE None
        [] OTHER -> Failed
-----------------------------------------------------------------------------
(* The writing end                                                         *)

Prefix(s, n) == SubSeq(s, 1, n)
Rest(s, n) == SubSeq(s, n + 1, Len(s))

\* flush_session, as much as the socket takes.
Flushed(s, k) ==
  /\ session' = Rest(s, k)
  /\ network' = network \o Prefix(s, k)

\* HttpStream::drain: n more units are accepted, by the socket or by the TLS
\* session, which passes k on.  A server closes after its response.
drain(n, k) ==
  LET accepted == SubSeq(outbound, written + 1, written + n)
      complete == written + n = Len(outbound)
  IN  /\ writer = "open"
      /\ n \in 1 .. Len(outbound) - written
      /\ IF tls THEN k \in 0 .. Len(session) + n /\ Flushed(session \o accepted, k)
         ELSE k = n /\ network' = network \o accepted /\ UNCHANGED session
      /\ outbound' = IF complete THEN <<>> ELSE outbound
      /\ written' = IF complete THEN 0 ELSE written + n
      /\ writer' = IF complete /\ role = "client" THEN "closing" ELSE writer
      /\ UNCHANGED <<role, tls, message, inbound, verdict>>

\* flush, and the flush that every read of a TLS stream ends with.
flush(k) ==
  /\ writer # "cut"
  /\ k \in 1 .. Len(session)
  /\ Flushed(session, k)
  /\ UNCHANGED <<role, tls, message, outbound, written, writer, inbound, verdict>>

\* Mutant: the stream is done once close_notify was asked for.
close_early ==
  /\ writer = "closing"
  /\ writer' = "closed"
  /\ UNCHANGED <<role, tls, message, outbound, written, session, network, inbound, verdict>>

\* HttpStream::close is Done when the TLS session has nothing to write; the
\* connection is dropped then.
close ==
  /\ writer = "closing"
  /\ session = <<>>
  /\ writer' = "closed"
  /\ UNCHANGED <<role, tls, message, outbound, written, session, network, inbound, verdict>>

\* The writer fails or goes away at any time.
Cut ==
  /\ writer \in {"open", "closing"}
  /\ writer' = "cut"
  /\ UNCHANGED <<role, tls, message, outbound, written, session, network, inbound, verdict>>
-----------------------------------------------------------------------------
(* The reading end                                                         *)

fill(n) ==
  /\ verdict = None
  /\ n \in 1 .. ReadChunk
  /\ n <= Len(network)
  /\ inbound' = inbound \o Prefix(network, n)
  /\ network' = Rest(network, n)
  /\ verdict' = IF role = "server" THEN ServerVerdict(inbound') ELSE ClientVerdict(inbound')
  /\ UNCHANGED <<role, tls, message, outbound, written, session, writer>>

\* The end of the stream is seen after everything before it was read.
Closed ==
  /\ verdict = None
  /\ network = <<>>
  /\ writer \in {"closed", "cut"}
  /\ verdict' = Failed
  /\ UNCHANGED <<role, tls, message, outbound, written, session, writer, network, inbound>>

Next ==
  \/ \E n \in 1 .. Len(outbound), k \in 0 .. Len(outbound) : drain(n, k)
  \/ \E k \in 1 .. Len(session) : flush(k)
  \/ close
  \/ Cut
  \/ \E n \in 1 .. ReadChunk : fill(n)
  \/ Closed

Spec == Init /\ [][Next]_vars
-----------------------------------------------------------------------------
(* What a message means, whatever pieces it comes in                       *)

Announced(m) == IF m.framing # <<>> /\ m.framing[1].type = "length" THEN m.framing[1].n ELSE 0

\* The body a message stands for; octets past the announced length are not
\* part of it.
Body(m) == IF m.framing = <<Unit("length", Announced(m))>> /\ Announced(m) <= Len(m.body)
           THEN SubSeq(m.body, 1, Announced(m)) ELSE m.body

TooLarge(m) == Len(Wire(m)) > MaxBody \/ Announced(m) > MaxBody

\* A message that is in order and whole.
Proper(m) ==
  /\ m.head = "ok"
  /\ IsText(Body(m))
  /\ Len(Body(m)) <= MaxBody
  /\ \/ m.framing = <<Unit("length", Len(Body(m)))>>
     \/ m.framing = <<>> /\ role = "server" /\ m.body = <<>>
     \/ /\ m.framing = <<Unit("chunked", 0)>>
        /\ role = "client"
        /\ m.trailer = "ok"

\* A message whose sender stops before the end it announced.
Unfinished(m) ==
  /\ m.head \in {"ok", "unusable"}
  /\ m.framing = <<Unit("length", Announced(m))>>
  /\ Len(m.body) < Announced(m)

\* A message is read as it was meant, however it was cut into pieces: nothing
\* of it is lost, doubled or taken for something else, nor lost when the writer
\* closes the stream after it.  One in order is not read only if the connection
\* fails, or if it is larger than MaxBody together with its head, when it
\* depends on the pieces (RequestReader, ResponseReader, HttpStream::close, the
\* limit on what is Partial in pump_connections and drive_join).
ReadAsMeant ==
  verdict # None =>
    /\ verdict.type = "Message" => Proper(message) /\ verdict.body = Body(message)
    /\ verdict.type # "Message" => ~ Proper(message) \/ TooLarge(message) \/ writer = "cut"
    /\ verdict = Refused(413) => TooLarge(message)

\* A message that was read to its end has a verdict: no reader waits for more
\* than was sent (Parsed::Partial).
WholeIsDecided == verdict = None /\ inbound = Wire(message) => Unfinished(message)
=============================================================================
