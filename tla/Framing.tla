------------------------------ MODULE Framing ------------------------------
(***************************************************************************)
(* Messages over the reliable data channel of a session: segmentation and  *)
(* reassembly (nethernet/src/protocol/message.rs), and the two ends of the *)
(* channel that use them (Session::send and the reads of the channels in   *)
(* nethernet/src/session/mod.rs).                                          *)
(*                                                                         *)
(* Bytes are abstracted to segments: one carries the ordinal of the        *)
(* message it is cut from, its place in it and its length.  A peer that    *)
(* is not this implementation may send any segments at all.  SCTP (crate   *)
(* rtc) delivers the stream in order; its state does not change within one *)
(* call of send, so the segments of a message are written all or none.     *)
(***************************************************************************)
EXTENDS Naturals, Sequences

CONSTANTS
  MaxMessageSize,  \* MAX_MESSAGE_SIZE
  U8Max,           \* largest value of a u8, 255 in the code
  Lengths,         \* lengths of messages the application sends
  ForeignLengths,  \* lengths of segments a foreign peer sends
  MaxSent          \* bound: messages sent, or segments of a foreign peer

ASSUME FramingAssumption ==
  /\ MaxMessageSize \in Nat \ {0}
  /\ U8Max \in Nat \ {0}
  /\ Lengths \subseteq Nat
  /\ ForeignLengths \subseteq Nat
  /\ MaxSent \in Nat

MaxReassembledSize == (U8Max + 1) * MaxMessageSize

Segments == [of : Nat, at : Nat, remaining : 0 .. U8Max, len : Nat]

VARIABLES
  foreign,    \* whether the peer that sends is a foreign one
  accepted,   \* lengths of the messages send returned Ok for, in order
  wire,       \* segments under way
  expected,   \* Message::expected_segments
  data,       \* Message::data, as the sequence of segments put into it
  size,       \* its length in bytes
  taken,      \* history: ordinal of the last message the receiver is done with
  delivered,  \* ordinals of the messages given to the application
  whole       \* history: every message delivered was in one piece

framingVars == <<foreign, accepted, wire, expected, data, size, taken, delivered, whole>>

FramingInit ==
  /\ foreign \in BOOLEAN
  /\ accepted = <<>>
  /\ wire = <<>>
  /\ expected = 0
  /\ data = <<>>
  /\ size = 0
  /\ taken = 0
  /\ delivered = <<>>
  /\ whole = TRUE
-----------------------------------------------------------------------------
(* The sender                                                              *)

SegmentCount(len) ==
  IF len <= MaxMessageSize THEN 1 ELSE (len + MaxMessageSize - 1) \div MaxMessageSize

\* Mutant: the body of the last segment is the remainder of the division.
split_into_segments_remainder(of, len) ==
  LET n == SegmentCount(len)
  IN  [i \in 1 .. n |->
        [of |-> of, at |-> i, remaining |-> n - i,
         len |-> IF i < n THEN MaxMessageSize ELSE len % MaxMessageSize]]

split_into_segments(of, len) ==
  LET n == SegmentCount(len)
  IN  [i \in 1 .. n |->
        [of |-> of, at |-> i, remaining |-> n - i,
         len |-> IF i < n THEN MaxMessageSize ELSE len - (n - 1) * MaxMessageSize]]

\* Session::send; a message of too many segments is refused.
Send(len) ==
  /\ ~ foreign
  /\ Len(accepted) < MaxSent
  /\ SegmentCount(len) <= U8Max
  /\ accepted' = Append(accepted, len)
  /\ wire' = wire \o split_into_segments(Len(accepted) + 1, len)
  /\ UNCHANGED <<foreign, expected, data, size, taken, delivered, whole>>

\* A foreign peer numbers its segments as it likes.
ForeignSend(remaining, len) ==
  /\ foreign
  /\ Len(accepted) < MaxSent
  /\ accepted' = Append(accepted, len)
  /\ wire' = Append(wire, [of |-> Len(accepted) + 1, at |-> 1,
                           remaining |-> remaining, len |-> len])
  /\ UNCHANGED <<foreign, expected, data, size, taken, delivered, whole>>
-----------------------------------------------------------------------------
(* The receiver: Message::add_segment, one disjunct for each way out       *)

\* MessageSegment::decode: a count and at least one byte.
decode(s) == s.len > 0

\* What expected_segments is once the first segment of a message has set it.
Expected(s) == IF expected = 0 /\ s.remaining > 0 THEN s.remaining + 1 ELSE expected

\* A segment that is the next of its message, or the only one of its own.
InSequence(s) ==
  /\ Expected(s) <= U8Max
  /\ Expected(s) # 0 => s.remaining = Expected(s) - 1

Fits(s) == size + s.len <= MaxReassembledSize

Reset == expected' = 0 /\ data' = <<>> /\ size' = 0

\* One message: segments that count down to 0; of a foreign sender, all that
\* arrived from the first to the last and had a body; of this implementation,
\* all those of one message.
InOnePiece(q) ==
  /\ \A i \in 1 .. Len(q) : q[i].remaining = Len(q) - i
  /\ foreign => \A j \in q[1].of .. q[Len(q)].of :
                  accepted[j] > 0 => \E i \in 1 .. Len(q) : q[i].of = j
  /\ ~ foreign => \A i \in 1 .. Len(q) : q[i].of = q[1].of /\ q[i].at = i

\* The count would not fit a u8: nothing has changed yet.
CountOutOfRange(s) ==
  /\ Expected(s) > U8Max
  /\ UNCHANGED <<expected, data, size, delivered, whole>>

\* Mutant: the segments buffered so far are kept.
OutOfSequence_keeps(s) ==
  /\ Expected(s) <= U8Max
  /\ ~ InSequence(s)
  /\ expected' = 0
  /\ UNCHANGED <<data, size, delivered, whole>>

OutOfSequence(s) ==
  /\ Expected(s) <= U8Max
  /\ ~ InSequence(s)
  /\ Reset
  /\ UNCHANGED <<delivered, whole>>

TooLarge(s) ==
  /\ InSequence(s)
  /\ ~ Fits(s)
  /\ Reset
  /\ UNCHANGED <<delivered, whole>>

Buffered(s) ==
  /\ InSequence(s)
  /\ Fits(s)
  /\ s.remaining > 0
  /\ expected' = Expected(s) - 1
  /\ data' = Append(data, s)
  /\ size' = size + s.len
  /\ UNCHANGED <<delivered, whole>>

Completed(s) ==
  /\ InSequence(s)
  /\ Fits(s)
  /\ s.remaining = 0
  /\ Reset
  /\ delivered' = Append(delivered, s.of)
  /\ whole' = (whole /\ InOnePiece(Append(data, s)))

add_segment(s) ==
  \/ CountOutOfRange(s)
  \/ OutOfSequence(s)
  \/ TooLarge(s)
  \/ Buffered(s)
  \/ Completed(s)

\* The session reads a segment of the reliable stream.
Receive ==
  /\ wire # <<>>
  /\ wire' = Tail(wire)
  /\ LET s == Head(wire)
     IN  /\ taken' = IF s.remaining = 0 THEN s.of ELSE taken
         /\ IF decode(s) THEN add_segment(s)
            ELSE UNCHANGED <<expected, data, size, delivered, whole>>
  /\ UNCHANGED <<foreign, accepted>>

FramingNext ==
  \/ \E len \in Lengths : Send(len)
  \/ \E remaining \in 0 .. U8Max, len \in ForeignLengths : ForeignSend(remaining, len)
  \/ Receive

FramingSpec == FramingInit /\ [][FramingNext]_framingVars
-----------------------------------------------------------------------------
FramingTypeOK ==
  /\ foreign \in BOOLEAN
  /\ accepted \in Seq(Nat)
  /\ wire \in Seq(Segments)
  /\ expected \in 0 .. U8Max
  /\ data \in Seq(Segments)
  /\ size \in 0 .. MaxReassembledSize
  /\ taken \in Nat
  /\ delivered \in Seq(Nat)
  /\ whole \in BOOLEAN

\* Whatever a peer sends, a message is never put together from segments of
\* two, and a message that breaks off leaves nothing for the next one
\* (Message::add_segment).
DeliveredWhole ==
  /\ whole
  /\ expected = 0 <=> data = <<>>
  /\ expected # 0 => expected = data[Len(data)].remaining

\* Of what a foreign peer sends nothing is promised.
Channel == INSTANCE MessageChannel WITH
  accepted <- IF foreign THEN <<>> ELSE accepted,
  taken <- IF foreign THEN 0 ELSE taken,
  delivered <- IF foreign THEN <<>> ELSE delivered

\* The two ends implement the channel of whole messages: every message send
\* took arrives once and in order, whatever its length up to U8Max segments.
ImplementsChannel == Channel!Spec
=============================================================================
