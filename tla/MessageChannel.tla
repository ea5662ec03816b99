--------------------------- MODULE MessageChannel ---------------------------
(***************************************************************************)
(* What the reliable data channel promises its two applications, without   *)
(* segments: messages arrive whole, once and in the order in which send    *)
(* took them.  A message without bytes is taken and never arrives: a       *)
(* segment with an empty body is invalid (protocol/message.rs).            *)
(***************************************************************************)
EXTENDS Naturals, Sequences

CONSTANT Lengths  \* lengths of messages

VARIABLES
  accepted,   \* lengths of the messages send returned Ok for, in order
  taken,      \* how many of them the receiver is done with
  delivered   \* ordinals of the messages given to the application

vars == <<accepted, taken, delivered>>

Init ==
  /\ accepted = <<>>
  /\ taken = 0
  /\ delivered = <<>>

Send(len) ==
  /\ accepted' = Append(accepted, len)
  /\ UNCHANGED <<taken, delivered>>

Deliver ==
  /\ taken < Len(accepted)
  /\ taken' = taken + 1
  /\ delivered' = IF accepted[taken + 1] = 0 THEN delivered
                  ELSE Append(delivered, taken + 1)
  /\ UNCHANGED accepted

Next ==
  \/ \E len \in Lengths : Send(len)
  \/ Deliver

Spec == Init /\ [][Next]_vars
=============================================================================
