-------------------------- MODULE MessageTransfer --------------------------
(***************************************************************************)
(* What a socket connection promises its two ends, in one direction: every *)
(* message arrives whole, once and in order, or the receiver is told of a  *)
(* failure.  After a failure a message may be missing, and one may arrive  *)
(* without its beginning; none arrives twice, late or with another's data. *)
(***************************************************************************)
EXTENDS Naturals, Sequences

VARIABLES
  sent,       \* the messages the sender has begun to send
  delivered,  \* what the receiver has been given
  next,       \* the first message that may still be delivered
  failed      \* has a receive reported a failure?

transferVars == <<sent, delivered, next, failed>>

Init == sent = <<>> /\ delivered = <<>> /\ next = 1 /\ failed = FALSE

Send ==
  /\ Len(sent') = Len(sent) + 1
  /\ sent = SubSeq(sent', 1, Len(sent))
  /\ UNCHANGED <<delivered, next, failed>>

DropFirst(n, message) == SubSeq(message, n + 1, Len(message))

Deliver ==
  \E k \in next .. Len(sent) :
    \E n \in 0 .. Len(sent[k]) - 1 :
      /\ ~failed => k = next /\ n = 0
      /\ delivered' = Append(delivered, DropFirst(n, sent[k]))
      /\ next' = k + 1
      /\ UNCHANGED <<sent, failed>>

Fail == failed' = TRUE /\ UNCHANGED <<sent, delivered, next>>

Next == Send \/ Deliver \/ Fail

Spec == Init /\ [][Next]_transferVars

===========================================================================
