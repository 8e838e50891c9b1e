----------------------------- MODULE FrameQueue -----------------------------
(***************************************************************************)
(* What AVCEncoder promises to the receiver of its callback: the frames it *)
(* accepts come out in the order they were captured, each at most once and *)
(* each with "the time stamp of the captured image" (AVCEncoder.h); those  *)
(* not yet delivered may be discarded together.  A frame is its capture    *)
(* time.                                                                   *)
(***************************************************************************)
EXTENDS Naturals, Sequences

CONSTANT Times   \* the times a frame can be captured at

VARIABLES
  pending,    \* frames accepted, in order
  delivered   \* what the callback was given: [frame, pts]

Init == pending = <<>> /\ delivered = <<>>

Accept(t) ==
  /\ \A i \in DOMAIN pending : pending[i] < t
  /\ \A i \in DOMAIN delivered : delivered[i].frame < t
  /\ pending' = Append(pending, t) /\ UNCHANGED delivered

Deliver ==
  /\ pending # <<>>
  /\ pending' = Tail(pending)
  /\ delivered' = Append(delivered, [frame |-> Head(pending), pts |-> Head(pending)])

Discard == pending' = <<>> /\ UNCHANGED delivered

Next == (\E t \in Times : Accept(t)) \/ Deliver \/ Discard

Spec == Init /\ [][Next]_<<pending, delivered>>
=============================================================================
