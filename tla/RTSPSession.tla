----------------------------- MODULE RTSPSession -----------------------------
(***************************************************************************)
(* What the set-up of a publishing session promises its caller, whatever   *)
(* requests, retries and answers it takes: the caller is told that it is   *)
(* recording only after the server has accepted every step of the          *)
(* handshake, and is told that the password is wrong only when it may be.  *)
(* The handshake's steps are numbered 1..NumSteps.                         *)
(***************************************************************************)
EXTENDS Naturals

CONSTANT NumSteps  \* a positive number: the requests the server has to accept

VARIABLES
  phase,    \* what the caller knows
  accepted, \* how many steps the server has accepted
  deniable  \* whether a wrong password is a possible cause of a failure

vars == <<phase, accepted, deniable>>

Init == phase = "idle" /\ accepted = 0 /\ deniable \in BOOLEAN

Dial == phase = "idle" /\ phase' = "connecting" /\ UNCHANGED <<accepted, deniable>>

\* The server may accept the request in flight after the caller has given up.
Accept ==
  /\ phase \in {"connecting", "failed", "denied"}
  /\ accepted < NumSteps
  /\ accepted' = accepted + 1
  /\ UNCHANGED <<phase, deniable>>

Record ==
  /\ phase = "connecting" /\ accepted = NumSteps
  /\ phase' = "recording"
  /\ UNCHANGED <<accepted, deniable>>

Fail == phase \in {"idle", "connecting"} /\ phase' = "failed" /\ UNCHANGED <<accepted, deniable>>

Deny ==
  /\ phase = "connecting" /\ deniable
  /\ phase' = "denied"
  /\ UNCHANGED <<accepted, deniable>>

Close == phase = "recording" /\ phase' = "closed" /\ UNCHANGED <<accepted, deniable>>

\* The next attempt starts from nothing.
Again ==
  /\ phase \in {"failed", "denied", "closed"}
  /\ phase' = "idle" /\ accepted' = 0 /\ deniable' \in BOOLEAN

Next == Dial \/ Accept \/ Record \/ Fail \/ Deny \/ Close \/ Again

Spec == Init /\ [][Next]_vars
=============================================================================
