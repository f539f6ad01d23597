------------------------------ MODULE TRBQueue ------------------------------
(***************************************************************************)
(* What a TRB ring promises to its two sides: a first-in first-out queue.  *)
(* The consumer receives every TRB once, in the order in which they were   *)
(* sent.  Ring and EventRing implement this specification.                 *)
(***************************************************************************)
EXTENDS Naturals, Sequences

CONSTANT TRBs   \* the TRBs that can be sent

VARIABLES
  sent,       \* every TRB sent so far
  received    \* every TRB received so far

Init == sent = <<>> /\ received = <<>>

Send ==
  /\ \E trb \in TRBs : sent' = Append(sent, trb)
  /\ UNCHANGED received

Receive ==
  /\ Len(received) < Len(sent)
  /\ received' = Append(received, sent[Len(received) + 1])
  /\ UNCHANGED sent

Next == Send \/ Receive

Spec == Init /\ [][Next]_<<sent, received>>
=============================================================================
