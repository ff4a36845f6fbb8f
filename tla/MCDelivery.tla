----------------------------- MODULE MCDelivery -----------------------------
(***************************************************************************)
(* Instances of Delivery for TLC.  A payment can be announced both as      *)
(* settled and as failed: of two concurrent requests with the same         *)
(* envelope one settles it and the other one is refused.                   *)
(***************************************************************************)
EXTENDS Delivery, TLC

CONSTANTS v1, w1, w2, r1, r2, settled1, failed1

MCHost == [w \in Workers |-> v1]
MCStreamOf == [f \in Facts |-> IF f = failed1 THEN "payment.failed" ELSE "payment.settled"]
MCPaymentOf == [f \in Facts |-> "x1"]
MCStatusOf == [f \in Facts |-> IF f = failed1 THEN "FAILED" ELSE "SETTLED"]

\* The workers of a server do the same, and so do the requests to replay.
Symmetry == Permutations(Workers) \cup Permutations(Replayers)
=============================================================================
