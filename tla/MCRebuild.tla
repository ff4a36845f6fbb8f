----------------------------- MODULE MCRebuild ------------------------------
(***************************************************************************)
(* Instances of Rebuild for TLC: a payment that is announced as settled and*)
(* as failed and whose failure is diagnosed, and one that fails.           *)
(***************************************************************************)
EXTENDS Rebuild

CONSTANTS v1, w1, settled1, failed1, diagnosed1, failed2

MCHost == [w \in Workers |-> v1]
MCStreamOf == [f \in Facts |-> CASE f = settled1 -> "payment.settled"
                                 [] f = diagnosed1 -> "payment.recovery"
                                 [] OTHER -> "payment.failed"]
MCPaymentOf == [f \in Facts |-> IF f = failed2 THEN "x2" ELSE "x1"]
MCStatusOf == [f \in Facts |-> CASE f = settled1 -> "SETTLED"
                                 [] f = diagnosed1 -> "none"
                                 [] OTHER -> "FAILED"]
=============================================================================
