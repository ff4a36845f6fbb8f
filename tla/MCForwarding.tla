---------------------------- MODULE MCForwarding ----------------------------
(***************************************************************************)
(* Instances of Forwarding for TLC: d1 and d2 are copies of an envelope at *)
(* the same relay.                                                         *)
(***************************************************************************)
EXTENDS Forwarding

CONSTANTS alice, bob, t1, x1, r1, r2, d1, d2

MCOwner == [t \in Tokens |-> alice]
MCValue == [t \in Tokens |-> 2]
MCTokenOf == [x \in Txns |-> t1]
MCNonceOf == [x \in Txns |-> 1]
MCAmount == [x \in Txns |-> 1]
MCReceiver == [x \in Txns |-> bob]
MCInitialBalance == [a \in Accounts |-> 2]
MCRelayOf == [d \in Deliveries |-> r1]
MCPaymentOf == [d \in Deliveries |-> x1]
MCCalls == Deliveries \X (1 .. RetryLimit)
MCEnvelope == [c \in MCCalls |-> MCPaymentOf[c[1]]]
=============================================================================
