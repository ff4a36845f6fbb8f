---------------------------- MODULE MCOfflinePay ----------------------------
(***************************************************************************)
(* Instances of OfflinePay for TLC.  t1 and t2 are tokens of alice.  x1    *)
(* and x2 compete for t1, x1 leaving change and x2 none; x3 and x5 compete *)
(* for t2, and x5 carries the nonce of x1.  x7 transfers more than its     *)
(* token holds.                                                            *)
(***************************************************************************)
EXTENDS OfflinePay, TLC

CONSTANTS alice, bob,                      \* accounts
          t1, t2,                          \* tokens
          x1, x2, x3, x5, x7,              \* payments
          c1, c2, c4, c5, c7, c9           \* invocations of Settle

MCOwner == [t \in Tokens |-> alice]
MCValue == [t \in Tokens |-> IF t = t1 THEN 3 ELSE 2]
MCTokenOf == [x \in Txns |-> IF x \in {x3, x5} THEN t2 ELSE t1]
MCNonces == 1 .. 4
MCNonceOf == [x \in Txns |-> CASE x \in {x1, x5} -> 1 [] x = x2 -> 2 [] x = x3 -> 3
                               [] x = x7 -> 4]
MCAmount == [x \in Txns |-> CASE x = x1 -> 2 [] x = x2 -> 3 [] x = x7 -> 4 [] OTHER -> 1]
MCReceiver == [x \in Txns |-> bob]
MCInitialBalance == [a \in Accounts |-> IF a = alice THEN 5 ELSE 2]
MCEnvelope == [c \in Calls |-> CASE c \in {c1, c2} -> x1 [] c = c4 -> x2 [] c = c5 -> x3
                                 [] c = c7 -> x5 [] c = c9 -> x7]

\* Headers as the devices write them, and an instance in which that of c2 names
\* the placeholder intent of t1.
MCHeader == MCEnvelope
MCHeaderOfOther == [c \in Calls |-> IF c = c2 THEN t1 ELSE MCEnvelope[c]]

\* The scanners are alike.
ScannerSymmetry == Permutations(Scanners)
=============================================================================
