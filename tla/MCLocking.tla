----------------------------- MODULE MCLocking ------------------------------
(***************************************************************************)
(* Instances of Locking for TLC: payments in both directions between two   *)
(* accounts, two of them with the same token, the release of that token,   *)
(* and a new token for one of the accounts.                                *)
(***************************************************************************)
EXTENDS Locking

CONSTANTS t1, t2, pay1, pay2, back, issue, release

MCWork ==
  [r \in Requests |->
     CASE r \in {pay1, pay2} -> [kind |-> "settle", sender |-> 1, receiver |-> 2, token |-> t1]
       [] r = back    -> [kind |-> "settle", sender |-> 2, receiver |-> 1, token |-> t2]
       [] r = issue   -> [kind |-> "issue", sender |-> 1, receiver |-> 1, token |-> t1]
       [] r = release -> [kind |-> "release", sender |-> 1, receiver |-> 1, token |-> t1]]
=============================================================================
