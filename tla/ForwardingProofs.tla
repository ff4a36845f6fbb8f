-------------------------- MODULE ForwardingProofs --------------------------
(***************************************************************************)
(* Relays and recovery workers, for any number of servers, envelopes and   *)
(* payments, all limits, and any number of faults.                         *)
(***************************************************************************)
EXTENDS Forwarding, FiniteSetTheorems, TLAPS

-----------------------------------------------------------------------------
(***************************************************************************)
(* The relays                                                              *)
(***************************************************************************)
RelayTypeOK ==
  /\ escrow \in [Tokens -> Txns \cup {"FREE", "LOCKED", "RETURNED"}]
  /\ step \in [Deliveries -> {"new", "dropped", "received", "forward", "calling", "acked",
                              "failed", "ack", "nack", "lost"}]
  /\ attempt \in [Deliveries -> Nat]
  /\ relayRow \in [Txns -> {"NONE", "RECEIVED", "FORWARDING", "ACK_SETTLED", "NACK_FAILED"}]

\* An envelope is forwarded RetryLimit times at most, so every attempt is one of
\* the requests that the bank answers for that payment.
WithinLimit ==
  \A d \in Deliveries :
    /\ step[d] \in {"new", "received"} => attempt[d] = 0
    /\ step[d] = "forward" => attempt[d] < RetryLimit
    /\ step[d] \in {"calling", "failed"} => attempt[d] \in 1 .. RetryLimit

\* A relay that has been told SETTLED and has not recorded it yet.
ToldMeansPaid == \A d \in Deliveries : step[d] = "acked" => Paid(PaymentOf[d])

RelayInv == RelayTypeOK /\ WithinLimit /\ ToldMeansPaid /\ AckMeansPaid /\ QuietRowIsFinal

\* Escrow never takes a payment back.
LEMMA PaidForGood ==
  ASSUME RelayTypeOK, NEW x \in Txns, Paid(x),
         \/ \E t \in Tokens : Lock(t) \/ Return(t)
         \/ \E y \in Txns : Pay(y)
         \/ UNCHANGED escrow
  PROVE  Paid(x)'
<1>1. escrow[TokenOf[x]] = x /\ x \notin {"FREE", "LOCKED", "RETURNED"} /\ TokenOf[x] \in Tokens
  BY EscrowAssumption, Zenon DEF Paid
<1>2. ASSUME NEW t \in Tokens, Lock(t) \/ Return(t) PROVE Paid(x)'
  BY <1>1, <1>2, Zenon DEF Lock, Return, Paid, RelayTypeOK
<1>3. ASSUME NEW y \in Txns, Pay(y) PROVE Paid(x)'
  BY <1>1, <1>3, Zenon DEF Pay, Paid, RelayTypeOK
<1> QED BY <1>1, <1>2, <1>3, Zenon DEF Paid

\* A step of the bank keeps the relays' invariant: it moves no relay.
LEMMA BankKeeps ==
  ASSUME RelayInv, UNCHANGED <<step, attempt, relayRow, missed>>,
         \/ \E t \in Tokens : Lock(t) \/ Return(t)
         \/ \E y \in Txns : Pay(y)
         \/ UNCHANGED escrow
  PROVE  RelayInv'
<1>1. \A x \in Txns : Paid(x) => Paid(x)'
  BY PaidForGood, Zenon DEF RelayInv
<1>2. escrow' \in [Tokens -> Txns \cup {"FREE", "LOCKED", "RETURNED"}]
  <2>1. ASSUME NEW t \in Tokens, Lock(t) \/ Return(t) PROVE escrow' \in [Tokens -> Txns \cup {"FREE", "LOCKED", "RETURNED"}]
    BY <2>1, Zenon DEF Lock, Return, RelayInv, RelayTypeOK
  <2>2. ASSUME NEW y \in Txns, Pay(y) PROVE escrow' \in [Tokens -> Txns \cup {"FREE", "LOCKED", "RETURNED"}]
    BY <2>2, Zenon DEF Pay, RelayInv, RelayTypeOK
  <2> QED BY <2>1, <2>2, Zenon DEF RelayInv, RelayTypeOK
<1>3. RelayTypeOK' /\ WithinLimit'
  BY <1>2, Zenon DEF RelayInv, RelayTypeOK, WithinLimit
<1>4. ToldMeansPaid' /\ AckMeansPaid'
  BY <1>1, RelayAssumption, Zenon DEF RelayInv, ToldMeansPaid, AckMeansPaid
<1>5. QuietRowIsFinal'
  BY Zenon DEF RelayInv, QuietRowIsFinal, Accepted
<1> QED BY <1>3, <1>4, <1>5, Zenon DEF RelayInv

\* The row stays final for good reasons when one delivery d goes to step s: the
\* relay that ends its work writes a final status unless the statement fails, and
\* one that writes another status goes on.
LEMMA RowKeeps ==
  ASSUME RelayInv, NEW d \in Deliveries, NEW s, Goto(d, s), missed \subseteq missed',
         \A x \in Txns \ {PaymentOf[d]} : relayRow'[x] = relayRow[x],
         s \in {"ack", "nack"} =>
           \/ PaymentOf[d] \in missed'
           \/ relayRow'[PaymentOf[d]] \in {"ACK_SETTLED", "NACK_FAILED"},
         s \in {"new", "dropped"} => step[d] = "new" /\ UNCHANGED relayRow
  PROVE  QuietRowIsFinal'
<1> SUFFICES ASSUME NEW x \in Txns, x \notin missed', Accepted(x)' # {},
                    \A f \in Accepted(x)' : step'[f] \in {"ack", "nack"}
             PROVE  relayRow'[x] \in {"ACK_SETTLED", "NACK_FAILED"}
  BY Zenon DEF QuietRowIsFinal
<1>0. \A f \in Deliveries : step'[f] = IF f = d THEN s ELSE step[f]
  BY Zenon DEF Goto, RelayInv, RelayTypeOK
<1>1. CASE x = PaymentOf[d] /\ s \notin {"new", "dropped"}
  <2>1. d \in Accepted(x)'
    BY <1>0, <1>1, Zenon DEF Accepted
  <2> QED BY <1>0, <1>1, <2>1, Zenon
<1>2. CASE x # PaymentOf[d] \/ s \in {"new", "dropped"}
  <2>1. Accepted(x)' = Accepted(x)
    BY <1>0, <1>2 DEF Accepted
  <2>2. \A f \in Accepted(x) : step'[f] = step[f]
    BY <1>0, <1>2, Zenon DEF Accepted
  <2>3. relayRow'[x] = relayRow[x]
    BY <1>2, Zenon
  <2> QED BY <2>1, <2>2, <2>3, Zenon DEF RelayInv, QuietRowIsFinal
<1> QED BY <1>1, <1>2, Zenon

\* Nothing is said of a payment that Escrow has not said of it.
LEMMA ReceiveKeeps ==
  ASSUME RelayInv, NEW d \in Deliveries, Receive(d), UNCHANGED escrow
  PROVE  RelayInv'
<1>1. PICK s \in {"dropped", "received"} : Goto(d, s)
  BY Zenon DEF Receive
<1>2. step[d] = "new" /\ UNCHANGED <<attempt, relayRow, missed>>
  BY Zenon DEF Receive
<1>3. RelayTypeOK'
  BY <1>1, <1>2, Zenon DEF RelayInv, RelayTypeOK, Goto
<1>4. WithinLimit' /\ ToldMeansPaid' /\ AckMeansPaid'
  BY <1>1, <1>2, Zenon DEF RelayInv, RelayTypeOK, WithinLimit, ToldMeansPaid, AckMeansPaid,
     Paid, Goto
<1>5. QuietRowIsFinal'
  BY <1>1, <1>2, RowKeeps, Zenon
<1> QED BY <1>3, <1>4, <1>5, Zenon DEF RelayInv

\* The steps of a relay that write the row, whether the statement fails or not.
LEMMA RelayKeeps ==
  ASSUME RelayInv, NEW d \in Deliveries, NEW written \in BOOLEAN, RelayStep(d, written),
         UNCHANGED escrow
  PROVE  RelayInv'
<1>0. PaymentOf[d] \in Txns /\ RetryLimit \in Nat \ {0}
  BY RelayAssumption, Zenon
<1> USE DEF RelayInv
<1>1. CASE StartForwarding(d, written)
  <2>1. RelayTypeOK' /\ WithinLimit'
    BY <1>0, <1>1 DEF StartForwarding, Record, Goto, RelayTypeOK, WithinLimit
  <2>2. ToldMeansPaid' /\ AckMeansPaid'
    BY <1>0, <1>1, Zenon DEF StartForwarding, Record, Goto, RelayTypeOK, ToldMeansPaid,
       AckMeansPaid, Paid
  <2>3. QuietRowIsFinal'
    BY <1>0, <1>1, RowKeeps, Zenon DEF StartForwarding, Record, RelayTypeOK
  <2> QED BY <2>1, <2>2, <2>3, Zenon
<1>2. CASE CallSettle(d, written)
  <2>1. RelayTypeOK' /\ WithinLimit'
    BY <1>0, <1>2 DEF CallSettle, Record, Goto, RelayTypeOK, WithinLimit
  <2>2. ToldMeansPaid' /\ AckMeansPaid'
    BY <1>0, <1>2, Zenon DEF CallSettle, Record, Goto, RelayTypeOK, ToldMeansPaid,
       AckMeansPaid, Paid
  <2>3. QuietRowIsFinal'
    BY <1>0, <1>2, RowKeeps, Zenon DEF CallSettle, Record, RelayTypeOK
  <2> QED BY <2>1, <2>2, <2>3, Zenon
<1>3. CASE Acknowledge(d, written)
  <2>1. RelayTypeOK' /\ WithinLimit'
    BY <1>0, <1>3, Zenon DEF Acknowledge, Record, Goto, RelayTypeOK, WithinLimit
  <2>2. ToldMeansPaid' /\ AckMeansPaid'
    BY <1>0, <1>3, Zenon DEF Acknowledge, Record, Goto, RelayTypeOK, ToldMeansPaid,
       AckMeansPaid, Paid
  <2>3. QuietRowIsFinal'
    BY <1>0, <1>3, RowKeeps, Zenon DEF Acknowledge, Record, RelayTypeOK
  <2> QED BY <2>1, <2>2, <2>3, Zenon
<1>4. CASE RetryOrGiveUp(d, written)
  <2>1. RelayTypeOK' /\ WithinLimit'
    BY <1>0, <1>4 DEF RetryOrGiveUp, Record, Goto, RelayTypeOK, WithinLimit
  <2>2. ToldMeansPaid' /\ AckMeansPaid'
    BY <1>0, <1>4 DEF RetryOrGiveUp, Record, Goto, RelayTypeOK, ToldMeansPaid, AckMeansPaid,
       Paid
  <2>3. CASE attempt[d] = RetryLimit
    BY <1>0, <1>4, <2>1, <2>2, <2>3, RowKeeps DEF RetryOrGiveUp, Record, RelayTypeOK
  <2>4. CASE attempt[d] # RetryLimit
    BY <1>0, <1>4, <2>1, <2>2, <2>4, RowKeeps, Zenon DEF RetryOrGiveUp
  <2> QED BY <2>3, <2>4, Zenon
<1> QED BY <1>1, <1>2, <1>3, <1>4, Zenon DEF RelayStep

\* Settle returns: the bank says SETTLED of this payment only when it was made.
LEMMA SettleReturnsKeeps ==
  ASSUME RelayInv, NEW d \in Deliveries, SettleReturns(d)
  PROVE  RelayInv'
<1> DEFINE c == <<d, attempt[d]>>
<1>1. PICK status \in {"SETTLED", "FAILED"} : Answered(d, status) /\ Answer(c, status)
  BY Zenon DEF SettleReturns
<1>2. /\ step[d] = "calling" /\ UNCHANGED <<escrow, attempt, relayRow, missed>>
      /\ Goto(d, IF status = "SETTLED" THEN "acked" ELSE "failed")
  BY <1>1, Zenon DEF Answered, Answer
<1>3. Envelope[c] = PaymentOf[d]
  <2>1. c \in Calls
    BY <1>2, RelayAssumption, Zenon DEF RelayInv, WithinLimit
  <2> QED BY <2>1, RelayAssumption, Zenon
<1>4. status = "SETTLED" => Paid(PaymentOf[d])
  BY <1>1, <1>3, Zenon DEF Answer
<1>5. RelayTypeOK' /\ WithinLimit'
  BY <1>2, Zenon DEF RelayInv, RelayTypeOK, WithinLimit, Goto
<1>6. ToldMeansPaid' /\ AckMeansPaid'
  BY <1>2, <1>4, Zenon DEF RelayInv, RelayTypeOK, ToldMeansPaid, AckMeansPaid, Paid, Goto
<1>7. QuietRowIsFinal'
  BY <1>2, RowKeeps, Zenon
<1> QED BY <1>5, <1>6, <1>7, Zenon DEF RelayInv

\* A relay that stops loses what it was forwarding; nothing else changes.
LEMMA StopKeeps ==
  ASSUME RelayInv, NEW r \in Relays, StopRelay(r), UNCHANGED escrow
  PROVE  RelayInv'
<1>1. /\ UNCHANGED <<attempt, relayRow, missed>>
      /\ step' = [d \in Deliveries |->
                    IF RelayOf[d] = r /\ step[d] \notin {"new", "dropped", "ack", "nack"}
                    THEN "lost" ELSE step[d]]
  BY Zenon DEF StopRelay
<1>2. \A d \in Deliveries :
        /\ step'[d] = step[d] \/ step'[d] = "lost"
        /\ step'[d] \in {"new", "dropped"} <=> step[d] \in {"new", "dropped"}
        /\ step'[d] \in {"ack", "nack"} => step[d] = step'[d]
  BY <1>1, Zenon
<1>3. RelayTypeOK'
  BY <1>1, Zenon DEF RelayInv, RelayTypeOK
<1>4. WithinLimit' /\ ToldMeansPaid' /\ AckMeansPaid'
  BY <1>1, <1>2, Zenon DEF RelayInv, WithinLimit, ToldMeansPaid, AckMeansPaid, Paid
<1>5. QuietRowIsFinal'
  <2>1. \A x \in Txns : Accepted(x)' = Accepted(x)
    BY <1>2, Zenon DEF Accepted
  <2>2. \A x \in Txns : \A d \in Accepted(x) : step'[d] \in {"ack", "nack"} => step[d] \in {"ack", "nack"}
    BY <1>2, Zenon DEF Accepted
  <2> QED BY <1>1, <2>1, <2>2, Zenon DEF RelayInv, QuietRowIsFinal
<1> QED BY <1>3, <1>4, <1>5, Zenon DEF RelayInv

\* One step of the whole.
LEMMA RelayInvStep == RelayInv /\ [Next]_allVars => RelayInv'
<1> SUFFICES ASSUME RelayInv, [Next]_allVars PROVE RelayInv'
  BY Zenon
<1>1. CASE BankStep
  BY <1>1, BankKeeps, RelayAssumption, Zenon DEF BankStep, relayVars
<1>2. ASSUME NEW d \in Deliveries, SettleReturns(d) PROVE RelayInv'
  BY <1>2, SettleReturnsKeeps, Zenon
<1>3. ASSUME NEW d \in Deliveries, RelayOnly(Receive(d)) PROVE RelayInv'
  BY <1>3, ReceiveKeeps, Zenon DEF RelayOnly, escrowVars
<1>4. ASSUME NEW d \in Deliveries, Forward(d) \/ ForwardUnrecorded(d) PROVE RelayInv'
  BY <1>4, RelayKeeps, Zenon DEF Forward, ForwardUnrecorded, escrowVars
<1>5. ASSUME NEW r \in Relays, CrashServer(r) PROVE RelayInv'
  BY <1>5, StopKeeps, Zenon DEF CrashServer, escrowVars
<1>6. ASSUME UNCHANGED <<escrowVars, step, attempt, relayRow, missed>> PROVE RelayInv'
  BY <1>6, BankKeeps, Zenon DEF escrowVars
<1>7. ASSUME NEW r \in Relays, RecoveryOnly(RecoveryStep(r)) PROVE RelayInv'
  BY <1>6, <1>7, Zenon DEF RecoveryOnly, relayVars
<1>8. ASSUME NEW r \in Relays, NEW k \in dedupe[r], RelayOnly(Forget(r, k)) PROVE RelayInv'
  BY <1>6, <1>8, Zenon DEF RelayOnly, Forget
<1>9. ASSUME NEW x \in Payments, RecoveryOnly(BecomesDue(x)) PROVE RelayInv'
  BY <1>6, <1>9, Zenon DEF RecoveryOnly, relayVars
<1>10. CASE UNCHANGED allVars
  BY <1>6, <1>10, Zenon DEF allVars, relayVars
<1> QED BY <1>1, <1>2, <1>3, <1>4, <1>5, <1>7, <1>8, <1>9, <1>10, Zenon DEF Next

LEMMA RelayCorrect == Spec => []RelayInv
<1>1. Init => RelayInv
  <2> SUFFICES ASSUME Init PROVE RelayInv
    BY Zenon
  <2>1. RelayTypeOK /\ WithinLimit
    BY RelayAssumption, Zenon DEF Init, EscrowInit, RelayInit, RelayTypeOK, WithinLimit
  <2>2. ToldMeansPaid /\ AckMeansPaid /\ QuietRowIsFinal
    BY Zenon DEF Init, RelayInit, ToldMeansPaid, AckMeansPaid, QuietRowIsFinal, Accepted
  <2> QED BY <2>1, <2>2, Zenon DEF RelayInv
<1> QED BY <1>1, RelayInvStep, PTL DEF Spec

\* ACK_SETTLED in relay_attempts means that the payment has been made, however
\* many relays forward copies of it, forget it, retry it or stop: forwardWithRetry
\* records it only after Settle has returned SETTLED, and nothing unmakes a payment.
THEOREM AckIsTrue == Spec => []AckMeansPaid
BY RelayCorrect, PTL DEF RelayInv

\* The row that all servers share ends with a final status when nobody forwards
\* the payment any more, though each of them overwrites what the others wrote.
THEOREM SharedRowEndsFinal == Spec => []QuietRowIsFinal
BY RelayCorrect, PTL DEF RelayInv
-----------------------------------------------------------------------------
(***************************************************************************)
(* The recovery workers                                                    *)
(***************************************************************************)

\* The locks of RunOnce: a claim carries the attempt_count that its row still
\* has, and a row is claimed by one worker at a time.
ClaimsHold ==
  \A v \in Servers :
    /\ claimed[v] \subseteq {<<x, attempts[x]>> : x \in Payments}
    /\ \A u \in Servers \ {v} : \A b \in claimed[u], c \in claimed[v] : b[1] # c[1]

\* RequestsAreCounted is not inductive without the locks: a worker that had read
\* an older attempt_count would write it back with a request too many.
CountInv ==
  /\ attempts \in [Payments -> Nat] /\ requested \in [Payments -> Nat]
  /\ claimed \in [Servers -> SUBSET (Payments \X Nat)]
  /\ due \subseteq Payments
  /\ ClaimsHold
  /\ RequestsAreCounted

\* Steps that start no transaction, or end one without a result.
LEMMA CountKept ==
  ASSUME CountInv, UNCHANGED <<attempts, requested>>, due' \subseteq Payments,
         \/ UNCHANGED claimed
         \/ \E v \in Servers : claimed' = [claimed EXCEPT ![v] = {}]
  PROVE  CountInv'
<1>1. claimed' \in [Servers -> SUBSET (Payments \X Nat)]
  BY Zenon DEF CountInv
<1>2. \A v \in Servers : claimed'[v] \subseteq claimed[v]
  BY Zenon DEF CountInv
<1>3. ClaimsHold'
  BY <1>2 DEF CountInv, ClaimsHold
<1> QED BY <1>1, <1>3, Zenon DEF CountInv, RequestsAreCounted

\* A worker claims rows that nobody has claimed.
LEMMA ClaimCounts ==
  ASSUME CountInv, NEW v \in Servers, ClaimDue(v)
  PROVE  CountInv'
<1> DEFINE new == {<<x, attempts[x]>> : x \in Claimable}
<1>1. claimed' = [claimed EXCEPT ![v] = new] /\ UNCHANGED <<attempts, due, requested>>
  BY Zenon DEF ClaimDue
<1>2. Claimable \subseteq Payments
  BY Zenon DEF Claimable, CountInv
<1>3. new \subseteq {<<x, attempts[x]>> : x \in Payments} /\ new \subseteq Payments \X Nat
  BY <1>2 DEF CountInv
<1>4. \A u \in Servers : \A b \in claimed[u], c \in new : b[1] # c[1]
  BY DEF Claimable
<1> HIDE DEF new
<1>5. \A u \in Servers : claimed'[u] = IF u = v THEN new ELSE claimed[u]
  BY <1>1, Zenon DEF CountInv
<1>6. ClaimsHold'
  BY <1>1, <1>3, <1>4, <1>5 DEF CountInv, ClaimsHold
<1>7. claimed' \in [Servers -> SUBSET (Payments \X Nat)]
  BY <1>1, <1>3, Zenon DEF CountInv
<1> QED BY <1>1, <1>6, <1>7, Zenon DEF CountInv, RequestsAreCounted

\* RunOnce writes one request for each claimed row that is below the limit, and
\* counts it there.
LEMMA RunCounts ==
  ASSUME CountInv, NEW v \in Servers, RunOnce(v)
  PROVE  CountInv'
<1> DEFINE asked == {c \in claimed[v] : c[2] < MaxAttempts}
           Read(x) == CHOOSE n \in 0 .. MaxAttempts : <<x, n>> \in asked
<1>0. MaxAttempts \in Nat
  BY RecoveryAssumption, Zenon
<1>1. /\ attempts' = [x \in Payments |-> IF \E c \in asked : c[1] = x THEN Read(x) + 1 ELSE attempts[x]]
      /\ requested' = [x \in Payments |-> requested[x] + Cardinality({c \in asked : c[1] = x})]
      /\ due' = due \ {c[1] : c \in claimed[v]}
      /\ claimed' = [claimed EXCEPT ![v] = {}]
  BY Zenon DEF RunOnce
<1>2. ASSUME NEW x \in Payments, \E c \in asked : c[1] = x
      PROVE  /\ Read(x) = attempts[x] /\ attempts[x] < MaxAttempts
             /\ {c \in asked : c[1] = x} = {<<x, attempts[x]>>}
  <2>1. \A c \in asked : c[1] = x => c = <<x, attempts[x]>> /\ attempts[x] < MaxAttempts
    BY DEF CountInv, ClaimsHold
  <2>2. <<x, attempts[x]>> \in asked /\ attempts[x] < MaxAttempts
    BY <1>2, <2>1, Zenon
  <2>3. \A n : <<x, n>> \in asked => n = attempts[x]
    BY <2>1, Zenon
  <2>4. attempts[x] \in 0 .. MaxAttempts
    BY <1>0, <2>2 DEF CountInv
  <2>5. Read(x) = attempts[x]
    BY <2>2, <2>3, <2>4, Zenon
  <2> QED BY <2>1, <2>2, <2>5
<1>3. ASSUME NEW x \in Payments
      PROVE  \/ attempts'[x] = attempts[x] + 1 /\ requested'[x] = requested[x] + 1
                /\ attempts[x] < MaxAttempts /\ \E c \in claimed[v] : c[1] = x
             \/ attempts'[x] = attempts[x] /\ requested'[x] = requested[x]
  <2>1. CASE \E c \in asked : c[1] = x
    <3>1. Cardinality({c \in asked : c[1] = x}) = 1
      <4>1. {c \in asked : c[1] = x} = {<<x, attempts[x]>>}
        BY <1>2, <2>1, Zenon
      <4>2. Cardinality({<<x, attempts[x]>>}) = 1
        BY FS_Singleton, Zenon
      <4> QED BY <4>1, <4>2, Zenon
    <3> QED BY <1>1, <1>2, <2>1, <3>1, Zenon
  <2>2. CASE ~\E c \in asked : c[1] = x
    <3>1. {c \in asked : c[1] = x} = {}
      BY <2>2, Zenon
    <3>2. Cardinality({c \in asked : c[1] = x}) = 0
      BY <3>1, FS_EmptySet, Zenon
    <3>3. requested[x] \in Nat
      BY Zenon DEF CountInv
    <3> QED BY <1>1, <2>2, <3>2, <3>3
  <2> QED BY <2>1, <2>2, Zenon
<1> HIDE DEF asked, Read
<1>4. /\ attempts' \in [Payments -> Nat] /\ requested' \in [Payments -> Nat]
      /\ claimed' \in [Servers -> SUBSET (Payments \X Nat)] /\ due' \subseteq Payments
  <2>1. /\ \A x \in Payments : attempts'[x] \in Nat /\ requested'[x] \in Nat
    BY <1>3 DEF CountInv
  <2> QED BY <1>1, <2>1, Zenon DEF CountInv
<1>5. RequestsAreCounted'
  BY <1>0, <1>3 DEF CountInv, RequestsAreCounted
<1>6. ClaimsHold'
  <2>1. \A u \in Servers : claimed'[u] = IF u = v THEN {} ELSE claimed[u]
    BY <1>1, Zenon DEF CountInv
  <2>2. \A u \in Servers \ {v} : \A c \in claimed[u] : attempts'[c[1]] = attempts[c[1]]
    BY <1>3 DEF CountInv, ClaimsHold
  <2> QED BY <2>1, <2>2 DEF CountInv, ClaimsHold
<1> QED BY <1>4, <1>5, <1>6, Zenon DEF CountInv

LEMMA CountInvStep == CountInv /\ [Next]_allVars => CountInv'
<1> SUFFICES ASSUME CountInv, [Next]_allVars PROVE CountInv'
  BY Zenon
<1>0. UNCHANGED recoveryVars => CountInv'
  BY CountKept, Zenon DEF recoveryVars, CountInv
<1>1. CASE BankStep
  BY <1>0, <1>1, Zenon DEF BankStep
<1>2. ASSUME NEW d \in Deliveries, SettleReturns(d) PROVE CountInv'
  <2>1. ASSUME NEW a \in Decisions, RecordFailure(PaymentOf[d], a) PROVE CountInv'
    BY <2>1, CountKept, Zenon DEF RecordFailure, CountInv
  <2> QED BY <1>0, <1>2, <2>1, Zenon DEF SettleReturns
<1>3. ASSUME NEW d \in Deliveries, RelayOnly(Receive(d)) \/ Forward(d) \/ ForwardUnrecorded(d)
      PROVE  CountInv'
  BY <1>0, <1>3, Zenon DEF RelayOnly, Forward, ForwardUnrecorded
<1>4. ASSUME NEW r \in Servers, AbandonClaims(r) PROVE CountInv'
  BY <1>4, CountKept, Zenon DEF AbandonClaims, CountInv
<1>5. ASSUME NEW r \in Relays, RecoveryOnly(RecoveryStep(r)) PROVE CountInv'
  BY <1>4, <1>5, ClaimCounts, RunCounts, ForwardingAssumption, Zenon DEF RecoveryOnly,
     RecoveryStep, RunFails
<1>6. ASSUME NEW r \in Relays, NEW k \in dedupe[r], RelayOnly(Forget(r, k)) PROVE CountInv'
  BY <1>0, <1>6, Zenon DEF RelayOnly
<1>7. ASSUME NEW x \in Payments, RecoveryOnly(BecomesDue(x)) PROVE CountInv'
  BY <1>7, CountKept, Zenon DEF RecoveryOnly, BecomesDue, CountInv
<1>8. CASE UNCHANGED allVars
  BY <1>0, <1>8, Zenon DEF allVars
<1>9. ASSUME NEW r \in Relays, CrashServer(r) PROVE CountInv'
  BY <1>4, <1>9, ForwardingAssumption, Zenon DEF CrashServer
<1> QED BY <1>1, <1>2, <1>3, <1>5, <1>6, <1>7, <1>8, <1>9, Zenon DEF Next

\* The limit of Policy.MaxAttempts holds for all servers together: RunOnce locks
\* the rows it counts in, so no request is written that attempt_count does not
\* show, whichever transactions are rolled back.
THEOREM RecoveryIsBounded == Spec => []RequestsAreCounted
<1>1. Init => CountInv
  BY RecoveryAssumption DEF Init, RecoveryInit, CountInv, ClaimsHold, RequestsAreCounted
<1>2. CountInv => RequestsAreCounted
  BY Zenon DEF CountInv
<1> QED BY <1>1, <1>2, CountInvStep, PTL DEF Spec
=============================================================================
