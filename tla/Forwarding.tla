----------------------------- MODULE Forwarding -----------------------------
(***************************************************************************)
(* Relays and recovery workers around the bank.  The bank is Escrow, which *)
(* the server implements (ImplementsEscrow of OfflinePay) as long as the   *)
(* header of an envelope names the payment in it and no commit is reported *)
(* as failed, so settlement is not modelled again.  What the relay and     *)
(* RecordFailure take from the header is therefore the payment's id.       *)
(***************************************************************************)
EXTENDS Relay, Recovery

CONSTANT MaxFaults    \* bound: servers stopping, statuses not written

ASSUME ForwardingAssumption == Relays = Servers /\ Txns = Payments /\ MaxFaults \in Nat

VARIABLE faults       \* how often that has happened

allVars == <<escrowVars, relayVars, recoveryVars, faults>>

Init == EscrowInit /\ RelayInit /\ RecoveryInit /\ faults = 0

\* Tokens are issued and expire, and a payment is made while a relay calls Settle.
BankStep ==
  /\ \/ \E t \in Tokens : Lock(t) \/ Return(t)
     \/ \E d \in Deliveries : step[d] = "calling" /\ Pay(PaymentOf[d])
  /\ UNCHANGED <<relayVars, recoveryVars, faults>>

\* The end of Settle.  The relay does not tell failures apart.  A saga that failed
\* has recorded it, unless the payment has no intent row.
SettleReturns(d) ==
  /\ \E status \in {"SETTLED", "FAILED"} :
       /\ Answered(d, status)
       /\ Answer(<<d, attempt[d]>>, status)
       /\ \/ UNCHANGED recoveryVars
          \/ status = "FAILED" /\ \E a \in Decisions : RecordFailure(PaymentOf[d], a)
  /\ UNCHANGED faults

Fault == faults < MaxFaults /\ faults' = faults + 1

\* A step of a relay; a status it cannot write is a fault.
Forward(d) == RelayStep(d, TRUE) /\ UNCHANGED <<escrowVars, recoveryVars, faults>>
ForwardUnrecorded(d) ==
  /\ Fault
  /\ RelayStep(d, FALSE)
  /\ missed' # missed
  /\ UNCHANGED <<escrowVars, recoveryVars>>

CrashServer(r) ==
  /\ Fault
  /\ StopRelay(r)
  /\ AbandonClaims(r)
  /\ UNCHANGED escrowVars

RelayOnly(A) == A /\ UNCHANGED <<escrowVars, recoveryVars, faults>>
RecoveryOnly(A) == A /\ UNCHANGED <<escrowVars, relayVars, faults>>

Next ==
  \/ BankStep
  \/ \E d \in Deliveries : SettleReturns(d) \/ RelayOnly(Receive(d)) \/ Forward(d) \/ ForwardUnrecorded(d)
  \/ \E r \in Relays : CrashServer(r) \/ RecoveryOnly(RecoveryStep(r))
  \/ \E r \in Relays : \E k \in dedupe[r] : RelayOnly(Forget(r, k))
  \/ \E x \in Payments : RecoveryOnly(BecomesDue(x))

Spec == Init /\ [][Next]_allVars

\* Goroutines of relays run, and Settle returns (SettleReturns of OfflinePay).
\* Nobody has to deliver an envelope, and nothing is assumed of the recovery
\* workers: a fair ticker would not make their transactions commit.
Fairness ==
  \A d \in Deliveries : WF_allVars(SettleReturns(d)) /\ WF_allVars(Forward(d))

FairSpec == Spec /\ Fairness
-----------------------------------------------------------------------------
\* An acknowledged payment has been made, and stays made: relays that forget an
\* envelope, forward copies of it at the same time, retry what has already been
\* paid or stop in between never record ACK for anything else.
AckMeansPaid == \A x \in Txns : relayRow[x] = "ACK_SETTLED" => Paid(x)

\* The deliveries of x that a relay has accepted.
Accepted(x) == {d \in Deliveries : PaymentOf[d] = x /\ step[d] \notin {"new", "dropped"}}

\* Once nobody forwards a payment any more the row that all relays share has a
\* final status, in whatever order they have overwritten it.  Only a server that
\* stops or a status that could not be written leaves it at anything else.
QuietRowIsFinal ==
  \A x \in Txns :
    x \notin missed /\ Accepted(x) # {} /\ (\A d \in Accepted(x) : step[d] \in {"ack", "nack"}) =>
      relayRow[x] \in {"ACK_SETTLED", "NACK_FAILED"}

\* Every request of the recovery workers is counted in the operation it is about,
\* so the limit of Policy.MaxAttempts holds for all servers together and over all
\* failures of the same payment (doc/adr/adr-011-bounded-recovery.md:12: "The
\* deterministic policy enforces three attempts").
RequestsAreCounted ==
  \A x \in Payments : requested[x] = attempts[x] /\ requested[x] <= MaxAttempts

\* What a relay has accepted it forwards until it is acknowledged or given up,
\* unless the server stops.
ForwardingEnds ==
  \A d \in Deliveries : step[d] = "received" ~> step[d] \in {"ack", "nack", "lost"}
=============================================================================
