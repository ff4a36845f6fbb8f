----------------------------- MODULE Settlement -----------------------------
(***************************************************************************)
(* internal/settlement and internal/saga: an invocation of Settle checks   *)
(* an envelope and runs the four saga steps RESERVE, CONSUME_TOKEN,        *)
(* LEDGER_COMMIT and PUBLISH, each in a database transaction of its own.   *)
(* When a step fails the orchestrator compensates the executed steps in    *)
(* reverse order, and Settle then records the failure.  Invocations run    *)
(* concurrently, and several may carry the same payment.                   *)
(*                                                                         *)
(* An envelope names its payment twice: in its header, which is sent in    *)
(* the clear, and in the encrypted payload that the device has signed.     *)
(* Settle never compares the two.  The idempotency check, the nonce and    *)
(* the records of a failure go by the header, everything else by the       *)
(* payload.                                                                *)
(***************************************************************************)
EXTENDS Bank

CONSTANTS
  Envelope,      \* Envelope[c]: the payment in the payload that invocation c gets
  Header,        \* Header[c]: the txn_id in the header of its envelope
  UnknownRows    \* TRUE when the device and the token "UNKNOWN" exist, which
                 \* the rows that saveFailedIntent inserts refer to

ASSUME SettlementAssumption ==
  /\ Envelope \in [Calls -> Txns]
  /\ Header \in [Calls -> IntentIds]
  /\ UnknownRows \in BOOLEAN

VARIABLES
  pc,        \* pc[c]: the step invocation c executes next
  verdict,   \* verdict[c]: the status Settle returns
  saga,      \* saga[c]: how far saga.Execute has come
  attempts   \* attempts[c]: failed attempts at the compensation in progress

settleVars == <<pc, verdict, saga, attempts>>

\* The saga steps whose transaction invocation c is about to run, their
\* compensations, and the writes of saveFailedIntent and RecordFailure.
Step == {"idle", "validate", "RESERVE", "CONSUME_TOKEN", "LEDGER_COMMIT", "PUBLISH",
         "undo_LEDGER_COMMIT", "undo_CONSUME_TOKEN", "undo_RESERVE",
         "save_intent", "save_outbox", "save_events", "record_failure", "done", "crashed"}

Verdict == {"NONE", "SETTLED", "REJECTED", "FAILED", "DUPLICATE", "EXPIRED"}

SettleTypeOK ==
  /\ pc \in [Calls -> Step]
  /\ verdict \in [Calls -> Verdict]
  /\ saga \in [Calls -> {"NONE", "STARTED", "COMPENSATING", "COMPLETED",
                         "COMPENSATED", "CRITICAL"}]
  /\ attempts \in [Calls -> 0 .. 2]

SettleInit ==
  /\ pc = [c \in Calls |-> "idle"]
  /\ verdict = [c \in Calls |-> "NONE"]
  /\ saga = [c \in Calls |-> "NONE"]
  /\ attempts = [c \in Calls |-> 0]

Goto(c, step) == pc' = [pc EXCEPT ![c] = step]
Decide(c, v) == verdict' = [verdict EXCEPT ![c] = v]
Saga(c, s) == saga' = [saga EXCEPT ![c] = s]
-----------------------------------------------------------------------------
\* The idempotency check.  EXPIRED and RESERVED are not among the statuses it
\* stops at, and an error of the query lets the envelope pass.
CheckIdempotency(c) ==
  /\ pc[c] = "idle"
  /\ \/ /\ intent[Header[c]] \in {"SETTLED", "REJECTED", "FAILED", "DUPLICATE"}
        /\ Goto(c, "done")
        /\ Decide(c, "DUPLICATE")
     \/ /\ \/ intent[Header[c]] \in {"NONE", "RESERVED", "EXPIRED"}
           \/ "db" \in Faults
        /\ Goto(c, "validate")
        /\ UNCHANGED verdict
  /\ UNCHANGED <<saga, attempts, bankVars>>

\* The verdicts the validations of Settle may reach for payment x.  Decryption,
\* the device, its attestation and signature, and the risk engine may always
\* reject; the rest is decided by the token row and the clock, in this order.
ValidationVerdicts(x) ==
  {"REJECTED"} \cup
  (IF x \in expired THEN {"EXPIRED"}
   ELSE IF token[TokenOf[x]] = "NONE" \/ TokenOf[x] \in expired THEN {}
   ELSE IF token[TokenOf[x]] = "CONSUMED" THEN {"DUPLICATE"}
   ELSE IF Value[TokenOf[x]] < Amount[x] THEN {}
   ELSE {"NONE"})

\* The checks read the token row without a lock; only the reserved value is
\* remembered from it, and that column never changes.
Validate(c) ==
  /\ pc[c] = "validate"
  /\ \E v \in ValidationVerdicts(Envelope[c]) :
       IF v = "NONE"
       THEN Goto(c, "RESERVE") /\ Saga(c, "STARTED") /\ UNCHANGED verdict
       ELSE Goto(c, "save_intent") /\ Decide(c, v) /\ UNCHANGED saga
  /\ UNCHANGED <<attempts, bankVars>>
-----------------------------------------------------------------------------
\* A step fails: the orchestrator starts to compensate the executed steps at
\* step undo, or is through when there are none.  The error decides what Settle
\* will return.
Fail(c, v, undo) ==
  /\ Goto(c, undo)
  /\ Decide(c, v)
  /\ Saga(c, IF undo = "save_intent" THEN "COMPENSATED" ELSE "COMPENSATING")
  /\ UNCHANGED attempts

\* The transaction of a step rolls back, on an error of the step or because the
\* database is out of reach.
Abort(c, v, undo) == Fail(c, v, undo) /\ UNCHANGED bankVars
DbFails(c, undo) == "db" \in Faults /\ Abort(c, "FAILED", undo)

\* The transaction of a step has committed: the orchestrator goes on to step
\* next, or hears of a failure and compensates the steps before this one.
Committed(c, next, undo) ==
  \/ Goto(c, next) /\ UNCHANGED <<verdict, saga, attempts>>
  \/ "ack" \in Faults /\ Fail(c, "FAILED", undo)

\* Broken variants of CanReserve: an intent and a nonce that exist already are
\* no conflict; the nonce is not unique.
CanReserveAgain(x, h) ==
  Receiver[x] \in Accounts /\ reserved[Sender(x)] >= Value[TokenOf[x]]
CanReserveAnyNonce(x, h) == CanReserveAgain(x, h) /\ intent[x] = "NONE"

\* RESERVE: both accounts exist, the token's reservation is covered, the intent
\* row can be inserted, and so can the nonce row, which refers to the intent h of
\* the header.  Every other outcome reads as a duplicate.
CanReserve(x, h) ==
  /\ Receiver[x] \in Accounts
  /\ reserved[Sender(x)] >= Value[TokenOf[x]]
  /\ intent[x] = "NONE"
  /\ ~NonceTaken(x)
  /\ h = x \/ intent[h] # "NONE"

Reserve(c) ==
  LET x == Envelope[c] IN
  /\ pc[c] = "RESERVE"
  /\ \/ /\ CanReserve(x, Header[c])
        /\ intent' = [intent EXCEPT ![x] = "RESERVED"]
        /\ nonces' = [nonces EXCEPT ![x] = Header[c]]
        /\ UNCHANGED <<money, token, outbox, events, recovery, expired>>
        /\ Committed(c, "CONSUME_TOKEN", "save_intent")
     \/ ~CanReserve(x, Header[c]) /\ Abort(c, "DUPLICATE", "save_intent")
     \/ DbFails(c, "save_intent")

\* Broken variant of CanHold: a token that is already HELD is handed out again.
CanHoldAgain(x) == token[TokenOf[x]] \in {"ISSUED", "HELD"}

\* CONSUME_TOKEN takes the token from ISSUED to HELD.
CanHold(x) == token[TokenOf[x]] = "ISSUED"

ConsumeToken(c) ==
  LET x == Envelope[c] IN
  /\ pc[c] = "CONSUME_TOKEN"
  /\ \/ /\ CanHold(x)
        /\ HoldToken(TokenOf[x])
        /\ UNCHANGED <<money, intent, nonces, outbox, events, recovery, expired>>
        /\ Committed(c, "LEDGER_COMMIT", "undo_RESERVE")
     \/ ~CanHold(x) /\ Abort(c, "DUPLICATE", "undo_RESERVE")
     \/ DbFails(c, "undo_RESERVE")

\* LEDGER_COMMIT: the token can become CONSUMED, the CHECK constraints on
\* reserved_balance and ledger_entries.amount hold, and so does the foreign key
\* of the ledger entries.
CanCommit(x) ==
  /\ IsValidTokenTransition(token[TokenOf[x]], "CONSUMED")
  /\ reserved[Sender(x)] >= Value[TokenOf[x]]
  /\ Amount[x] > 0
  /\ intent[x] # "NONE"
  /\ intent[TokenOf[x]] # "NONE"

\* Broken variant of Change: the sender gets nothing back.
ChangeForgotten(x) == 0

\* What the token holds beyond the amount goes back to the sender.
Change(x) == Value[TokenOf[x]] - Amount[x]

\* Broken variants of SettlementEntries: the release is not written; the two
\* balances are mixed up.
SettlementEntriesNoRelease(x, senderAfter, receiverAfter) ==
  { Entry(entryId + 1, x, Sender(x), "DEBIT", Amount[x], "SETTLEMENT", senderAfter),
    Entry(entryId + 2, x, Receiver[x], "CREDIT", Amount[x], "SETTLEMENT", receiverAfter) }
SettlementEntriesSwapped(x, senderAfter, receiverAfter) ==
  { Entry(entryId + 1, x, Sender(x), "DEBIT", Amount[x], "SETTLEMENT", receiverAfter),
    Entry(entryId + 2, x, Receiver[x], "CREDIT", Amount[x], "SETTLEMENT", senderAfter),
    Entry(entryId + 3, TokenOf[x], Sender(x), "CREDIT", Value[TokenOf[x]], "RELEASE",
          receiverAfter) }

\* The three entries LEDGER_COMMIT writes: the debit and the credit of the
\* payment, and the release of the token's reservation.
SettlementEntries(x, senderAfter, receiverAfter) ==
  { Entry(entryId + 1, x, Sender(x), "DEBIT", Amount[x], "SETTLEMENT", senderAfter),
    Entry(entryId + 2, x, Receiver[x], "CREDIT", Amount[x], "SETTLEMENT", receiverAfter),
    Entry(entryId + 3, TokenOf[x], Sender(x), "CREDIT", Value[TokenOf[x]], "RELEASE",
          senderAfter) }

\* Broken variant of LedgerCommit: the transaction is never committed.
LedgerCommitRolledBack(c) ==
  /\ pc[c] = "LEDGER_COMMIT"
  /\ Goto(c, "PUBLISH")
  /\ UNCHANGED <<verdict, saga, attempts, bankVars>>

\* The two UpdateBalance statements write what was computed from the balances
\* read before either of them, the sender's row first.
LedgerCommit(c) ==
  LET x == Envelope[c]
      s == Sender(x)
      r == Receiver[x]
      v == Value[TokenOf[x]]
      newSender == avail[s] + Change(x)
      newReceiver == avail[r] + Amount[x]
  IN  /\ pc[c] = "LEDGER_COMMIT"
      /\ \/ /\ CanCommit(x)
            /\ MarkConsumed(TokenOf[x])
            /\ avail' = [avail EXCEPT ![s] = newSender, ![r] = newReceiver]
            /\ reserved' = [reserved EXCEPT ![s] = @ - v, ![r] = reserved[r]]
            /\ intent' = [intent EXCEPT ![x] = "SETTLED"]
            /\ entryId' = entryId + 3
            /\ ledger' = ledger \cup SettlementEntries(x, newSender, newReceiver)
            /\ UNCHANGED <<nonces, outbox, events, recovery, expired>>
            /\ Committed(c, "PUBLISH", "undo_CONSUME_TOKEN")
         \/ ~CanCommit(x) /\ Abort(c, "FAILED", "undo_CONSUME_TOKEN")
         \/ DbFails(c, "undo_CONSUME_TOKEN")

\* PUBLISH: audit event, outbox event and versioned event in one transaction;
\* the saga is then complete and Settle returns.  The versioned event is left
\* out when reading the intent for it fails.
Publish(c) ==
  LET x == Envelope[c] IN
  /\ pc[c] = "PUBLISH"
  /\ \/ /\ outbox' = outbox \cup {OutboxRow("payment.settled", x, c)}
        /\ \/ intent[x] # "NONE" /\ events' = events \cup {EventRow(x, "IntentSettled", c)}
           \/ "db" \in Faults /\ UNCHANGED events
        /\ UNCHANGED <<money, token, intent, nonces, recovery, expired>>
        /\ \/ Goto(c, "done") /\ Decide(c, "SETTLED") /\ Saga(c, "COMPLETED")
              /\ UNCHANGED attempts
           \/ "ack" \in Faults /\ Fail(c, "FAILED", "undo_LEDGER_COMMIT")
     \/ "publish" \in Faults /\ Abort(c, "FAILED", "undo_LEDGER_COMMIT")
     \/ DbFails(c, "undo_LEDGER_COMMIT")
-----------------------------------------------------------------------------
\* A compensation that fails is tried three times; then the orchestrator gives
\* up, and the compensations before it are not run.
MaxRetries == 3

\* Broken variant of AttemptFails: the retries never end.
AttemptFailsForever(c) ==
  /\ attempts' = [attempts EXCEPT ![c] = (@ + 1) % MaxRetries]
  /\ UNCHANGED <<pc, verdict, saga>>

AttemptFails(c) ==
  IF attempts[c] + 1 < MaxRetries
  THEN /\ attempts' = [attempts EXCEPT ![c] = @ + 1]
       /\ UNCHANGED <<pc, verdict, saga>>
  ELSE /\ attempts' = [attempts EXCEPT ![c] = 0]
       /\ Goto(c, "save_intent")
       /\ Saga(c, "CRITICAL")
       /\ UNCHANGED verdict

\* A compensation has committed, and its caller may or may not learn of it.
Compensated(c, next) ==
  \/ /\ attempts' = [attempts EXCEPT ![c] = 0]
     /\ Goto(c, next)
     /\ Saga(c, IF next = "save_intent" THEN "COMPENSATED" ELSE "COMPENSATING")
     /\ UNCHANGED verdict
  \/ "ack" \in Faults /\ AttemptFails(c)

CompensationFails(c) == AttemptFails(c) /\ UNCHANGED bankVars

\* The rows LEDGER_COMMIT wrote, as the compensation deletes them.
EntriesOf(x) ==
  {e \in ledger : e.txn = x \/ (e.txn = TokenOf[x] /\ e.type = "RELEASE")}

\* Broken variant of CanUndoLedger: no foreign key protects the intent.
CanUndoLedgerUnprotected(x) ==
  avail[Sender(x)] >= Change(x) /\ avail[Receiver[x]] >= Amount[x]

\* Undoing LEDGER_COMMIT takes the money back and deletes the entries and the
\* intent, which the CHECK constraints and the foreign keys have to allow.  The
\* nonce of the payment is still registered, but it refers to the header's intent.
CanUndoLedger(x) ==
  /\ avail[Sender(x)] >= Change(x)
  /\ avail[Receiver[x]] >= Amount[x]
  /\ ~NonceRefersTo(x)
  /\ ~HistoryRefersTo(x)

UndoLedgerCommit(c) ==
  LET x == Envelope[c]
      s == Sender(x)
      r == Receiver[x]
      v == Value[TokenOf[x]]
  IN  /\ pc[c] = "undo_LEDGER_COMMIT"
      /\ \/ /\ CanUndoLedger(x)
            /\ avail' = [avail EXCEPT ![s] = @ - Change(x),
                                      ![r] = avail[r] - Amount[x]]
            /\ reserved' = [reserved EXCEPT ![s] = @ + v, ![r] = reserved[r]]
            /\ ledger' = ledger \ EntriesOf(x)
            /\ intent' = [intent EXCEPT ![x] = "NONE"]
            /\ UNCHANGED <<token, nonces, entryId, outbox, events, recovery, expired>>
            /\ Compensated(c, "undo_CONSUME_TOKEN")
         \/ ~CanUndoLedger(x) /\ CompensationFails(c)
         \/ "db" \in Faults /\ CompensationFails(c)

\* Broken variant of UndoConsumeToken: a token is invalidated in any status.
UndoConsumeTokenAlways(c) ==
  /\ pc[c] = "undo_CONSUME_TOKEN"
  /\ token' = [token EXCEPT ![TokenOf[Envelope[c]]] = "INVALIDATED"]
  /\ UNCHANGED <<money, intent, nonces, outbox, events, recovery, expired>>
  /\ Compensated(c, "undo_RESERVE")

\* Undoing CONSUME_TOKEN invalidates a token that is still held; the balances
\* stay as they are.
UndoConsumeToken(c) ==
  LET t == TokenOf[Envelope[c]] IN
  /\ pc[c] = "undo_CONSUME_TOKEN"
  /\ \/ /\ IF token[t] = "HELD" THEN InvalidateToken(t) ELSE UNCHANGED token
        /\ UNCHANGED <<money, intent, nonces, outbox, events, recovery, expired>>
        /\ Compensated(c, "undo_RESERVE")
     \/ "db" \in Faults /\ CompensationFails(c)

\* Undoing RESERVE deletes the nonce, and the intent while it is RESERVED.  A
\* foreign key that protects the intent makes the whole transaction fail.
CanUndoReserve(x) ==
  intent[x] = "RESERVED" =>
    /\ \A y \in Txns : nonces[y] = x => NonceOf[y] = NonceOf[x]
    /\ \A e \in ledger : e.txn # x
    /\ ~HistoryRefersTo(x)

UndoReserve(c) ==
  LET x == Envelope[c] IN
  /\ pc[c] = "undo_RESERVE"
  /\ \/ /\ CanUndoReserve(x)
        /\ nonces' = NoncesWithout(x)
        /\ intent' = IF intent[x] = "RESERVED" THEN [intent EXCEPT ![x] = "NONE"]
                     ELSE intent
        /\ UNCHANGED <<money, token, outbox, events, recovery, expired>>
        /\ Compensated(c, "save_intent")
     \/ ~CanUndoReserve(x) /\ CompensationFails(c)
     \/ "db" \in Faults /\ CompensationFails(c)
-----------------------------------------------------------------------------
\* saveFailedIntent: three statements that each ignore their error.  The intent
\* of the header is inserted unless there is one, and only if the rows it refers
\* to exist.
SaveIntent(c) ==
  LET h == Header[c] IN
  /\ pc[c] = "save_intent"
  /\ Goto(c, "save_outbox")
  /\ \/ UnknownRows /\ CreatePaymentIntent(h, verdict[c])
     \/ /\ intent[h] # "NONE" \/ ~UnknownRows \/ "db" \in Faults
        /\ UNCHANGED intent
  /\ UNCHANGED <<verdict, saga, attempts, money, token, nonces, outbox, events,
                 recovery, expired>>

SaveOutbox(c) ==
  /\ pc[c] = "save_outbox"
  /\ Goto(c, "save_events")
  /\ \/ outbox' = outbox \cup {OutboxRow("payment.failed", Header[c], c)}
     \/ "db" \in Faults /\ UNCHANGED outbox
  /\ UNCHANGED <<verdict, saga, attempts, money, token, intent, nonces, events,
                 recovery, expired>>

\* Only a failed saga is also handed to the recovery manager.
SaveEvents(c) ==
  LET h == Header[c] IN
  /\ pc[c] = "save_events"
  /\ Goto(c, IF saga[c] = "NONE" THEN "done" ELSE "record_failure")
  /\ \/ events' = IF intent[h] # "NONE"
                  THEN events \cup {EventRow(h, "IntentFailed", c)} ELSE events
     \/ "db" \in Faults /\ UNCHANGED events
  /\ UNCHANGED <<verdict, saga, attempts, money, token, intent, nonces, outbox,
                 recovery, expired>>

\* recovery.Manager.RecordFailure: nothing without an intent, and the decision
\* is appended by the first failure under an id only.
RecordFailure(c) ==
  LET h == Header[c] IN
  /\ pc[c] = "record_failure"
  /\ Goto(c, "done")
  /\ \/ /\ intent[h] # "NONE"
        /\ h \notin recovery
        /\ recovery' = recovery \cup {h}
        /\ events' = events \cup {EventRow(h, "RecoveryDiagnosed", c)}
        /\ outbox' = outbox \cup {OutboxRow("payment.recovery", h, c)}
     \/ /\ intent[h] = "NONE" \/ h \in recovery \/ "db" \in Faults
        /\ UNCHANGED <<recovery, events, outbox>>
  /\ UNCHANGED <<verdict, saga, attempts, money, token, intent, nonces, expired>>

\* The server stops; what the invocation knew is lost and nothing resumes it.
Crash(c) ==
  /\ "crash" \in Faults
  /\ pc[c] \notin {"idle", "done", "crashed"}
  /\ Goto(c, "crashed")
  /\ UNCHANGED <<verdict, saga, attempts, bankVars>>

CallStep(c) ==
  \/ CheckIdempotency(c) \/ Validate(c)
  \/ Reserve(c) \/ ConsumeToken(c) \/ LedgerCommit(c) \/ Publish(c)
  \/ UndoLedgerCommit(c) \/ UndoConsumeToken(c) \/ UndoReserve(c)
  \/ SaveIntent(c) \/ SaveOutbox(c) \/ SaveEvents(c) \/ RecordFailure(c)
=============================================================================
