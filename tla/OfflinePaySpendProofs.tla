----------------------- MODULE OfflinePaySpendProofs ------------------------
(***************************************************************************)
(* Type correctness of OfflinePay, the absence of double spending, the     *)
(* replay protection of settled payments, the immutability of the ledger   *)
(* and the absence of phantom events, for all values of the constants.     *)
(*                                                                         *)
(* The type invariant needs ChecksHold: LEDGER_COMMIT computes balances    *)
(* from what validation and RESERVE have checked earlier.  NoDoubleSpend   *)
(* does not follow from the guard of ConsumeToken, which accepts a token   *)
(* that is CONSUMED already; it needs TokenHasOneHolder.  From NoLostAck   *)
(* on, the database reports the outcome of transactions truthfully.  That  *)
(* the ledger is immutable needs HeadersMatch too: the nonce of a payment  *)
(* then refers to its intent, and the intent cannot be deleted.            *)
(***************************************************************************)
EXTENDS OfflinePay, TLAPS

\* What the constants are, element by element.
LEMMA TokenTypes ==
  ASSUME NEW t \in Tokens
  PROVE  Owner[t] \in Accounts /\ Value[t] \in Nat \ {0} /\ t \in IntentIds
BY BankAssumption, Zenon DEF IntentIds

LEMMA TxnTypes ==
  ASSUME NEW x \in Txns
  PROVE  /\ TokenOf[x] \in Tokens /\ Amount[x] \in Nat /\ x \in IntentIds
         /\ Sender(x) \in Accounts /\ Value[TokenOf[x]] \in Nat \ {0}
BY BankAssumption, Zenon DEF IntentIds, Sender

LEMMA CallTypes ==
  ASSUME NEW c \in Calls
  PROVE  Envelope[c] \in Txns /\ Header[c] \in IntentIds /\ Header[c] # "NONE"
<1>1. "NONE" \notin IntentIds
  BY BankAssumption, Zenon
<1> QED BY <1>1, SettlementAssumption, Zenon

\* The rows CreateLedgerEntry, CreateOutboxEvent and CreatePaymentEvent insert.
LEMMA EntryType ==
  ASSUME NEW n \in Nat \ {0}, NEW k \in IntentIds, NEW a \in Accounts,
         NEW dir \in {"DEBIT", "CREDIT"}, NEW amt \in Nat,
         NEW type \in {"SETTLEMENT", "RESERVATION", "RELEASE"}, NEW after \in Nat
  PROVE  Entry(n, k, a, dir, amt, type, after) \in LedgerEntry
BY Zenon DEF Entry, LedgerEntry

\* The type invariant holds initially.
LEMMA InitTypeOK == Init => TypeOK
<1> SUFFICES ASSUME Init PROVE TypeOK
  BY Zenon
<1>1. BankTypeOK
  BY BankAssumption, Zenon DEF Init, BankInit, BankTypeOK, IntentIds, TokenStatus,
     IntentStatus
<1>2. SettleTypeOK
  BY DEF Init, SettleInit, SettleTypeOK, Step, Verdict
<1>3. ScanTypeOK
  BY Zenon DEF Init, ScanInit, ScanTypeOK
<1> QED BY <1>1, <1>2, <1>3, Zenon DEF TypeOK

\* IssueToken keeps the types: the balance it takes from is large enough.
LEMMA IssueTokenTypeOK ==
  ASSUME BankTypeOK, NEW t \in Tokens, IssueToken(t)
  PROVE  BankTypeOK'
<1> DEFINE o == Owner[t]
           e == Entry(entryId + 1, t, o, "DEBIT", Value[t], "RESERVATION",
                      avail[o] - Value[t])
<1>1. /\ o \in Accounts /\ Value[t] \in Nat /\ t \in IntentIds
      /\ avail[o] \in Nat /\ reserved[o] \in Nat /\ avail[o] - Value[t] \in Nat
      /\ entryId + 1 \in Nat \ {0}
  BY TokenTypes DEF BankTypeOK, IssueToken
<1>2. e \in LedgerEntry
  BY <1>1, EntryType, Zenon
<1>3. ledger' = ledger \cup {e} /\ entryId' = entryId + 1
  BY Zenon DEF IssueToken
<1>4. OutboxRow("token.issued", t, t) \in OutboxEvent
  BY <1>1, Zenon DEF OutboxRow, OutboxEvent
<1>5. avail' \in [Accounts -> Nat] /\ reserved' \in [Accounts -> Nat]
  BY <1>1 DEF BankTypeOK, IssueToken, UpdateBalance
<1>6. token' \in [Tokens -> TokenStatus] /\ intent' \in [IntentIds -> IntentStatus]
  BY <1>1, Zenon DEF BankTypeOK, IssueToken, CreateToken, CreatePaymentIntent, TokenStatus,
     IntentStatus
<1> HIDE DEF e
<1> QED BY <1>1, <1>2, <1>3, <1>4, <1>5, <1>6, Zenon DEF BankTypeOK, IssueToken

\* So does the release of an expired token: the reservation is covered.
LEMMA ReleaseTypeOK ==
  ASSUME BankTypeOK, NEW t \in Tokens, ReleaseExpiredToken(t)
  PROVE  BankTypeOK'
<1>1. CASE ~CanRelease(t)
  BY <1>1, Zenon DEF BankTypeOK, ReleaseExpiredToken, ReleaseToken, bankVars
<1>2. CASE CanRelease(t)
  <2> DEFINE o == Owner[t]
             e == Entry(entryId + 1, t, o, "CREDIT", Value[t], "RELEASE",
                        avail[o] + Value[t])
  <2>1. /\ o \in Accounts /\ Value[t] \in Nat /\ t \in IntentIds
        /\ avail[o] \in Nat /\ reserved[o] \in Nat /\ reserved[o] - Value[t] \in Nat
        /\ avail[o] + Value[t] \in Nat /\ entryId + 1 \in Nat \ {0}
    BY <1>2, TokenTypes DEF BankTypeOK, CanRelease
  <2>2. e \in LedgerEntry
    BY <2>1, EntryType, Zenon
  <2>3. ledger' = ledger \cup {e} /\ entryId' = entryId + 1
    BY <1>2, Zenon DEF ReleaseExpiredToken, ReleaseToken
  <2>4. OutboxRow("token.expired", t, t) \in OutboxEvent
    BY <2>1, Zenon DEF OutboxRow, OutboxEvent
  <2>5. avail' \in [Accounts -> Nat] /\ reserved' \in [Accounts -> Nat]
    BY <1>2, <2>1, Zenon DEF BankTypeOK, ReleaseExpiredToken, ReleaseToken, UpdateBalance
  <2>6. token' \in [Tokens -> TokenStatus]
    BY <1>2, Zenon DEF BankTypeOK, ReleaseExpiredToken, ReleaseToken, TokenStatus
  <2> HIDE DEF e
  <2> QED
    BY <1>2, <2>1, <2>2, <2>3, <2>4, <2>5, <2>6, Zenon DEF BankTypeOK, ReleaseExpiredToken,
       ReleaseToken
<1> QED BY <1>1, <1>2, Zenon

\* A step of a scanner keeps the types.
LEMMA ScanTypeStep ==
  ASSUME BankTypeOK, ScanTypeOK, NEW w \in Scanners, ScanStep(w) \/ CrashScanner(w)
  PROVE  BankTypeOK' /\ ScanTypeOK'
<1>1. CASE ListExpiredTokens(w)
  BY <1>1, Zenon DEF ListExpiredTokens, ExpiredTokens, BankTypeOK, ScanTypeOK, bankVars,
     IntentIds
<1>2. ASSUME NEW t \in Tokens, ReleaseListed(w, t) PROVE BankTypeOK' /\ ScanTypeOK'
  <2>1. ScanTypeOK'
    BY <1>2, Zenon DEF ReleaseListed, Handled, ScanTypeOK
  <2>2. BankTypeOK'
    BY <1>2, ReleaseTypeOK, Zenon DEF ReleaseListed, BankTypeOK, bankVars
  <2> QED BY <2>1, <2>2, Zenon
<1>3. CASE ListStuckIntents(w)
  BY <1>3, Zenon DEF ListStuckIntents, StuckIntents, BankTypeOK, ScanTypeOK, bankVars
<1>4. ASSUME NEW k \in IntentIds, ExpireListed(w, k) PROVE BankTypeOK' /\ ScanTypeOK'
  BY <1>4, Zenon DEF ExpireListed, MarkExpired, Handled, BankTypeOK, ScanTypeOK, bankVars,
     money,
              IntentStatus
<1>5. CASE EndScan(w)
  BY <1>5, Zenon DEF EndScan, BankTypeOK, ScanTypeOK, bankVars
<1>6. CASE CrashScanner(w)
  BY <1>6, Zenon DEF CrashScanner, BankTypeOK, ScanTypeOK, bankVars
<1> QED BY <1>1, <1>2, <1>3, <1>4, <1>5, <1>6, Zenon DEF ScanStep

\* A step of an invocation keeps the types of its own variables.
LEMMA CallTypeStep ==
  ASSUME SettleTypeOK, NEW c \in Calls, CallStep(c) \/ Crash(c)
  PROVE  SettleTypeOK'
<1> USE DEF SettleTypeOK, Step, Verdict, Goto, Decide, Saga
<1>1. CASE CheckIdempotency(c) BY <1>1, Zenon DEF CheckIdempotency
<1>2. CASE Validate(c) BY <1>2 DEF Validate, ValidationVerdicts
<1>3. CASE Reserve(c)
  BY <1>3, Zenon DEF Reserve, Committed, Abort, DbFails, Fail
<1>4. CASE ConsumeToken(c)
  BY <1>4, Zenon DEF ConsumeToken, HoldToken, Committed, Abort, DbFails, Fail
<1>5. CASE LedgerCommit(c)
  BY <1>5, Zenon DEF LedgerCommit, MarkConsumed, Committed, Abort, DbFails, Fail
<1>6. CASE Publish(c)
  BY <1>6, Zenon DEF Publish, Abort, DbFails, Fail
<1>7. AttemptFails(c) => SettleTypeOK'
  BY DEF AttemptFails, MaxRetries
<1>8. \A next \in Step : Compensated(c, next) => SettleTypeOK'
  BY <1>7 DEF Compensated
<1>9. CASE UndoLedgerCommit(c)
  BY <1>7, <1>8, <1>9, Zenon DEF UndoLedgerCommit, CompensationFails
<1>10. CASE UndoConsumeToken(c)
  BY <1>7, <1>8, <1>10, Zenon DEF UndoConsumeToken, InvalidateToken, CompensationFails
<1>11. CASE UndoReserve(c)
  BY <1>7, <1>8, <1>11, Zenon DEF UndoReserve, CompensationFails
<1>12. CASE SaveIntent(c) \/ SaveOutbox(c) \/ SaveEvents(c) \/ RecordFailure(c)
  BY <1>12, Zenon DEF SaveIntent, SaveOutbox, SaveEvents, RecordFailure
<1>13. CASE Crash(c) BY <1>13, Zenon DEF Crash
<1> QED
  BY <1>1, <1>2, <1>3, <1>4, <1>5, <1>6, <1>9, <1>10, <1>11, <1>12, <1>13, Zenon
     DEF CallStep

\* LEDGER_COMMIT keeps the types: the token covers the amount, and the receiver
\* has an account.
LEMMA LedgerCommitTypeOK ==
  ASSUME BankTypeOK, ChecksHold, NEW c \in Calls, LedgerCommit(c)
  PROVE  BankTypeOK'
<1> DEFINE x == Envelope[c]
           s == Sender(x)
           r == Receiver[x]
           v == Value[TokenOf[x]]
           newSender == avail[s] + Change(x)
           newReceiver == avail[r] + Amount[x]
<1>1. CASE UNCHANGED bankVars
  BY <1>1, Zenon DEF BankTypeOK, bankVars
<1>2. CASE ~UNCHANGED bankVars
  <2>1. /\ CanCommit(x)
        /\ token' = [token EXCEPT ![TokenOf[x]] = "CONSUMED"]
        /\ avail' = [avail EXCEPT ![s] = newSender, ![r] = newReceiver]
        /\ reserved' = [reserved EXCEPT ![s] = @ - v, ![r] = reserved[r]]
        /\ intent' = [intent EXCEPT ![x] = "SETTLED"]
        /\ entryId' = entryId + 3
        /\ ledger' = ledger \cup SettlementEntries(x, newSender, newReceiver)
        /\ UNCHANGED <<nonces, outbox, events, recovery, expired>>
    BY <1>2, Zenon DEF LedgerCommit, MarkConsumed, DbFails, Abort
  <2>2. /\ x \in Txns /\ x \in IntentIds /\ TokenOf[x] \in Tokens /\ TokenOf[x] \in IntentIds
        /\ s \in Accounts /\ v \in Nat /\ Amount[x] \in Nat
    BY CallTypes, TxnTypes, TokenTypes, Zenon
  <2>3. pc[c] = "LEDGER_COMMIT"
    BY Zenon DEF LedgerCommit, MarkConsumed
  <2>4. Amount[x] <= v /\ r \in Accounts
    BY <2>3, Zenon DEF ChecksHold, SagaSteps, AfterReserve
  <2>5. reserved[s] - v \in Nat
    BY <2>1, <2>2 DEF CanCommit, BankTypeOK
  <2>6. newSender \in Nat /\ newReceiver \in Nat
    BY <2>2, <2>4 DEF BankTypeOK, Change
  <2> HIDE DEF x, s, r, v, newSender, newReceiver
  <2>7. avail' \in [Accounts -> Nat] /\ reserved' \in [Accounts -> Nat]
    BY <2>1, <2>2, <2>4, <2>5, <2>6, Zenon DEF BankTypeOK
  <2>8. token' \in [Tokens -> TokenStatus] /\ intent' \in [IntentIds -> IntentStatus]
    BY <2>1, <2>2, Zenon DEF BankTypeOK, TokenStatus, IntentStatus
  <2>9. SettlementEntries(x, newSender, newReceiver) \subseteq LedgerEntry
    <3>1. entryId + 1 \in Nat \ {0} /\ entryId + 2 \in Nat \ {0} /\ entryId + 3 \in Nat \ {0}
      BY DEF BankTypeOK
    <3>2. s = Sender(x) /\ r = Receiver[x] /\ v = Value[TokenOf[x]]
      BY Zenon DEF x, s, r, v
    <3> QED BY <2>2, <2>4, <2>6, <3>1, <3>2, EntryType DEF SettlementEntries
  <2> QED BY <2>1, <2>7, <2>8, <2>9 DEF BankTypeOK
<1> QED BY <1>1, <1>2, Zenon

\* So does its compensation: the CHECK constraints reject negative balances.
LEMMA UndoLedgerTypeOK ==
  ASSUME BankTypeOK, ChecksHold, NEW c \in Calls, UndoLedgerCommit(c)
  PROVE  BankTypeOK'
<1> DEFINE x == Envelope[c]
           s == Sender(x)
           r == Receiver[x]
           v == Value[TokenOf[x]]
<1>1. CASE UNCHANGED bankVars
  BY <1>1, Zenon DEF BankTypeOK, bankVars
<1>2. CASE ~UNCHANGED bankVars
  <2>1. /\ CanUndoLedger(x)
        /\ avail' = [avail EXCEPT ![s] = @ - Change(x), ![r] = avail[r] - Amount[x]]
        /\ reserved' = [reserved EXCEPT ![s] = @ + v, ![r] = reserved[r]]
        /\ ledger' = ledger \ EntriesOf(x)
        /\ intent' = [intent EXCEPT ![x] = "NONE"]
        /\ UNCHANGED <<token, nonces, entryId, outbox, events, recovery, expired>>
    BY <1>2, Zenon DEF UndoLedgerCommit, CompensationFails
  <2>2. /\ x \in IntentIds /\ s \in Accounts /\ v \in Nat /\ Amount[x] \in Nat
    BY CallTypes, TxnTypes, Zenon
  <2>3. pc[c] = "undo_LEDGER_COMMIT"
    BY Zenon DEF UndoLedgerCommit
  <2>4. r \in Accounts
    BY <2>3, Zenon DEF ChecksHold, SagaSteps, AfterReserve
  <2>5. avail[s] - Change(x) \in Nat /\ avail[r] - Amount[x] \in Nat
    BY <2>1, <2>2, <2>4 DEF CanUndoLedger, BankTypeOK, Change
  <2>6. reserved[s] + v \in Nat
    BY <2>2 DEF BankTypeOK
  <2> HIDE DEF x, s, r, v
  <2>7. avail' \in [Accounts -> Nat] /\ reserved' \in [Accounts -> Nat]
    BY <2>1, <2>2, <2>4, <2>5, <2>6, Zenon DEF BankTypeOK
  <2>8. intent' \in [IntentIds -> IntentStatus]
    BY <2>1, <2>2, Zenon DEF BankTypeOK, IntentStatus
  <2> QED BY <2>1, <2>7, <2>8, Zenon DEF BankTypeOK
<1> QED BY <1>1, <1>2, Zenon

\* The other steps of an invocation keep the types of the tables.
LEMMA CallBankTypeStep ==
  ASSUME BankTypeOK, SettleTypeOK, ChecksHold, NEW c \in Calls, CallStep(c) \/ Crash(c)
  PROVE  BankTypeOK'
<1> DEFINE x == Envelope[c]
<1>0. x \in Txns /\ x \in IntentIds /\ TokenOf[x] \in Tokens /\ Header[c] \in IntentIds
  BY CallTypes, TxnTypes, Zenon
<1>1. CASE UNCHANGED bankVars
  BY <1>1, Zenon DEF BankTypeOK, bankVars
<1>2. CASE CheckIdempotency(c) \/ Validate(c) \/ Crash(c)
  BY <1>1, <1>2, Zenon DEF CheckIdempotency, Validate, Crash
<1>3. CASE Reserve(c)
  BY <1>0, <1>1, <1>3, Zenon DEF Reserve, DbFails, Abort, BankTypeOK, money, IntentStatus
<1>4. CASE ConsumeToken(c)
  BY <1>0, <1>1, <1>4, Zenon DEF ConsumeToken, HoldToken, DbFails, Abort, BankTypeOK,
     money, TokenStatus
<1>5. CASE LedgerCommit(c)
  BY <1>5, LedgerCommitTypeOK, Zenon
<1>6. CASE Publish(c)
  BY <1>0, <1>1, <1>6 DEF Publish, DbFails, Abort, BankTypeOK, money, OutboxRow, OutboxEvent,
                          EventRow, PaymentEvent
<1>7. CASE UndoLedgerCommit(c)
  BY <1>7, UndoLedgerTypeOK, Zenon
<1>8. CASE UndoConsumeToken(c)
  BY <1>0, <1>1, <1>8, Zenon DEF UndoConsumeToken, InvalidateToken, CompensationFails,
     BankTypeOK, money, TokenStatus
<1>9. CASE UndoReserve(c)
  BY <1>0, <1>1, <1>9, Zenon DEF UndoReserve, CompensationFails, NoncesWithout, BankTypeOK,
     money,
                          IntentStatus
<1>10. CASE SaveIntent(c)
  BY <1>0, <1>10 DEF SaveIntent, CreatePaymentIntent, BankTypeOK, SettleTypeOK, money,
     IntentStatus, Verdict
<1>11. CASE SaveOutbox(c)
  BY <1>0, <1>11 DEF SaveOutbox, BankTypeOK, money, OutboxRow, OutboxEvent
<1>12. CASE SaveEvents(c)
  BY <1>0, <1>12 DEF SaveEvents, BankTypeOK, money, EventRow, PaymentEvent
<1>13. CASE RecordFailure(c)
  BY <1>0, <1>13 DEF RecordFailure, BankTypeOK, money, OutboxRow, OutboxEvent,
                     EventRow, PaymentEvent
<1> QED
  BY <1>2, <1>3, <1>4, <1>5, <1>6, <1>7, <1>8, <1>9, <1>10, <1>11, <1>12, <1>13, Zenon
     DEF CallStep

\* How an invocation moves through the saga: it enters by Validate, gets past
\* RESERVE by reserving, and past CONSUME_TOKEN by taking the token.  The other
\* invocations stay where they are.
LEMMA CallControl ==
  ASSUME SettleTypeOK, NEW c \in Calls, CallStep(c) \/ Crash(c)
  PROVE  /\ \A d \in Calls \ {c} : pc'[d] = pc[d]
         /\ pc'[c] \in SagaSteps =>
              pc[c] \in SagaSteps \/ "NONE" \in ValidationVerdicts(Envelope[c])
         /\ pc'[c] \in AfterReserve =>
              pc[c] \in AfterReserve \/ (Reserve(c) /\ CanReserve(Envelope[c], Header[c]))
         /\ pc'[c] \in AfterConsume =>
              pc[c] \in AfterConsume \/ (ConsumeToken(c) /\ CanHold(Envelope[c]))
         /\ pc'[c] = "LEDGER_COMMIT" => ConsumeToken(c) /\ CanHold(Envelope[c])
<1> USE DEF SettleTypeOK, SagaSteps, AfterReserve, AfterConsume, Goto
<1>1. CASE CheckIdempotency(c) BY <1>1, Zenon DEF CheckIdempotency
<1>2. CASE Validate(c)
  <2>1. PICK v \in ValidationVerdicts(Envelope[c]) :
          IF v = "NONE" THEN Goto(c, "RESERVE") ELSE Goto(c, "save_intent")
    BY <1>2, Zenon DEF Validate
  <2> QED BY <2>1, Zenon
<1>3. CASE Reserve(c)
  <2>1. CASE CanReserve(Envelope[c], Header[c])
    BY <1>3, <2>1, Zenon DEF Reserve, Committed, Abort, DbFails, Fail
  <2>2. CASE ~CanReserve(Envelope[c], Header[c])
    BY <1>3, <2>2, Zenon DEF Reserve, Abort, DbFails, Fail
  <2> QED BY <2>1, <2>2, Zenon
<1>4. CASE ConsumeToken(c)
  <2>1. CASE CanHold(Envelope[c])
    BY <1>4, <2>1, Zenon DEF ConsumeToken, HoldToken, Committed, Abort, DbFails, Fail
  <2>2. CASE ~CanHold(Envelope[c])
    BY <1>4, <2>2, Zenon DEF ConsumeToken, HoldToken, Abort, DbFails, Fail
  <2> QED BY <2>1, <2>2, Zenon
<1>5. CASE LedgerCommit(c)
  BY <1>5, Zenon DEF LedgerCommit, MarkConsumed, Committed, Abort, DbFails, Fail
<1>6. CASE Publish(c)
  BY <1>6, Zenon DEF Publish, Abort, DbFails, Fail
<1>7. AttemptFails(c) => pc' = pc \/ Goto(c, "save_intent")
  BY Zenon DEF AttemptFails
<1>8. \A next \in Step : Compensated(c, next) =>
        pc' = pc \/ Goto(c, "save_intent") \/ Goto(c, next)
  BY <1>7, Zenon DEF Compensated
<1>9. CASE UndoLedgerCommit(c)
  <2>1. pc' = pc \/ Goto(c, "save_intent") \/ Goto(c, "undo_CONSUME_TOKEN")
    BY <1>7, <1>8, <1>9, Zenon DEF UndoLedgerCommit, CompensationFails, Step
  <2> QED BY <1>9, <2>1, Zenon DEF UndoLedgerCommit
<1>10. CASE UndoConsumeToken(c)
  <2>1. pc' = pc \/ Goto(c, "save_intent") \/ Goto(c, "undo_RESERVE")
    BY <1>7, <1>8, <1>10, Zenon DEF UndoConsumeToken, InvalidateToken, CompensationFails,
       Step
  <2> QED BY <1>10, <2>1, Zenon DEF UndoConsumeToken, InvalidateToken
<1>11. CASE UndoReserve(c)
  <2>1. pc' = pc \/ Goto(c, "save_intent")
    BY <1>7, <1>8, <1>11, Zenon DEF UndoReserve, CompensationFails, Step
  <2> QED BY <1>11, <2>1, Zenon DEF UndoReserve
<1>12. CASE SaveIntent(c) \/ SaveOutbox(c) \/ SaveEvents(c) \/ RecordFailure(c)
  BY <1>12, Zenon DEF SaveIntent, SaveOutbox, SaveEvents, RecordFailure
<1>13. CASE Crash(c) BY <1>13, Zenon DEF Crash
<1> QED
  BY <1>1, <1>2, <1>3, <1>4, <1>5, <1>6, <1>9, <1>10, <1>11, <1>12, <1>13, Zenon
     DEF CallStep

\* What an invocation has checked stays true: it is about immutable columns.
LEMMA ChecksHoldStep ==
  ASSUME SettleTypeOK, ChecksHold, NEW c \in Calls, CallStep(c) \/ Crash(c)
  PROVE  ChecksHold'
<1> SUFFICES ASSUME NEW d \in Calls
             PROVE  /\ pc'[d] \in SagaSteps => Amount[Envelope[d]] <= Value[TokenOf[Envelope[d]]]
                    /\ pc'[d] \in AfterReserve => Receiver[Envelope[d]] \in Accounts
  BY Zenon DEF ChecksHold
<1>1. CASE d # c
  BY <1>1, CallControl, Zenon DEF ChecksHold
<1>2. CASE d = c
  <2>1. "NONE" \in ValidationVerdicts(Envelope[c]) =>
          Amount[Envelope[c]] <= Value[TokenOf[Envelope[c]]]
    BY CallTypes, TxnTypes DEF ValidationVerdicts
  <2>2. CanReserve(Envelope[c], Header[c]) => Receiver[Envelope[c]] \in Accounts
    BY Zenon DEF CanReserve
  <2> QED BY <1>2, <2>1, <2>2, CallControl, Zenon DEF ChecksHold
<1> QED BY <1>1, <1>2, Zenon

\* The steps of Next, with what each leaves alone.
LEMMA TypeStep == TypeOK /\ ChecksHold /\ [Next]_vars => TypeOK' /\ ChecksHold'
<1> SUFFICES ASSUME TypeOK, ChecksHold, [Next]_vars PROVE TypeOK' /\ ChecksHold'
  BY Zenon
<1> USE DEF TypeOK
<1>1. UNCHANGED settleVars => SettleTypeOK' /\ ChecksHold'
  BY Zenon DEF settleVars, SettleTypeOK, ChecksHold
<1>2. UNCHANGED scanVars => ScanTypeOK'
  BY Zenon DEF scanVars, ScanTypeOK
<1>3. ASSUME NEW t \in Tokens, IssueToken(t), UNCHANGED <<settleVars, scanVars>>
      PROVE  TypeOK' /\ ChecksHold'
  BY <1>1, <1>2, <1>3, IssueTokenTypeOK, Zenon
<1>4. ASSUME NEW k \in IntentIds, Expire(k), UNCHANGED <<settleVars, scanVars>>
      PROVE  TypeOK' /\ ChecksHold'
  <2>1. BankTypeOK'
    BY <1>4, Zenon DEF Expire, BankTypeOK, money
  <2> QED BY <1>1, <1>2, <1>4, <2>1, Zenon
<1>5. ASSUME NEW c \in Calls, CallStep(c) \/ Crash(c), UNCHANGED scanVars
      PROVE  TypeOK' /\ ChecksHold'
  BY <1>2, <1>5, CallTypeStep, CallBankTypeStep, ChecksHoldStep, Zenon
<1>6. ASSUME NEW w \in Scanners, ScanStep(w) \/ CrashScanner(w), UNCHANGED settleVars
      PROVE  TypeOK' /\ ChecksHold'
  BY <1>1, <1>6, ScanTypeStep, Zenon
<1>7. CASE UNCHANGED vars
  <2>1. BankTypeOK'
    BY <1>7, Zenon DEF vars, bankVars, BankTypeOK
  <2> QED BY <1>1, <1>2, <1>7, <2>1, Zenon DEF vars
<1> QED BY <1>3, <1>4, <1>5, <1>6, <1>7, Zenon DEF Next

\* The inductive invariant of the types holds throughout.
LEMMA TypeInv == Spec => [](TypeOK /\ ChecksHold)
<1>1. Init => TypeOK /\ ChecksHold
  BY InitTypeOK, Zenon DEF Init, SettleInit, ChecksHold, SagaSteps, AfterReserve
<1> QED BY <1>1, TypeStep, PTL DEF Spec

\* Type correctness: balances never go negative and every row is well formed,
\* under every fault and for any number of invocations and scanners.
THEOREM TypeCorrect == Spec => []TypeOK
BY TypeInv, PTL
-----------------------------------------------------------------------------
\* A step that spends nothing: it writes no settlement row, consumes no token
\* and makes none available again.
Quiet ==
  /\ \A e \in ledger' : e.type = "SETTLEMENT" => e \in ledger
  /\ \A t \in Tokens :
       /\ token'[t] = "CONSUMED" <=> token[t] = "CONSUMED"
       /\ token[t] \notin {"NONE", "ISSUED"} => token'[t] \notin {"NONE", "ISSUED"}

\* Steps that leave tokens and ledger alone are quiet.
LEMMA UnchangedQuiet == ledger' = ledger /\ token' = token => Quiet
BY Zenon DEF Quiet

\* The token service is quiet.
LEMMA TokenServiceQuiet ==
  ASSUME BankTypeOK, NEW t \in Tokens, IssueToken(t) \/ ReleaseExpiredToken(t)
  PROVE  Quiet
<1>1. CASE IssueToken(t)
  BY <1>1 DEF IssueToken, CreateToken, Quiet, Entry, BankTypeOK
<1>2. CASE ReleaseExpiredToken(t) /\ CanRelease(t)
  BY <1>2 DEF ReleaseExpiredToken, ReleaseToken, CanRelease, Quiet, Entry, BankTypeOK
<1>3. CASE ReleaseExpiredToken(t) /\ ~CanRelease(t)
  BY <1>3, Zenon DEF ReleaseExpiredToken, ReleaseToken, Quiet, bankVars
<1> QED BY <1>1, <1>2, <1>3, Zenon

\* The scanners are quiet.
LEMMA ScanQuiet ==
  ASSUME BankTypeOK, NEW w \in Scanners, ScanStep(w) \/ CrashScanner(w)
  PROVE  Quiet
<1>1. CASE UNCHANGED bankVars
  BY <1>1, UnchangedQuiet, Zenon DEF bankVars
<1>2. ASSUME NEW t \in Tokens, ReleaseListed(w, t) PROVE Quiet
  BY <1>1, <1>2, TokenServiceQuiet, Zenon DEF ReleaseListed
<1>3. ASSUME NEW k \in IntentIds, ExpireListed(w, k) PROVE Quiet
  BY <1>1, <1>3, UnchangedQuiet, Zenon DEF ExpireListed, MarkExpired, money
<1>4. CASE ListExpiredTokens(w) \/ ListStuckIntents(w) \/ EndScan(w) \/ CrashScanner(w)
  BY <1>1, <1>4, Zenon DEF ListExpiredTokens, ListStuckIntents, EndScan, CrashScanner
<1> QED BY <1>2, <1>3, <1>4, Zenon DEF ScanStep

\* An invocation is quiet too, except in LEDGER_COMMIT.
LEMMA CallQuiet ==
  ASSUME BankTypeOK, NEW c \in Calls, CallStep(c) \/ Crash(c),
         ~(LedgerCommit(c) /\ ~UNCHANGED bankVars)
  PROVE  Quiet
<1>0. TokenOf[Envelope[c]] \in Tokens
  BY CallTypes, TxnTypes, Zenon
<1>1. CASE UNCHANGED bankVars
  BY <1>1, UnchangedQuiet, Zenon DEF bankVars
<1>2. CASE CheckIdempotency(c) \/ Validate(c) \/ Crash(c)
  BY <1>1, <1>2, Zenon DEF CheckIdempotency, Validate, Crash
<1>3. CASE Reserve(c)
  BY <1>1, <1>3, UnchangedQuiet, Zenon DEF Reserve, DbFails, Abort, money
<1>4. CASE ConsumeToken(c)
  BY <1>0, <1>1, <1>4, Zenon DEF ConsumeToken, HoldToken, CanHold, DbFails, Abort, money,
     Quiet, BankTypeOK
<1>5. CASE Publish(c)
  BY <1>1, <1>5, UnchangedQuiet, Zenon DEF Publish, DbFails, Abort, money
<1>6. CASE UndoLedgerCommit(c)
  BY <1>1, <1>6, Zenon DEF UndoLedgerCommit, CompensationFails, Quiet
<1>7. CASE UndoConsumeToken(c)
  BY <1>0, <1>1, <1>7, Zenon DEF UndoConsumeToken, InvalidateToken, CompensationFails,
     money, Quiet, BankTypeOK
<1>8. CASE UndoReserve(c)
  BY <1>1, <1>8, UnchangedQuiet, Zenon DEF UndoReserve, CompensationFails, money
<1>9. CASE SaveIntent(c) \/ SaveOutbox(c) \/ SaveEvents(c) \/ RecordFailure(c)
  BY <1>9, UnchangedQuiet, Zenon DEF SaveIntent, SaveOutbox, SaveEvents, RecordFailure,
     money
<1> QED BY <1>1, <1>2, <1>3, <1>4, <1>5, <1>6, <1>7, <1>8, <1>9, Zenon DEF CallStep

\* A quiet step of one invocation keeps the holders apart: who gets past
\* CONSUME_TOKEN found the token ISSUED, so nobody held it.
LEMMA HolderStepQuiet ==
  ASSUME TypeOK, TokenHasOneHolder, NEW c \in Calls, CallStep(c) \/ Crash(c), Quiet
  PROVE  TokenHasOneHolder'
<1> DEFINE tok(d) == TokenOf[Envelope[d]]
<1>0. \A d \in Calls : tok(d) \in Tokens
  BY CallTypes, TxnTypes, Zenon
<1>1. \A d \in Calls \ {c} : pc'[d] = pc[d]
  BY CallControl, Zenon DEF TypeOK
<1>2. pc'[c] \in AfterConsume /\ pc[c] \notin AfterConsume =>
        token[tok(c)] = "ISSUED" /\ token'[tok(c)] = "HELD"
  <2> SUFFICES ASSUME pc'[c] \in AfterConsume, pc[c] \notin AfterConsume
               PROVE  token[tok(c)] = "ISSUED" /\ token'[tok(c)] = "HELD"
    BY Zenon
  <2>1. ConsumeToken(c) /\ CanHold(Envelope[c])
    BY CallControl, Zenon DEF TypeOK
  <2>2. ~(Goto(c, "undo_RESERVE"))
    BY Zenon DEF Goto, AfterConsume, AfterReserve, SagaSteps, TypeOK, SettleTypeOK
  <2>3. token' = [token EXCEPT ![tok(c)] = "HELD"]
    BY <2>1, <2>2, Zenon DEF ConsumeToken, HoldToken, DbFails, Abort, Fail
  <2> QED BY <1>0, <2>1, <2>3, Zenon DEF CanHold, TypeOK, BankTypeOK
<1>3. ASSUME NEW d \in Calls, NEW f \in Calls, pc'[d] \in AfterConsume,
             pc'[f] \in AfterConsume, tok(d) = tok(f)
      PROVE  d = f
  <2>1. pc[d] \in AfterConsume => token[tok(d)] # "ISSUED"
    BY Zenon DEF TokenHasOneHolder
  <2>2. pc[f] \in AfterConsume => token[tok(f)] # "ISSUED"
    BY Zenon DEF TokenHasOneHolder
  <2> QED BY <1>1, <1>2, <1>3, <2>1, <2>2, Zenon DEF TokenHasOneHolder
<1>4. ASSUME NEW d \in Calls
      PROVE  /\ pc'[d] \in AfterConsume => token'[tok(d)] \notin {"NONE", "ISSUED"}
             /\ pc'[d] = "LEDGER_COMMIT" => token'[tok(d)] # "CONSUMED"
  <2>1. CASE pc'[d] = pc[d] \/ (pc[d] \in AfterConsume /\ pc'[d] # "LEDGER_COMMIT")
    BY <1>0, <2>1, Zenon DEF TokenHasOneHolder, Quiet
  <2>2. CASE d = c /\ pc[c] \notin AfterConsume
    BY <1>2, <2>2, Zenon DEF AfterConsume, AfterReserve, SagaSteps
  <2>3. CASE d = c /\ pc[c] \in AfterConsume /\ pc'[c] = "LEDGER_COMMIT"
    BY <2>3, CallControl, Zenon DEF TypeOK, TokenHasOneHolder, CanHold
  <2> QED BY <1>1, <2>1, <2>2, <2>3, Zenon
<1>5. ASSUME NEW e \in ledger', e.type = "SETTLEMENT"
      PROVE  e.txn \in Txns /\ token'[TokenOf[e.txn]] = "CONSUMED"
  <2>1. e \in ledger /\ e.txn \in Txns /\ token[TokenOf[e.txn]] = "CONSUMED"
    BY <1>5, Zenon DEF Quiet, TokenHasOneHolder
  <2> QED BY <2>1, TxnTypes, Zenon DEF Quiet
<1> QED BY <1>3, <1>4, <1>5, Zenon DEF TokenHasOneHolder

\* So does a quiet step of anyone else.
LEMMA HolderStepOther ==
  ASSUME TypeOK, TokenHasOneHolder, pc' = pc, Quiet
  PROVE  TokenHasOneHolder'
<1>0. \A d \in Calls : TokenOf[Envelope[d]] \in Tokens
  BY CallTypes, TxnTypes, Zenon
<1>1. ASSUME NEW e \in ledger', e.type = "SETTLEMENT"
      PROVE  e.txn \in Txns /\ token'[TokenOf[e.txn]] = "CONSUMED"
  <2>1. e \in ledger /\ e.txn \in Txns /\ token[TokenOf[e.txn]] = "CONSUMED"
    BY <1>1, Zenon DEF Quiet, TokenHasOneHolder
  <2> QED BY <2>1, TxnTypes, Zenon DEF Quiet
<1> QED BY <1>0, <1>1, Zenon DEF TokenHasOneHolder, Quiet, AfterConsume, AfterReserve,
           SagaSteps

\* What LEDGER_COMMIT does when its transaction commits.
LEMMA CommitEffect ==
  ASSUME TypeOK, NEW c \in Calls, LedgerCommit(c), ~UNCHANGED bankVars
  PROVE  /\ pc[c] = "LEDGER_COMMIT"
         /\ token' = [token EXCEPT ![TokenOf[Envelope[c]]] = "CONSUMED"]
         /\ \E a, b : ledger' = ledger \cup SettlementEntries(Envelope[c], a, b)
         /\ \/ pc' = [pc EXCEPT ![c] = "PUBLISH"]
            \/ pc' = [pc EXCEPT ![c] = "undo_CONSUME_TOKEN"]
<1>1. pc[c] = "LEDGER_COMMIT"
  BY Zenon DEF LedgerCommit, MarkConsumed
<1>2. /\ token' = [token EXCEPT ![TokenOf[Envelope[c]]] = "CONSUMED"]
      /\ \E a, b : ledger' = ledger \cup SettlementEntries(Envelope[c], a, b)
      /\ Committed(c, "PUBLISH", "undo_CONSUME_TOKEN")
  BY Zenon DEF LedgerCommit, MarkConsumed, DbFails, Abort
<1> QED BY <1>1, <1>2, Zenon DEF Committed, Fail, Goto

\* The one debit among the rows of a settlement, and the type of the others.
LEMMA SettlementRowsWritten ==
  ASSUME TypeOK, NEW x \in Txns, NEW a, NEW b,
         NEW e \in SettlementEntries(x, a, b), e.type = "SETTLEMENT"
  PROVE  /\ e.txn = x
         /\ e.direction = "DEBIT" =>
              e = Entry(entryId + 1, x, Sender(x), "DEBIT", Amount[x], "SETTLEMENT", a)
<1>1. CASE e = Entry(entryId + 1, x, Sender(x), "DEBIT", Amount[x], "SETTLEMENT", a)
  BY <1>1, Zenon DEF Entry
<1>2. CASE e = Entry(entryId + 2, x, Receiver[x], "CREDIT", Amount[x], "SETTLEMENT", b)
  BY <1>2, Zenon DEF Entry
<1>3. CASE e = Entry(entryId + 3, TokenOf[x], Sender(x), "CREDIT", Value[TokenOf[x]],
                     "RELEASE", a)
  BY <1>3, Zenon DEF Entry
<1> QED BY <1>1, <1>2, <1>3, Zenon DEF SettlementEntries

\* LEDGER_COMMIT keeps the holders apart and spends a token that was not spent.
LEMMA HolderStepCommit ==
  ASSUME TypeOK, TokenHasOneHolder, NoDoubleSpend,
         NEW c \in Calls, LedgerCommit(c), ~UNCHANGED bankVars
  PROVE  TokenHasOneHolder' /\ NoDoubleSpend'
<1> DEFINE tok(d) == TokenOf[Envelope[d]]
           x == Envelope[c]
<1>0. x \in Txns /\ \A d \in Calls : tok(d) \in Tokens
  BY CallTypes, TxnTypes, Zenon
<1>1. PICK a, b : ledger' = ledger \cup SettlementEntries(x, a, b)
  BY CommitEffect, Zenon
<1>2. /\ token' = [token EXCEPT ![tok(c)] = "CONSUMED"]
      /\ pc[c] = "LEDGER_COMMIT"
      /\ \/ pc' = [pc EXCEPT ![c] = "PUBLISH"]
         \/ pc' = [pc EXCEPT ![c] = "undo_CONSUME_TOKEN"]
  BY CommitEffect, Zenon
<1>3. /\ \A d \in Calls : pc'[d] \in AfterConsume <=> pc[d] \in AfterConsume
      /\ pc'[c] # "LEDGER_COMMIT"
      /\ \A d \in Calls \ {c} : pc'[d] = pc[d]
      /\ pc[c] \in AfterConsume
  BY <1>2 DEF TypeOK, SettleTypeOK, AfterConsume, AfterReserve, SagaSteps
<1>4. \A t \in Tokens : token'[t] = IF t = tok(c) THEN "CONSUMED" ELSE token[t]
  BY <1>0, <1>2, Zenon DEF TypeOK, BankTypeOK
<1>5. ASSUME NEW d \in Calls
      PROVE  /\ pc'[d] \in AfterConsume => token'[tok(d)] \notin {"NONE", "ISSUED"}
             /\ pc'[d] = "LEDGER_COMMIT" => token'[tok(d)] # "CONSUMED"
  <2>1. pc'[d] \in AfterConsume => token'[tok(d)] \notin {"NONE", "ISSUED"}
    BY <1>0, <1>3, <1>4, Zenon DEF TokenHasOneHolder
  <2>2. ASSUME pc'[d] = "LEDGER_COMMIT" PROVE token'[tok(d)] # "CONSUMED"
    <3>1. d # c /\ pc[d] = "LEDGER_COMMIT" /\ pc[d] \in AfterConsume
      BY <1>3, <2>2, Zenon DEF AfterConsume, AfterReserve, SagaSteps
    <3>2. tok(d) # tok(c)
      BY <1>3, <3>1, Zenon DEF TokenHasOneHolder
    <3> QED BY <1>0, <1>4, <3>1, <3>2, Zenon DEF TokenHasOneHolder
  <2> QED BY <2>1, <2>2, Zenon
<1>6. ASSUME NEW e \in ledger', e.type = "SETTLEMENT"
      PROVE  e.txn \in Txns /\ token'[TokenOf[e.txn]] = "CONSUMED"
  <2>1. CASE e \in ledger
    BY <1>4, <1>6, <2>1, TxnTypes, Zenon DEF TokenHasOneHolder
  <2>2. CASE e \in SettlementEntries(x, a, b)
    BY <1>0, <1>4, <1>6, <2>2, SettlementRowsWritten
  <2> QED BY <1>1, <2>1, <2>2, Zenon
<1>7. TokenHasOneHolder'
  BY <1>3, <1>5, <1>6, Zenon DEF TokenHasOneHolder
<1>8. ASSUME NEW e \in ledger', NEW f \in ledger',
             e.type = "SETTLEMENT", f.type = "SETTLEMENT",
             e.direction = "DEBIT", f.direction = "DEBIT",
             TokenOf[e.txn] = TokenOf[f.txn]
      PROVE  e = f
  <2>1. \A g \in ledger : g.type = "SETTLEMENT" => TokenOf[g.txn] # tok(c)
    BY <1>2, Zenon DEF TokenHasOneHolder
  <2>2. \A g \in SettlementEntries(x, a, b) : g.type = "SETTLEMENT" => g.txn = x
    BY <1>0, SettlementRowsWritten
  <2>3. CASE e \in ledger /\ f \in ledger
    BY <1>8, <2>3, Zenon DEF NoDoubleSpend
  <2>4. CASE e \in SettlementEntries(x, a, b) /\ f \in SettlementEntries(x, a, b)
    BY <1>0, <1>8, <2>4, SettlementRowsWritten
  <2> QED BY <1>1, <1>8, <2>1, <2>2, <2>3, <2>4, Zenon
<1> QED BY <1>7, <1>8, Zenon DEF NoDoubleSpend

\* The inductive step.
LEMMA SpendStep ==
  ASSUME TypeOK, TokenHasOneHolder, NoDoubleSpend, [Next]_vars
  PROVE  TokenHasOneHolder' /\ NoDoubleSpend'
<1>1. Quiet => NoDoubleSpend'
  BY Zenon DEF Quiet, NoDoubleSpend
<1>2. ASSUME pc' = pc, Quiet PROVE TokenHasOneHolder' /\ NoDoubleSpend'
  BY <1>1, <1>2, HolderStepOther, Zenon
<1>3. ASSUME NEW t \in Tokens, IssueToken(t), UNCHANGED <<settleVars, scanVars>>
      PROVE  TokenHasOneHolder' /\ NoDoubleSpend'
  BY <1>2, <1>3, TokenServiceQuiet, Zenon DEF TypeOK, settleVars
<1>4. ASSUME NEW k \in IntentIds, Expire(k), UNCHANGED <<settleVars, scanVars>>
      PROVE  TokenHasOneHolder' /\ NoDoubleSpend'
  BY <1>2, <1>4, UnchangedQuiet, Zenon DEF Expire, money, settleVars
<1>5. ASSUME NEW c \in Calls, CallStep(c) \/ Crash(c)
      PROVE  TokenHasOneHolder' /\ NoDoubleSpend'
  <2>1. CASE LedgerCommit(c) /\ ~UNCHANGED bankVars
    BY <2>1, HolderStepCommit, Zenon
  <2>2. CASE ~(LedgerCommit(c) /\ ~UNCHANGED bankVars)
    BY <1>1, <1>5, <2>2, CallQuiet, HolderStepQuiet, Zenon DEF TypeOK
  <2> QED BY <2>1, <2>2, Zenon
<1>6. ASSUME NEW w \in Scanners, ScanStep(w) \/ CrashScanner(w), UNCHANGED settleVars
      PROVE  TokenHasOneHolder' /\ NoDoubleSpend'
  BY <1>2, <1>6, ScanQuiet, Zenon DEF TypeOK, settleVars
<1>7. CASE UNCHANGED vars
  BY <1>2, <1>7, UnchangedQuiet, Zenon DEF vars, bankVars, settleVars
<1> QED BY <1>3, <1>4, <1>5, <1>6, <1>7, Zenon DEF Next

\* No token is spent twice, whatever fails and however many invocations of
\* Settle, scanners, tokens and payments there are: two settlement debits
\* against a token are the same row.
THEOREM NeverSpentTwice == Spec => [](NoDoubleSpend /\ TokenHasOneHolder)
<1>1. Init => TokenHasOneHolder /\ NoDoubleSpend
  BY Zenon DEF Init, BankInit, SettleInit, TokenHasOneHolder, NoDoubleSpend, AfterConsume,
         AfterReserve, SagaSteps
<1>2. TypeOK /\ TokenHasOneHolder /\ NoDoubleSpend /\ [Next]_vars
        => TokenHasOneHolder' /\ NoDoubleSpend'
  BY SpendStep, Zenon
<1> QED BY <1>1, <1>2, TypeCorrect, PTL DEF Spec

\* A token has one holder, whatever fails: past CONSUME_TOKEN an invocation is
\* alone with its token until its compensations are over, LEDGER_COMMIT finds the
\* token unspent, and a settlement row keeps it CONSUMED.
THEOREM TokenNeverShared == Spec => []TokenHasOneHolder
BY NeverSpentTwice, PTL
-----------------------------------------------------------------------------
USE DEF SagaSteps, AfterReserve, AfterConsume, PreCommit, PostCommit

\* A step that leaves the registry of payments as it is: nonces and settlement
\* rows stay, and an intent on record at most expires.
Keeps ==
  /\ nonces' = nonces
  /\ \A x \in Txns :
       /\ SettlementRows(x)' = SettlementRows(x)
       /\ intent[x] # "NONE" => intent'[x] \in {intent[x], "EXPIRED"}

\* The sides of LEDGER_COMMIT that invocations are on do not change.
SidesKept ==
  \A d \in Calls : /\ pc'[d] \in PreCommit => pc[d] \in PreCommit
                   /\ pc'[d] \in PostCommit => pc[d] \in PostCommit

\* Such steps keep the invariant.
LEMMA RegistryKept ==
  ASSUME PaymentHasOneOwner, SettledStaysRegistered, TypeOK, Keeps, SidesKept
  PROVE  PaymentHasOneOwner' /\ SettledStaysRegistered'
<1>1. \A d \in Calls : Envelope[d] \in Txns
  BY CallTypes, Zenon
<1>2. \A d \in Calls : pc'[d] \in AfterReserve => pc[d] \in AfterReserve
  BY Zenon DEF SidesKept
<1>3. Registered' = Registered
  BY Zenon DEF Keeps, Registered
<1>4. PaymentHasOneOwner'
  BY <1>1, <1>2, <1>3 DEF PaymentHasOneOwner, Keeps, SidesKept
<1>5. SettledStaysRegistered'
  BY <1>3, Zenon DEF SettledStaysRegistered, Keeps
<1> QED BY <1>4, <1>5, Zenon

\* Tokens and payments have different ids, so rows of tok-res transactions are
\* no settlement rows.
LEMMA TokenRowsApart ==
  ASSUME NEW t \in Tokens, NEW e, e.txn = t, ledger' = ledger \cup {e}
  PROVE  \A x \in Txns : SettlementRows(x)' = SettlementRows(x)
BY BankAssumption, Zenon DEF SettlementRows

\* The token service and the scanners keep the registry.
LEMMA TokenServiceKeeps ==
  ASSUME BankTypeOK, NEW t \in Tokens, IssueToken(t) \/ ReleaseExpiredToken(t)
  PROVE  Keeps
<1>0. \A x \in Txns : x # t /\ x \in IntentIds
  BY BankAssumption, Zenon DEF IntentIds
<1>1. CASE IssueToken(t)
  <2>1. PICK e : e.txn = t /\ ledger' = ledger \cup {e}
    BY <1>1, Zenon DEF IssueToken, Entry
  <2>2. \A x \in Txns : SettlementRows(x)' = SettlementRows(x)
    BY <2>1, TokenRowsApart, Zenon
  <2> QED BY <1>0, <1>1, <2>2, Zenon DEF IssueToken, CreatePaymentIntent, Keeps, BankTypeOK
<1>2. CASE ReleaseExpiredToken(t) /\ CanRelease(t)
  <2>1. PICK e : e.txn = t /\ ledger' = ledger \cup {e}
    BY <1>2, Zenon DEF ReleaseExpiredToken, ReleaseToken, Entry
  <2>2. \A x \in Txns : SettlementRows(x)' = SettlementRows(x)
    BY <2>1, TokenRowsApart, Zenon
  <2> QED BY <1>2, <2>2, Zenon DEF ReleaseExpiredToken, ReleaseToken, Keeps
<1>3. CASE ReleaseExpiredToken(t) /\ ~CanRelease(t)
  BY <1>3, Zenon DEF ReleaseExpiredToken, ReleaseToken, Keeps, SettlementRows, bankVars
<1> QED BY <1>1, <1>2, <1>3, Zenon

LEMMA ScanKeeps ==
  ASSUME BankTypeOK, NEW w \in Scanners, ScanStep(w) \/ CrashScanner(w)
  PROVE  Keeps
<1>1. CASE UNCHANGED bankVars
  BY <1>1, Zenon DEF bankVars, Keeps, SettlementRows
<1>2. ASSUME NEW t \in Tokens, ReleaseListed(w, t) PROVE Keeps
  BY <1>1, <1>2, TokenServiceKeeps, Zenon DEF ReleaseListed
<1>3. ASSUME NEW k \in IntentIds, ExpireListed(w, k) PROVE Keeps
  <2>1. \A x \in Txns : x \in IntentIds
    BY Zenon DEF IntentIds
  <2> QED
    BY <1>1, <1>3, <2>1, Zenon DEF ExpireListed, MarkExpired, money, Keeps, SettlementRows,
       BankTypeOK
<1>4. CASE ListExpiredTokens(w) \/ ListStuckIntents(w) \/ EndScan(w) \/ CrashScanner(w)
  BY <1>1, <1>4, Zenon DEF ListExpiredTokens, ListStuckIntents, EndScan, CrashScanner
<1> QED BY <1>2, <1>3, <1>4, Zenon DEF ScanStep

\* A truthful database: no transaction commits and is reported as failed.
NoLostAck == "ack" \notin Faults

\* The transactions that change the registry: RESERVE, LEDGER_COMMIT and their
\* compensations.
Registers(c) == Reserve(c) \/ LedgerCommit(c) \/ UndoLedgerCommit(c) \/ UndoReserve(c)

\* An invocation outside of these transactions keeps the registry.
LEMMA CallKeeps ==
  ASSUME TypeOK, NEW c \in Calls, CallStep(c) \/ Crash(c),
         UNCHANGED bankVars \/ ~Registers(c)
  PROVE  Keeps
<1> DEFINE h == Header[c]
<1>0. h \in IntentIds /\ \A y \in Txns : y \in IntentIds
  BY CallTypes, Zenon DEF IntentIds
<1>1. CASE UNCHANGED bankVars
  BY <1>1, Zenon DEF bankVars, Keeps, SettlementRows
<1>2. UNCHANGED <<ledger, intent, nonces>> => Keeps
  BY Zenon DEF Keeps, SettlementRows
<1>3. CASE CheckIdempotency(c) \/ Validate(c) \/ Crash(c)
  BY <1>1, <1>3, Zenon DEF CheckIdempotency, Validate, Crash
<1>4. CASE ConsumeToken(c)
  BY <1>1, <1>2, <1>4, Zenon DEF ConsumeToken, HoldToken, DbFails, Abort, money
<1>5. CASE Publish(c)
  BY <1>1, <1>2, <1>5, Zenon DEF Publish, DbFails, Abort, money
<1>6. CASE Registers(c)
  BY <1>1, <1>6, Zenon
<1>7. CASE UndoConsumeToken(c)
  BY <1>1, <1>2, <1>7, Zenon DEF UndoConsumeToken, InvalidateToken, CompensationFails, money
<1>8. CASE SaveIntent(c)
  <2>1. /\ UNCHANGED <<ledger, nonces>>
        /\ \/ intent' = intent
           \/ intent[h] = "NONE" /\ intent' = [intent EXCEPT ![h] = verdict[c]]
    BY <1>8, Zenon DEF SaveIntent, CreatePaymentIntent, money
  <2>2. \A y \in Txns : intent[y] # "NONE" => intent'[y] = intent[y]
    BY <1>0, <2>1, Zenon DEF TypeOK, BankTypeOK
  <2> QED BY <2>1, <2>2, Zenon DEF Keeps, SettlementRows
<1>9. CASE SaveOutbox(c) \/ SaveEvents(c) \/ RecordFailure(c)
  BY <1>2, <1>9, Zenon DEF SaveOutbox, SaveEvents, RecordFailure, money
<1> QED BY <1>1, <1>3, <1>4, <1>5, <1>6, <1>7, <1>8, <1>9, Zenon DEF CallStep, Registers

\* And it stays on its side of LEDGER_COMMIT.
LEMMA CallSides ==
  ASSUME NoLostAck, TypeOK, PaymentHasOneOwner, NEW c \in Calls, CallStep(c) \/ Crash(c),
         UNCHANGED bankVars \/ ~(Reserve(c) \/ LedgerCommit(c) \/ UndoLedgerCommit(c))
  PROVE  SidesKept
<1> DEFINE x == Envelope[c]
<1> USE DEF TypeOK, SettleTypeOK, Goto, NoLostAck
<1>0. x \in Txns /\ x \in IntentIds
  BY CallTypes, TxnTypes, Zenon
<1>1. \A d \in Calls \ {c} : pc'[d] = pc[d]
  BY CallControl, Zenon
<1> SUFFICES /\ pc'[c] \in PreCommit => pc[c] \in PreCommit
             /\ pc'[c] \in PostCommit => pc[c] \in PostCommit
  BY <1>1, Zenon DEF SidesKept
<1>2. CASE CheckIdempotency(c) BY <1>2, Zenon DEF CheckIdempotency
<1>3. CASE Validate(c)
  <2>1. Goto(c, "RESERVE") \/ Goto(c, "save_intent")
    BY <1>3, Zenon DEF Validate
  <2> QED BY <2>1, Zenon
<1>4. CASE Reserve(c)
  <2>1. intent' = intent
    BY <1>4, Zenon DEF bankVars
  <2>2. [intent EXCEPT ![x] = "RESERVED"] # intent \/ intent[x] = "RESERVED"
    BY <1>0, Zenon DEF BankTypeOK
  <2>3. Goto(c, "save_intent")
    BY <1>4, <2>1, <2>2, Zenon DEF Reserve, CanReserve, Abort, DbFails, Fail
  <2> QED BY <2>3, Zenon
<1>5. CASE ConsumeToken(c)
  BY <1>5, Zenon DEF ConsumeToken, HoldToken, Committed, Abort, DbFails, Fail
<1>6. CASE LedgerCommit(c)
  <2>1. entryId' # entryId + 3
    BY <1>6 DEF bankVars, BankTypeOK
  <2>2. Goto(c, "undo_CONSUME_TOKEN") /\ pc[c] = "LEDGER_COMMIT"
    BY <1>6, <2>1, Zenon DEF LedgerCommit, MarkConsumed, Abort, DbFails, Fail
  <2> QED BY <2>2, Zenon
<1>7. CASE Publish(c)
  BY <1>7, Zenon DEF Publish, Abort, DbFails, Fail
<1>8. AttemptFails(c) => pc' = pc \/ Goto(c, "save_intent")
  BY Zenon DEF AttemptFails
<1>9. CASE UndoLedgerCommit(c)
  <2>1. ledger' = ledger /\ SettlementRows(x) # {}
    BY <1>9, Zenon DEF bankVars, UndoLedgerCommit, PaymentHasOneOwner
  <2>2. ledger' # ledger \ EntriesOf(x)
    BY <2>1, Zenon DEF SettlementRows, EntriesOf
  <2>3. pc' = pc \/ Goto(c, "save_intent")
    BY <1>8, <1>9, <2>2, Zenon DEF UndoLedgerCommit, CompensationFails
  <2> QED BY <2>3, Zenon
<1>10. CASE UndoConsumeToken(c)
  <2>1. pc' = pc \/ Goto(c, "save_intent") \/ Goto(c, "undo_RESERVE")
    BY <1>8, <1>10, Zenon DEF UndoConsumeToken, InvalidateToken, CompensationFails,
       Compensated
  <2> QED BY <1>10, <2>1, Zenon DEF UndoConsumeToken, InvalidateToken
<1>11. CASE UndoReserve(c)
  <2>1. pc' = pc \/ Goto(c, "save_intent")
    BY <1>8, <1>11, Zenon DEF UndoReserve, CompensationFails, Compensated
  <2> QED BY <2>1, Zenon
<1>12. CASE SaveIntent(c) \/ SaveOutbox(c) \/ SaveEvents(c) \/ RecordFailure(c)
  BY <1>12, Zenon DEF SaveIntent, SaveOutbox, SaveEvents, RecordFailure
<1>13. CASE Crash(c) BY <1>13, Zenon DEF Crash
<1> QED
  BY <1>2, <1>3, <1>4, <1>5, <1>6, <1>7, <1>9, <1>10, <1>11, <1>12, <1>13, Zenon
     DEF CallStep

\* RESERVE admits an invocation to a payment that nobody owns.
LEMMA OwnerStepReserve ==
  ASSUME NoLostAck, TypeOK, PaymentHasOneOwner, SettledStaysRegistered,
         NEW c \in Calls, Reserve(c), ~UNCHANGED bankVars
  PROVE  PaymentHasOneOwner' /\ SettledStaysRegistered'
<1> DEFINE x == Envelope[c]
<1>0. x \in Txns /\ x \in IntentIds /\ \A d \in Calls : Envelope[d] \in Txns
  BY CallTypes, TxnTypes, Zenon
<1>1. /\ CanReserve(x, Header[c])
      /\ intent' = [intent EXCEPT ![x] = "RESERVED"]
      /\ nonces' = [nonces EXCEPT ![x] = Header[c]]
      /\ ledger' = ledger
      /\ pc' = [pc EXCEPT ![c] = "CONSUME_TOKEN"]
  BY Zenon DEF Reserve, DbFails, Abort, Committed, Goto, money, NoLostAck
<1>2. \A y \in Txns : SettlementRows(y)' = SettlementRows(y)
  BY <1>1, Zenon DEF SettlementRows
<1>3. SettlementRows(x) = {} /\ x \notin Registered
  BY <1>0, <1>1, Zenon DEF CanReserve, NonceTaken, SettledStaysRegistered
<1>4. \A y \in Txns : intent'[y] = IF y = x THEN "RESERVED" ELSE intent[y]
  BY <1>0, <1>1, TxnTypes, Zenon DEF TypeOK, BankTypeOK
<1>5. pc'[c] = "CONSUME_TOKEN" /\ \A d \in Calls \ {c} : pc'[d] = pc[d]
  BY <1>1, Zenon DEF TypeOK, SettleTypeOK
<1>6. \A d \in Calls : pc[d] \in AfterReserve => Envelope[d] # x
  BY <1>0, <1>3, CallTypes, Zenon DEF PaymentHasOneOwner, Registered
<1>7. /\ \A y \in Txns : nonces'[y] = IF y = x THEN Header[c] ELSE nonces[y]
      /\ Registered' = Registered \cup {x}
  BY <1>0, <1>1, CallTypes, Zenon DEF TypeOK, BankTypeOK, Registered
<1>8. ASSUME NEW d \in Calls, NEW f \in Calls, pc'[d] \in AfterReserve,
             pc'[f] \in AfterReserve, Envelope[d] = Envelope[f]
      PROVE  d = f
  BY <1>5, <1>6, <1>8 DEF PaymentHasOneOwner
<1>9. ASSUME NEW d \in Calls
      PROVE  /\ pc'[d] \in AfterReserve => nonces'[Envelope[d]] = Header[d]
             /\ pc'[d] \in PostCommit => SettlementRows(Envelope[d])' # {}
             /\ pc'[d] \in PreCommit => SettlementRows(Envelope[d])' = {}
  <2>1. CASE d = c
    BY <1>0, <1>2, <1>3, <1>5, <1>7, <2>1, Zenon
  <2>2. CASE d # c /\ pc'[d] \in AfterReserve
    <3>1. pc'[d] = pc[d] /\ Envelope[d] # x /\ Envelope[d] \in Txns
      BY <1>0, <1>5, <1>6, <2>2, Zenon
    <3> HIDE DEF x
    <3>2. nonces'[Envelope[d]] = nonces[Envelope[d]]
      BY <1>7, <3>1, Zenon
    <3> QED BY <1>2, <3>1, <3>2, Zenon DEF PaymentHasOneOwner
  <2> QED BY <2>1, <2>2, Zenon
<1>10. \A y, z \in Registered' : NonceOf[y] = NonceOf[z] => y = z
  BY <1>1, <1>7, Zenon DEF PaymentHasOneOwner, CanReserve, NonceTaken
<1>11. PaymentHasOneOwner'
  BY <1>8, <1>9, <1>10, Zenon DEF PaymentHasOneOwner
<1>12. SettledStaysRegistered'
  BY <1>2, <1>3, <1>4, <1>7, Zenon DEF SettledStaysRegistered
<1> QED BY <1>11, <1>12, Zenon

\* The rows that LEDGER_COMMIT adds, by payment.
LEMMA RowsWritten ==
  ASSUME NEW x \in Txns, NEW a, NEW b, ledger' = ledger \cup SettlementEntries(x, a, b)
  PROVE  /\ SettlementRows(x)' # {}
         /\ \A y \in Txns \ {x} : SettlementRows(y)' = SettlementRows(y)
<1> DEFINE d == Entry(entryId + 1, x, Sender(x), "DEBIT", Amount[x], "SETTLEMENT", a)
<1>1. d \in ledger' /\ d.txn = x
  BY Zenon DEF SettlementEntries, Entry
<1>2. \A e \in SettlementEntries(x, a, b) : e.txn = x \/ e.txn = TokenOf[x]
  BY DEF SettlementEntries, Entry
<1>3. \A y \in Txns : y # TokenOf[x]
  BY TxnTypes, BankAssumption, Zenon
<1>4. SettlementRows(x)' # {}
  <2> HIDE DEF d
  <2> QED BY <1>1, Zenon DEF SettlementRows
<1>5. \A y \in Txns \ {x} : SettlementRows(y)' = SettlementRows(y)
  BY <1>2, <1>3, Zenon DEF SettlementRows
<1> QED BY <1>4, <1>5, Zenon

\* LEDGER_COMMIT takes its invocation to the other side.
LEMMA OwnerStepCommit ==
  ASSUME NoLostAck, TypeOK, PaymentHasOneOwner, SettledStaysRegistered,
         NEW c \in Calls, LedgerCommit(c), ~UNCHANGED bankVars
  PROVE  PaymentHasOneOwner' /\ SettledStaysRegistered'
<1> DEFINE x == Envelope[c]
<1>0. x \in Txns /\ x \in IntentIds /\ \A d \in Calls : Envelope[d] \in Txns
  BY CallTypes, TxnTypes, Zenon
<1>1. /\ pc[c] = "LEDGER_COMMIT"
      /\ intent' = [intent EXCEPT ![x] = "SETTLED"]
      /\ nonces' = nonces
      /\ \E a, b : ledger' = ledger \cup SettlementEntries(x, a, b)
      /\ pc' = [pc EXCEPT ![c] = "PUBLISH"]
  BY Zenon DEF LedgerCommit, MarkConsumed, DbFails, Abort, Committed, Goto, NoLostAck
<1>2. /\ SettlementRows(x)' # {}
      /\ \A y \in Txns \ {x} : SettlementRows(y)' = SettlementRows(y)
  BY <1>0, <1>1, RowsWritten, Zenon
<1>3. /\ x \in Registered /\ nonces[x] = Header[c]
      /\ \A d \in Calls : pc[d] \in AfterReserve /\ Envelope[d] = x => d = c
  BY <1>0, <1>1, CallTypes, Zenon DEF PaymentHasOneOwner, Registered
<1>4. Registered' = Registered
  BY <1>1, Zenon DEF Registered
<1>5. \A y \in Txns : intent'[y] = IF y = x THEN "SETTLED" ELSE intent[y]
  BY <1>0, <1>1, TxnTypes, Zenon DEF TypeOK, BankTypeOK
<1>6. pc'[c] = "PUBLISH" /\ \A d \in Calls \ {c} : pc'[d] = pc[d]
  BY <1>1, Zenon DEF TypeOK, SettleTypeOK
<1>7. ASSUME NEW d \in Calls, NEW f \in Calls, pc'[d] \in AfterReserve,
             pc'[f] \in AfterReserve, Envelope[d] = Envelope[f]
      PROVE  d = f
  BY <1>1, <1>6, <1>7 DEF PaymentHasOneOwner
<1>8. ASSUME NEW d \in Calls
      PROVE  /\ pc'[d] \in AfterReserve => nonces'[Envelope[d]] = Header[d]
             /\ pc'[d] \in PostCommit => SettlementRows(Envelope[d])' # {}
             /\ pc'[d] \in PreCommit => SettlementRows(Envelope[d])' = {}
  <2>1. CASE d = c
    BY <1>1, <1>2, <1>3, <1>6, <2>1, Zenon
  <2>2. CASE d # c /\ pc'[d] \in AfterReserve
    BY <1>0, <1>1, <1>2, <1>3, <1>6, <2>2, Zenon DEF PaymentHasOneOwner
  <2> QED BY <2>1, <2>2, Zenon
<1>9. PaymentHasOneOwner'
  BY <1>7, <1>8, <1>4, Zenon DEF PaymentHasOneOwner
<1>10. SettledStaysRegistered'
  BY <1>2, <1>3, <1>5, <1>4, Zenon DEF SettledStaysRegistered
<1> QED BY <1>9, <1>10, Zenon

\* LEDGER_COMMIT's compensation takes its invocation back: the rows of its own
\* payment disappear, and the nonce stays registered.
LEMMA OwnerStepRevert ==
  ASSUME NoLostAck, TypeOK, PaymentHasOneOwner, SettledStaysRegistered,
         NEW c \in Calls, UndoLedgerCommit(c), ~UNCHANGED bankVars
  PROVE  PaymentHasOneOwner' /\ SettledStaysRegistered'
<1> DEFINE x == Envelope[c]
<1>0. x \in Txns /\ x \in IntentIds /\ \A d \in Calls : Envelope[d] \in Txns
  BY CallTypes, TxnTypes, Zenon
<1>1. /\ pc[c] = "undo_LEDGER_COMMIT"
      /\ intent' = [intent EXCEPT ![x] = "NONE"]
      /\ nonces' = nonces
      /\ ledger' = ledger \ EntriesOf(x)
      /\ pc' = [pc EXCEPT ![c] = "undo_CONSUME_TOKEN"]
  BY Zenon DEF UndoLedgerCommit, CompensationFails, Compensated, Goto, NoLostAck
<1>2. /\ SettlementRows(x)' = {}
      /\ \A y \in Txns \ {x} : SettlementRows(y)' = SettlementRows(y)
  <2>1. \A y \in Txns : y # TokenOf[x]
    BY <1>0, TxnTypes, BankAssumption, Zenon
  <2> QED BY <1>1, <2>1, Zenon DEF SettlementRows, EntriesOf
<1>3. /\ nonces[x] = Header[c] /\ Registered' = Registered
      /\ \A d \in Calls : pc[d] \in AfterReserve /\ Envelope[d] = x => d = c
  BY <1>1, Zenon DEF PaymentHasOneOwner, Registered
<1>4. \A y \in Txns \ {x} : intent'[y] = intent[y]
  BY <1>0, <1>1, TxnTypes, Zenon DEF TypeOK, BankTypeOK
<1>5. pc'[c] = "undo_CONSUME_TOKEN" /\ \A d \in Calls \ {c} : pc'[d] = pc[d]
  BY <1>1, Zenon DEF TypeOK, SettleTypeOK
<1>6. ASSUME NEW d \in Calls, NEW f \in Calls, pc'[d] \in AfterReserve,
             pc'[f] \in AfterReserve, Envelope[d] = Envelope[f]
      PROVE  d = f
  BY <1>1, <1>5, <1>6 DEF PaymentHasOneOwner
<1>7. ASSUME NEW d \in Calls
      PROVE  /\ pc'[d] \in AfterReserve => nonces'[Envelope[d]] = Header[d]
             /\ pc'[d] \in PostCommit => SettlementRows(Envelope[d])' # {}
             /\ pc'[d] \in PreCommit => SettlementRows(Envelope[d])' = {}
  <2>1. CASE d = c
    BY <1>1, <1>2, <1>3, <1>5, <2>1, Zenon
  <2>2. CASE d # c /\ pc'[d] \in AfterReserve
    <3>1. pc'[d] = pc[d] /\ Envelope[d] # x /\ Envelope[d] \in Txns
      BY <1>0, <1>3, <1>5, <2>2, Zenon
    <3>2. nonces'[Envelope[d]] = nonces[Envelope[d]]
      BY <1>1, Zenon
    <3> QED BY <1>2, <3>1, <3>2, Zenon DEF PaymentHasOneOwner
  <2> QED BY <2>1, <2>2, Zenon
<1>8. PaymentHasOneOwner'
  BY <1>3, <1>6, <1>7, Zenon DEF PaymentHasOneOwner
<1>9. SettledStaysRegistered'
  BY <1>2, <1>3, <1>4, Zenon DEF SettledStaysRegistered
<1> QED BY <1>8, <1>9, Zenon

\* RESERVE's compensation deletes the nonce of its own payment only: values in
\* the registry are unique, and the payment is not settled.
LEMMA OwnerStepUndo ==
  ASSUME NoLostAck, TypeOK, PaymentHasOneOwner, SettledStaysRegistered,
         NEW c \in Calls, UndoReserve(c), ~UNCHANGED bankVars
  PROVE  PaymentHasOneOwner' /\ SettledStaysRegistered'
<1> DEFINE x == Envelope[c]
<1>0. x \in Txns /\ x \in IntentIds /\ \A d \in Calls : Envelope[d] \in Txns
  BY CallTypes, TxnTypes, Zenon
<1>1. /\ pc[c] = "undo_RESERVE"
      /\ nonces' = NoncesWithout(x)
      /\ intent' = intent \/ intent' = [intent EXCEPT ![x] = "NONE"]
      /\ ledger' = ledger
      /\ pc' = [pc EXCEPT ![c] = "save_intent"]
  BY Zenon DEF UndoReserve, CompensationFails, Compensated, Goto, money, NoLostAck
<1>2. \A y \in Txns : SettlementRows(y)' = SettlementRows(y)
  BY <1>1, Zenon DEF SettlementRows
<1>3. /\ x \in Registered /\ SettlementRows(x) = {}
      /\ \A d \in Calls : pc[d] \in AfterReserve /\ Envelope[d] = x => d = c
  BY <1>0, <1>1, CallTypes, Zenon DEF PaymentHasOneOwner, Registered
<1>4. \A y \in Txns \ {x} : intent'[y] = intent[y]
  BY <1>0, <1>1, TxnTypes, Zenon DEF TypeOK, BankTypeOK
<1>5. pc'[c] = "save_intent" /\ \A d \in Calls \ {c} : pc'[d] = pc[d]
  BY <1>1, Zenon DEF TypeOK, SettleTypeOK
<1>6. /\ \A y \in Txns \ {x} : nonces'[y] = nonces[y]
      /\ Registered' = Registered \ {x}
  BY <1>1, <1>3, Zenon DEF PaymentHasOneOwner, NoncesWithout, Registered
<1>7. ASSUME NEW d \in Calls, NEW f \in Calls, pc'[d] \in AfterReserve,
             pc'[f] \in AfterReserve, Envelope[d] = Envelope[f]
      PROVE  d = f
  BY <1>5, <1>7 DEF PaymentHasOneOwner
<1>8. ASSUME NEW d \in Calls
      PROVE  /\ pc'[d] \in AfterReserve => nonces'[Envelope[d]] = Header[d]
             /\ pc'[d] \in PostCommit => SettlementRows(Envelope[d])' # {}
             /\ pc'[d] \in PreCommit => SettlementRows(Envelope[d])' = {}
  BY <1>0, <1>2, <1>3, <1>5, <1>6 DEF PaymentHasOneOwner
<1>9. PaymentHasOneOwner'
  BY <1>6, <1>7, <1>8, Zenon DEF PaymentHasOneOwner
<1>10. SettledStaysRegistered'
  BY <1>2, <1>3, <1>4, <1>6, Zenon DEF SettledStaysRegistered
<1> QED BY <1>9, <1>10, Zenon

\* The inductive step.
LEMMA OwnerStep ==
  ASSUME NoLostAck, TypeOK, PaymentHasOneOwner, SettledStaysRegistered, [Next]_vars
  PROVE  PaymentHasOneOwner' /\ SettledStaysRegistered'
<1>1. ASSUME pc' = pc, Keeps PROVE PaymentHasOneOwner' /\ SettledStaysRegistered'
  BY <1>1, RegistryKept, Zenon DEF SidesKept
<1>2. UNCHANGED <<ledger, intent, nonces>> => Keeps
  BY Zenon DEF Keeps, SettlementRows
<1>3. ASSUME NEW t \in Tokens, IssueToken(t), UNCHANGED <<settleVars, scanVars>>
      PROVE  PaymentHasOneOwner' /\ SettledStaysRegistered'
  BY <1>1, <1>3, TokenServiceKeeps, Zenon DEF TypeOK, settleVars
<1>4. ASSUME NEW k \in IntentIds, Expire(k), UNCHANGED <<settleVars, scanVars>>
      PROVE  PaymentHasOneOwner' /\ SettledStaysRegistered'
  BY <1>1, <1>2, <1>4, Zenon DEF Expire, money, settleVars
<1>5. ASSUME NEW c \in Calls, CallStep(c) \/ Crash(c)
      PROVE  PaymentHasOneOwner' /\ SettledStaysRegistered'
  <2>1. CASE ~UNCHANGED bankVars /\ Registers(c)
    BY <2>1, OwnerStepReserve, OwnerStepCommit, OwnerStepRevert, OwnerStepUndo, Zenon
       DEF Registers
  <2>2. CASE UNCHANGED bankVars \/ ~Registers(c)
    <3>1. Keeps
      BY <1>5, <2>2, CallKeeps, Zenon
    <3>2. SidesKept
      BY <1>5, <2>2, CallSides, Zenon DEF Registers
    <3> QED BY <3>1, <3>2, RegistryKept, Zenon
  <2> QED BY <2>1, <2>2, Zenon
<1>6. ASSUME NEW w \in Scanners, ScanStep(w) \/ CrashScanner(w), UNCHANGED settleVars
      PROVE  PaymentHasOneOwner' /\ SettledStaysRegistered'
  BY <1>1, <1>6, ScanKeeps, Zenon DEF TypeOK, settleVars
<1>7. CASE UNCHANGED vars
  BY <1>1, <1>2, <1>7, Zenon DEF vars, bankVars, settleVars
<1> QED BY <1>3, <1>4, <1>5, <1>6, <1>7, Zenon DEF Next

\* A registered payment has one owner, and a settled payment stays registered,
\* for any number of concurrent duplicates and through every crash and database
\* outage, as long as the database reports outcomes truthfully.
THEOREM ReplayProtected ==
  ASSUME NoLostAck
  PROVE  Spec => [](PaymentHasOneOwner /\ SettledStaysRegistered)
<1>1. Init => PaymentHasOneOwner /\ SettledStaysRegistered
  BY Zenon DEF Init, BankInit, SettleInit, PaymentHasOneOwner, SettledStaysRegistered,
         SettlementRows, Registered
<1>2. TypeOK /\ PaymentHasOneOwner /\ SettledStaysRegistered /\ [Next]_vars
        => PaymentHasOneOwner' /\ SettledStaysRegistered'
  BY OwnerStep, Zenon
<1> QED BY <1>1, <1>2, TypeCorrect, PTL DEF Spec

\* A nonce is good for one settlement.
THEOREM NonceSpentOnce ==
  ASSUME NoLostAck
  PROVE  Spec => []OneSettlementPerNonce
<1>1. PaymentHasOneOwner /\ SettledStaysRegistered => OneSettlementPerNonce
  BY Zenon DEF PaymentHasOneOwner, SettledStaysRegistered, OneSettlementPerNonce
<1> QED BY <1>1, ReplayProtected, PTL
-----------------------------------------------------------------------------
\* A step that announces no settlement, and one that takes rows out of the ledger.
Silent == \A e \in outbox' : e.stream = "payment.settled" => e \in outbox
Reverts(c) ==
  /\ pc[c] = "undo_LEDGER_COMMIT"
  /\ CanUndoLedger(Envelope[c])
  /\ ledger' = ledger \ EntriesOf(Envelope[c])

LEMMA TokenServiceSilent ==
  ASSUME NEW t \in Tokens, IssueToken(t) \/ ReleaseExpiredToken(t)
  PROVE  Silent /\ ledger \subseteq ledger'
<1>1. CASE IssueToken(t)
  BY <1>1 DEF IssueToken, OutboxRow, Silent
<1>2. CASE ReleaseExpiredToken(t)
  BY <1>2 DEF ReleaseExpiredToken, ReleaseToken, OutboxRow, Silent, bankVars
<1> QED BY <1>1, <1>2, Zenon

LEMMA ScanSilent ==
  ASSUME NEW w \in Scanners, ScanStep(w) \/ CrashScanner(w)
  PROVE  Silent /\ ledger \subseteq ledger'
<1>1. CASE UNCHANGED bankVars
  BY <1>1, Zenon DEF bankVars, Silent
<1>2. ASSUME NEW t \in Tokens, ReleaseListed(w, t) PROVE Silent /\ ledger \subseteq ledger'
  BY <1>1, <1>2, TokenServiceSilent, Zenon DEF ReleaseListed
<1>3. ASSUME NEW k \in IntentIds, ExpireListed(w, k) PROVE Silent /\ ledger \subseteq ledger'
  BY <1>1, <1>3, Zenon DEF ExpireListed, MarkExpired, money, Silent
<1>4. CASE ListExpiredTokens(w) \/ ListStuckIntents(w) \/ EndScan(w) \/ CrashScanner(w)
  BY <1>1, <1>4, Zenon DEF ListExpiredTokens, ListStuckIntents, EndScan, CrashScanner
<1> QED BY <1>2, <1>3, <1>4, Zenon DEF ScanStep

\* Only LEDGER_COMMIT's compensation takes rows out of the ledger, and only
\* PUBLISH announces a settlement, its own.
LEMMA CallSilent ==
  ASSUME NEW c \in Calls, CallStep(c) \/ Crash(c)
  PROVE  /\ ledger \subseteq ledger' \/ Reverts(c)
         /\ \/ Silent
            \/ /\ Publish(c) /\ ~UNCHANGED bankVars
               /\ \A e \in outbox' : e \in outbox \/ e.key = Envelope[c]
<1>1. CASE UNCHANGED bankVars
  BY <1>1, Zenon DEF bankVars, Silent
<1>2. CASE CheckIdempotency(c) \/ Validate(c) \/ Crash(c)
  BY <1>1, <1>2, Zenon DEF CheckIdempotency, Validate, Crash
<1>3. CASE Reserve(c) \/ ConsumeToken(c)
  BY <1>1, <1>3, Zenon DEF Reserve, ConsumeToken, HoldToken, DbFails, Abort, money, Silent
<1>4. CASE LedgerCommit(c)
  BY <1>1, <1>4, ZenonT(30) DEF LedgerCommit, MarkConsumed, DbFails, Abort, Silent
<1>5. CASE Publish(c) /\ ~UNCHANGED bankVars
  BY <1>5 DEF Publish, DbFails, Abort, money, OutboxRow
<1>6. CASE UndoLedgerCommit(c)
  BY <1>1, <1>6, Zenon DEF UndoLedgerCommit, CompensationFails, Silent, Reverts
<1>7. CASE UndoConsumeToken(c) \/ UndoReserve(c)
  BY <1>1, <1>7, Zenon DEF UndoConsumeToken, InvalidateToken, UndoReserve,
     CompensationFails, money, Silent
<1>8. CASE SaveIntent(c) \/ SaveEvents(c)
  BY <1>8, Zenon DEF SaveIntent, SaveEvents, money, Silent
<1>9. CASE SaveOutbox(c)
  BY <1>9 DEF SaveOutbox, OutboxRow, money, Silent
<1>10. CASE RecordFailure(c)
  BY <1>10 DEF RecordFailure, OutboxRow, money, Silent
<1> QED
  BY <1>1, <1>2, <1>3, <1>4, <1>5, <1>6, <1>7, <1>8, <1>9, <1>10, Zenon DEF CallStep

\* A step that takes rows out of the ledger is such a compensation.
LEMMA OnlyReverts ==
  ASSUME [Next]_vars, ~(ledger \subseteq ledger')
  PROVE  \E c \in Calls : Reverts(c)
<1>1. ASSUME NEW t \in Tokens, IssueToken(t) PROVE FALSE
  BY <1>1, TokenServiceSilent, Zenon
<1>2. ASSUME NEW k \in IntentIds, Expire(k) PROVE FALSE
  BY <1>2, Zenon DEF Expire, money
<1>3. ASSUME NEW c \in Calls, CallStep(c) \/ Crash(c) PROVE Reverts(c)
  BY <1>3, CallSilent, Zenon
<1>4. ASSUME NEW w \in Scanners, ScanStep(w) \/ CrashScanner(w) PROVE FALSE
  BY <1>4, ScanSilent, Zenon
<1>5. ~UNCHANGED vars
  BY Zenon DEF vars, bankVars
<1> QED BY <1>1, <1>2, <1>3, <1>4, <1>5, Zenon DEF Next

\* Under HeadersMatch it never happens: the nonce refers to the intent.
LEMMA CannotUndo ==
  ASSUME HeadersMatch, PaymentHasOneOwner, NEW c \in Calls, pc[c] = "undo_LEDGER_COMMIT"
  PROVE  ~CanUndoLedger(Envelope[c])
<1>1. pc[c] \in AfterReserve
  BY Zenon DEF AfterReserve, SagaSteps
<1>2. Envelope[c] \in Txns /\ nonces[Envelope[c]] = Envelope[c]
  BY <1>1, CallTypes, Zenon DEF HeadersMatch, PaymentHasOneOwner
<1> QED BY <1>2, Zenon DEF CanUndoLedger, NonceRefersTo

LEMMA NeverReverts ==
  ASSUME HeadersMatch, PaymentHasOneOwner, [Next]_vars
  PROVE  ledger \subseteq ledger'
BY OnlyReverts, CannotUndo, Zenon DEF Reverts

\* No step removes or rewrites a ledger row, if the headers of the envelopes name
\* the payments they carry: the compensation of LEDGER_COMMIT never gets past the
\* foreign key of the nonce.
THEOREM LedgerNeverShrinks ==
  ASSUME NoLostAck, HeadersMatch
  PROVE  Spec => LedgerIsImmutable
<1>1. PaymentHasOneOwner /\ [Next]_vars => [ledger \subseteq ledger']_vars
  BY NeverReverts, Zenon
<1> QED BY <1>1, ReplayProtected, PTL DEF Spec, LedgerIsImmutable
-----------------------------------------------------------------------------
\* Payment y is settled for good: its rows are in the ledger, and the invocations
\* that carry it are outside of the transactions that could remove them.
SettledForGood(y) ==
  /\ y \in Txns /\ SettlementRows(y) # {}
  /\ \A d \in Calls : Envelope[d] = y => pc[d] \notin AfterReserve

\* What is announced is settled for good.
Announced == \A e \in outbox : e.stream = "payment.settled" => SettledForGood(e.key)

\* No step changes that: the nonce keeps new invocations out, and compensations
\* delete the rows of their own payments.
LEMMA StaysSettled ==
  ASSUME TypeOK, PaymentHasOneOwner, SettledStaysRegistered, [Next]_vars,
         NEW y, SettledForGood(y)
  PROVE  SettledForGood(y)'
<1>1. SettlementRows(y)' # {}
  <2>1. CASE ledger \subseteq ledger'
    BY <2>1, Zenon DEF SettledForGood, SettlementRows
  <2>2. ASSUME NEW c \in Calls, Reverts(c) PROVE SettlementRows(y)' # {}
    <3>1. Envelope[c] # y /\ TokenOf[Envelope[c]] # y
      <4>1. Envelope[c] # y
        BY <2>2, Zenon DEF SettledForGood, Reverts
      <4>2. TokenOf[Envelope[c]] \in Tokens /\ y \in Txns
        BY CallTypes, TxnTypes, Zenon DEF SettledForGood
      <4> QED BY <4>1, <4>2, BankAssumption, Zenon
    <3> QED BY <2>2, <3>1, Zenon DEF Reverts, SettledForGood, SettlementRows, EntriesOf
  <2> QED BY <2>1, <2>2, OnlyReverts, Zenon
<1>2. ASSUME NEW d \in Calls, Envelope[d] = y PROVE pc'[d] \notin AfterReserve
  <2>1. ~CanReserve(y, Header[d])
    BY Zenon DEF SettledForGood, SettledStaysRegistered, CanReserve, NonceTaken
  <2>2. pc[d] \notin AfterReserve
    BY <1>2, Zenon DEF SettledForGood
  <2>3. CASE pc' = pc
    BY <2>2, <2>3, Zenon
  <2>4. ASSUME NEW c \in Calls, CallStep(c) \/ Crash(c) PROVE pc'[d] \notin AfterReserve
    <3>1. CASE d = c
      BY <1>2, <2>1, <2>2, <2>4, <3>1, CallControl, Zenon DEF TypeOK
    <3>2. CASE d # c
      BY <2>2, <2>4, <3>2, CallControl, Zenon DEF TypeOK
    <3> QED BY <3>1, <3>2, Zenon
  <2> QED BY <2>3, <2>4, Zenon DEF Next, vars, settleVars
<1> QED BY <1>1, <1>2, Zenon DEF SettledForGood

\* Who announces a settlement finds its rows in the ledger, and leaves them there.
LEMMA AnnounceStep ==
  ASSUME NoLostAck, TypeOK, PaymentHasOneOwner, SettledStaysRegistered, Announced,
         [Next]_vars
  PROVE  Announced'
<1>1. \A e \in outbox : e.stream = "payment.settled" => SettledForGood(e.key)'
  BY StaysSettled, Zenon DEF Announced
<1>2. ASSUME Silent PROVE Announced'
  BY <1>1, <1>2, Zenon DEF Silent, Announced
<1>3. ASSUME NEW t \in Tokens, IssueToken(t) PROVE Announced'
  BY <1>2, <1>3, TokenServiceSilent, Zenon
<1>4. ASSUME NEW k \in IntentIds, Expire(k) PROVE Announced'
  BY <1>2, <1>4, Zenon DEF Expire, money, Silent
<1>5. ASSUME NEW c \in Calls, CallStep(c) \/ Crash(c) PROVE Announced'
  <2>1. CASE Silent
    BY <1>2, <2>1, Zenon
  <2>2. CASE ~Silent
    <3>1. /\ Publish(c) /\ ~UNCHANGED bankVars
          /\ \A e \in outbox' : e \in outbox \/ e.key = Envelope[c]
      BY <1>5, <2>2, CallSilent, Zenon
    <3>2. /\ pc[c] = "PUBLISH" /\ pc' = [pc EXCEPT ![c] = "done"]
          /\ ledger' = ledger
      BY <3>1, Zenon DEF Publish, DbFails, Abort, Goto, money, NoLostAck
    <3>3. SettlementRows(Envelope[c])' # {}
      BY <3>2, Zenon DEF PaymentHasOneOwner, SettlementRows
    <3>4. ASSUME NEW d \in Calls, Envelope[d] = Envelope[c] PROVE pc'[d] \notin AfterReserve
      <4>1. pc'[c] = "done" /\ \A f \in Calls \ {c} : pc'[f] = pc[f]
        BY <3>2, Zenon DEF TypeOK, SettleTypeOK
      <4> QED BY <3>2, <3>4, <4>1, Zenon DEF PaymentHasOneOwner
    <3>5. SettledForGood(Envelope[c])'
      BY <3>3, <3>4, CallTypes, Zenon DEF SettledForGood
    <3> QED BY <1>1, <3>1, <3>5, Zenon DEF Announced
  <2> QED BY <2>1, <2>2, Zenon
<1>6. ASSUME NEW w \in Scanners, ScanStep(w) \/ CrashScanner(w) PROVE Announced'
  BY <1>2, <1>6, ScanSilent, Zenon
<1>7. CASE UNCHANGED vars
  BY <1>2, <1>7, Zenon DEF vars, bankVars, Silent
<1> QED BY <1>3, <1>4, <1>5, <1>6, <1>7, Zenon DEF Next

\* A payment.settled event is in the outbox only for money that has moved and
\* stays moved, whatever the headers say.
THEOREM NeverPhantom ==
  ASSUME NoLostAck
  PROVE  Spec => []NoPhantomEvent
<1>1. Init => Announced
  BY Zenon DEF Init, BankInit, Announced
<1>2. TypeOK /\ PaymentHasOneOwner /\ SettledStaysRegistered /\ Announced /\ [Next]_vars
        => Announced'
  BY AnnounceStep, Zenon
<1>3. Announced => NoPhantomEvent
  BY Zenon DEF Announced, SettledForGood, NoPhantomEvent
<1> QED BY <1>1, <1>2, <1>3, TypeCorrect, ReplayProtected, PTL DEF Spec

\* A registered payment has one owner: of all invocations that carry it one is
\* past RESERVE, its nonce stays registered, and its rows are in the ledger exactly
\* from LEDGER_COMMIT on, or until that is undone.
THEOREM PaymentNeverShared ==
  ASSUME NoLostAck
  PROVE  Spec => []PaymentHasOneOwner
BY ReplayProtected, PTL
=============================================================================
