----------------------- MODULE OfflinePayEscrowProofs -----------------------
(***************************************************************************)
(* The ledger: the steps that move money, the rows they write, and the     *)
(* statuses and balances those rows stand behind.  The server implements   *)
(* Escrow: the initial states of OfflinePay map to initial states of the   *)
(* escrow, and every step of a saga, a compensation, a scanner or a crash  *)
(* to a step of the escrow or to none.                                     *)
(***************************************************************************)
EXTENDS OfflinePaySpendProofs

(***************************************************************************)
(* The steps that move money.                                              *)
(***************************************************************************)

\* No payment is addressed to its own sender.  LEDGER_COMMIT writes the balance
\* row of such an account twice, from values read before either write.
NoSelfPayment == \A x \in Txns : Receiver[x] # Sender(x)

\* LEDGER_COMMIT and its compensation, when their transactions commit.
Commits(c) ==
  LET x == Envelope[c]
      s == Sender(x)
      r == Receiver[x]
  IN  /\ pc[c] = "LEDGER_COMMIT"
      /\ CanCommit(x)
      /\ token' = [token EXCEPT ![TokenOf[x]] = "CONSUMED"]
      /\ avail' = [avail EXCEPT ![s] = avail[s] + Change(x), ![r] = avail[r] + Amount[x]]
      /\ reserved' = [reserved EXCEPT ![s] = @ - Value[TokenOf[x]], ![r] = reserved[r]]
      /\ entryId' = entryId + 3
      /\ ledger' = ledger \cup SettlementEntries(x, avail[s] + Change(x), avail[r] + Amount[x])

Undoes(c) ==
  LET x == Envelope[c]
      s == Sender(x)
      r == Receiver[x]
  IN  /\ pc[c] = "undo_LEDGER_COMMIT"
      /\ CanUndoLedger(x)
      /\ avail' = [avail EXCEPT ![s] = @ - Change(x), ![r] = avail[r] - Amount[x]]
      /\ reserved' = [reserved EXCEPT ![s] = @ + Value[TokenOf[x]], ![r] = reserved[r]]
      /\ ledger' = ledger \ EntriesOf(x)
      /\ UNCHANGED <<token, entryId>>

\* Where no money moves, a token at most passes to its holder or is invalidated.
Rests ==
  /\ UNCHANGED money
  /\ \A t \in Tokens : \/ token'[t] = token[t]
                       \/ token[t] = "ISSUED" /\ token'[t] = "HELD"
                       \/ token[t] = "HELD" /\ token'[t] = "INVALIDATED"

\* Money moves when a token is issued or released, and when a settlement is
\* committed or undone.
LEMMA MoneyMoves ==
  ASSUME TypeOK, [Next]_vars
  PROVE  \/ Rests
         \/ \E t \in Tokens : IssueToken(t)
         \/ \E t \in Tokens : CanRelease(t) /\ ReleaseExpiredToken(t)
         \/ \E c \in Calls : Commits(c) /\ LedgerCommit(c)
         \/ \E c \in Calls : Undoes(c)
<1>1. UNCHANGED <<money, token>> => Rests
  BY Zenon DEF Rests
<1>2. UNCHANGED bankVars => Rests
  BY <1>1, Zenon DEF bankVars, money
<1>3. ASSUME NEW k \in IntentIds, Expire(k) PROVE Rests
  BY <1>1, <1>3, Zenon DEF Expire
<1>4. ASSUME NEW c \in Calls, CallStep(c) \/ Crash(c)
      PROVE  Rests \/ (Commits(c) /\ LedgerCommit(c)) \/ Undoes(c)
  <2>0. TokenOf[Envelope[c]] \in Tokens /\ token \in [Tokens -> TokenStatus]
    BY CallTypes, TxnTypes, Zenon DEF TypeOK, BankTypeOK
  <2>1. CASE CheckIdempotency(c) \/ Validate(c) \/ Crash(c)
    BY <1>2, <2>1, Zenon DEF CheckIdempotency, Validate, Crash
  <2>2. CASE Reserve(c)
    BY <1>1, <1>2, <2>2, Zenon DEF Reserve, DbFails, Abort
  <2>3. CASE ConsumeToken(c)
    BY <1>2, <2>0, <2>3, Zenon DEF ConsumeToken, HoldToken, CanHold, DbFails, Abort, Rests
  <2>4. CASE LedgerCommit(c)
    BY <1>2, <2>4, Zenon DEF LedgerCommit, MarkConsumed, Commits, DbFails, Abort
  <2>5. CASE Publish(c)
    BY <1>1, <1>2, <2>5, Zenon DEF Publish, DbFails, Abort
  <2>6. CASE UndoLedgerCommit(c)
    BY <1>2, <2>6, Zenon DEF UndoLedgerCommit, CompensationFails, Undoes
  <2>7. CASE UndoConsumeToken(c)
    BY <1>2, <2>0, <2>7, Zenon DEF UndoConsumeToken, InvalidateToken, CompensationFails,
       Rests
  <2>8. CASE UndoReserve(c)
    BY <1>1, <1>2, <2>8, Zenon DEF UndoReserve, CompensationFails
  <2>9. CASE SaveIntent(c) \/ SaveOutbox(c)
    BY <1>1, <2>9, Zenon DEF SaveIntent, SaveOutbox
  <2>10. CASE SaveEvents(c) \/ RecordFailure(c)
    BY <1>1, <2>10, Zenon DEF SaveEvents, RecordFailure
  <2> QED
    BY <1>4, <2>1, <2>2, <2>3, <2>4, <2>5, <2>6, <2>7, <2>8, <2>9, <2>10, Zenon DEF CallStep
<1>5. ASSUME NEW w \in Scanners, ScanStep(w) \/ CrashScanner(w)
      PROVE  Rests \/ \E t \in Tokens : CanRelease(t) /\ ReleaseExpiredToken(t)
  <2>1. ASSUME NEW t \in Tokens, ReleaseListed(w, t)
        PROVE  Rests \/ (CanRelease(t) /\ ReleaseExpiredToken(t))
    <3>1. ReleaseExpiredToken(t) /\ ~CanRelease(t) => UNCHANGED bankVars
      BY Zenon DEF ReleaseExpiredToken
    <3> QED BY <1>2, <2>1, <3>1, Zenon DEF ReleaseListed
  <2>2. ASSUME NEW k \in IntentIds, ExpireListed(w, k) PROVE Rests
    BY <1>1, <1>2, <2>2, Zenon DEF ExpireListed, MarkExpired
  <2>3. CASE ListExpiredTokens(w) \/ ListStuckIntents(w) \/ EndScan(w) \/ CrashScanner(w)
    BY <1>2, <2>3, Zenon DEF ListExpiredTokens, ListStuckIntents, EndScan, CrashScanner
  <2> QED BY <1>5, <2>1, <2>2, <2>3, Zenon DEF ScanStep
<1>6. CASE UNCHANGED vars
  BY <1>2, <1>6, Zenon DEF vars
<1> QED BY <1>3, <1>4, <1>5, <1>6, Zenon DEF Next

\* What each of them does to the balances, account by account.
LEMMA IssueBalances ==
  ASSUME TypeOK, NEW t \in Tokens, IssueToken(t)
  PROVE  /\ avail'[Owner[t]] = avail[Owner[t]] - Value[t]
         /\ reserved'[Owner[t]] = reserved[Owner[t]] + Value[t]
         /\ \A a \in Accounts \ {Owner[t]} : avail'[a] = avail[a] /\ reserved'[a] = reserved[a]
BY TokenTypes, Zenon DEF IssueToken, UpdateBalance, TypeOK, BankTypeOK

LEMMA ReleaseBalances ==
  ASSUME TypeOK, NEW t \in Tokens, CanRelease(t), ReleaseExpiredToken(t)
  PROVE  /\ avail'[Owner[t]] = avail[Owner[t]] + Value[t]
         /\ reserved'[Owner[t]] = reserved[Owner[t]] - Value[t]
         /\ \A a \in Accounts \ {Owner[t]} : avail'[a] = avail[a] /\ reserved'[a] = reserved[a]
BY TokenTypes, Zenon DEF ReleaseExpiredToken, UpdateBalance, TypeOK, BankTypeOK

LEMMA CommitBalances ==
  ASSUME NoSelfPayment, TypeOK, ChecksHold, NEW c \in Calls, Commits(c),
         NEW x, x = Envelope[c], NEW s, s = Sender(x), NEW r, r = Receiver[x]
  PROVE  /\ x \in Txns /\ TokenOf[x] \in Tokens /\ s \in Accounts /\ r \in Accounts /\ s # r
         /\ Value[TokenOf[x]] \in Nat /\ Amount[x] \in Nat /\ Amount[x] <= Value[TokenOf[x]]
         /\ avail'[s] = avail[s] + (Value[TokenOf[x]] - Amount[x])
         /\ avail'[r] = avail[r] + Amount[x]
         /\ reserved'[s] = reserved[s] - Value[TokenOf[x]]
         /\ \A a \in Accounts \ {s, r} : avail'[a] = avail[a]
         /\ \A a \in Accounts \ {s} : reserved'[a] = reserved[a]
<1>1. /\ x \in Txns /\ TokenOf[x] \in Tokens /\ s \in Accounts /\ s # r
      /\ Value[TokenOf[x]] \in Nat /\ Amount[x] \in Nat
  BY CallTypes, TxnTypes, Zenon DEF NoSelfPayment
<1>2. r \in Accounts /\ Amount[x] <= Value[TokenOf[x]]
  BY Zenon DEF ChecksHold, Commits, SagaSteps, AfterReserve
<1>3. /\ avail' = [avail EXCEPT ![s] = avail[s] + Change(x), ![r] = avail[r] + Amount[x]]
      /\ reserved' = [reserved EXCEPT ![s] = @ - Value[TokenOf[x]], ![r] = reserved[r]]
  BY Zenon DEF Commits
<1>4. /\ avail'[s] = avail[s] + Change(x)
      /\ avail'[r] = avail[r] + Amount[x]
      /\ reserved'[s] = reserved[s] - Value[TokenOf[x]]
      /\ \A a \in Accounts \ {s, r} : avail'[a] = avail[a]
      /\ \A a \in Accounts \ {s} : reserved'[a] = reserved[a]
  BY <1>1, <1>2, <1>3, Zenon DEF TypeOK, BankTypeOK
<1> QED BY <1>1, <1>2, <1>4, Zenon DEF Change

LEMMA UndoBalances ==
  ASSUME NoSelfPayment, TypeOK, ChecksHold, NEW c \in Calls, Undoes(c),
         NEW x, x = Envelope[c], NEW s, s = Sender(x), NEW r, r = Receiver[x]
  PROVE  /\ x \in Txns /\ s \in Accounts /\ r \in Accounts /\ s # r
         /\ Value[TokenOf[x]] \in Nat /\ Amount[x] \in Nat
         /\ avail'[s] = avail[s] - (Value[TokenOf[x]] - Amount[x])
         /\ avail'[r] = avail[r] - Amount[x]
         /\ reserved'[s] = reserved[s] + Value[TokenOf[x]]
         /\ \A a \in Accounts \ {s, r} : avail'[a] = avail[a]
         /\ \A a \in Accounts \ {s} : reserved'[a] = reserved[a]
<1>1. /\ x \in Txns /\ TokenOf[x] \in Tokens /\ s \in Accounts /\ s # r
      /\ Value[TokenOf[x]] \in Nat /\ Amount[x] \in Nat
  BY CallTypes, TxnTypes, Zenon DEF NoSelfPayment
<1>2. r \in Accounts
  BY Zenon DEF ChecksHold, Undoes, SagaSteps, AfterReserve
<1>3. /\ avail' = [avail EXCEPT ![s] = @ - Change(x), ![r] = avail[r] - Amount[x]]
      /\ reserved' = [reserved EXCEPT ![s] = @ + Value[TokenOf[x]], ![r] = reserved[r]]
  BY Zenon DEF Undoes
<1>4. /\ avail'[s] = avail[s] - Change(x)
      /\ avail'[r] = avail[r] - Amount[x]
      /\ reserved'[s] = reserved[s] + Value[TokenOf[x]]
      /\ \A a \in Accounts \ {s, r} : avail'[a] = avail[a]
      /\ \A a \in Accounts \ {s} : reserved'[a] = reserved[a]
  BY <1>1, <1>2, <1>3, Zenon DEF TypeOK, BankTypeOK
<1> QED BY <1>1, <1>2, <1>4, Zenon DEF Change

-----------------------------------------------------------------------------
(***************************************************************************)
(* The rows behind the statuses.                                           *)
(***************************************************************************)

\* Entry ids grow, and the rows of payments are settlements.
RowsInOrder ==
  \A e \in ledger : e.id <= entryId /\ (e.txn \in Txns => e.type = "SETTLEMENT")

\* A token has no rows before it is issued, its reservation afterwards, and no
\* release while it can still be spent.
TokensOnLedger ==
  \A t \in Tokens :
    /\ token[t] = "NONE" => \A e \in ledger : e.txn # t
    /\ token[t] # "NONE" => TokenRows(t, "RESERVATION") # {}
    /\ token[t] \in {"ISSUED", "HELD"} => TokenRows(t, "RELEASE") = {}

\* Who holds a token finds no settlement against it but its own.
HolderRows ==
  \A c \in Calls, e \in ledger :
    /\ pc[c] \in AfterConsume /\ e.type = "SETTLEMENT"
    /\ TokenOf[e.txn] = TokenOf[Envelope[c]]
    => e.txn = Envelope[c]

\* The row of a reservation, and that of a release.
LEMMA IssueRow ==
  ASSUME TypeOK, NEW t \in Tokens, IssueToken(t)
  PROVE  /\ token[t] = "NONE" /\ entryId' = entryId + 1
         /\ \A u \in Tokens : token'[u] = IF u = t THEN "ISSUED" ELSE token[u]
         /\ \E e : /\ ledger' = ledger \cup {e} /\ e.id = entryId + 1
                   /\ e.txn = t /\ e.type = "RESERVATION" /\ e.account = Owner[t]
                   /\ e.direction = "DEBIT" /\ e.amount = Value[t]
                   /\ e.after = avail[Owner[t]] - Value[t]
<1>1. token[t] = "NONE" /\ entryId' = entryId + 1
  BY Zenon DEF IssueToken, CreateToken
<1>2. \A u \in Tokens : token'[u] = IF u = t THEN "ISSUED" ELSE token[u]
  BY Zenon DEF IssueToken, CreateToken, TypeOK, BankTypeOK
<1> DEFINE e == Entry(entryId + 1, t, Owner[t], "DEBIT", Value[t], "RESERVATION",
                      avail[Owner[t]] - Value[t])
<1>3. ledger' = ledger \cup {e}
  BY Zenon DEF IssueToken
<1>4. /\ e.id = entryId + 1 /\ e.txn = t /\ e.type = "RESERVATION" /\ e.account = Owner[t]
      /\ e.direction = "DEBIT" /\ e.amount = Value[t]
      /\ e.after = avail[Owner[t]] - Value[t]
  BY Zenon DEF Entry
<1> HIDE DEF e
<1> QED BY <1>1, <1>2, <1>3, <1>4, Zenon

LEMMA ReleaseRow ==
  ASSUME TypeOK, NEW t \in Tokens, CanRelease(t), ReleaseExpiredToken(t)
  PROVE  /\ token[t] \in {"ISSUED", "HELD"} /\ entryId' = entryId + 1
         /\ \A u \in Tokens : token'[u] = IF u = t THEN "INVALIDATED" ELSE token[u]
         /\ \E e : /\ ledger' = ledger \cup {e} /\ e.id = entryId + 1
                   /\ e.txn = t /\ e.type = "RELEASE" /\ e.account = Owner[t]
                   /\ e.direction = "CREDIT" /\ e.amount = Value[t]
                   /\ e.after = avail[Owner[t]] + Value[t]
<1>1. token[t] \in {"ISSUED", "HELD"} /\ entryId' = entryId + 1
  BY Zenon DEF ReleaseExpiredToken, CanRelease, IsValidTokenTransition
<1>2. \A u \in Tokens : token'[u] = IF u = t THEN "INVALIDATED" ELSE token[u]
  BY Zenon DEF ReleaseExpiredToken, ReleaseToken, TypeOK, BankTypeOK
<1> DEFINE e == Entry(entryId + 1, t, Owner[t], "CREDIT", Value[t], "RELEASE",
                      avail[Owner[t]] + Value[t])
<1>3. ledger' = ledger \cup {e}
  BY Zenon DEF ReleaseExpiredToken
<1>4. /\ e.id = entryId + 1 /\ e.txn = t /\ e.type = "RELEASE" /\ e.account = Owner[t]
      /\ e.direction = "CREDIT" /\ e.amount = Value[t]
      /\ e.after = avail[Owner[t]] + Value[t]
  BY Zenon DEF Entry
<1> HIDE DEF e
<1> QED BY <1>1, <1>2, <1>3, <1>4, Zenon

\* The three rows of a settlement: debit, credit and release.
LEMMA CommitRows ==
  ASSUME TypeOK, TokenHasOneHolder, NEW c \in Calls, Commits(c), NEW x, x = Envelope[c]
  PROVE  /\ x \in Txns /\ TokenOf[x] \in Tokens
         /\ token[TokenOf[x]] = "HELD" /\ entryId' = entryId + 3
         /\ \A u \in Tokens : token'[u] = IF u = TokenOf[x] THEN "CONSUMED" ELSE token[u]
         /\ \E d, r, f :
              /\ ledger' = ledger \cup {d, r, f}
              /\ d.id = entryId + 1 /\ r.id = entryId + 2 /\ f.id = entryId + 3
              /\ d.txn = x /\ r.txn = x /\ f.txn = TokenOf[x]
              /\ d.type = "SETTLEMENT" /\ r.type = "SETTLEMENT" /\ f.type = "RELEASE"
              /\ d.account = Sender(x) /\ r.account = Receiver[x] /\ f.account = Sender(x)
              /\ d.direction = "DEBIT" /\ r.direction = "CREDIT" /\ f.direction = "CREDIT"
              /\ d.amount = Amount[x] /\ r.amount = Amount[x]
              /\ f.amount = Value[TokenOf[x]]
              /\ d.after = avail[Sender(x)] + Change(x) /\ f.after = d.after
              /\ r.after = avail[Receiver[x]] + Amount[x]
<1>1. x \in Txns /\ TokenOf[x] \in Tokens
  BY CallTypes, TxnTypes, Zenon
<1>2. token[TokenOf[x]] = "HELD" /\ entryId' = entryId + 3
  BY Zenon DEF Commits, CanCommit, IsValidTokenTransition, TokenHasOneHolder
<1>3. \A u \in Tokens : token'[u] = IF u = TokenOf[x] THEN "CONSUMED" ELSE token[u]
  BY <1>1, Zenon DEF Commits, TypeOK, BankTypeOK
<1> DEFINE sa == avail[Sender(x)] + Change(x)
           ra == avail[Receiver[x]] + Amount[x]
           d == Entry(entryId + 1, x, Sender(x), "DEBIT", Amount[x], "SETTLEMENT", sa)
           r == Entry(entryId + 2, x, Receiver[x], "CREDIT", Amount[x], "SETTLEMENT", ra)
           f == Entry(entryId + 3, TokenOf[x], Sender(x), "CREDIT", Value[TokenOf[x]],
                      "RELEASE", sa)
<1>4. ledger' = ledger \cup {d, r, f}
  BY Zenon DEF Commits, SettlementEntries
<1>5. /\ d.id = entryId + 1 /\ d.txn = x /\ d.type = "SETTLEMENT" /\ d.account = Sender(x)
      /\ d.direction = "DEBIT" /\ d.amount = Amount[x] /\ d.after = sa
  BY Zenon DEF Entry
<1>6. /\ r.id = entryId + 2 /\ r.txn = x /\ r.type = "SETTLEMENT" /\ r.account = Receiver[x]
      /\ r.direction = "CREDIT" /\ r.amount = Amount[x] /\ r.after = ra
  BY Zenon DEF Entry
<1>7. /\ f.id = entryId + 3 /\ f.txn = TokenOf[x] /\ f.type = "RELEASE"
      /\ f.account = Sender(x) /\ f.direction = "CREDIT"
      /\ f.amount = Value[TokenOf[x]] /\ f.after = sa
  BY Zenon DEF Entry
<1> HIDE DEF d, r, f
<1> QED BY <1>1, <1>2, <1>3, <1>4, <1>5, <1>6, <1>7

\* Who comes into a token found it ISSUED.
LEMMA Entering ==
  ASSUME TypeOK, [Next]_vars, NEW c \in Calls, pc'[c] \in AfterConsume, pc[c] \notin AfterConsume
  PROVE  token[TokenOf[Envelope[c]]] = "ISSUED"
<1>1. ASSUME NEW d \in Calls, CallStep(d) \/ Crash(d)
      PROVE  token[TokenOf[Envelope[c]]] = "ISSUED"
  BY <1>1, CallControl, Zenon DEF TypeOK, CanHold
<1>2. pc' = pc => FALSE
  BY Zenon
<1> QED BY <1>1, <1>2, Zenon DEF Next, vars, settleVars

\* Rows in order, and tokens with the rows their status calls for.
LEMMA RowsStep ==
  ASSUME TypeOK, TokenHasOneHolder, RowsInOrder, TokensOnLedger, [Next]_vars
  PROVE  RowsInOrder' /\ TokensOnLedger'
<1> USE DEF TokenRows
<1>0. entryId \in Nat /\ (\A e \in ledger : e.id \in Nat)
      /\ (\A x \in Txns : x \notin Tokens) /\ token \in [Tokens -> TokenStatus]
  BY BankAssumption, Zenon DEF TypeOK, BankTypeOK, LedgerEntry
<1>1. CASE Rests
  BY <1>1, Zenon DEF Rests, money, RowsInOrder, TokensOnLedger
<1>2. ASSUME NEW t \in Tokens, IssueToken(t) PROVE RowsInOrder' /\ TokensOnLedger'
  <2>1. PICK e : ledger' = ledger \cup {e} /\ e.id = entryId + 1 /\ e.txn = t
                 /\ e.type = "RESERVATION"
    BY <1>2, IssueRow
  <2>2. /\ token[t] = "NONE" /\ entryId' = entryId + 1
        /\ \A u \in Tokens : token'[u] = IF u = t THEN "ISSUED" ELSE token[u]
    BY <1>2, IssueRow
  <2>3. RowsInOrder'
    BY <1>0, <2>1, <2>2 DEF RowsInOrder
  <2>4. TokensOnLedger'
    BY <2>1, <2>2 DEF TokensOnLedger
  <2> QED BY <2>3, <2>4, Zenon
<1>3. ASSUME NEW t \in Tokens, CanRelease(t), ReleaseExpiredToken(t)
      PROVE  RowsInOrder' /\ TokensOnLedger'
  <2>1. PICK e : ledger' = ledger \cup {e} /\ e.id = entryId + 1 /\ e.txn = t
                 /\ e.type = "RELEASE"
    BY <1>3, ReleaseRow
  <2>2. /\ token[t] \in {"ISSUED", "HELD"} /\ entryId' = entryId + 1
        /\ \A u \in Tokens : token'[u] = IF u = t THEN "INVALIDATED" ELSE token[u]
    BY <1>3, ReleaseRow
  <2>3. RowsInOrder'
    BY <1>0, <2>1, <2>2 DEF RowsInOrder
  <2>4. TokensOnLedger'
    BY <2>1, <2>2 DEF TokensOnLedger
  <2> QED BY <2>3, <2>4, Zenon
<1>4. ASSUME NEW c \in Calls, Commits(c) PROVE RowsInOrder' /\ TokensOnLedger'
  <2> DEFINE x == Envelope[c]
  <2>1. PICK d, r, f :
          /\ ledger' = ledger \cup {d, r, f}
          /\ d.id = entryId + 1 /\ r.id = entryId + 2 /\ f.id = entryId + 3
          /\ d.txn = x /\ r.txn = x /\ f.txn = TokenOf[x]
          /\ d.type = "SETTLEMENT" /\ r.type = "SETTLEMENT" /\ f.type = "RELEASE"
    BY <1>4, CommitRows
  <2>2. /\ x \in Txns /\ TokenOf[x] \in Tokens
        /\ token[TokenOf[x]] = "HELD" /\ entryId' = entryId + 3
        /\ \A u \in Tokens : token'[u] = IF u = TokenOf[x] THEN "CONSUMED" ELSE token[u]
    BY <1>4, CommitRows
  <2> HIDE DEF x
  <2>3. RowsInOrder'
    BY <1>0, <2>1, <2>2 DEF RowsInOrder
  <2>4. TokensOnLedger'
    BY <1>0, <2>1, <2>2 DEF TokensOnLedger
  <2> QED BY <2>3, <2>4, Zenon
<1>5. ASSUME NEW c \in Calls, Undoes(c) PROVE RowsInOrder' /\ TokensOnLedger'
  <2> DEFINE x == Envelope[c]
  <2>1. /\ ledger' = ledger \ EntriesOf(x) /\ token' = token /\ entryId' = entryId
        /\ x \in Txns
    BY <1>5, CallTypes, Zenon DEF Undoes
  <2>2. \A e \in EntriesOf(x) : e.txn = x \/ e.type = "RELEASE"
    BY Zenon DEF EntriesOf
  <2>3. RowsInOrder'
    BY <2>1, Zenon DEF RowsInOrder
  <2>4. TokensOnLedger'
    BY <1>0, <2>1, <2>2, Zenon DEF TokensOnLedger
  <2> QED BY <2>3, <2>4, Zenon
<1> QED BY <1>1, <1>2, <1>3, <1>4, <1>5, MoneyMoves, Zenon

\* A settlement row is an old one or comes from a commit.
LEMMA NewSettlementRows ==
  ASSUME TypeOK, TokenHasOneHolder, [Next]_vars, NEW e \in ledger', e.type = "SETTLEMENT",
         e \notin ledger
  PROVE  \E c \in Calls : Commits(c) /\ LedgerCommit(c) /\ e.txn = Envelope[c]
<1>1. CASE Rests
  BY <1>1, Zenon DEF Rests, money
<1>2. ASSUME NEW t \in Tokens, IssueToken(t) PROVE FALSE
  BY <1>2, IssueRow
<1>3. ASSUME NEW t \in Tokens, CanRelease(t), ReleaseExpiredToken(t) PROVE FALSE
  BY <1>3, ReleaseRow
<1>4. ASSUME NEW c \in Calls, Commits(c) PROVE e.txn = Envelope[c]
  <2>1. PICK d, r, f : /\ ledger' = ledger \cup {d, r, f}
                       /\ d.txn = Envelope[c] /\ r.txn = Envelope[c] /\ f.type = "RELEASE"
    BY <1>4, CommitRows
  <2> QED BY <2>1, Zenon
<1>5. ASSUME NEW c \in Calls, Undoes(c) PROVE FALSE
  BY <1>5, Zenon DEF Undoes
<1> QED BY <1>1, <1>2, <1>3, <1>4, <1>5, MoneyMoves, Zenon

\* The rows of a token are those of its one holder.
LEMMA HolderRowsStep ==
  ASSUME TypeOK, TokenHasOneHolder, TokenHasOneHolder', HolderRows, [Next]_vars
  PROVE  HolderRows'
<1> SUFFICES ASSUME NEW c \in Calls, NEW e \in ledger', pc'[c] \in AfterConsume,
                    e.type = "SETTLEMENT", TokenOf[e.txn] = TokenOf[Envelope[c]]
             PROVE  e.txn = Envelope[c]
  BY Zenon DEF HolderRows
<1>1. CASE e \in ledger /\ pc[c] \in AfterConsume
  BY <1>1, Zenon DEF HolderRows
<1>2. CASE e \in ledger /\ pc[c] \notin AfterConsume
  <2>1. token[TokenOf[e.txn]] = "CONSUMED"
    BY <1>2, Zenon DEF TokenHasOneHolder
  <2> QED BY <1>2, <2>1, Entering, Zenon
<1>3. CASE e \notin ledger
  <2>1. PICK d \in Calls : Commits(d) /\ LedgerCommit(d) /\ e.txn = Envelope[d]
    BY <1>3, NewSettlementRows, Zenon
  <2>2. ~UNCHANGED bankVars
    BY <2>1 DEF Commits, bankVars, TypeOK, BankTypeOK
  <2>3. pc'[d] \in AfterConsume
    BY <2>1, <2>2, CommitEffect DEF TypeOK, SettleTypeOK, AfterConsume, AfterReserve,
       SagaSteps
  <2>4. c = d
    BY <2>1, <2>3, Zenon DEF TokenHasOneHolder
  <2> QED BY <2>1, <2>4, Zenon
<1> QED BY <1>1, <1>2, <1>3, Zenon

\* The double entry of one payment, and the one release of its token.
Complete(x) ==
  /\ \E d, r : /\ SettlementRows(x) = {d, r} /\ d # r
              /\ d.direction = "DEBIT" /\ d.account = Sender(x)
              /\ r.direction = "CREDIT" /\ r.account = Receiver[x]
              /\ d.amount = Amount[x] /\ r.amount = Amount[x]
  /\ token[TokenOf[x]] = "CONSUMED"
  /\ \E f : TokenRows(TokenOf[x], "RELEASE") = {f}

EntriesArePaired == \A x \in Txns : SettlementRows(x) = {} \/ Complete(x)

\* Steps that do not touch the rows of a complete settlement or its token.
LEMMA CompleteStays ==
  ASSUME NEW x \in Txns, Complete(x), SettlementRows(x)' = SettlementRows(x),
         token'[TokenOf[x]] = "CONSUMED",
         TokenRows(TokenOf[x], "RELEASE")' = TokenRows(TokenOf[x], "RELEASE")
  PROVE  Complete(x)'
BY DEF Complete

LEMMA AtomicStep ==
  ASSUME TypeOK, TokenHasOneHolder, RowsInOrder, TokensOnLedger, HolderRows,
         EntriesArePaired, [Next]_vars
  PROVE  EntriesArePaired'
<1>0. /\ \A x \in Txns : x \notin Tokens /\ TokenOf[x] \in Tokens
      /\ entryId \in Nat /\ \A e \in ledger : e.id \in Nat
  BY BankAssumption, Zenon DEF TypeOK, BankTypeOK, LedgerEntry
<1>1. \A y \in Txns : SettlementRows(y) # {} => token[TokenOf[y]] = "CONSUMED" /\ Complete(y)
  BY Zenon DEF EntriesArePaired, Complete
<1> SUFFICES ASSUME NEW y \in Txns PROVE SettlementRows(y)' = {} \/ Complete(y)'
  BY Zenon DEF EntriesArePaired
<1>2. CASE Rests
  <2>1. SettlementRows(y)' = SettlementRows(y)
    BY <1>2, Zenon DEF Rests, money, SettlementRows
  <2>2. TokenRows(TokenOf[y], "RELEASE")' = TokenRows(TokenOf[y], "RELEASE")
    BY <1>2, Zenon DEF Rests, money, TokenRows
  <2>3. token[TokenOf[y]] = "CONSUMED" => token'[TokenOf[y]] = "CONSUMED"
    BY <1>0, <1>2, Zenon DEF Rests
  <2> QED BY <1>1, <2>1, <2>2, <2>3, CompleteStays, Zenon
<1>3. ASSUME NEW t \in Tokens, IssueToken(t) PROVE SettlementRows(y)' = {} \/ Complete(y)'
  <2>1. PICK e : ledger' = ledger \cup {e} /\ e.txn = t /\ e.type = "RESERVATION"
    BY <1>3, IssueRow
  <2>2. SettlementRows(y)' = SettlementRows(y)
    BY <1>0, <2>1, Zenon DEF SettlementRows
  <2>3. TokenRows(TokenOf[y], "RELEASE")' = TokenRows(TokenOf[y], "RELEASE")
    BY <2>1, Zenon DEF TokenRows
  <2>4. token[TokenOf[y]] = "CONSUMED" => token'[TokenOf[y]] = "CONSUMED"
    BY <1>0, <1>3, IssueRow
  <2> QED BY <1>1, <2>2, <2>3, <2>4, CompleteStays, Zenon
<1>4. ASSUME NEW t \in Tokens, CanRelease(t), ReleaseExpiredToken(t)
      PROVE  SettlementRows(y)' = {} \/ Complete(y)'
  <2>1. PICK e : ledger' = ledger \cup {e} /\ e.txn = t /\ e.type = "RELEASE"
    BY <1>4, ReleaseRow
  <2>2. SettlementRows(y)' = SettlementRows(y)
    BY <1>0, <2>1, Zenon DEF SettlementRows
  <2>3. SettlementRows(y) # {} => TokenOf[y] # t
    BY <1>1, <1>4, ReleaseRow
  <2>4. TokenOf[y] # t => TokenRows(TokenOf[y], "RELEASE")' = TokenRows(TokenOf[y], "RELEASE")
    BY <2>1, Zenon DEF TokenRows
  <2>5. token[TokenOf[y]] = "CONSUMED" => token'[TokenOf[y]] = "CONSUMED"
    BY <1>0, <1>4, ReleaseRow
  <2> QED BY <1>1, <2>2, <2>3, <2>4, <2>5, CompleteStays, Zenon
<1>5. ASSUME NEW c \in Calls, Commits(c) PROVE SettlementRows(y)' = {} \/ Complete(y)'
  <2> DEFINE x == Envelope[c]
  <2>1. PICK d, r, f :
          /\ ledger' = ledger \cup {d, r, f}
          /\ d.id = entryId + 1 /\ r.id = entryId + 2 /\ f.id = entryId + 3
          /\ d.txn = x /\ r.txn = x /\ f.txn = TokenOf[x]
          /\ d.type = "SETTLEMENT" /\ r.type = "SETTLEMENT" /\ f.type = "RELEASE"
          /\ d.account = Sender(x) /\ r.account = Receiver[x]
          /\ d.direction = "DEBIT" /\ r.direction = "CREDIT"
          /\ d.amount = Amount[x] /\ r.amount = Amount[x]
    BY <1>5, CommitRows
  <2>2. /\ x \in Txns /\ TokenOf[x] \in Tokens /\ token[TokenOf[x]] = "HELD"
        /\ \A u \in Tokens : token'[u] = IF u = TokenOf[x] THEN "CONSUMED" ELSE token[u]
    BY <1>5, CommitRows
  <2> HIDE DEF x
  <2>3. CASE y = x
    <3>1. SettlementRows(x) = {} /\ TokenRows(TokenOf[x], "RELEASE") = {}
      BY <1>1, <2>2, Zenon DEF TokensOnLedger
    <3>2. SettlementRows(x)' = {d, r}
      BY <1>0, <2>1, <2>2, <3>1 DEF SettlementRows
    <3>3. d # r
      BY <1>0, <2>1, Zenon
    <3>4. TokenRows(TokenOf[x], "RELEASE")' = {f}
      BY <1>0, <2>1, <2>2, <3>1, Zenon DEF TokenRows
    <3>5. token'[TokenOf[x]] = "CONSUMED"
      BY <2>2, Zenon
    <3> QED BY <2>1, <2>3, <3>2, <3>3, <3>4, <3>5, Zenon DEF Complete
  <2>4. CASE y # x
    <3>1. SettlementRows(y)' = SettlementRows(y)
      BY <1>0, <2>1, <2>2, <2>4 DEF SettlementRows
    <3>2. SettlementRows(y) # {} => TokenOf[y] # TokenOf[x]
      BY <1>1, <2>2, Zenon
    <3>3. TokenOf[y] # TokenOf[x] =>
            TokenRows(TokenOf[y], "RELEASE")' = TokenRows(TokenOf[y], "RELEASE")
      BY <1>0, <2>1, <2>2, Zenon DEF TokenRows
    <3>4. token[TokenOf[y]] = "CONSUMED" => token'[TokenOf[y]] = "CONSUMED"
      BY <1>0, <2>2, Zenon
    <3> QED BY <1>1, <3>1, <3>2, <3>3, <3>4, CompleteStays, Zenon
  <2> QED BY <2>3, <2>4, Zenon
<1>6. ASSUME NEW c \in Calls, Undoes(c) PROVE SettlementRows(y)' = {} \/ Complete(y)'
  <2> DEFINE x == Envelope[c]
  <2>1. /\ ledger' = ledger \ EntriesOf(x) /\ token' = token /\ pc[c] = "undo_LEDGER_COMMIT"
        /\ x \in Txns
    BY <1>6, CallTypes, Zenon DEF Undoes
  <2>2. CASE y = x
    BY <2>1, <2>2, Zenon DEF SettlementRows, EntriesOf
  <2>3. CASE y # x
    <3>1. SettlementRows(y)' = SettlementRows(y)
      BY <1>0, <2>1, <2>3, Zenon DEF SettlementRows, EntriesOf
    <3>2. ASSUME SettlementRows(y) # {} PROVE TokenOf[y] # TokenOf[x]
      <4>1. PICK e \in ledger : e.txn = y /\ e.type = "SETTLEMENT"
        BY <3>2, Zenon DEF SettlementRows, RowsInOrder
      <4>2. pc[c] \in AfterConsume
        BY <2>1, Zenon DEF AfterConsume, AfterReserve, SagaSteps
      <4> QED BY <2>3, <4>1, <4>2, Zenon DEF HolderRows
    <3>3. TokenOf[y] # TokenOf[x] =>
            TokenRows(TokenOf[y], "RELEASE")' = TokenRows(TokenOf[y], "RELEASE")
      BY <1>0, <2>1, Zenon DEF TokenRows, EntriesOf
    <3> QED BY <1>1, <2>1, <3>1, <3>2, <3>3, CompleteStays, Zenon
  <2> QED BY <2>2, <2>3, Zenon
<1> QED BY <1>2, <1>3, <1>4, <1>5, <1>6, MoneyMoves, Zenon

\* The rows behind the statuses are right throughout.
LEMMA RowsInv ==
  Spec => [](RowsInOrder /\ TokensOnLedger /\ HolderRows /\ EntriesArePaired)
<1>1. Init => RowsInOrder /\ TokensOnLedger /\ HolderRows /\ EntriesArePaired
  BY Zenon DEF Init, BankInit, RowsInOrder, TokensOnLedger, HolderRows, EntriesArePaired,
         SettlementRows
<1>2. TypeOK /\ TokenHasOneHolder /\ TokenHasOneHolder' /\ RowsInOrder /\ TokensOnLedger
        /\ HolderRows /\ EntriesArePaired /\ [Next]_vars
        => RowsInOrder' /\ TokensOnLedger' /\ HolderRows' /\ EntriesArePaired'
  BY RowsStep, HolderRowsStep, AtomicStep, Zenon
<1> QED BY <1>1, <1>2, TypeCorrect, TokenNeverShared, PTL DEF Spec

\* While payments have one owner and envelopes name the payments they carry,
\* LEDGER_COMMIT is never undone: the foreign key of the nonce refuses it.
LEMMA NeverUndone ==
  ASSUME HeadersMatch, PaymentHasOneOwner, NEW c \in Calls
  PROVE  ~Undoes(c)
BY CannotUndo, Zenon DEF Undoes

-----------------------------------------------------------------------------
(***************************************************************************)
(* What the rows say of the escrow of a token.                             *)
(***************************************************************************)

\* What the rows of the ledger are known to satisfy, and what they then say of the
\* escrow of a token.
LedgerInv ==
  TypeOK /\ RowsInOrder /\ TokensOnLedger /\ NoDoubleSpend /\ EntriesArePaired

EscrowKnown ==
  /\ \A t \in Tokens :
       /\ TokenRows(t, "RESERVATION") = {} => EscrowOf(t) = "FREE"
       /\ TokenRows(t, "RESERVATION") # {} /\ TokenRows(t, "RELEASE") = {}
            => EscrowOf(t) = "LOCKED"
       /\ /\ TokenRows(t, "RESERVATION") # {} /\ TokenRows(t, "RELEASE") # {}
          /\ \A x \in Txns : TokenOf[x] = t => SettlementRows(x) = {}
          => EscrowOf(t) = "RETURNED"
  /\ \A x \in Txns : EscrowOf(TokenOf[x]) = x <=> SettlementRows(x) # {}

\* Two payments with the same token are not both settled.
LEMMA OnePaymentPerToken ==
  ASSUME LedgerInv, NEW x \in Txns, NEW y \in Txns, TokenOf[x] = TokenOf[y],
         SettlementRows(x) # {}, SettlementRows(y) # {}
  PROVE  x = y
<1>1. ASSUME NEW z \in Txns, SettlementRows(z) # {}
      PROVE  \E e \in ledger : e.txn = z /\ e.type = "SETTLEMENT" /\ e.direction = "DEBIT"
  <2>1. Complete(z)
    BY <1>1, Zenon DEF LedgerInv, EntriesArePaired
  <2>2. PICK e \in SettlementRows(z) : e.direction = "DEBIT"
    BY <2>1, Zenon DEF Complete
  <2> QED BY <2>2, Zenon DEF SettlementRows, LedgerInv, RowsInOrder
<1>2. PICK e \in ledger : e.txn = x /\ e.type = "SETTLEMENT" /\ e.direction = "DEBIT"
  BY <1>1, Zenon
<1>3. PICK f \in ledger : f.txn = y /\ f.type = "SETTLEMENT" /\ f.direction = "DEBIT"
  BY <1>1, Zenon
<1> QED BY <1>2, <1>3, Zenon DEF LedgerInv, NoDoubleSpend

LEMMA EscrowIs == LedgerInv => EscrowKnown
<1> SUFFICES ASSUME LedgerInv PROVE EscrowKnown
  BY Zenon
<1>1. ASSUME NEW t \in Tokens
      PROVE  /\ TokenRows(t, "RESERVATION") = {} => EscrowOf(t) = "FREE"
             /\ TokenRows(t, "RESERVATION") # {} /\ TokenRows(t, "RELEASE") = {}
                  => EscrowOf(t) = "LOCKED"
             /\ /\ TokenRows(t, "RESERVATION") # {} /\ TokenRows(t, "RELEASE") # {}
                /\ \A x \in Txns : TokenOf[x] = t => SettlementRows(x) = {}
                => EscrowOf(t) = "RETURNED"
  BY Zenon DEF EscrowOf
<1>2. ASSUME NEW x \in Txns, SettlementRows(x) # {} PROVE EscrowOf(TokenOf[x]) = x
  <2> DEFINE t == TokenOf[x]
             P(y) == TokenOf[y] = t /\ SettlementRows(y) # {}
  <2>1. Complete(x) /\ t \in Tokens
    BY <1>2, TxnTypes, Zenon DEF LedgerInv, EntriesArePaired
  <2>2. TokenRows(t, "RESERVATION") # {} /\ TokenRows(t, "RELEASE") # {}
    <3>1. token[t] = "CONSUMED" /\ TokenRows(t, "RELEASE") # {}
      BY <2>1, Zenon DEF Complete
    <3> QED BY <2>1, <3>1, Zenon DEF LedgerInv, TokensOnLedger
  <2>3. EscrowOf(t) = CHOOSE y \in Txns : P(y)
    BY <1>2, <2>2, Zenon DEF EscrowOf
  <2>4. (CHOOSE y \in Txns : P(y)) \in Txns /\ P(CHOOSE y \in Txns : P(y))
    <3>1. P(x)
      BY <1>2, Zenon
    <3> HIDE DEF P
    <3> QED BY <3>1, Zenon
  <2>5. \A y \in Txns : P(y) => y = x
    BY <1>2, OnePaymentPerToken, Zenon
  <2> HIDE DEF P
  <2> QED BY <2>3, <2>4, <2>5, Zenon
<1>3. ASSUME NEW x \in Txns, EscrowOf(TokenOf[x]) = x PROVE SettlementRows(x) # {}
  <2> DEFINE t == TokenOf[x]
             P(y) == TokenOf[y] = t /\ SettlementRows(y) # {}
  <2>1. x \notin {"FREE", "LOCKED", "RETURNED"}
    BY IdsAssumption, Zenon
  <2>2. (\E y \in Txns : P(y)) /\ x = CHOOSE y \in Txns : P(y)
    BY <1>3, <2>1, Zenon DEF EscrowOf
  <2>3. P(x)
    <3> HIDE DEF P
    <3> QED BY <2>2, Zenon
  <2> QED BY <2>3, Zenon
<1> QED BY <1>1, <1>2, <1>3, Zenon DEF EscrowKnown

LEMMA EscrowIsNext == LedgerInv' => EscrowKnown'
BY EscrowIs, PTL

\* The escrow of a token stays as it is while the rows about it do.
LEMMA Untouched ==
  ASSUME EscrowKnown, EscrowKnown', NEW u \in Tokens,
         TokenRows(u, "RESERVATION")' = TokenRows(u, "RESERVATION"),
         TokenRows(u, "RELEASE")' = TokenRows(u, "RELEASE"),
         \A x \in Txns : TokenOf[x] = u => SettlementRows(x)' = SettlementRows(x)
  PROVE  EscrowOf(u)' = EscrowOf(u)
<1>1. CASE \E x \in Txns : TokenOf[x] = u /\ SettlementRows(x) # {}
  <2>1. PICK x \in Txns : TokenOf[x] = u /\ SettlementRows(x) # {}
    BY <1>1, Zenon
  <2>2. EscrowOf(u) = x
    BY <2>1, Zenon DEF EscrowKnown
  <2>3. SettlementRows(x)' # {}
    BY <2>1, Zenon
  <2>4. EscrowOf(TokenOf[x])' = x
    BY <2>3, Zenon DEF EscrowKnown
  <2> QED BY <2>1, <2>2, <2>4, Zenon
<1>2. CASE \A x \in Txns : TokenOf[x] = u => SettlementRows(x) = {}
  <2>1. \A x \in Txns : TokenOf[x] = u => SettlementRows(x)' = {}
    BY <1>2, Zenon
  <2>2. CASE TokenRows(u, "RESERVATION") = {}
    BY <2>2 DEF EscrowKnown
  <2>3. CASE TokenRows(u, "RESERVATION") # {} /\ TokenRows(u, "RELEASE") = {}
    BY <2>3 DEF EscrowKnown
  <2>4. CASE TokenRows(u, "RESERVATION") # {} /\ TokenRows(u, "RELEASE") # {}
    <3>1. EscrowOf(u) = "RETURNED"
      BY <1>2, <2>4, Zenon DEF EscrowKnown
    <3>2. TokenRows(u, "RESERVATION")' # {} /\ TokenRows(u, "RELEASE")' # {}
      BY <2>4, Zenon
    <3>3. EscrowOf(u)' = "RETURNED"
      BY <2>1, <3>2, Zenon DEF EscrowKnown
    <3> QED BY <3>1, <3>3, Zenon
  <2> QED BY <2>2, <2>3, <2>4, Zenon
<1> QED BY <1>1, <1>2, Zenon
-----------------------------------------------------------------------------
(***************************************************************************)
(* The answers of Settle.                                                  *)
(***************************************************************************)

\* The steps in which an invocation may have no verdict yet.
Undecided == {"idle", "validate", "RESERVE", "CONSUME_TOKEN", "LEDGER_COMMIT", "PUBLISH"}

\* An invocation without a verdict is still at work or has crashed.  SETTLED is
\* the verdict of one invocation at most, which is done and whose payment has been
\* made; nobody else who carries that payment gets past RESERVE.
AnswersMatch ==
  /\ \A c \in Calls :
       /\ verdict[c] = "NONE" => pc[c] \in Undecided \cup {"crashed"}
       /\ verdict[c] = "SETTLED" => pc[c] = "done" /\ SettlementRows(Envelope[c]) # {}
  /\ \A c, d \in Calls :
       verdict[c] = "SETTLED" /\ Envelope[d] = Envelope[c]
         => pc[d] \notin AfterReserve /\ (verdict[d] = "SETTLED" => d = c)

\* How a step of an invocation changes verdicts.
LEMMA Deciding ==
  ASSUME SettleTypeOK, NEW c \in Calls, CallStep(c) \/ Crash(c)
  PROVE  /\ pc[c] \notin {"done", "crashed"}
         /\ \A d \in Calls \ {c} : verdict'[d] = verdict[d]
         /\ verdict'[c] = "SETTLED" =>
              verdict[c] = "SETTLED" \/ (pc[c] = "PUBLISH" /\ pc'[c] = "done")
         /\ verdict'[c] = "NONE" =>
              /\ verdict[c] = "NONE"
              /\ pc[c] \in Undecided => pc'[c] \in Undecided \cup {"crashed"}
         /\ pc'[c] = "done" => UNCHANGED money
<1> USE DEF SettleTypeOK, Undecided, Goto, Decide
<1>1. CASE CheckIdempotency(c)
  BY <1>1, Zenon DEF CheckIdempotency, bankVars, money
<1>2. CASE Validate(c)
  <2>1. PICK v \in ValidationVerdicts(Envelope[c]) :
          IF v = "NONE" THEN Goto(c, "RESERVE") /\ UNCHANGED verdict
                        ELSE Goto(c, "save_intent") /\ Decide(c, v)
    BY <1>2, Zenon DEF Validate
  <2>2. v \in {"NONE", "REJECTED", "EXPIRED", "DUPLICATE"} /\ pc[c] = "validate"
    BY <1>2, <2>1, Zenon DEF ValidationVerdicts, Validate
  <2>3. CASE v = "NONE"
    BY <2>1, <2>2, <2>3, Zenon
  <2>4. CASE v # "NONE"
    BY <2>1, <2>2, <2>4, Zenon
  <2> QED BY <2>3, <2>4, Zenon
<1>3. CASE Reserve(c)
  BY <1>3, Zenon DEF Reserve, Committed, DbFails, Abort, Fail
<1>4. CASE ConsumeToken(c)
  BY <1>4, Zenon DEF ConsumeToken, Committed, DbFails, Abort, Fail
<1>5. CASE LedgerCommit(c)
  BY <1>5, Zenon DEF LedgerCommit, Committed, DbFails, Abort, Fail
<1>6. CASE Publish(c)
  <2>1. CASE UNCHANGED money /\ pc' = [pc EXCEPT ![c] = "done"]
             /\ verdict' = [verdict EXCEPT ![c] = "SETTLED"]
    BY <1>6, <2>1, Zenon DEF Publish
  <2>2. CASE /\ pc' = [pc EXCEPT ![c] = "undo_LEDGER_COMMIT"]
             /\ verdict' = [verdict EXCEPT ![c] = "FAILED"]
    BY <1>6, <2>2, Zenon DEF Publish
  <2> QED BY <1>6, <2>1, <2>2, Zenon DEF Publish, DbFails, Abort, Fail
<1>7. AttemptFails(c) =>
        UNCHANGED verdict /\ (pc' = pc \/ pc' = [pc EXCEPT ![c] = "save_intent"])
  BY Zenon DEF AttemptFails
<1>8. \A next \in Step : Compensated(c, next) =>
        /\ UNCHANGED verdict
        /\ \/ pc' = pc \/ pc' = [pc EXCEPT ![c] = "save_intent"]
           \/ pc' = [pc EXCEPT ![c] = next]
  BY <1>7, Zenon DEF Compensated
<1>9. CASE UndoLedgerCommit(c)
  <2>1. /\ UNCHANGED verdict /\ pc[c] = "undo_LEDGER_COMMIT"
        /\ \/ pc' = pc \/ pc' = [pc EXCEPT ![c] = "save_intent"]
           \/ pc' = [pc EXCEPT ![c] = "undo_CONSUME_TOKEN"]
    BY <1>7, <1>8, <1>9, Zenon DEF UndoLedgerCommit, CompensationFails, Step
  <2> QED BY <2>1, Zenon
<1>10. CASE UndoConsumeToken(c)
  <2>1. /\ UNCHANGED verdict /\ pc[c] = "undo_CONSUME_TOKEN"
        /\ \/ pc' = pc \/ pc' = [pc EXCEPT ![c] = "save_intent"]
           \/ pc' = [pc EXCEPT ![c] = "undo_RESERVE"]
    BY <1>7, <1>8, <1>10, Zenon DEF UndoConsumeToken, CompensationFails, Step
  <2> QED BY <2>1, Zenon
<1>11. CASE UndoReserve(c)
  <2>1. /\ UNCHANGED verdict /\ pc[c] = "undo_RESERVE"
        /\ pc' = pc \/ pc' = [pc EXCEPT ![c] = "save_intent"]
    BY <1>7, <1>8, <1>11, Zenon DEF UndoReserve, CompensationFails, Step
  <2> QED BY <2>1, Zenon
<1>12. CASE SaveIntent(c) \/ SaveOutbox(c)
  BY <1>12, Zenon DEF SaveIntent, SaveOutbox
<1>13. CASE SaveEvents(c)
  BY <1>13, Zenon DEF SaveEvents
<1>14. CASE RecordFailure(c)
  BY <1>14, Zenon DEF RecordFailure
<1>15. CASE Crash(c)
  BY <1>15, Zenon DEF Crash
<1> QED BY <1>1, <1>2, <1>3, <1>4, <1>5, <1>6, <1>9, <1>10, <1>11, <1>12, <1>13, <1>14,
           <1>15, Zenon DEF CallStep

LEMMA AnswersStep ==
  ASSUME NoLostAck, HeadersMatch, TypeOK, PaymentHasOneOwner, SettledStaysRegistered,
         AnswersMatch, [Next]_vars
  PROVE  AnswersMatch'
<1>1. ledger \subseteq ledger'
  BY NeverReverts, Zenon
<1>2. \A x \in Txns : SettlementRows(x) # {} => SettlementRows(x)' # {}
  BY <1>1, Zenon DEF SettlementRows
<1>3. CASE UNCHANGED <<pc, verdict>>
  <2>1. \A d \in Calls : Envelope[d] \in Txns
    BY CallTypes, Zenon
  <2> QED BY <1>2, <1>3, <2>1, Zenon DEF AnswersMatch
<1>4. ASSUME NEW c \in Calls, CallStep(c) \/ Crash(c) PROVE AnswersMatch'
  <2> DEFINE x == Envelope[c]
  <2>0. \A d \in Calls : Envelope[d] \in Txns
    BY CallTypes, Zenon
  <2>1. /\ pc[c] \notin {"done", "crashed"}
        /\ \A d \in Calls \ {c} : verdict'[d] = verdict[d] /\ pc'[d] = pc[d]
        /\ verdict[c] # "SETTLED"
    BY <1>4, Deciding, CallControl, Zenon DEF TypeOK, AnswersMatch
  <2>2. /\ verdict'[c] = "SETTLED" => pc[c] = "PUBLISH" /\ pc'[c] = "done"
        /\ verdict'[c] = "NONE" => pc'[c] \in Undecided \cup {"crashed"}
    <3>1. verdict[c] = "NONE" => pc[c] \in Undecided
      BY <2>1, Zenon DEF AnswersMatch
    <3> QED BY <1>4, <2>1, <3>1, Deciding, Zenon DEF TypeOK
  <2>3. pc[c] = "PUBLISH" => SettlementRows(x) # {}
    BY Zenon DEF PaymentHasOneOwner, PostCommit
  <2>4. ASSUME NEW d \in Calls
        PROVE  /\ verdict'[d] = "NONE" => pc'[d] \in Undecided \cup {"crashed"}
               /\ verdict'[d] = "SETTLED" =>
                    pc'[d] = "done" /\ SettlementRows(Envelope[d])' # {}
    <3>1. CASE d = c
      BY <1>2, <2>0, <2>2, <2>3, <3>1, Zenon
    <3>2. CASE d # c
      BY <1>2, <2>0, <2>1, <3>2, Zenon DEF AnswersMatch
    <3> QED BY <3>1, <3>2, Zenon
  <2>5. ASSUME NEW a \in Calls, NEW d \in Calls, verdict'[a] = "SETTLED",
               Envelope[d] = Envelope[a]
        PROVE  pc'[d] \notin AfterReserve /\ (verdict'[d] = "SETTLED" => d = a)
    <3>1. CASE a = c
      <4>1. pc[c] = "PUBLISH" /\ pc'[c] = "done"
        BY <2>2, <2>5, <3>1, Zenon
      <4>2. CASE d = c
        BY <3>1, <4>1, <4>2, Zenon DEF AfterReserve, SagaSteps
      <4>3. CASE d # c
        <5>1. pc[d] \notin AfterReserve
          BY <2>5, <3>1, <4>1, <4>3, Zenon DEF PaymentHasOneOwner, AfterReserve, SagaSteps
        <5>2. verdict[d] # "SETTLED"
          BY <2>5, <3>1, <4>1, Zenon DEF AnswersMatch, AfterReserve, SagaSteps
        <5> QED BY <2>1, <4>3, <5>1, <5>2, Zenon
      <4> QED BY <4>2, <4>3, Zenon
    <3>2. CASE a # c
      <4>1. verdict[a] = "SETTLED" /\ pc[d] \notin AfterReserve
            /\ (verdict[d] = "SETTLED" => d = a)
        BY <2>1, <2>5, <3>2, Zenon DEF AnswersMatch
      <4>2. CASE d # c
        BY <2>1, <4>1, <4>2, Zenon
      <4>3. CASE d = c
        <5>1. intent[x] # "NONE"
          BY <2>0, <2>5, <4>1, <4>3, Zenon DEF AnswersMatch, SettledStaysRegistered
        <5>2. ~CanReserve(x, Header[c])
          BY <5>1, Zenon DEF CanReserve
        <5>3. pc'[c] \notin AfterReserve
          BY <1>4, <4>1, <4>3, <5>2, CallControl, Zenon DEF TypeOK
        <5>4. verdict'[c] # "SETTLED"
          BY <2>2, <4>1, <4>3, Zenon DEF AfterReserve, SagaSteps
        <5> QED BY <4>3, <5>3, <5>4, Zenon
      <4> QED BY <4>2, <4>3, Zenon
    <3> QED BY <3>1, <3>2, Zenon
  <2> QED BY <2>4, <2>5, Zenon DEF AnswersMatch
<1> QED BY <1>3, <1>4, Zenon DEF Next, vars, settleVars
-----------------------------------------------------------------------------
(***************************************************************************)
(* The steps of the escrow.                                                *)
(***************************************************************************)

\* The mapped variables.
EscrowBar == [t \in Tokens |-> EscrowOf(t)]
AnswerBar == [c \in Calls |-> AnswerOf(c)]

\* An answer appears when an invocation is done, and moves no money.
LEMMA Answering ==
  ASSUME TypeOK, TypeOK', AnswersMatch, AnswersMatch', [Next]_vars
  PROVE  \/ AnswerBar' = AnswerBar
         \/ \E c \in Calls, v \in Verdict \ {"NONE"} :
              /\ UNCHANGED money /\ AnswerBar[c] = "NONE"
              /\ AnswerBar' = [AnswerBar EXCEPT ![c] = v]
              /\ v = "SETTLED" => pc[c] = "PUBLISH"
<1>1. CASE UNCHANGED settleVars
  BY <1>1, Zenon DEF settleVars, AnswerBar, AnswerOf
<1>2. ASSUME NEW c \in Calls, CallStep(c) \/ Crash(c)
      PROVE  \/ AnswerBar' = AnswerBar
             \/ \E v \in Verdict \ {"NONE"} :
                  /\ UNCHANGED money /\ AnswerBar[c] = "NONE"
                  /\ AnswerBar' = [AnswerBar EXCEPT ![c] = v]
                  /\ v = "SETTLED" => pc[c] = "PUBLISH"
  <2>1. \A d \in Calls \ {c} : AnswerOf(d)' = AnswerOf(d)
    BY <1>2, Deciding, CallControl, Zenon DEF TypeOK, AnswerOf
  <2>2. AnswerOf(c) = "NONE" /\ verdict[c] # "SETTLED"
    BY <1>2, Deciding, Zenon DEF TypeOK, AnswerOf, AnswersMatch
  <2>3. CASE pc'[c] # "done"
    <3>1. AnswerOf(c)' = "NONE"
      BY <2>3, Zenon DEF AnswerOf
    <3>2. \A d \in Calls : AnswerOf(d)' = AnswerOf(d)
      BY <2>1, <2>2, <3>1, Zenon
    <3> QED BY <3>2, Zenon DEF AnswerBar
  <2>4. CASE pc'[c] = "done"
    <3> DEFINE v == verdict'[c]
    <3>1. v \in Verdict \ {"NONE"}
      <4>1. v \in Verdict
        BY Zenon DEF TypeOK, SettleTypeOK
      <4>2. v # "NONE"
        BY <2>4, Zenon DEF AnswersMatch, Undecided
      <4> QED BY <4>1, <4>2, Zenon
    <3>2. UNCHANGED money /\ (v = "SETTLED" => pc[c] = "PUBLISH")
      BY <1>2, <2>2, <2>4, Deciding, Zenon DEF TypeOK
    <3>3. AnswerOf(c)' = v
      BY <2>4, Zenon DEF AnswerOf
    <3>4. AnswerBar[c] = "NONE"
      BY <2>2, Zenon DEF AnswerBar
    <3>5. AnswerBar' = [AnswerBar EXCEPT ![c] = v]
      BY <2>1, <3>3, Zenon DEF AnswerBar
    <3> HIDE DEF v
    <3> QED BY <3>1, <3>2, <3>4, <3>5, Zenon
  <2> QED BY <2>3, <2>4, Zenon
<1> QED BY <1>1, <1>2, Zenon DEF Next, vars

\* Where no money moves the escrow rests.
LEMMA EscrowRests ==
  ASSUME UNCHANGED money
  PROVE  avail' = avail /\ EscrowBar' = EscrowBar
BY Zenon DEF money, EscrowBar, EscrowOf, TokenRows, SettlementRows

\* Issuing a token locks its value.
LEMMA IssueLocks ==
  ASSUME LedgerInv, LedgerInv', NEW t \in Tokens, IssueToken(t), AnswerBar' = AnswerBar
  PROVE  Abstract!Lock(t)
<1>0. EscrowKnown /\ EscrowKnown' /\ TypeOK
  BY EscrowIs, EscrowIsNext, Zenon DEF LedgerInv
<1>1. PICK e : ledger' = ledger \cup {e} /\ e.txn = t /\ e.type = "RESERVATION"
  BY <1>0, IssueRow
<1>2. TokenRows(t, "RESERVATION") = {} /\ TokenRows(t, "RELEASE") = {}
  BY <1>0, IssueRow DEF LedgerInv, TokensOnLedger, TokenRows
<1>3. TokenRows(t, "RESERVATION")' # {} /\ TokenRows(t, "RELEASE")' = {}
  BY <1>1, <1>2, Zenon DEF TokenRows
<1>4. EscrowOf(t) = "FREE" /\ EscrowOf(t)' = "LOCKED"
  BY <1>0, <1>2, <1>3, Zenon DEF EscrowKnown
<1>5. ASSUME NEW u \in Tokens \ {t} PROVE EscrowOf(u)' = EscrowOf(u)
  <2>1. /\ TokenRows(u, "RESERVATION")' = TokenRows(u, "RESERVATION")
        /\ TokenRows(u, "RELEASE")' = TokenRows(u, "RELEASE")
    BY <1>1, Zenon DEF TokenRows
  <2>2. \A x \in Txns : SettlementRows(x)' = SettlementRows(x)
    BY <1>1, TokenRowsApart, Zenon
  <2> QED BY <1>0, <2>1, <2>2, Untouched, Zenon
<1>6. EscrowBar[t] = "FREE" /\ EscrowBar' = [EscrowBar EXCEPT ![t] = "LOCKED"]
  BY <1>4, <1>5, Zenon DEF EscrowBar
<1>7. /\ avail[Owner[t]] >= Value[t]
      /\ avail' = [avail EXCEPT ![Owner[t]] = @ - Value[t]]
  BY Zenon DEF IssueToken, UpdateBalance
<1> QED BY <1>6, <1>7, Zenon DEF Abstract!Lock, EscrowBar, AnswerBar

\* Releasing an expired token returns it.
LEMMA ReleaseReturns ==
  ASSUME LedgerInv, LedgerInv', NEW t \in Tokens, CanRelease(t), ReleaseExpiredToken(t),
         AnswerBar' = AnswerBar
  PROVE  Abstract!Return(t)
<1>0. EscrowKnown /\ EscrowKnown' /\ TypeOK
  BY EscrowIs, EscrowIsNext, Zenon DEF LedgerInv
<1>1. PICK e : ledger' = ledger \cup {e} /\ e.txn = t /\ e.type = "RELEASE"
  BY <1>0, ReleaseRow
<1>2. token[t] \in {"ISSUED", "HELD"}
  BY <1>0, ReleaseRow, Zenon
<1>3. TokenRows(t, "RESERVATION") # {} /\ TokenRows(t, "RELEASE") = {}
  BY <1>2, Zenon DEF LedgerInv, TokensOnLedger
<1>4. TokenRows(t, "RESERVATION")' # {} /\ TokenRows(t, "RELEASE")' # {}
  BY <1>1, <1>3, Zenon DEF TokenRows
<1>5. \A x \in Txns : SettlementRows(x)' = SettlementRows(x)
  BY <1>1, TokenRowsApart, Zenon
<1>6. \A x \in Txns : TokenOf[x] = t => SettlementRows(x) = {}
  BY <1>2, Zenon DEF LedgerInv, EntriesArePaired, Complete
<1>7. EscrowOf(t) = "LOCKED"
  BY <1>0, <1>3, Zenon DEF EscrowKnown
<1>8. EscrowOf(t)' = "RETURNED"
  <2>1. \A x \in Txns : TokenOf[x] = t => SettlementRows(x)' = {}
    BY <1>5, <1>6, Zenon
  <2> QED BY <1>0, <1>4, <2>1, Zenon DEF EscrowKnown
<1>9. ASSUME NEW u \in Tokens \ {t} PROVE EscrowOf(u)' = EscrowOf(u)
  <2>1. /\ TokenRows(u, "RESERVATION")' = TokenRows(u, "RESERVATION")
        /\ TokenRows(u, "RELEASE")' = TokenRows(u, "RELEASE")
    BY <1>1, Zenon DEF TokenRows
  <2> QED BY <1>0, <1>5, <2>1, Untouched, Zenon
<1>10. EscrowBar[t] = "LOCKED" /\ EscrowBar' = [EscrowBar EXCEPT ![t] = "RETURNED"]
  BY <1>7, <1>8, <1>9, Zenon DEF EscrowBar
<1>11. avail' = [avail EXCEPT ![Owner[t]] = @ + Value[t]]
  BY Zenon DEF ReleaseExpiredToken, UpdateBalance
<1> QED BY <1>10, <1>11, Zenon DEF Abstract!Return, EscrowBar, AnswerBar

\* LEDGER_COMMIT pays, and with a fresh nonce.
LEMMA CommitPays ==
  ASSUME NoSelfPayment, LedgerInv, LedgerInv', ChecksHold, TokenHasOneHolder,
         PaymentHasOneOwner, SettledStaysRegistered, NEW c \in Calls, Commits(c),
         AnswerBar' = AnswerBar
  PROVE  Abstract!Pay(Envelope[c])
<1> DEFINE x == Envelope[c]
           t == TokenOf[x]
<1>0. EscrowKnown /\ EscrowKnown' /\ TypeOK
  BY EscrowIs, EscrowIsNext, Zenon DEF LedgerInv
<1>1. PICK d, r, f : /\ ledger' = ledger \cup {d, r, f}
                     /\ d.txn = x /\ r.txn = x /\ f.txn = t /\ f.type = "RELEASE"
  BY <1>0, CommitRows
<1>2. x \in Txns /\ t \in Tokens /\ token[t] = "HELD" /\ x \notin Tokens
  BY <1>0, CommitRows, BankAssumption
<1>3. pc[c] = "LEDGER_COMMIT" /\ SettlementRows(x) = {} /\ x \in Registered
  <2>1. pc[c] = "LEDGER_COMMIT" /\ SettlementRows(x) = {} /\ nonces[x] = Header[c]
    BY Zenon DEF Commits, PaymentHasOneOwner, PreCommit, PostCommit, AfterReserve, SagaSteps
  <2> QED BY <1>2, <2>1, CallTypes, Zenon DEF Registered
<1>4. TokenRows(t, "RESERVATION") # {} /\ TokenRows(t, "RELEASE") = {}
  BY <1>2, Zenon DEF LedgerInv, TokensOnLedger
<1>5. EscrowOf(t) = "LOCKED"
  BY <1>0, <1>2, <1>4, Zenon DEF EscrowKnown
<1>6. EscrowOf(t)' = x
  <2>1. SettlementRows(x)' # {}
    BY <1>1, Zenon DEF SettlementRows
  <2> QED BY <1>0, <1>2, <2>1, Zenon DEF EscrowKnown
<1>7. Amount[x] \in 1 .. Value[t] /\ Receiver[x] \in Accounts
  <2>1. /\ Receiver[x] \in Accounts /\ Value[t] \in Nat /\ Amount[x] \in Nat
        /\ Amount[x] <= Value[t]
    BY <1>0, CommitBalances, Zenon
  <2>2. Amount[x] > 0
    BY Zenon DEF Commits, CanCommit
  <2> QED BY <2>1, <2>2
<1>8. \A y \in Txns : NonceOf[y] = NonceOf[x] => EscrowOf(TokenOf[y]) # y
  BY <1>0, <1>3, Zenon DEF EscrowKnown, SettledStaysRegistered, PaymentHasOneOwner
<1>9. avail' = [avail EXCEPT ![Owner[t]] = @ + (Value[t] - Amount[x]),
                             ![Receiver[x]] = @ + Amount[x]]
  <2>1. avail' = [avail EXCEPT ![Sender(x)] = avail[Sender(x)] + Change(x),
                               ![Receiver[x]] = avail[Receiver[x]] + Amount[x]]
    BY Zenon DEF Commits
  <2>2. Sender(x) = Owner[t] /\ Change(x) = Value[t] - Amount[x] /\ Receiver[x] # Owner[t]
    BY <1>2, Zenon DEF Sender, Change, NoSelfPayment
  <2> QED BY <2>1, <2>2, Zenon
<1> HIDE DEF x, t
<1>10. ASSUME NEW u \in Tokens \ {t} PROVE EscrowOf(u)' = EscrowOf(u)
  <2>1. /\ TokenRows(u, "RESERVATION")' = TokenRows(u, "RESERVATION")
        /\ TokenRows(u, "RELEASE")' = TokenRows(u, "RELEASE")
    BY <1>1, <1>2, Zenon DEF TokenRows
  <2>2. \A y \in Txns : TokenOf[y] = u => SettlementRows(y)' = SettlementRows(y)
    <3> SUFFICES ASSUME NEW y \in Txns, TokenOf[y] = u
                 PROVE  SettlementRows(y)' = SettlementRows(y)
      BY Zenon
    <3>1. y # x /\ y # t
      BY <1>2, BankAssumption, Zenon DEF t
    <3> QED BY <1>1, <3>1, Zenon DEF SettlementRows
  <2> QED BY <1>0, <2>1, <2>2, Untouched, Zenon
<1>11. EscrowBar[t] = "LOCKED" /\ EscrowBar' = [EscrowBar EXCEPT ![t] = x]
  BY <1>2, <1>5, <1>6, <1>10, Zenon DEF EscrowBar
<1>12. \A y \in Txns : NonceOf[y] = NonceOf[x] => EscrowBar[TokenOf[y]] # y
  BY <1>8, TxnTypes, Zenon DEF EscrowBar
<1> QED BY <1>7, <1>9, <1>11, <1>12, Zenon
        DEF Abstract!Pay, Abstract!Paid, EscrowBar, AnswerBar, x, t

\* An invocation answers, SETTLED only for a payment that has been made and that
\* nobody else was told of.
LEMMA AnswerGiven ==
  ASSUME LedgerInv, PaymentHasOneOwner, AnswersMatch, NEW c \in Calls,
         NEW v \in Verdict \ {"NONE"}, UNCHANGED money, AnswerBar[c] = "NONE",
         AnswerBar' = [AnswerBar EXCEPT ![c] = v], v = "SETTLED" => pc[c] = "PUBLISH"
  PROVE  v \in Abstract!Answers /\ Abstract!Answer(c, v)
<1>1. v \in Abstract!Answers
  BY Zenon DEF Abstract!Answers, Verdict
<1>2. avail' = avail /\ EscrowBar' = EscrowBar
  BY EscrowRests, Zenon
<1>3. ASSUME v = "SETTLED"
      PROVE  /\ EscrowBar[TokenOf[Envelope[c]]] = Envelope[c]
             /\ \A d \in Calls : Envelope[d] = Envelope[c] => AnswerBar[d] # "SETTLED"
  <2>1. Envelope[c] \in Txns /\ TokenOf[Envelope[c]] \in Tokens
    BY CallTypes, TxnTypes, Zenon
  <2>2. SettlementRows(Envelope[c]) # {} /\ pc[c] \in AfterReserve
    BY <1>3, Zenon DEF PaymentHasOneOwner, PostCommit, AfterReserve, SagaSteps
  <2>3. EscrowOf(TokenOf[Envelope[c]]) = Envelope[c]
    BY <2>1, <2>2, EscrowIs, Zenon DEF EscrowKnown
  <2>4. ASSUME NEW d \in Calls, Envelope[d] = Envelope[c] PROVE AnswerBar[d] # "SETTLED"
    <3>1. verdict[d] # "SETTLED"
      BY <2>2, <2>4, Zenon DEF AnswersMatch
    <3> QED BY <3>1, Zenon DEF AnswerBar, AnswerOf
  <2> QED BY <2>1, <2>3, <2>4, Zenon DEF EscrowBar
<1> QED BY <1>1, <1>2, <1>3, Zenon DEF Abstract!Answer, Abstract!Paid, EscrowBar, AnswerBar

\* Every step is a step of the escrow or none.
LEMMA EscrowStep ==
  ASSUME NoSelfPayment, HeadersMatch, LedgerInv, LedgerInv', ChecksHold, TokenHasOneHolder,
         PaymentHasOneOwner, SettledStaysRegistered, AnswersMatch, AnswersMatch', [Next]_vars
  PROVE  [Abstract!EscrowNext]_(Abstract!escrowVars)
<1>0. TypeOK /\ TypeOK'
  BY Zenon DEF LedgerInv
<1>1. avail' = avail /\ EscrowBar' = EscrowBar /\ AnswerBar' = AnswerBar
        => UNCHANGED Abstract!escrowVars
  BY Zenon DEF Abstract!escrowVars, EscrowBar, AnswerBar
<1>2. ASSUME NEW c \in Calls, NEW v \in Verdict \ {"NONE"}, UNCHANGED money,
             AnswerBar[c] = "NONE", AnswerBar' = [AnswerBar EXCEPT ![c] = v],
             v = "SETTLED" => pc[c] = "PUBLISH"
      PROVE  Abstract!EscrowNext
  BY <1>2, AnswerGiven, Zenon DEF Abstract!EscrowNext
<1>3. CASE AnswerBar' = AnswerBar
  <2>1. CASE Rests
    BY <1>1, <1>3, <2>1, EscrowRests, Zenon DEF Rests
  <2>2. ASSUME NEW t \in Tokens, IssueToken(t) PROVE Abstract!EscrowNext
    BY <1>3, <2>2, IssueLocks, Zenon DEF Abstract!EscrowNext
  <2>3. ASSUME NEW t \in Tokens, CanRelease(t), ReleaseExpiredToken(t)
        PROVE  Abstract!EscrowNext
    BY <1>3, <2>3, ReleaseReturns, Zenon DEF Abstract!EscrowNext
  <2>4. ASSUME NEW c \in Calls, Commits(c) PROVE Abstract!EscrowNext
    BY <1>3, <2>4, CommitPays, CallTypes, Zenon DEF Abstract!EscrowNext
  <2> QED BY <1>0, <2>1, <2>2, <2>3, <2>4, MoneyMoves, NeverUndone, Zenon
<1> QED BY <1>0, <1>2, <1>3, Answering, Zenon

LEMMA EscrowStarts == Init => Abstract!EscrowInit
<1> SUFFICES ASSUME Init PROVE Abstract!EscrowInit
  BY Zenon
<1>1. \A t \in Tokens : EscrowOf(t) = "FREE"
  BY Zenon DEF Init, BankInit, EscrowOf, TokenRows
<1>2. \A c \in Calls : AnswerOf(c) = "NONE"
  BY Zenon DEF Init, SettleInit, AnswerOf
<1>3. avail = InitialBalance
  BY Zenon DEF Init, BankInit
<1> QED BY <1>1, <1>2, <1>3, Zenon DEF Abstract!EscrowInit

\* Seen from outside the server is an escrow, for any number of accounts, tokens,
\* payments, invocations and scanners, with failing calls and crashes anywhere: a
\* token pays once or is returned once, a nonce pays once, no balance moves in any
\* other way, and SETTLED is answered only for a payment made.  The headers of the
\* envelopes name the payments they carry: a settlement that could be undone after
\* a failed PUBLISH would be a payment taken back.
THEOREM ServerIsAnEscrow ==
  ASSUME NoLostAck, HeadersMatch, NoSelfPayment
  PROVE  Spec => ImplementsEscrow
<1>1. Spec => []AnswersMatch
  <2>1. Init => AnswersMatch
    BY Zenon DEF Init, SettleInit, AnswersMatch, Undecided
  <2>2. TypeOK /\ PaymentHasOneOwner /\ SettledStaysRegistered /\ AnswersMatch /\ [Next]_vars
          => AnswersMatch'
    BY AnswersStep, Zenon
  <2> QED BY <2>1, <2>2, TypeCorrect, ReplayProtected, PTL DEF Spec
<1>2. Spec => []LedgerInv
  <2>1. TypeOK /\ RowsInOrder /\ TokensOnLedger /\ NoDoubleSpend /\ EntriesArePaired
          => LedgerInv
    BY Zenon DEF LedgerInv
  <2> QED BY <2>1, TypeCorrect, RowsInv, NeverSpentTwice, PTL
<1>3. LedgerInv /\ LedgerInv' /\ ChecksHold /\ TokenHasOneHolder /\ PaymentHasOneOwner
        /\ SettledStaysRegistered /\ AnswersMatch /\ AnswersMatch' /\ [Next]_vars
        => [Abstract!EscrowNext]_(Abstract!escrowVars)
  BY EscrowStep, Zenon
<1> QED BY <1>1, <1>2, <1>3, EscrowStarts, TypeInv, TokenNeverShared, ReplayProtected, PTL
        DEF Spec, ImplementsEscrow, Abstract!EscrowSpec

-----------------------------------------------------------------------------
(***************************************************************************)
(* What becomes of a token whose settlement fails.                         *)
(***************************************************************************)

\* The database answers every call, and payments are over something.  A failed
\* LEDGER_COMMIT, which a payment of nothing always has, invalidates a token that
\* is still reserved.
NoDbFault == "db" \notin Faults

PositiveAmounts == \A x \in Txns : Amount[x] > 0

\* A token that is out of use has been released, its placeholder intent stays on
\* record, CONSUME_TOKEN's compensation never finds the token held, and the intent
\* of a payment is there when LEDGER_COMMIT refers to it.
NothingStranded ==
  /\ \A t \in Tokens :
       /\ token[t] \in {"CONSUMED", "INVALIDATED"} => TokenRows(t, "RELEASE") # {}
       /\ token[t] # "NONE" => intent[t] # "NONE"
  /\ \A c \in Calls :
       /\ pc[c] = "undo_CONSUME_TOKEN" => token[TokenOf[Envelope[c]]] # "HELD"
       /\ pc[c] \in {"CONSUME_TOKEN", "LEDGER_COMMIT"} => intent[Envelope[c]] # "NONE"

\* An intent is deleted by a compensation of its payment only.
LEMMA IntentStays ==
  ASSUME TypeOK, [Next]_vars, NEW t \in IntentIds, intent[t] # "NONE",
         \A c \in Calls : Envelope[c] = t =>
           pc[c] \notin {"undo_LEDGER_COMMIT", "undo_RESERVE"}
  PROVE  intent'[t] # "NONE"
<1>0. intent \in [IntentIds -> IntentStatus]
  BY Zenon DEF TypeOK, BankTypeOK
<1>1. UNCHANGED intent => intent'[t] # "NONE"
  BY Zenon
<1>2. UNCHANGED bankVars => intent'[t] # "NONE"
  BY Zenon DEF bankVars
<1>3. ASSUME NEW u \in Tokens, IssueToken(u) PROVE intent'[t] # "NONE"
  BY <1>0, <1>3, Zenon DEF IssueToken, CreatePaymentIntent
<1>4. ASSUME NEW k \in IntentIds, Expire(k) PROVE intent'[t] # "NONE"
  BY <1>4, Zenon DEF Expire
<1>5. ASSUME NEW c \in Calls, CallStep(c) \/ Crash(c) PROVE intent'[t] # "NONE"
  <2>0. Envelope[c] = t => pc[c] \notin {"undo_LEDGER_COMMIT", "undo_RESERVE"}
    BY Zenon
  <2>1. CASE CheckIdempotency(c) \/ Validate(c) \/ Crash(c)
    BY <1>2, <2>1, Zenon DEF CheckIdempotency, Validate, Crash
  <2>2. CASE Reserve(c)
    BY <1>0, <1>2, <2>2, Zenon DEF Reserve, DbFails, Abort
  <2>3. CASE ConsumeToken(c)
    BY <1>2, <2>3, Zenon DEF ConsumeToken, DbFails, Abort
  <2>4. CASE LedgerCommit(c)
    BY <1>0, <1>2, <2>4, Zenon DEF LedgerCommit, DbFails, Abort
  <2>5. CASE Publish(c)
    BY <1>2, <2>5, Zenon DEF Publish, DbFails, Abort
  <2>6. CASE UndoLedgerCommit(c)
    BY <1>0, <1>2, <2>0, <2>6, Zenon DEF UndoLedgerCommit, CompensationFails
  <2>7. CASE UndoConsumeToken(c)
    BY <1>2, <2>7, Zenon DEF UndoConsumeToken, CompensationFails
  <2>8. CASE UndoReserve(c)
    BY <1>0, <1>2, <2>0, <2>8, Zenon DEF UndoReserve, CompensationFails
  <2>9. CASE SaveIntent(c)
    BY <1>0, <2>9, Zenon DEF SaveIntent, CreatePaymentIntent
  <2>10. CASE SaveOutbox(c) \/ SaveEvents(c) \/ RecordFailure(c)
    BY <2>10, Zenon DEF SaveOutbox, SaveEvents, RecordFailure
  <2> QED
    BY <1>5, <2>1, <2>2, <2>3, <2>4, <2>5, <2>6, <2>7, <2>8, <2>9, <2>10, Zenon DEF CallStep
<1>6. ASSUME NEW w \in Scanners, ScanStep(w) \/ CrashScanner(w) PROVE intent'[t] # "NONE"
  <2>1. ASSUME NEW u \in Tokens, ReleaseListed(w, u) PROVE intent'[t] # "NONE"
    BY <1>2, <2>1, Zenon DEF ReleaseListed, ReleaseExpiredToken
  <2>2. ASSUME NEW k \in IntentIds, ExpireListed(w, k) PROVE intent'[t] # "NONE"
    BY <1>0, <1>2, <2>2, Zenon DEF ExpireListed, MarkExpired
  <2>3. CASE ListExpiredTokens(w) \/ ListStuckIntents(w) \/ EndScan(w) \/ CrashScanner(w)
    BY <1>2, <2>3, Zenon DEF ListExpiredTokens, ListStuckIntents, EndScan, CrashScanner
  <2> QED BY <1>6, <2>1, <2>2, <2>3, Zenon DEF ScanStep
<1>7. CASE UNCHANGED vars
  BY <1>2, <1>7, Zenon DEF vars
<1> QED BY <1>3, <1>4, <1>5, <1>6, <1>7, Zenon DEF Next

\* CONSUME_TOKEN follows RESERVE, which has written the intent.
LEMMA EnteringConsume ==
  ASSUME TypeOK, [Next]_vars, NEW c \in Calls, pc'[c] = "CONSUME_TOKEN",
         pc[c] # "CONSUME_TOKEN"
  PROVE  intent'[Envelope[c]] # "NONE"
<1> USE DEF Goto
<1>0. pc \in [Calls -> Step] /\ pc' # pc
  BY Zenon DEF TypeOK, SettleTypeOK
<1>1. ASSUME NEW d \in Calls, CallStep(d) \/ Crash(d) PROVE Reserve(c)
  <2>1. c = d
    BY <1>1, CallControl, Zenon DEF TypeOK
  <2>2. CASE CheckIdempotency(c) \/ Crash(c)
    BY <1>0, <2>2, Zenon DEF CheckIdempotency, Crash
  <2>3. CASE Validate(c)
    <3>1. pc' = [pc EXCEPT ![c] = "RESERVE"] \/ pc' = [pc EXCEPT ![c] = "save_intent"]
      BY <2>3, Zenon DEF Validate
    <3> QED BY <1>0, <3>1, Zenon
  <2>4. CASE ConsumeToken(c)
    BY <2>4, Zenon DEF ConsumeToken
  <2>5. CASE LedgerCommit(c)
    BY <1>0, <2>5, Zenon DEF LedgerCommit, Committed, DbFails, Abort, Fail
  <2>6. CASE Publish(c)
    BY <1>0, <2>6, Zenon DEF Publish, DbFails, Abort, Fail
  <2>7. AttemptFails(c) => pc' = pc \/ pc' = [pc EXCEPT ![c] = "save_intent"]
    BY Zenon DEF AttemptFails
  <2>8. CASE UndoLedgerCommit(c)
    BY <1>0, <2>7, <2>8, Zenon DEF UndoLedgerCommit, CompensationFails, Compensated
  <2>9. CASE UndoConsumeToken(c)
    BY <1>0, <2>7, <2>9, Zenon DEF UndoConsumeToken, CompensationFails, Compensated
  <2>10. CASE UndoReserve(c)
    BY <1>0, <2>7, <2>10, Zenon DEF UndoReserve, CompensationFails, Compensated
  <2>11. CASE SaveIntent(c) \/ SaveOutbox(c) \/ SaveEvents(c) \/ RecordFailure(c)
    BY <1>0, <2>11, Zenon DEF SaveIntent, SaveOutbox, SaveEvents, RecordFailure
  <2> QED BY <1>1, <2>1, <2>2, <2>3, <2>4, <2>5, <2>6, <2>8, <2>9, <2>10, <2>11, Zenon
          DEF CallStep
<1>2. Reserve(c)
  BY <1>0, <1>1, Zenon DEF Next, vars, settleVars
<1>3. intent' = [intent EXCEPT ![Envelope[c]] = "RESERVED"]
  BY <1>0, <1>2, Zenon DEF Reserve, DbFails, Abort, Fail
<1> QED BY <1>3, CallTypes, TxnTypes, Zenon DEF TypeOK, BankTypeOK

\* A token is invalidated without a release by CONSUME_TOKEN's compensation only.
LEMMA Invalidating ==
  ASSUME TypeOK, [Next]_vars, UNCHANGED money, NEW t \in Tokens,
         token[t] = "HELD", token'[t] = "INVALIDATED"
  PROVE  \E c \in Calls : pc[c] = "undo_CONSUME_TOKEN" /\ TokenOf[Envelope[c]] = t
<1>0. entryId' = entryId /\ entryId \in Nat /\ token \in [Tokens -> TokenStatus]
  BY Zenon DEF money, TypeOK, BankTypeOK
<1>1. token' = token => FALSE
  BY Zenon
<1>2. UNCHANGED bankVars => FALSE
  BY Zenon DEF bankVars
<1>3. ASSUME NEW u \in Tokens, IssueToken(u) PROVE FALSE
  BY <1>0, <1>3, IssueRow
<1>4. ASSUME NEW k \in IntentIds, Expire(k) PROVE FALSE
  BY <1>1, <1>4, Zenon DEF Expire
<1>5. ASSUME NEW c \in Calls, CallStep(c) \/ Crash(c)
      PROVE  pc[c] = "undo_CONSUME_TOKEN" /\ TokenOf[Envelope[c]] = t
  <2>1. CASE CheckIdempotency(c) \/ Validate(c) \/ Crash(c)
    BY <1>2, <2>1, Zenon DEF CheckIdempotency, Validate, Crash
  <2>2. CASE Reserve(c) \/ Publish(c)
    BY <1>1, <1>2, <2>2, Zenon DEF Reserve, Publish, DbFails, Abort
  <2>3. CASE ConsumeToken(c)
    BY <1>0, <1>2, <2>3, Zenon DEF ConsumeToken, HoldToken, DbFails, Abort
  <2>4. CASE LedgerCommit(c)
    BY <1>0, <1>2, <2>4 DEF LedgerCommit, DbFails, Abort
  <2>5. CASE UndoLedgerCommit(c)
    BY <1>1, <1>2, <2>5, Zenon DEF UndoLedgerCommit, CompensationFails
  <2>6. CASE UndoConsumeToken(c)
    BY <1>0, <1>1, <1>2, <2>6, Zenon DEF UndoConsumeToken, InvalidateToken,
       CompensationFails
  <2>7. CASE UndoReserve(c)
    BY <1>1, <1>2, <2>7, Zenon DEF UndoReserve, CompensationFails
  <2>8. CASE SaveIntent(c) \/ SaveOutbox(c) \/ SaveEvents(c) \/ RecordFailure(c)
    BY <1>1, <2>8, Zenon DEF SaveIntent, SaveOutbox, SaveEvents, RecordFailure
  <2> QED BY <1>5, <2>1, <2>2, <2>3, <2>4, <2>5, <2>6, <2>7, <2>8, Zenon DEF CallStep
<1>6. ASSUME NEW w \in Scanners, ScanStep(w) \/ CrashScanner(w) PROVE FALSE
  <2>1. ASSUME NEW u \in Tokens, ReleaseListed(w, u) PROVE FALSE
    BY <1>0, <1>2, <2>1 DEF ReleaseListed, ReleaseExpiredToken
  <2>2. ASSUME NEW k \in IntentIds, ExpireListed(w, k) PROVE FALSE
    BY <1>1, <1>2, <2>2, Zenon DEF ExpireListed, MarkExpired
  <2>3. CASE ListExpiredTokens(w) \/ ListStuckIntents(w) \/ EndScan(w) \/ CrashScanner(w)
    BY <1>2, <2>3, Zenon DEF ListExpiredTokens, ListStuckIntents, EndScan, CrashScanner
  <2> QED BY <1>6, <2>1, <2>2, <2>3, Zenon DEF ScanStep
<1>7. CASE UNCHANGED vars
  BY <1>2, <1>7, Zenon DEF vars
<1> QED BY <1>3, <1>4, <1>5, <1>6, <1>7, Zenon DEF Next

\* Without failing calls the compensation of CONSUME_TOKEN is entered only when
\* LEDGER_COMMIT was refused.
LEMMA EnteringUndo ==
  ASSUME NoLostAck, HeadersMatch, NoDbFault, TypeOK, PaymentHasOneOwner, [Next]_vars,
         NEW c \in Calls, pc'[c] = "undo_CONSUME_TOKEN", pc[c] # "undo_CONSUME_TOKEN"
  PROVE  pc[c] = "LEDGER_COMMIT" /\ ~CanCommit(Envelope[c]) /\ UNCHANGED bankVars
<1> USE DEF NoLostAck, NoDbFault, Goto
<1>0. pc \in [Calls -> Step] /\ pc' # pc
  BY Zenon DEF TypeOK, SettleTypeOK
<1>1. ASSUME NEW d \in Calls, CallStep(d) \/ Crash(d)
      PROVE  pc[c] = "LEDGER_COMMIT" /\ ~CanCommit(Envelope[c]) /\ UNCHANGED bankVars
  <2>1. c = d
    BY <1>1, CallControl, Zenon DEF TypeOK
  <2>2. CASE CheckIdempotency(c) \/ Crash(c)
    BY <1>0, <2>2, Zenon DEF CheckIdempotency, Crash
  <2>3. CASE Validate(c)
    <3>1. pc' = [pc EXCEPT ![c] = "RESERVE"] \/ pc' = [pc EXCEPT ![c] = "save_intent"]
      BY <2>3, Zenon DEF Validate
    <3> QED BY <1>0, <3>1, Zenon
  <2>4. CASE Reserve(c)
    BY <1>0, <2>4, Zenon DEF Reserve, Committed, DbFails, Abort, Fail
  <2>5. CASE ConsumeToken(c)
    BY <1>0, <2>5, Zenon DEF ConsumeToken, Committed, DbFails, Abort, Fail
  <2>6. CASE LedgerCommit(c)
    BY <1>0, <2>6, Zenon DEF LedgerCommit, Committed, DbFails, Abort, Fail
  <2>7. CASE Publish(c)
    BY <1>0, <2>7, Zenon DEF Publish, DbFails, Abort, Fail
  <2>8. AttemptFails(c) => pc' = pc \/ pc' = [pc EXCEPT ![c] = "save_intent"]
    BY Zenon DEF AttemptFails
  <2>9. CASE UndoLedgerCommit(c)
    <3>1. ~CanUndoLedger(Envelope[c])
      BY <2>9, CannotUndo, Zenon DEF UndoLedgerCommit
    <3> QED BY <1>0, <2>8, <2>9, <3>1, Zenon DEF UndoLedgerCommit, CompensationFails
  <2>10. CASE UndoConsumeToken(c)
    BY <2>10, Zenon DEF UndoConsumeToken
  <2>11. CASE UndoReserve(c)
    BY <1>0, <2>8, <2>11, Zenon DEF UndoReserve, CompensationFails, Compensated
  <2>12. CASE SaveIntent(c) \/ SaveOutbox(c) \/ SaveEvents(c) \/ RecordFailure(c)
    BY <1>0, <2>12, Zenon DEF SaveIntent, SaveOutbox, SaveEvents, RecordFailure
  <2> QED BY <1>1, <2>1, <2>2, <2>3, <2>4, <2>5, <2>6, <2>7, <2>9, <2>10, <2>11, <2>12,
             Zenon
          DEF CallStep
<1> QED BY <1>0, <1>1, Zenon DEF Next, vars, settleVars

\* LEDGER_COMMIT cannot fail on a token that is still held.
HeldCanCommit ==
  \A c \in Calls : /\ pc[c] = "LEDGER_COMMIT" /\ token[TokenOf[Envelope[c]]] = "HELD"
                  => CanCommit(Envelope[c])

LEMMA StrandedStep ==
  ASSUME NoLostAck, HeadersMatch, NoDbFault, TypeOK, TypeOK', TokenHasOneHolder,
         PaymentHasOneOwner, TokensOnLedger, HeldCanCommit, NothingStranded, [Next]_vars
  PROVE  NothingStranded'
<1>0. token \in [Tokens -> TokenStatus] /\ \A c \in Calls : TokenOf[Envelope[c]] \in Tokens
  BY CallTypes, TxnTypes, Zenon DEF TypeOK, BankTypeOK
<1>1. ledger \subseteq ledger'
  BY NeverReverts, Zenon
<1>2. \A t \in Tokens : TokenRows(t, "RELEASE") # {} => TokenRows(t, "RELEASE")' # {}
  BY <1>1, Zenon DEF TokenRows
<1>3. ASSUME NEW t \in Tokens, token'[t] \in {"CONSUMED", "INVALIDATED"}
      PROVE  TokenRows(t, "RELEASE")' # {}
  <2>1. CASE Rests
    <3>1. token[t] = token'[t] \/ (token[t] = "HELD" /\ token'[t] = "INVALIDATED")
      BY <1>3, <2>1, Zenon DEF Rests
    <3>2. ~(token[t] = "HELD" /\ token'[t] = "INVALIDATED")
      BY <2>1, Invalidating DEF Rests, NothingStranded
    <3> QED BY <1>2, <1>3, <3>1, <3>2, Zenon DEF NothingStranded
  <2>2. ASSUME NEW u \in Tokens, IssueToken(u) PROVE TokenRows(t, "RELEASE")' # {}
    BY <1>2, <1>3, <2>2, IssueRow DEF NothingStranded
  <2>3. ASSUME NEW u \in Tokens, CanRelease(u), ReleaseExpiredToken(u)
        PROVE  TokenRows(t, "RELEASE")' # {}
    <3>1. PICK e : ledger' = ledger \cup {e} /\ e.txn = u /\ e.type = "RELEASE"
      BY <2>3, ReleaseRow
    <3>2. t = u \/ token'[t] = token[t]
      BY <2>3, ReleaseRow
    <3> QED BY <1>2, <1>3, <3>1, <3>2, Zenon DEF NothingStranded, TokenRows
  <2>4. ASSUME NEW c \in Calls, Commits(c) PROVE TokenRows(t, "RELEASE")' # {}
    <3> DEFINE x == Envelope[c]
    <3>1. PICK d, r, f : /\ ledger' = ledger \cup {d, r, f}
                         /\ d.txn = x /\ r.txn = x /\ f.txn = TokenOf[x]
                         /\ f.type = "RELEASE"
      BY <2>4, CommitRows
    <3>2. t = TokenOf[x] \/ token'[t] = token[t]
      BY <2>4, CommitRows
    <3> HIDE DEF x
    <3> QED BY <1>2, <1>3, <3>1, <3>2, Zenon DEF NothingStranded, TokenRows
  <2> QED BY <2>1, <2>2, <2>3, <2>4, MoneyMoves, NeverUndone, Zenon
<1>4. ASSUME NEW t \in Tokens, token'[t] # "NONE" PROVE intent'[t] # "NONE"
  <2>1. CASE token[t] # "NONE"
    <3>1. t \in IntentIds /\ t \notin Txns
      BY BankAssumption, Zenon DEF IntentIds
    <3>2. \A c \in Calls : Envelope[c] # t
      BY <3>1, CallTypes, Zenon
    <3> QED BY <2>1, <3>1, <3>2, IntentStays, Zenon DEF NothingStranded
  <2>2. CASE token[t] = "NONE"
    <3>1. IssueToken(t)
      <4>1. CASE Rests
        BY <1>4, <2>2, <4>1, Zenon DEF Rests
      <4>2. ASSUME NEW u \in Tokens, IssueToken(u) PROVE u = t
        BY <1>4, <2>2, <4>2, IssueRow
      <4>3. ASSUME NEW u \in Tokens, CanRelease(u), ReleaseExpiredToken(u) PROVE FALSE
        BY <1>4, <2>2, <4>3, ReleaseRow, ZenonT(30)
      <4>4. ASSUME NEW c \in Calls, Commits(c) PROVE FALSE
        BY <1>4, <2>2, <4>4, CommitRows
      <4> QED BY <4>1, <4>2, <4>3, <4>4, MoneyMoves, NeverUndone, Zenon
    <3> QED BY <3>1, TokenTypes, Zenon DEF IssueToken, CreatePaymentIntent, TypeOK,
               BankTypeOK
  <2> QED BY <2>1, <2>2, Zenon
<1>5. ASSUME NEW t \in Tokens, token[t] \notin {"NONE", "ISSUED", "HELD"}
      PROVE  token'[t] # "HELD"
  <2>1. CASE Rests
    BY <1>5, <2>1, Zenon DEF Rests
  <2>2. ASSUME NEW u \in Tokens, IssueToken(u) PROVE token'[t] # "HELD"
    BY <1>5, <2>2, IssueRow
  <2>3. ASSUME NEW u \in Tokens, CanRelease(u), ReleaseExpiredToken(u)
        PROVE  token'[t] # "HELD"
    BY <1>5, <2>3, ReleaseRow, SMTT(30)
  <2>4. ASSUME NEW c \in Calls, Commits(c) PROVE token'[t] # "HELD"
    BY <1>5, <2>4, CommitRows
  <2> QED BY <2>1, <2>2, <2>3, <2>4, MoneyMoves, NeverUndone, Zenon
<1>6. ASSUME NEW c \in Calls, pc'[c] = "undo_CONSUME_TOKEN"
      PROVE  token'[TokenOf[Envelope[c]]] # "HELD"
  <2>1. CASE pc[c] = "undo_CONSUME_TOKEN"
    <3>1. token[TokenOf[Envelope[c]]] \notin {"NONE", "ISSUED", "HELD"}
      BY <2>1, Zenon DEF NothingStranded, TokenHasOneHolder, AfterConsume, AfterReserve,
         SagaSteps
    <3> QED BY <1>0, <1>5, <3>1, Zenon
  <2>2. CASE pc[c] # "undo_CONSUME_TOKEN"
    <3>1. pc[c] = "LEDGER_COMMIT" /\ ~CanCommit(Envelope[c]) /\ UNCHANGED bankVars
      BY <1>6, <2>2, EnteringUndo, Zenon
    <3> QED BY <3>1, Zenon DEF HeldCanCommit, bankVars
  <2> QED BY <2>1, <2>2, Zenon
<1>7. ASSUME NEW c \in Calls, pc'[c] \in {"CONSUME_TOKEN", "LEDGER_COMMIT"}
      PROVE  intent'[Envelope[c]] # "NONE"
  <2>1. CASE pc[c] \in {"CONSUME_TOKEN", "LEDGER_COMMIT"}
    <3>1. intent[Envelope[c]] # "NONE" /\ Envelope[c] \in IntentIds
      BY <2>1, CallTypes, TxnTypes, Zenon DEF NothingStranded
    <3>2. \A d \in Calls : Envelope[d] = Envelope[c] =>
            pc[d] \notin {"undo_LEDGER_COMMIT", "undo_RESERVE"}
      BY <2>1, Zenon DEF PaymentHasOneOwner, AfterReserve, SagaSteps
    <3> QED BY <3>1, <3>2, IntentStays, Zenon
  <2>2. CASE pc[c] \notin {"CONSUME_TOKEN", "LEDGER_COMMIT"}
    <3>1. pc'[c] # "LEDGER_COMMIT"
      <4>1. ASSUME NEW d \in Calls, CallStep(d) \/ Crash(d) PROVE pc'[c] # "LEDGER_COMMIT"
        BY <2>2, <4>1, CallControl, Zenon DEF TypeOK, ConsumeToken
      <4> QED BY <1>7, <2>2, <4>1, Zenon DEF Next, vars, settleVars
    <3> QED BY <1>7, <2>2, <3>1, EnteringConsume, Zenon
  <2> QED BY <2>1, <2>2, Zenon
<1> QED BY <1>3, <1>4, <1>6, <1>7, Zenon DEF NothingStranded

-----------------------------------------------------------------------------
(***************************************************************************)
(* The last row of an account.                                             *)
(***************************************************************************)

RowsOf(a) == {e \in ledger : e.account = a}

\* A row with a new id goes to one account.
LEMMA RowsAfter ==
  ASSUME TypeOK, TypeOK', RowsInOrder, NEW e, ledger' = ledger \cup {e}, e.id = entryId + 1
  PROVE  /\ e \notin RowsOf(e.account) /\ RowsOf(e.account)' = RowsOf(e.account) \cup {e}
         /\ \A a \in Accounts \ {e.account} : RowsOf(a)' = RowsOf(a)
<1>1. entryId \in Nat /\ \A f \in ledger : f.id \in Nat /\ f.id <= entryId
  BY Zenon DEF TypeOK, BankTypeOK, LedgerEntry, RowsInOrder
<1> QED BY <1>1 DEF RowsOf

\* The last row of an account shows its balance.
LastRowShows ==
  \A a \in Accounts : \A e \in RowsOf(a) :
    (\A f \in RowsOf(a) : f.id <= e.id) => e.after = avail[a]

LEMMA LastRowStep ==
  ASSUME NoSelfPayment, HeadersMatch, TypeOK, TypeOK', ChecksHold, TokenHasOneHolder,
         PaymentHasOneOwner, RowsInOrder, LastRowShows, [Next]_vars
  PROVE  LastRowShows'
<1>0. entryId \in Nat /\ \A f \in ledger : f.id \in Nat /\ f.id <= entryId
  BY Zenon DEF TypeOK, BankTypeOK, LedgerEntry, RowsInOrder
<1> SUFFICES ASSUME NEW a \in Accounts, NEW e \in RowsOf(a)',
                    \A f \in RowsOf(a)' : f.id <= e.id
             PROVE  e.after = avail'[a]
  BY Zenon DEF LastRowShows
<1>1. ASSUME RowsOf(a)' = RowsOf(a), avail'[a] = avail[a] PROVE e.after = avail'[a]
  BY <1>1, Zenon DEF LastRowShows
\* A row that is newer than all of RowsOf(a) is the last one.
<1>2. ASSUME NEW n \in RowsOf(a)', n.id \in Nat, n.id > entryId, n.after = avail'[a],
             \A g \in RowsOf(a)' \ {n} : g.id \in Nat /\ g.id < n.id
      PROVE  e.after = avail'[a]
  BY <1>2
<1>3. CASE Rests
  BY <1>1, <1>3, Zenon DEF Rests, money, RowsOf
<1>4. ASSUME NEW t \in Tokens, IssueToken(t) PROVE e.after = avail'[a]
  <2>1. PICK n : /\ ledger' = ledger \cup {n} /\ n.id = entryId + 1 /\ n.account = Owner[t]
                 /\ n.after = avail[Owner[t]] - Value[t]
    BY <1>4, IssueRow
  <2>2. CASE a = Owner[t]
    <3>1. RowsOf(a)' = RowsOf(a) \cup {n} /\ RowsOf(a) \subseteq ledger
      BY <2>1, <2>2, Zenon DEF RowsOf
    <3>2. n.after = avail'[a]
      BY <1>4, <2>1, <2>2, IssueBalances, Zenon
    <3> QED BY <1>0, <1>2, <2>1, <3>1, <3>2
  <2>3. CASE a # Owner[t]
    BY <1>1, <1>4, <2>1, <2>3, RowsAfter, IssueBalances
  <2> QED BY <2>2, <2>3, Zenon
<1>5. ASSUME NEW t \in Tokens, CanRelease(t), ReleaseExpiredToken(t)
      PROVE  e.after = avail'[a]
  <2>1. PICK n : /\ ledger' = ledger \cup {n} /\ n.id = entryId + 1 /\ n.account = Owner[t]
                 /\ n.after = avail[Owner[t]] + Value[t]
    BY <1>5, ReleaseRow
  <2>2. CASE a = Owner[t]
    <3>1. RowsOf(a)' = RowsOf(a) \cup {n} /\ RowsOf(a) \subseteq ledger
      BY <2>1, <2>2, Zenon DEF RowsOf
    <3>2. n.after = avail'[a]
      BY <1>5, <2>1, <2>2, ReleaseBalances, Zenon
    <3> QED BY <1>0, <1>2, <2>1, <3>1, <3>2
  <2>3. CASE a # Owner[t]
    BY <1>1, <1>5, <2>1, <2>3, RowsAfter, ReleaseBalances, SMTT(30)
  <2> QED BY <2>2, <2>3, Zenon
<1>6. ASSUME NEW c \in Calls, Commits(c) PROVE e.after = avail'[a]
  <2> DEFINE x == Envelope[c]
  <2>1. PICK d, r, f :
          /\ ledger' = ledger \cup {d, r, f}
          /\ d.id = entryId + 1 /\ r.id = entryId + 2 /\ f.id = entryId + 3
          /\ d.account = Sender(x) /\ r.account = Receiver[x] /\ f.account = Sender(x)
          /\ d.after = avail[Sender(x)] + Change(x) /\ f.after = d.after
          /\ r.after = avail[Receiver[x]] + Amount[x]
    BY <1>6, CommitRows, SMTT(30)
  <2>2. /\ Sender(x) \in Accounts /\ Receiver[x] \in Accounts /\ Sender(x) # Receiver[x]
        /\ avail'[Sender(x)] = avail[Sender(x)] + Change(x)
        /\ avail'[Receiver[x]] = avail[Receiver[x]] + Amount[x]
        /\ \A b \in Accounts \ {Sender(x), Receiver[x]} : avail'[b] = avail[b]
    BY <1>6, CommitBalances DEF Change
  <2> HIDE DEF x
  <2>3. CASE a = Sender(x)
    <3>1. RowsOf(a)' = RowsOf(a) \cup {d, f} /\ RowsOf(a) \subseteq ledger
      BY <2>1, <2>2, <2>3, Zenon DEF RowsOf
    <3>2. f.after = avail'[a]
      BY <2>1, <2>2, <2>3, Zenon
    <3> QED BY <1>0, <1>2, <2>1, <3>1, <3>2
  <2>4. CASE a = Receiver[x]
    <3>1. RowsOf(a)' = RowsOf(a) \cup {r} /\ RowsOf(a) \subseteq ledger
      BY <2>1, <2>2, <2>4, Zenon DEF RowsOf
    <3>2. r.after = avail'[a]
      BY <2>1, <2>2, <2>4, Zenon
    <3> QED BY <1>0, <1>2, <2>1, <3>1, <3>2, SMTT(30)
  <2>5. CASE a \notin {Sender(x), Receiver[x]}
    <3>1. RowsOf(a)' = RowsOf(a)
      BY <2>1, <2>5, Zenon DEF RowsOf
    <3> QED BY <1>1, <2>2, <2>5, <3>1, Zenon
  <2> QED BY <2>3, <2>4, <2>5, Zenon
<1> QED BY <1>3, <1>4, <1>5, <1>6, MoneyMoves, NeverUndone, Zenon

=============================================================================
