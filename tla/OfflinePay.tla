----------------------------- MODULE OfflinePay -----------------------------
(***************************************************************************)
(* The bank's server: concurrent invocations of Settle, the issuing of     *)
(* tokens, the reconciliation scanners and the passing of time, all on the *)
(* same tables.  The properties the composition has to keep.               *)
(***************************************************************************)
EXTENDS Settlement, Reconciliation, Functions

vars == <<bankVars, settleVars, scanVars>>

Init == BankInit /\ SettleInit /\ ScanInit

Next ==
  \/ \E t \in Tokens : IssueToken(t) /\ UNCHANGED <<settleVars, scanVars>>
  \/ \E k \in IntentIds : Expire(k) /\ UNCHANGED <<settleVars, scanVars>>
  \/ \E c \in Calls : (CallStep(c) \/ Crash(c)) /\ UNCHANGED scanVars
  \/ \E w \in Scanners : (ScanStep(w) \/ CrashScanner(w)) /\ UNCHANGED settleVars

Spec == Init /\ [][Next]_vars

\* A request that has been received runs to its end, and the ticker of every
\* scanner keeps firing.  Nobody is obliged to issue a token.
Fairness ==
  /\ \A c \in Calls : WF_vars(CallStep(c) /\ UNCHANGED scanVars)
  /\ \A w \in Scanners : WF_vars(ScanStep(w) /\ UNCHANGED settleVars)

FairSpec == Spec /\ Fairness

\* The header of every envelope names the payment of its payload.  The device
\* writes both from one variable (CreateSignedAndEncryptedEnvelope); the server
\* does not compare them.
HeadersMatch == \A c \in Calls : Header[c] = Envelope[c]
-----------------------------------------------------------------------------
TypeOK == BankTypeOK /\ SettleTypeOK /\ ScanTypeOK

\* The rows that LEDGER_COMMIT writes for payment x under its own id.
SettlementRows(x) == {e \in ledger : e.txn = x}

\* The rows of the placeholder transaction tok-res-<t>, by type.
TokenRows(t, type) == {e \in ledger : e.txn = t /\ e.type = type}

\* Credits minus debits over a set of rows.
Net(rows) ==
  SumFunctionOnSet([e \in rows |-> IF e.direction = "CREDIT" THEN e.amount ELSE -e.amount],
                   rows)

TokenSum(S) == SumFunctionOnSet(Value, S)

\* However many invocations race for a token, with the same payment or with
\* different ones, at most one settlement debit is ever written against it
\* (README "No double spending").  ConsumeToken alone does not ensure this: it
\* accepts CONSUMED -> CONSUMED, so it rests on who may reach LEDGER_COMMIT.
NoDoubleSpend ==
  \A e, f \in ledger :
    /\ e.type = "SETTLEMENT" /\ f.type = "SETTLEMENT"
    /\ e.direction = "DEBIT" /\ f.direction = "DEBIT"
    /\ TokenOf[e.txn] = TokenOf[f.txn]
    => e = f

\* Money is neither created nor lost by any interleaving of issuing, settling,
\* compensating and releasing: the balances always add up to what CreateAccount
\* put in.
Conservation ==
  SumFunctionOnSet([a \in Accounts |-> avail[a] + reserved[a]], Accounts)
    = SumFunctionOnSet(InitialBalance, Accounts)

\* The available balance of every account is its initial balance plus the net
\* of its ledger rows (ADR-005, "Balances are authoritative based on ledger
\* sum, though cached in account_balances").
BalanceFromLedger ==
  \A a \in Accounts :
    avail[a] = InitialBalance[a] + Net({e \in ledger : e.account = a})

\* What is reserved for an account is the value of its tokens with a
\* RESERVATION row and no RELEASE row: no reservation is released twice, by a
\* settlement and a scanner or by two scanners, and none vanishes.
ReservedFromLedger ==
  \A a \in Accounts :
    reserved[a] = TokenSum({t \in Tokens :
                              /\ Owner[t] = a
                              /\ TokenRows(t, "RESERVATION") # {}
                              /\ TokenRows(t, "RELEASE") = {}})

\* AuditAccountBalances in a quiescent database: the last ledger row of an
\* account shows its available balance, and the tokens that are ISSUED or HELD
\* account for its reserved balance.
AuditAccountBalances(a) ==
  LET rows == {e \in ledger : e.account = a} IN
  /\ \A e \in rows : (\A f \in rows : f.id <= e.id) => e.after = avail[a]
  /\ reserved[a] = TokenSum({t \in Tokens : Owner[t] = a /\ token[t] \in {"ISSUED", "HELD"}})

\* The balance audit of the financial validator, were it to read both tables at
\* once, finds nothing in any state that crashes and concurrency can lead to:
\* every transaction leaves the cached balances, the ledger and the token
\* statuses in agreement.  (Under HeadersMatch: a settlement that is undone
\* reserves its money again for a token that stays CONSUMED.)
AuditClean == \A a \in Accounts : AuditAccountBalances(a)

\* The double entry of a payment is complete or absent: exactly one debit of
\* the sender and one credit of the receiver over the amount (ADR-005), written
\* only for a token that is CONSUMED and released with it.
SettlementIsAtomic ==
  \A x \in Txns :
    LET rows == SettlementRows(x) IN
    \/ rows = {}
    \/ /\ Cardinality(rows) = 2
       /\ \E d, r \in rows :
            /\ d.direction = "DEBIT" /\ d.account = Sender(x)
            /\ r.direction = "CREDIT" /\ r.account = Receiver[x]
            /\ d.amount = Amount[x] /\ r.amount = Amount[x]
       /\ token[TokenOf[x]] = "CONSUMED"
       /\ Cardinality(TokenRows(TokenOf[x], "RELEASE")) = 1

\* A payment.settled event is only ever published for money that has moved and
\* stays moved (ADR-007, "if and only if the database transaction commits").
NoPhantomEvent ==
  \A e \in outbox : e.stream = "payment.settled" => SettlementRows(e.key) # {}

\* A nonce is good for one settlement: two payments that carry the same nonce,
\* even with different tokens, are never both settled (README "Replay
\* resistance").  RESERVE's compensation deletes nonce rows by value.
OneSettlementPerNonce ==
  \A x, y \in Txns :
    /\ NonceOf[x] = NonceOf[y]
    /\ SettlementRows(x) # {} /\ SettlementRows(y) # {}
    => x = y

\* A payment whose money has moved keeps its nonce registered and its intent on
\* record, whatever duplicates are compensated around it: the replay protection
\* of a settled payment is never undone by RESERVE's compensation, which deletes
\* nonce rows.  (A scanner that has listed the intent before it was settled still
\* overwrites the status with EXPIRED.)
SettledStaysRegistered ==
  \A x \in Txns :
    SettlementRows(x) # {} => x \in Registered /\ intent[x] \in {"SETTLED", "EXPIRED"}

\* Ledger rows are immutable (ADR-005): no step removes or rewrites one, though
\* LEDGER_COMMIT's compensation is written to.  This rests on HeadersMatch: what
\* stops the compensation is that the nonce refers to the intent it deletes.
LedgerIsImmutable == [][ledger \subseteq ledger']_vars
-----------------------------------------------------------------------------
(***************************************************************************)
(* The inductive invariants behind the theorems of the proof modules.      *)
(***************************************************************************)

\* The steps between validation and the end of the compensations, those after
\* RESERVE has run, and those in which the token has been taken.
SagaSteps == {"RESERVE", "CONSUME_TOKEN", "LEDGER_COMMIT", "PUBLISH",
              "undo_LEDGER_COMMIT", "undo_CONSUME_TOKEN", "undo_RESERVE"}
AfterReserve == SagaSteps \ {"RESERVE"}
AfterConsume == AfterReserve \ {"CONSUME_TOKEN", "undo_RESERVE"}

\* After RESERVE, the steps with the ledger written and those without.
PostCommit == {"PUBLISH", "undo_LEDGER_COMMIT"}
PreCommit == AfterReserve \ PostCommit

\* What the checks of Settle and of RESERVE have established for an invocation
\* in the saga still holds when LEDGER_COMMIT computes balances from it.
ChecksHold ==
  \A c \in Calls :
    LET x == Envelope[c] IN
    /\ pc[c] \in SagaSteps => Amount[x] <= Value[TokenOf[x]]
    /\ pc[c] \in AfterReserve => Receiver[x] \in Accounts

\* A token has one holder.  Past CONSUME_TOKEN an invocation is alone with its
\* token, which is never ISSUED again; an invocation about to commit finds it
\* unspent; and a settlement row keeps its token CONSUMED.
TokenHasOneHolder ==
  /\ \A c, d \in Calls :
       /\ pc[c] \in AfterConsume /\ pc[d] \in AfterConsume
       /\ TokenOf[Envelope[c]] = TokenOf[Envelope[d]]
       => c = d
  /\ \A c \in Calls :
       /\ pc[c] \in AfterConsume => token[TokenOf[Envelope[c]]] \notin {"NONE", "ISSUED"}
       /\ pc[c] = "LEDGER_COMMIT" => token[TokenOf[Envelope[c]]] # "CONSUMED"
  /\ \A e \in ledger :
       e.type = "SETTLEMENT" => e.txn \in Txns /\ token[TokenOf[e.txn]] = "CONSUMED"

\* A registered payment has one owner.  Past RESERVE an invocation is alone with
\* its payment, whose nonce stays registered under the id of its header;
\* settlement rows appear with LEDGER_COMMIT and are there in PUBLISH; nonce
\* values are unique.
PaymentHasOneOwner ==
  /\ \A c, d \in Calls :
       pc[c] \in AfterReserve /\ pc[d] \in AfterReserve /\ Envelope[c] = Envelope[d] => c = d
  /\ \A c \in Calls :
       LET x == Envelope[c] IN
       /\ pc[c] \in AfterReserve => nonces[x] = Header[c]
       /\ pc[c] \in PostCommit => SettlementRows(x) # {}
       /\ pc[c] \in PreCommit => SettlementRows(x) = {}
  /\ \A x, y \in Registered : NonceOf[x] = NonceOf[y] => x = y
-----------------------------------------------------------------------------
\* Every Settle that has started returns, unless its server stops.
SettleReturns == \A c \in Calls : pc[c] # "idle" ~> pc[c] \in {"done", "crashed"}

\* The funds of an expired token do not stay locked: the reservation is
\* eventually released by a settlement or a scanner, even when the server that
\* held the token stopped half-way (ADR-009).  (Under HeadersMatch, like
\* AuditClean.)
FundsComeBack ==
  \A t \in Tokens :
    (t \in expired /\ TokenRows(t, "RESERVATION") # {}) ~> TokenRows(t, "RELEASE") # {}
-----------------------------------------------------------------------------
(***************************************************************************)
(* The server implements Escrow.  The ledger alone says how the escrow of  *)
(* a token stands, and an invocation has answered when it is done.         *)
(***************************************************************************)
EscrowOf(t) ==
  IF TokenRows(t, "RESERVATION") = {} THEN "FREE"
  ELSE IF TokenRows(t, "RELEASE") = {} THEN "LOCKED"
  ELSE IF \E x \in Txns : TokenOf[x] = t /\ SettlementRows(x) # {}
       THEN CHOOSE x \in Txns : TokenOf[x] = t /\ SettlementRows(x) # {}
       ELSE "RETURNED"

AnswerOf(c) == IF pc[c] = "done" THEN verdict[c] ELSE "NONE"

\* Payment ids are UUIDs, none of which is a word that Escrow uses for a state.
ASSUME IdsAssumption == Txns \cap {"FREE", "LOCKED", "RETURNED"} = {}

Abstract == INSTANCE Escrow WITH
  funds <- avail,
  escrow <- [t \in Tokens |-> EscrowOf(t)],
  answer <- [c \in Calls |-> AnswerOf(c)]

\* Seen from outside the server is an escrow: no interleaving of sagas,
\* compensations, scanners and crashes lets a token pay twice, pay and be
\* returned, or pay a used nonce, moves a balance in any other way, or answers
\* SETTLED for a payment that has not been made.  (Under HeadersMatch: otherwise
\* the compensation of LEDGER_COMMIT can take a payment back.)
ImplementsEscrow == Abstract!EscrowSpec
-----------------------------------------------------------------------------
(***************************************************************************)
(* What the documents say and the code does not keep.                      *)
(***************************************************************************)

\* "If a token expires without being settled, a background reconciliation loop
\* automatically releases all reserved funds" (ADR-009): a token that ended
\* unspent has had its reservation released.
InvalidatedIsReleased ==
  \A t \in Tokens : token[t] = "INVALIDATED" => TokenRows(t, "RELEASE") # {}
=============================================================================
