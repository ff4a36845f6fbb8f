-------------------------------- MODULE Bank --------------------------------
(***************************************************************************)
(* The PostgreSQL tables that the settlement, token and reconciliation     *)
(* services share, and the row-level operations of internal/repository     *)
(* that they are written with.                                             *)
(*                                                                         *)
(* A database transaction is one atomic step: every row it decides on is   *)
(* locked FOR UPDATE or guarded by a key constraint.  What the code reads  *)
(* outside a transaction is a step of its own.                             *)
(*                                                                         *)
(* Identifiers carry their immutable columns: a token its owner and value, *)
(* a payment its receiver, amount, nonce and token.  The placeholder       *)
(* intent "tok-res-<token>" that IssueToken inserts is identified with the *)
(* token itself, so an intent id is a member of Txns or of Tokens.         *)
(***************************************************************************)
EXTENDS Integers, FiniteSets

CONSTANTS
  Accounts,        \* rows of account_balances
  Tokens,          \* token ids that IssueToken may hand out
  Txns,            \* payments: the txn_ids that devices sign
  Calls,           \* concurrent invocations of Settle
  Nonces,          \* values of the nonce column
  Owner,           \* Owner[t]: the account token t is issued to
  Value,           \* Value[t]: the amount reserved for token t
  Receiver,        \* Receiver[x]: the account payment x credits
  Amount,          \* Amount[x]: what payment x transfers
  TokenOf,         \* TokenOf[x]: the token payment x spends
  NonceOf,         \* NonceOf[x]: the anti-replay nonce of payment x
  InitialBalance,  \* InitialBalance[a]: available balance CreateAccount sets
  Faults           \* what may go wrong: "db" any database call fails, "publish"
                   \* only that of PUBLISH, "ack" a transaction commits and is
                   \* reported as failed, "crash" a server stops during Settle,
                   \* "scan_crash" during a scan

IntentIds == Txns \cup Tokens

ASSUME BankAssumption ==
  /\ Owner \in [Tokens -> Accounts]
  /\ Value \in [Tokens -> Nat \ {0}]
  /\ TokenOf \in [Txns -> Tokens]
  /\ NonceOf \in [Txns -> Nonces]
  /\ Amount \in [Txns -> Nat]
  /\ DOMAIN Receiver = Txns
  /\ InitialBalance \in [Accounts -> Nat]
  /\ Txns \cap Tokens = {}
  /\ Calls \cap Tokens = {}
  /\ "NONE" \notin IntentIds
  /\ Faults \subseteq {"db", "publish", "ack", "crash", "scan_crash"}

\* There are finitely many accounts, and finitely many UUIDs to name tokens.
ASSUME FiniteAssumption == IsFiniteSet(Accounts) /\ IsFiniteSet(Tokens)

\* The sender of an accepted payment: Settle rejects one whose sender is not
\* the owner of its token.
Sender(x) == Owner[TokenOf[x]]

VARIABLES
  avail,      \* account_balances.available_balance
  reserved,   \* account_balances.reserved_balance
  token,      \* offline_tokens.status; consumed is "CONSUMED", released_at is
              \* set exactly in "INVALIDATED"
  intent,     \* payment_intents.status, "NONE" when there is no row
  nonces,     \* nonces[x]: txn_id of the nonce_registry row that payment x has
              \* registered, "NONE" when there is no row
  ledger,     \* rows of ledger_entries
  entryId,    \* the last entry_id drawn from its sequence
  outbox,     \* outbox_events ever inserted; by is the call or token that did
  events,     \* payment_events ever inserted
  recovery,   \* payments with rows in failure_events and recovery_operations
  expired     \* tokens and payments whose expiry has passed

bankVars == <<avail, reserved, token, intent, nonces, ledger, entryId,
              outbox, events, recovery, expired>>
money == <<avail, reserved, ledger, entryId>>
-----------------------------------------------------------------------------
TokenStatus == {"NONE", "ISSUED", "HELD", "CONSUMED", "INVALIDATED"}

\* The statuses payment_intents rows take in the settlement path.
IntentStatus == {"NONE", "RESERVED", "SETTLED", "REJECTED", "FAILED",
                 "DUPLICATE", "EXPIRED"}

LedgerEntry == [id: Nat \ {0}, txn: IntentIds, account: Accounts,
                direction: {"DEBIT", "CREDIT"}, amount: Nat,
                type: {"SETTLEMENT", "RESERVATION", "RELEASE"}, after: Nat]

OutboxEvent == [stream: {"payment.settled", "payment.failed", "payment.recovery",
                         "token.issued", "token.expired"},
                key: IntentIds, by: Calls \cup Tokens]

PaymentEvent == [txn: IntentIds,
                 type: {"IntentSettled", "IntentFailed", "RecoveryDiagnosed"},
                 by: Calls]

BankTypeOK ==
  /\ avail \in [Accounts -> Nat]
  /\ reserved \in [Accounts -> Nat]
  /\ token \in [Tokens -> TokenStatus]
  /\ intent \in [IntentIds -> IntentStatus]
  /\ nonces \in [Txns -> IntentIds \cup {"NONE"}]
  /\ ledger \subseteq LedgerEntry
  /\ entryId \in Nat
  /\ outbox \subseteq OutboxEvent
  /\ events \subseteq PaymentEvent
  /\ recovery \subseteq IntentIds
  /\ expired \subseteq IntentIds

BankInit ==
  /\ avail = InitialBalance
  /\ reserved = [a \in Accounts |-> 0]
  /\ token = [t \in Tokens |-> "NONE"]
  /\ intent = [k \in IntentIds |-> "NONE"]
  /\ nonces = [x \in Txns |-> "NONE"]
  /\ ledger = {}
  /\ entryId = 0
  /\ outbox = {}
  /\ events = {}
  /\ recovery = {}
  /\ expired = {}
-----------------------------------------------------------------------------
\* domain.IsValidTokenTransition; staying in a status counts as valid.
IsValidTokenTransition(old, new) ==
  \/ old = new
  \/ old = "ISSUED" /\ new \in {"HELD", "INVALIDATED"}
  \/ old = "HELD" /\ new \in {"CONSUMED", "INVALIDATED"}

\* The INSERTs into offline_tokens and payment_intents, refused by the primary key.
CreateToken(t) == token[t] = "NONE" /\ token' = [token EXCEPT ![t] = "ISSUED"]
CreatePaymentIntent(k, status) ==
  intent[k] = "NONE" /\ intent' = [intent EXCEPT ![k] = status]

\* Both columns of an account's row are written with values computed by the caller.
UpdateBalance(a, available, held) ==
  /\ avail' = [avail EXCEPT ![a] = available]
  /\ reserved' = [reserved EXCEPT ![a] = held]

\* The status updates of offline_tokens: each locks the row, refuses a transition
\* that is not valid, and writes the new status.  MarkConsumed is the
\* repository's ConsumeToken.
HoldToken(t) ==
  IsValidTokenTransition(token[t], "HELD") /\ token' = [token EXCEPT ![t] = "HELD"]
MarkConsumed(t) ==
  IsValidTokenTransition(token[t], "CONSUMED") /\ token' = [token EXCEPT ![t] = "CONSUMED"]
InvalidateToken(t) ==
  IsValidTokenTransition(token[t], "INVALIDATED") /\ token' = [token EXCEPT ![t] = "INVALIDATED"]
ReleaseToken(t) ==
  IsValidTokenTransition(token[t], "INVALIDATED") /\ token' = [token EXCEPT ![t] = "INVALIDATED"]

\* CreateLedgerEntry with the given entry_id.
Entry(n, k, a, dir, amt, type, after) ==
  [id |-> n, txn |-> k, account |-> a, direction |-> dir, amount |-> amt,
   type |-> type, after |-> after]

\* CreateOutboxEvent and CreatePaymentEvent.
OutboxRow(stream, k, by) == [stream |-> stream, key |-> k, by |-> by]
EventRow(x, type, by) == [txn |-> x, type |-> type, by |-> by]

\* The payments whose nonce is in the registry.
Registered == {x \in Txns : nonces[x] # "NONE"}

\* RegisterNonce fails on the primary key when the nonce is already taken.
NonceTaken(x) == \E y \in Registered : NonceOf[y] = NonceOf[x]

\* The nonce_registry that DELETE ... WHERE nonce = NonceOf[x] leaves.
NoncesWithout(x) == [y \in Txns |-> IF NonceOf[y] = NonceOf[x] THEN "NONE" ELSE nonces[y]]

\* Foreign keys keep the payment_intents row k from being deleted: those of the
\* nonces, and those of payment_events and the recovery tables.
NonceRefersTo(k) == \E y \in Txns : nonces[y] = k
HistoryRefersTo(k) == (\E e \in events : e.txn = k) \/ k \in recovery

\* Time passes the expiry of a payment, or of a token that has been issued.
Expire(k) ==
  /\ k \notin expired
  /\ k \in Tokens => token[k] # "NONE"
  /\ expired' = expired \cup {k}
  /\ UNCHANGED <<money, token, intent, nonces, outbox, events, recovery>>
=============================================================================
