------------------------------ MODULE Recovery ------------------------------
(***************************************************************************)
(* internal/recovery: a failed settlement leaves one row per payment in    *)
(* recovery_operations, and a worker on every server asks for a retry of   *)
(* what is due, with SKIP LOCKED against the workers of the other servers. *)
(* A request is an outbox row; the worker moves no money.                  *)
(*                                                                         *)
(* RunOnce writes on its transaction while the rows it has selected are    *)
(* still open.  Whether the connection takes that is up to the driver,     *)
(* which is not modelled: every such transaction may commit and every one  *)
(* may be rolled back.  (lib/pq 1.10.9 of go.mod refuses a statement while *)
(* rows are open, so with it RunOnce is rolled back whenever it has        *)
(* selected anything.)  Nothing here says that a request is ever made.     *)
(***************************************************************************)
EXTENDS Integers, FiniteSets

CONSTANTS
  Servers,      \* servers on the same database
  Payments,     \* ids of the payments
  MaxAttempts   \* requests for the same payment (3 in the code)

ASSUME RecoveryAssumption == MaxAttempts \in Nat \ {0}

VARIABLES
  op,          \* op[x]: state of the operation for payment x
  action,      \* action[x]: what the policy has decided
  attempts,    \* attempts[x]: its attempt_count
  due,         \* the operations whose next_attempt_at has passed
  claimed,     \* claimed[v]: operations locked by the transaction of v's worker,
               \* each with the attempt_count it has read
  requested    \* requested[x]: outbox rows the workers have written for x

recoveryVars == <<op, action, attempts, due, claimed, requested>>

Categories == {"NETWORK", "PAYMENT", "SECURITY", "CONSISTENCY", "INFRASTRUCTURE", "UNKNOWN"}

RecoveryInit ==
  /\ op = [x \in Payments |-> "NONE"]
  /\ action = [x \in Payments |-> "NONE"]
  /\ attempts = [x \in Payments |-> 0]
  /\ due = {}
  /\ claimed = [v \in Servers |-> {}]
  /\ requested = [x \in Payments |-> 0]
-----------------------------------------------------------------------------
\* Policy.Decide at attempt 0: nothing is tried beyond the amount and time budget.
\* (A rule knows its category with confidence 0.95 or more; an unknown one has 0.)
Decide(category, inBudget) ==
  CASE ~inBudget -> "ESCALATE"
    [] inBudget /\ category \in {"NETWORK", "INFRASTRUCTURE"} -> "RETRY"
    [] inBudget /\ category = "PAYMENT" -> "COMPENSATE"
    [] inBudget /\ category \in {"SECURITY", "CONSISTENCY"} -> "ESCALATE"
    [] inBudget /\ category = "UNKNOWN" -> "ABSTAIN"

\* What RecordFailure can decide about a failure.
Decisions == {Decide(c, b) : c \in Categories, b \in BOOLEAN}

\* stateFor: what a decision leaves to do.
StateFor(a) == IF a \in {"RETRY", "COMPENSATE"} THEN "SCHEDULED" ELSE "ESCALATED"

\* RecordFailure: the first failure of a payment decides, those after it find the
\* idempotency key taken and change nothing.
RecordFailure(x, decision) ==
  /\ IF op[x] # "NONE" THEN UNCHANGED <<op, action>>
     ELSE /\ action' = [action EXCEPT ![x] = decision]
          /\ op' = [op EXCEPT ![x] = StateFor(decision)]
  /\ UNCHANGED <<attempts, due, claimed, requested>>

\* Operations with a next_attempt_at.
Reschedulable(x) == op[x] = "SCHEDULED"

\* next_attempt_at passes.
BecomesDue(x) ==
  /\ Reschedulable(x) /\ x \notin due
  /\ due' = due \cup {x}
  /\ UNCHANGED <<op, action, attempts, claimed, requested>>

\* Broken variant of Claimable: rows are read without a lock.
ClaimableUnlocked == {x \in due : op[x] = "SCHEDULED"}

\* The rows RunOnce selects: due, and locked by no other worker.
Claimable ==
  {x \in due : op[x] = "SCHEDULED" /\ \A v \in Servers : \A c \in claimed[v] : c[1] # x}

\* The transaction of RunOnce starts with the rows it is going to work on.
ClaimDue(v) ==
  /\ claimed[v] = {} /\ Claimable # {}
  /\ claimed' = [claimed EXCEPT ![v] = {<<x, attempts[x]>> : x \in Claimable}]
  /\ UNCHANGED <<op, action, attempts, due, requested>>

\* The state of an operation after request n: a compensation is left to people.
AfterRequest(x, n) ==
  CASE action[x] = "COMPENSATE" -> "ESCALATED"
    [] action[x] = "RETRY" -> IF n = MaxAttempts THEN "EXHAUSTED" ELSE "SCHEDULED"

\* RunOnce commits: one outbox row for each operation and its new attempt_count.
\* An operation found at the limit is only closed.
RunOnce(v) ==
  LET spent == {c[1] : c \in {c \in claimed[v] : c[2] >= MaxAttempts}}
      asked == {c \in claimed[v] : c[2] < MaxAttempts}
      Read(x) == CHOOSE n \in 0 .. MaxAttempts : <<x, n>> \in asked
  IN  /\ claimed[v] # {}
      /\ op' = [x \in Payments |-> IF x \in spent THEN "EXHAUSTED"
                                   ELSE IF \E c \in asked : c[1] = x THEN AfterRequest(x, Read(x) + 1)
                                   ELSE op[x]]
      /\ attempts' = [x \in Payments |-> IF \E c \in asked : c[1] = x THEN Read(x) + 1 ELSE attempts[x]]
      /\ requested' = [x \in Payments |-> requested[x] + Cardinality({c \in asked : c[1] = x})]
      /\ due' = due \ {c[1] : c \in claimed[v]}
      /\ claimed' = [claimed EXCEPT ![v] = {}]
      /\ UNCHANGED action

\* The transaction is rolled back: the server stops, or a statement is refused.
AbandonClaims(v) ==
  /\ claimed' = [claimed EXCEPT ![v] = {}]
  /\ UNCHANGED <<op, action, attempts, due, requested>>

RunFails(v) == claimed[v] # {} /\ AbandonClaims(v)

RecoveryStep(v) == ClaimDue(v) \/ RunOnce(v) \/ RunFails(v)
=============================================================================
