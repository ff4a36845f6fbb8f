------------------------------ MODULE Locking -------------------------------
(***************************************************************************)
(* What the transactions of the server wait for: row locks of PostgreSQL   *)
(* and connections of the pool.  The data they read and write is the       *)
(* business of Bank and Settlement; here a transaction is the sequence of  *)
(* the things it acquires, in the order of its statements, and it ends by  *)
(* committing or by giving up at any point.                                *)
(*                                                                         *)
(* Locked rows are account balances and tokens.  Intents, nonces and ledger*)
(* rows are locked last, by transactions that wait for nothing afterwards, *)
(* and single statements outside of a transaction wait while they hold     *)
(* nothing: neither takes part in a cycle, and both are left out.          *)
(***************************************************************************)
EXTENDS Integers, Sequences, FiniteSets

CONSTANTS
  Requests,     \* calls and background jobs that use the database
  Accounts,     \* account ids; their alphabetical order is that of the numbers
  Tokens,       \* token ids
  Work,         \* Work[r]: the kind of r and the account rows and token it is about
  PoolSizes,    \* sizes of the connection pool to consider (25 in the code)
  UndoAttempts  \* attempts at a compensation (3 in the code)

Kinds == {"settle", "issue", "release"}

ASSUME LockingAssumption ==
  /\ IsFiniteSet(Requests)
  /\ Accounts \subseteq Nat \ {0}
  /\ Tokens \cap (Accounts \cup {0}) = {}   \* rows of another table
  /\ Work \in [Requests -> [kind: Kinds, sender: Accounts, receiver: Accounts, token: Tokens]]
  /\ PoolSizes \subseteq Nat \ {0}
  /\ UndoAttempts \in Nat \ {0}

VARIABLES
  pool,    \* the size of the pool
  task,    \* task[r]: the transaction r is at, "done" after the last one
  at,      \* at[r]: 0 before it has a connection, then the position in its needs
  extra,   \* extra[r]: whether it has borrowed a second connection
  tries    \* tries[r]: failed attempts at the current compensation

lockVars == <<pool, task, at, extra, tries>>

\* What a transaction acquires: a row in a lock mode, or a second connection for
\* a query that is not sent over the transaction's own.
Row(row, mode) == [row |-> row, mode |-> mode]
Connection == [row |-> 0, mode |-> "connection"]

\* Broken variant of SortedAccounts: the sender's row first.
UnsortedAccounts(r) == <<Row(Work[r].sender, "update"), Row(Work[r].receiver, "update")>>

\* GetBalanceForUpdate of both parties, in alphabetical order.
SortedAccounts(r) ==
  LET a == Work[r].sender
      b == Work[r].receiver
  IN  <<Row(IF a <= b THEN a ELSE b, "update"), Row(IF a <= b THEN b ELSE a, "update")>>

\* SELECT ... FOR UPDATE of the token, and the lock its row gets when an intent
\* that refers to it is inserted.
TokenRow(r, mode) == <<Row(Work[r].token, mode)>>

\* The balance of the owner of the token.
OwnerRow(r) == <<Row(Work[r].sender, "update")>>

Undos == {"UNDO_LEDGER", "UNDO_CONSUME", "UNDO_RESERVE"}
Transactions == Undos \cup {"RESERVE", "CONSUME_TOKEN", "LEDGER_COMMIT", "PUBLISH",
                            "ISSUE", "RELEASE"}

\* The needs of a transaction.  IssueToken looks for a device of the owner and
\* registers one if there is none, and PUBLISH reads the intent, on another
\* connection than their own.  (The projection handlers and the audit do the same
\* and lock none of these rows: for the pool they are like PUBLISH.)
Needs(r, tx) ==
  CASE tx = "RESERVE"       -> SortedAccounts(r) \o TokenRow(r, "key_share")
    [] tx = "CONSUME_TOKEN" -> TokenRow(r, "update")
    [] tx = "LEDGER_COMMIT" -> TokenRow(r, "update") \o SortedAccounts(r)
    [] tx = "PUBLISH"       -> <<Connection>>
    [] tx = "UNDO_LEDGER"   -> SortedAccounts(r)
    [] tx = "UNDO_CONSUME"  -> TokenRow(r, "update")
    [] tx = "UNDO_RESERVE"  -> <<>>
    [] tx = "ISSUE"         -> OwnerRow(r) \o <<Connection, Connection>>
    [] tx = "RELEASE"       -> TokenRow(r, "update") \o OwnerRow(r)

\* The first transaction of a request.
First(r) == CASE Work[r].kind = "settle"  -> "RESERVE"
              [] Work[r].kind = "issue"   -> "ISSUE"
              [] Work[r].kind = "release" -> "RELEASE"

\* The saga goes on with its next step after a commit, and compensates the steps
\* before the one that failed, the last one first.
AfterCommit(tx) == CASE tx = "RESERVE"       -> "CONSUME_TOKEN"
                     [] tx = "CONSUME_TOKEN" -> "LEDGER_COMMIT"
                     [] tx = "LEDGER_COMMIT" -> "PUBLISH"
                     [] tx = "UNDO_LEDGER"   -> "UNDO_CONSUME"
                     [] tx = "UNDO_CONSUME"  -> "UNDO_RESERVE"
                     [] OTHER                -> "done"
AfterFailure(tx) == CASE tx = "CONSUME_TOKEN" -> "UNDO_RESERVE"
                      [] tx = "LEDGER_COMMIT" -> "UNDO_CONSUME"
                      [] tx = "PUBLISH"       -> "UNDO_LEDGER"
                      [] OTHER                -> "done"

LockInit ==
  /\ pool \in PoolSizes
  /\ task = [r \in Requests |-> First(r)]
  /\ at = [r \in Requests |-> 0]
  /\ extra = [r \in Requests |-> FALSE]
  /\ tries = [r \in Requests |-> 0]
-----------------------------------------------------------------------------
\* What r has acquired, and what it asks for now if anything.
Held(r) == IF at[r] = 0 THEN {} ELSE {Needs(r, task[r])[i] : i \in 1 .. at[r] - 1}
Asking(r) == task[r] # "done" /\ at[r] \in DOMAIN Needs(r, task[r])
Want(r) == Needs(r, task[r])[at[r]]

\* FOR UPDATE excludes every lock on the row; FOR KEY SHARE, which a foreign key
\* takes on the row it refers to, excludes FOR UPDATE only.
Conflict(m, n) == "update" \in {m, n}

\* Request r waits until s ends its transaction.
WaitsFor(r, s) ==
  /\ r # s /\ Asking(r)
  /\ \E h \in Held(s) : /\ h.row = Want(r).row /\ Want(r) # Connection
                        /\ Conflict(h.mode, Want(r).mode)

\* r is one of several requests in S each of which waits for the next: in C, every
\* request waits for one of C, and none of them can be left out.
InCycle(r, S) ==
  /\ \E u \in S : WaitsFor(r, u)
  /\ LET waits == [s \in S |-> {u \in S : WaitsFor(s, u)}]
         Closed(C) == \A s \in C : waits[s] \cap C # {}
     IN  \E C \in SUBSET S : /\ r \in C /\ Closed(C)
                             /\ \A s \in C : C = {s} \/ ~Closed(C \ {s})

\* Connections in use: one for each open transaction and each extra one.
Begun == {r \in Requests : at[r] > 0}
InUse == Cardinality(Begun) + Cardinality({r \in Requests : extra[r]})

\* r cannot have what it asks for: somebody has locked the row, or no connection
\* is free.  The contexts of the requests have no deadline that would end this.
Blocked(r) ==
  /\ Asking(r) /\ ~extra[r]
  /\ IF Want(r) = Connection THEN InUse = pool ELSE \E s \in Requests : WaitsFor(r, s)
-----------------------------------------------------------------------------
\* BeginTx takes a connection from the pool, or waits for one.
Begin(r) ==
  /\ task[r] # "done" /\ at[r] = 0
  /\ InUse < pool
  /\ at' = [at EXCEPT ![r] = 1]
  /\ UNCHANGED <<pool, task, extra, tries>>

\* A statement gets its row lock.
Lock(r) ==
  /\ Asking(r) /\ Want(r) # Connection /\ ~Blocked(r)
  /\ at' = [at EXCEPT ![r] = @ + 1]
  /\ UNCHANGED <<pool, task, extra, tries>>

\* A query outside of the transaction gets a connection.
Borrow(r) ==
  /\ Asking(r) /\ Want(r) = Connection /\ ~extra[r] /\ ~Blocked(r)
  /\ extra' = [extra EXCEPT ![r] = TRUE]
  /\ UNCHANGED <<pool, task, at, tries>>

\* The query is answered.  What it says can make a second one unnecessary.
GiveBack(r) ==
  /\ extra[r]
  /\ extra' = [extra EXCEPT ![r] = FALSE]
  /\ \E n \in {1, Len(Needs(r, task[r])) + 1 - at[r]} : at' = [at EXCEPT ![r] = @ + n]
  /\ UNCHANGED <<pool, task, tries>>

\* Broken variant of EndTx: a transaction that fails keeps its connection.
EndTxLeaks(r, next) ==
  /\ task' = [task EXCEPT ![r] = next]
  /\ at' = [at EXCEPT ![r] = 0]
  /\ pool' = IF next = AfterCommit(task[r]) THEN pool ELSE pool - 1
  /\ UNCHANGED extra

\* The end of WithTx: all locks and the connection are free again.
EndTx(r, next) ==
  /\ task' = [task EXCEPT ![r] = next]
  /\ at' = [at EXCEPT ![r] = 0]
  /\ UNCHANGED <<pool, extra>>

Commit(r) ==
  /\ at[r] > 0 /\ at[r] = Len(Needs(r, task[r])) + 1
  /\ EndTx(r, AfterCommit(task[r]))
  /\ tries' = [tries EXCEPT ![r] = 0]

\* Broken variant of Rollback: a failed compensation is attempted for ever.
RollbackForever(r) ==
  EndTx(r, IF task[r] \in Undos THEN task[r] ELSE AfterFailure(task[r])) /\ UNCHANGED tries

\* The transaction is rolled back.  A step of the saga leads to compensations,
\* a compensation is attempted again, and given up after its last attempt.
Rollback(r) ==
  IF task[r] \in Undos /\ tries[r] + 1 < UndoAttempts
  THEN EndTx(r, task[r]) /\ tries' = [tries EXCEPT ![r] = @ + 1]
  ELSE EndTx(r, AfterFailure(task[r])) /\ tries' = [tries EXCEPT ![r] = 0]

\* A check of the transaction fails, or a statement of it does.
Fail(r) == at[r] > 0 /\ ~extra[r] /\ ~Blocked(r) /\ Rollback(r)

\* PostgreSQL finds a cycle of row locks and makes a request in it fail.
AbortVictim(r) == InCycle(r, Requests) /\ Rollback(r)

Step(r) == Begin(r) \/ Lock(r) \/ Borrow(r) \/ GiveBack(r) \/ Commit(r)

Next == \E r \in Requests : Step(r) \/ Fail(r) \/ AbortVictim(r)

Spec == LockInit /\ [][Next]_lockVars

\* A request goes on when it can, and PostgreSQL breaks a cycle that lasts.
FairSpec == Spec /\ \A r \in Requests : WF_lockVars(Step(r)) /\ WF_lockVars(AbortVictim(r))
-----------------------------------------------------------------------------
\* The accounts are locked "in alphabetical order to avoid deadlocks", and every
\* transaction that locks a token and accounts locks the token first, except
\* RESERVE: without the requests whose RESERVE has the accounts and waits for the
\* token, nobody waits in a cycle.
OnlyReserveInvertsTheOrder ==
  LET S == {r \in Requests : ~(task[r] = "RESERVE" /\ Asking(r) /\ Want(r).row \in Tokens)}
  IN  \A r \in S : ~InCycle(r, S)

\* Nothing moves any more, and no cycle of row locks is left for PostgreSQL to
\* break.
Hung ==
  /\ \E r \in Requests : task[r] # "done"
  /\ \A r \in Requests : task[r] # "done" => IF at[r] = 0 THEN InUse = pool ELSE Blocked(r)
  /\ \A r \in Requests : ~InCycle(r, Requests)

\* The server hangs only when open transactions have taken the whole pool and one
\* of them waits for a second connection, which none of the others can return.
\* PostgreSQL sees no cycle, so nothing ends this.
HangTakesWholePool ==
  Hung => /\ Cardinality(Begun) = pool
          /\ \E r \in Begun : Want(r) = Connection

\* With one connection more than there are requests, every request ends, by
\* success, by its compensations or by giving them up, though several wait for
\* each other's rows and borrow connections while they hold some.
RequestsEnd ==
  pool > Cardinality(Requests) ~> \A r \in Requests : task[r] = "done"

\* "Lock accounts in alphabetical order to avoid deadlocks" (RESERVE of the
\* settlement service): no transactions wait for each other in a cycle.
NoDeadlock == \A r \in Requests : ~InCycle(r, Requests)
=============================================================================
