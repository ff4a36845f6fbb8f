---------------------------- MODULE LockingProofs ----------------------------
(***************************************************************************)
(* Row locks and connections, for any number of requests, accounts and     *)
(* tokens and every size of the pool: which waits can close a cycle, and   *)
(* what a server that hangs without one is waiting for.                    *)
(***************************************************************************)
EXTENDS Locking, SequenceTheorems, FiniteSetTheorems, WellFoundedInduction, TLAPS

\* No two transactions hold locks on a row that exclude each other.
LocksExclude ==
  \A r, s \in Requests :
    r # s => \A h \in Held(r), k \in Held(s) : h.row = k.row => ~Conflict(h.mode, k.mode)

\* A transaction has a place in its needs, and a second connection only when it
\* is at a query that takes one.
LockInv ==
  /\ pool \in PoolSizes
  /\ task \in [Requests -> Transactions \cup {"done"}]
  /\ at \in [Requests -> Nat]
  /\ extra \in [Requests -> BOOLEAN]
  /\ tries \in [Requests -> Nat]
  /\ \A r \in Requests :
       /\ task[r] = "done" => at[r] = 0
       /\ task[r] # "done" => at[r] <= Len(Needs(r, task[r])) + 1
       /\ extra[r] => Asking(r) /\ Want(r) = Connection

Low(r) == IF Work[r].sender <= Work[r].receiver THEN Work[r].sender ELSE Work[r].receiver
High(r) == IF Work[r].sender <= Work[r].receiver THEN Work[r].receiver ELSE Work[r].sender

\* Tuples that are joined.
LEMMA Joined ==
  ASSUME NEW S, NEW s \in Seq(S), NEW t \in Seq(S), NEW u \in Seq(S), Len(u) = Len(s) + Len(t),
         \A i \in 1 .. Len(s) : u[i] = s[i], \A i \in 1 .. Len(t) : u[Len(s) + i] = t[i]
  PROVE  s \o t = u
<1>1. s \o t \in Seq(S) /\ Len(s \o t) = Len(s) + Len(t)
  BY ConcatProperties, Zenon
<1>2. ASSUME NEW i \in 1 .. Len(u) PROVE (s \o t)[i] = u[i]
  <2>1. (s \o t)[i] = IF i <= Len(s) THEN s[i] ELSE t[i - Len(s)]
    BY ConcatProperties, Zenon
  <2>2. CASE i <= Len(s)
    BY <2>1, <2>2
  <2>3. CASE ~(i <= Len(s))
    <3> DEFINE k == i - Len(s)
    <3>1. k \in 1 .. Len(t) /\ i = Len(s) + k
      BY <2>3
    <3> HIDE DEF k
    <3>2. u[i] = t[k]
      BY <3>1, Zenon
    <3> QED BY <2>1, <2>3, <3>2, Zenon DEF k
  <2> QED BY <2>2, <2>3, Zenon
<1> QED BY <1>1, <1>2, SeqEqual, Zenon

LEMMA Tuples ==
  ASSUME NEW a, NEW b, NEW c
  PROVE  <<a>> \o <<b>> = <<a, b>> /\ <<a>> \o <<b, c>> = <<a, b, c>> /\ <<a, b>> \o <<c>> = <<a, b, c>>
<1> DEFINE S == {a, b, c}
           l == <<a>>
           m == <<b>>
           n == <<c>>
           ab == <<a, b>>
           bc == <<b, c>>
           abc == <<a, b, c>>
<1>1. /\ l \in Seq(S) /\ m \in Seq(S) /\ n \in Seq(S) /\ ab \in Seq(S) /\ bc \in Seq(S) /\ abc \in Seq(S)
      /\ Len(l) = 1 /\ Len(m) = 1 /\ Len(n) = 1 /\ Len(ab) = 2 /\ Len(bc) = 2 /\ Len(abc) = 3
  OBVIOUS
<1>2. /\ l[1] = a /\ m[1] = b /\ n[1] = c /\ ab[1] = a /\ ab[2] = b /\ bc[1] = b /\ bc[2] = c
      /\ abc[1] = a /\ abc[2] = b /\ abc[3] = c
  BY Zenon
<1> HIDE DEF S, l, m, n, ab, bc, abc
<1>3. l \o m = ab
  <2>1. /\ Len(ab) = Len(l) + Len(m) /\ \A i \in 1 .. Len(l) : ab[i] = l[i]
        /\ \A i \in 1 .. Len(m) : ab[Len(l) + i] = m[i]
    BY <1>1, <1>2
  <2> QED BY <1>1, <2>1, Joined, Zenon
<1>4. l \o bc = abc
  <2>1. /\ Len(abc) = Len(l) + Len(bc) /\ \A i \in 1 .. Len(l) : abc[i] = l[i]
        /\ \A i \in 1 .. Len(bc) : abc[Len(l) + i] = bc[i]
    BY <1>1, <1>2
  <2> QED BY <1>1, <2>1, Joined, Zenon
<1>5. ab \o n = abc
  <2>1. /\ Len(abc) = Len(ab) + Len(n) /\ \A i \in 1 .. Len(ab) : abc[i] = ab[i]
        /\ \A i \in 1 .. Len(n) : abc[Len(ab) + i] = n[i]
    BY <1>1, <1>2
  <2> QED BY <1>1, <2>1, Joined, Zenon
<1> QED BY <1>3, <1>4, <1>5, Zenon DEF l, m, n, ab, bc, abc

\* The needs of each transaction, one by one.
LEMMA NeedsAre ==
  ASSUME NEW r \in Requests
  PROVE  /\ Needs(r, "RESERVE") = <<Row(Low(r), "update"), Row(High(r), "update"),
                                    Row(Work[r].token, "key_share")>>
         /\ Needs(r, "CONSUME_TOKEN") = <<Row(Work[r].token, "update")>>
         /\ Needs(r, "LEDGER_COMMIT") = <<Row(Work[r].token, "update"), Row(Low(r), "update"),
                                          Row(High(r), "update")>>
         /\ Needs(r, "PUBLISH") = <<Connection>>
         /\ Needs(r, "UNDO_LEDGER") = <<Row(Low(r), "update"), Row(High(r), "update")>>
         /\ Needs(r, "UNDO_CONSUME") = <<Row(Work[r].token, "update")>>
         /\ Needs(r, "UNDO_RESERVE") = <<>>
         /\ Needs(r, "ISSUE") = <<Row(Work[r].sender, "update"), Connection, Connection>>
         /\ Needs(r, "RELEASE") = <<Row(Work[r].token, "update"), Row(Work[r].sender, "update")>>
<1> DEFINE acc == SortedAccounts(r)
           tok(mode) == TokenRow(r, mode)
<1>2. acc = <<Row(Low(r), "update"), Row(High(r), "update")>>
  BY Zenon DEF SortedAccounts, Low, High
<1>3. Needs(r, "RESERVE") = acc \o tok("key_share")
  BY Zenon DEF Needs, Transactions, Undos
<1>4. Needs(r, "LEDGER_COMMIT") = tok("update") \o acc
  BY Zenon DEF Needs, Transactions, Undos
<1>5. Needs(r, "ISSUE") = OwnerRow(r) \o <<Connection, Connection>>
  BY Zenon DEF Needs, Transactions, Undos
<1>6. Needs(r, "RELEASE") = tok("update") \o OwnerRow(r)
  BY Zenon DEF Needs, Transactions, Undos
<1>7. /\ Needs(r, "CONSUME_TOKEN") = tok("update") /\ Needs(r, "PUBLISH") = <<Connection>>
      /\ Needs(r, "UNDO_LEDGER") = acc /\ Needs(r, "UNDO_CONSUME") = tok("update")
      /\ Needs(r, "UNDO_RESERVE") = <<>>
  BY Zenon DEF Needs, Transactions, Undos
<1> HIDE DEF acc
<1>8. Needs(r, "RESERVE") = <<Row(Low(r), "update"), Row(High(r), "update"),
                              Row(Work[r].token, "key_share")>>
  BY <1>2, <1>3, Tuples, Zenon DEF TokenRow
<1>9. Needs(r, "LEDGER_COMMIT") = <<Row(Work[r].token, "update"), Row(Low(r), "update"),
                                    Row(High(r), "update")>>
  BY <1>2, <1>4, Tuples, Zenon DEF TokenRow
<1>10. Needs(r, "ISSUE") = <<Row(Work[r].sender, "update"), Connection, Connection>>
  BY <1>5, Tuples, Zenon DEF OwnerRow
<1>11. Needs(r, "RELEASE") = <<Row(Work[r].token, "update"), Row(Work[r].sender, "update")>>
  BY <1>6, Tuples, Zenon DEF TokenRow, OwnerRow
<1> QED BY <1>2, <1>7, <1>8, <1>9, <1>10, <1>11, Zenon DEF TokenRow

LEMMA NeedsAreFinite ==
  ASSUME NEW r \in Requests, NEW tx \in Transactions
  PROVE  Len(Needs(r, tx)) \in Nat /\ DOMAIN Needs(r, tx) = 1 .. Len(Needs(r, tx))
<1>1. \A a : Len(<<a>>) = 1 /\ DOMAIN <<a>> = 1 .. 1
  OBVIOUS
<1>2. \A a, b : Len(<<a, b>>) = 2 /\ DOMAIN <<a, b>> = 1 .. 2
  OBVIOUS
<1>3. \A a, b, c : Len(<<a, b, c>>) = 3 /\ DOMAIN <<a, b, c>> = 1 .. 3
  OBVIOUS
<1>4. Len(<<>>) = 0 /\ DOMAIN <<>> = 1 .. 0
  OBVIOUS
<1> QED BY <1>1, <1>2, <1>3, <1>4, NeedsAre DEF Transactions, Undos

LEMMA LockInvInit == ASSUME LockInit PROVE LockInv /\ LocksExclude
<1>1. \A r \in Requests : First(r) \in Transactions /\ First(r) # "done"
  BY LockingAssumption, Zenon DEF First, Transactions, Kinds
<1>2. \A r \in Requests : Len(Needs(r, First(r))) \in Nat
  BY <1>1, NeedsAreFinite, Zenon
<1>3. LockInv
  BY <1>1, <1>2 DEF LockInit, LockInv
<1> QED BY <1>3, Zenon DEF LockInit, LocksExclude, Held

\* The place of a request in its transaction.
LEMMA PlaceOf ==
  ASSUME LockInv, NEW r \in Requests, task[r] # "done"
  PROVE  /\ task[r] \in Transactions /\ at[r] \in Nat
         /\ Len(Needs(r, task[r])) \in Nat
         /\ Asking(r) <=> at[r] > 0 /\ at[r] <= Len(Needs(r, task[r]))
<1>1. task[r] \in Transactions /\ at[r] \in Nat
  BY Zenon DEF LockInv
<1> QED BY <1>1, NeedsAreFinite DEF Asking

\* A request that waits for a row has no second connection.
LEMMA WaitingHasNoExtra ==
  ASSUME LockInv, NEW r \in Requests, NEW s \in Requests, WaitsFor(r, s)
  PROVE  ~extra[r] /\ at[r] > 0 /\ at[s] > 0
<1>1. ~extra[r] /\ task[r] # "done"
  BY Zenon DEF LockInv, WaitsFor, Asking
<1>2. at[r] > 0
  BY <1>1, PlaceOf, Zenon DEF WaitsFor
<1>3. at[s] # 0 /\ at[s] \in Nat
  BY Zenon DEF WaitsFor, Held, LockInv
<1> QED BY <1>1, <1>2, <1>3

\* A step of one request: it goes on in its transaction, or ends it.
LEMMA LockStepKinds ==
  ASSUME LockInv, Next
  PROVE  \E r \in Requests :
           /\ UNCHANGED pool
           /\ \/ Begin(r) \/ Lock(r) \/ Borrow(r) \/ GiveBack(r)
              \/ /\ at[r] > 0 /\ ~extra[r] /\ tries' \in [Requests -> Nat]
                 /\ \E next \in Transactions \cup {"done"} : EndTx(r, next)
<1>1. PICK r \in Requests : Step(r) \/ Fail(r) \/ AbortVictim(r)
  BY Zenon DEF Next
<1>2. \A tx : AfterCommit(tx) \in Transactions \cup {"done"} /\ AfterFailure(tx) \in Transactions \cup {"done"}
  BY Zenon DEF AfterCommit, AfterFailure, Transactions, Undos
<1>3. task[r] \in Transactions \cup {"done"}
  BY Zenon DEF LockInv
<1>4. CASE Begin(r) \/ Lock(r) \/ Borrow(r) \/ GiveBack(r)
  BY <1>4, Zenon DEF Begin, Lock, Borrow, GiveBack
<1>5. Rollback(r) => /\ UNCHANGED pool /\ tries' \in [Requests -> Nat]
                     /\ \E next \in Transactions \cup {"done"} : EndTx(r, next)
  BY <1>2, <1>3, SMTT(30) DEF Rollback, EndTx, LockInv
<1>6. CASE Commit(r)
  <2>1. at[r] > 0 /\ task[r] # "done"
    BY <1>6 DEF Commit, LockInv
  <2>2. ~Asking(r)
    BY <1>6, <2>1, PlaceOf DEF Commit
  <2>3. ~extra[r]
    BY <2>2, Zenon DEF LockInv
  <2>4. tries' \in [Requests -> Nat]
    BY <1>6, Zenon DEF Commit, LockInv
  <2> QED BY <1>2, <1>6, <2>1, <2>3, <2>4, Zenon DEF Commit, EndTx
<1>7. CASE Fail(r)
  BY <1>5, <1>7, Zenon DEF Fail
<1>8. CASE AbortVictim(r)
  <2>1. \E s \in Requests : WaitsFor(r, s)
    BY <1>8, Zenon DEF AbortVictim, InCycle
  <2>2. at[r] > 0 /\ ~extra[r]
    BY <2>1, WaitingHasNoExtra, Zenon
  <2> QED BY <1>5, <1>8, <2>2, Zenon DEF AbortVictim
<1> QED BY <1>1, <1>4, <1>6, <1>7, <1>8, Zenon DEF Step

\* What a transaction needs: rows, and second connections at the end.
LEMMA NeedsKinds ==
  ASSUME NEW r \in Requests, NEW tx \in Transactions, NEW i \in 1 .. Len(Needs(r, tx))
  PROVE  LET k == Needs(r, tx)[i] IN
         /\ k = Connection \/ (k # Connection /\ k.row \in Accounts \cup Tokens)
         /\ k = Connection => \A j \in i .. Len(Needs(r, tx)) : Needs(r, tx)[j] = Connection
<1>1. \A a \in Accounts \cup Tokens : \A m \in {"update", "key_share"} :
        Row(a, m) # Connection /\ Row(a, m).row = a
  BY Zenon DEF Row, Connection
<1>2. Low(r) \in Accounts /\ High(r) \in Accounts /\ Work[r].sender \in Accounts /\ Work[r].token \in Tokens
  BY LockingAssumption, Zenon DEF Low, High
<1>3. CASE tx = "RESERVE"
  <2> DEFINE n == Needs(r, tx)
  <2>1. Len(n) = 3 /\ n[1] = Row(Low(r), "update") /\ n[2] = Row(High(r), "update") /\ n[3] = Row(Work[r].token, "key_share")
    BY <1>3, NeedsAre
  <2>2. /\ n[1] # Connection /\ n[1].row \in Accounts \cup Tokens
        /\ n[2] # Connection /\ n[2].row \in Accounts \cup Tokens
        /\ n[3] # Connection /\ n[3].row \in Accounts \cup Tokens
    BY <1>1, <1>2, <2>1, Zenon
  <2> HIDE DEF n
  <2>3. i \in 1 .. 3
    BY <2>1, Zenon DEF n
  <2> QED BY <2>1, <2>2, <2>3 DEF n
<1>4. CASE tx = "LEDGER_COMMIT"
  <2> DEFINE n == Needs(r, tx)
  <2>1. Len(n) = 3 /\ n[1] = Row(Work[r].token, "update") /\ n[2] = Row(Low(r), "update") /\ n[3] = Row(High(r), "update")
    BY <1>4, NeedsAre
  <2>2. /\ n[1] # Connection /\ n[1].row \in Accounts \cup Tokens
        /\ n[2] # Connection /\ n[2].row \in Accounts \cup Tokens
        /\ n[3] # Connection /\ n[3].row \in Accounts \cup Tokens
    BY <1>1, <1>2, <2>1, Zenon
  <2> HIDE DEF n
  <2>3. i \in 1 .. 3
    BY <2>1, Zenon DEF n
  <2> QED BY <2>1, <2>2, <2>3 DEF n
<1>5. CASE tx = "ISSUE"
  <2> DEFINE n == Needs(r, tx)
  <2>1. Len(n) = 3 /\ n[1] = Row(Work[r].sender, "update") /\ n[2] = Connection /\ n[3] = Connection
    BY <1>5, NeedsAre
  <2>2. n[1] # Connection /\ n[1].row \in Accounts \cup Tokens
    BY <1>1, <1>2, <2>1, Zenon
  <2> HIDE DEF n
  <2>3. i \in 1 .. 3
    BY <2>1, Zenon DEF n
  <2>4. n[i] = Connection => \A j \in i .. 3 : n[j] = Connection
    BY <2>1, <2>2, <2>3
  <2> QED BY <2>1, <2>2, <2>3, <2>4 DEF n
<1>6. CASE tx \in {"CONSUME_TOKEN", "UNDO_CONSUME"}
  BY <1>1, <1>2, <1>6, NeedsAre
<1>7. CASE tx = "UNDO_LEDGER"
  <2> DEFINE n == Needs(r, tx)
  <2>1. Len(n) = 2 /\ n[1] = Row(Low(r), "update") /\ n[2] = Row(High(r), "update")
    BY <1>7, NeedsAre
  <2>2. /\ n[1] # Connection /\ n[1].row \in Accounts \cup Tokens
        /\ n[2] # Connection /\ n[2].row \in Accounts \cup Tokens
    BY <1>1, <1>2, <2>1
  <2> HIDE DEF n
  <2>3. i \in 1 .. 2
    BY <2>1, Zenon DEF n
  <2> QED BY <2>1, <2>2, <2>3 DEF n
<1>9. CASE tx = "RELEASE"
  <2> DEFINE n == Needs(r, tx)
  <2>1. Len(n) = 2 /\ n[1] = Row(Work[r].token, "update") /\ n[2] = Row(Work[r].sender, "update")
    BY <1>9, NeedsAre
  <2>2. /\ n[1] # Connection /\ n[1].row \in Accounts \cup Tokens
        /\ n[2] # Connection /\ n[2].row \in Accounts \cup Tokens
    BY <1>1, <1>2, <2>1, Zenon
  <2> HIDE DEF n
  <2>3. i \in 1 .. 2
    BY <2>1, Zenon DEF n
  <2> QED BY <2>1, <2>2, <2>3 DEF n
<1>8. CASE tx \in {"PUBLISH", "UNDO_RESERVE"}
  BY <1>8, NeedsAre
<1> QED BY <1>3, <1>4, <1>5, <1>6, <1>7, <1>8, <1>9, Zenon DEF Transactions, Undos

\* A second connection is nobody's row.
LEMMA ConnectionIsNoRow == Connection.row \notin Accounts \cup Tokens
BY LockingAssumption, Zenon DEF Connection

\* What a request does not touch.
LEMMA OthersUntouched ==
  ASSUME NEW s \in Requests, task'[s] = task[s], at'[s] = at[s]
  PROVE  Held(s)' = Held(s) /\ (Asking(s)' <=> Asking(s)) /\ Want(s)' = Want(s)
BY Zenon DEF Held, Asking, Want, Needs, SortedAccounts, TokenRow, OwnerRow, Row, Connection

LEMMA LockInvStep ==
  ASSUME LockInv, Next
  PROVE  LockInv'
<1>1. PICK r \in Requests :
        /\ UNCHANGED pool
        /\ \/ Begin(r) \/ Lock(r) \/ Borrow(r) \/ GiveBack(r)
           \/ /\ at[r] > 0 /\ ~extra[r] /\ tries' \in [Requests -> Nat]
              /\ \E next \in Transactions \cup {"done"} : EndTx(r, next)
  BY LockStepKinds, Zenon
<1> DEFINE Place(u) == /\ task'[u] = "done" => at'[u] = 0
                       /\ task'[u] # "done" => at'[u] <= Len(Needs(u, task'[u])) + 1
                       /\ extra'[u] => Asking(u)' /\ Want(u)' = Connection
           Types == /\ task' \in [Requests -> Transactions \cup {"done"}]
                    /\ at' \in [Requests -> Nat]
                    /\ extra' \in [Requests -> BOOLEAN]
                    /\ tries' \in [Requests -> Nat]
                    /\ \A u \in Requests \ {r} :
                         task'[u] = task[u] /\ at'[u] = at[u] /\ extra'[u] = extra[u]
<1>2. SUFFICES Types /\ Place(r)
  <2>1. ASSUME Types, NEW u \in Requests \ {r} PROVE Place(u)
    BY <2>1, OthersUntouched, Zenon DEF LockInv
  <2> QED BY <1>1, <2>1, ZenonT(30) DEF LockInv, Needs, SortedAccounts, TokenRow, OwnerRow,
             Row, Connection
<1>3. CASE Begin(r)
  <2>1. task[r] # "done" /\ at[r] = 0
    BY <1>3, Zenon DEF Begin
  <2>2. Len(Needs(r, task[r])) \in Nat /\ ~Asking(r)
    BY <2>1, PlaceOf
  <2>3. ~extra[r]
    BY <2>2, Zenon DEF LockInv
  <2>4. Types /\ at'[r] = 1 /\ task'[r] = task[r] /\ ~extra'[r]
    BY <1>3, <2>3, Zenon DEF Begin, LockInv
  <2> QED BY <2>1, <2>2, <2>4
<1>4. CASE Lock(r)
  <2>1. task[r] # "done" /\ Asking(r) /\ ~extra[r]
    BY <1>4, Zenon DEF Lock, Asking, LockInv
  <2>2. at[r] \in Nat /\ Len(Needs(r, task[r])) \in Nat /\ at[r] <= Len(Needs(r, task[r]))
    BY <2>1, PlaceOf, Zenon
  <2>3. Types /\ at'[r] = at[r] + 1 /\ task'[r] = task[r] /\ ~extra'[r]
    BY <1>4, <2>1 DEF Lock, LockInv
  <2> QED BY <2>1, <2>2, <2>3
<1>5. CASE Borrow(r)
  <2>1. task[r] # "done" /\ Asking(r) /\ Want(r) = Connection
    BY <1>5, Zenon DEF Borrow, Asking
  <2>2. Types /\ at'[r] = at[r] /\ task'[r] = task[r]
    BY <1>5, Zenon DEF Borrow, LockInv
  <2>3. Asking(r)' /\ Want(r)' = Connection
    BY <2>1, <2>2, OthersUntouched, Zenon
  <2> QED BY <2>1, <2>2, <2>3, Zenon DEF LockInv
<1>6. CASE GiveBack(r)
  <2>1. Asking(r) /\ task[r] # "done"
    BY <1>6, Zenon DEF GiveBack, LockInv, Asking
  <2>2. at[r] \in Nat /\ Len(Needs(r, task[r])) \in Nat /\ at[r] <= Len(Needs(r, task[r])) /\ at[r] > 0
    BY <2>1, PlaceOf, Zenon
  <2>3. PICK n \in {1, Len(Needs(r, task[r])) + 1 - at[r]} : at' = [at EXCEPT ![r] = @ + n]
    BY <1>6, Zenon DEF GiveBack
  <2>4. n \in Nat /\ at[r] + n <= Len(Needs(r, task[r])) + 1
    BY <2>2
  <2>5. Types /\ at'[r] = at[r] + n /\ task'[r] = task[r] /\ ~extra'[r]
    BY <1>6, <2>3, <2>4 DEF GiveBack, LockInv
  <2> QED BY <2>1, <2>4, <2>5, Zenon
<1>7. ASSUME NEW next \in Transactions \cup {"done"}, EndTx(r, next), ~extra[r],
             tries' \in [Requests -> Nat]
      PROVE  Types /\ Place(r)
  <2>1. Types /\ at'[r] = 0 /\ task'[r] = next /\ ~extra'[r]
    BY <1>7, Zenon DEF EndTx, LockInv
  <2>2. next # "done" => Len(Needs(r, next)) \in Nat
    BY <1>7, NeedsAreFinite, Zenon
  <2> QED BY <2>1, <2>2
<1> QED BY <1>1, <1>3, <1>4, <1>5, <1>6, <1>7, Zenon

LEMMA HeldKinds ==
  ASSUME LockInv, NEW s \in Requests, NEW k \in Held(s)
  PROVE  k = Connection \/ (k # Connection /\ k.row \in Accounts \cup Tokens)
<1>1. at[s] # 0 /\ task[s] # "done"
  BY Zenon DEF Held, LockInv
<1>2. PICK i \in 1 .. at[s] - 1 : k = Needs(s, task[s])[i]
  BY <1>1, Zenon DEF Held
<1>3. task[s] \in Transactions /\ at[s] \in Nat /\ at[s] <= Len(Needs(s, task[s])) + 1
      /\ Len(Needs(s, task[s])) \in Nat
  BY <1>1, PlaceOf, Zenon DEF LockInv
<1>4. i \in 1 .. Len(Needs(s, task[s]))
  BY <1>2, <1>3
<1> QED BY <1>2, <1>3, <1>4, NeedsKinds, Zenon

\* A request that gets a lock gets one that no other lock excludes; a second
\* connection is never in the way of a row.
LEMMA ExcludeStep ==
  ASSUME LockInv, LockInv', LocksExclude, Next
  PROVE  LocksExclude'
<1>1. PICK r \in Requests :
        /\ UNCHANGED pool
        /\ \/ Begin(r) \/ Lock(r) \/ Borrow(r) \/ GiveBack(r)
           \/ /\ at[r] > 0 /\ ~extra[r] /\ tries' \in [Requests -> Nat]
              /\ \E next \in Transactions \cup {"done"} : EndTx(r, next)
  BY LockStepKinds, Zenon
<1>2. \A u \in Requests \ {r} : task'[u] = task[u] /\ at'[u] = at[u]
  BY <1>1, Zenon DEF Begin, Lock, Borrow, GiveBack, EndTx, LockInv
<1>3. \A u \in Requests \ {r} : Held(u)' = Held(u)
  BY <1>2, OthersUntouched, Zenon
\* It is enough to look at what r has acquired in the step.
<1>4. SUFFICES ASSUME NEW h \in Held(r)', h \notin Held(r), NEW s \in Requests \ {r}, NEW k \in Held(s),
                      h.row = k.row
               PROVE  "update" \notin {h.mode, k.mode}
  <2>1. ASSUME NEW h \in Held(r)', NEW s \in Requests \ {r}, NEW k \in Held(s), h.row = k.row
        PROVE  "update" \notin {h.mode, k.mode}
    BY <1>4, <2>1, Zenon DEF LocksExclude, Conflict
  <2>2. ASSUME NEW u \in Requests, NEW s \in Requests, u # s, NEW h \in Held(u)', NEW k \in Held(s)',
               h.row = k.row
        PROVE  "update" \notin {h.mode, k.mode}
    <3>1. CASE u = r
      BY <1>3, <2>1, <2>2, <3>1, Zenon
    <3>2. CASE s = r
      <4>1. "update" \notin {k.mode, h.mode}
        BY <1>3, <2>1, <2>2, <3>2, Zenon
      <4> QED BY <4>1, Zenon
    <3>3. CASE u # r /\ s # r
      BY <1>3, <2>2, <3>3, Zenon DEF LocksExclude, Conflict
    <3> QED BY <3>1, <3>2, <3>3, Zenon
  <2> QED BY <2>2, Zenon DEF LocksExclude, Conflict
<1>5. at'[r] # 0 /\ \E i \in 1 .. at'[r] - 1 : h = Needs(r, task'[r])[i]
  BY <1>4, Zenon DEF Held, Needs, SortedAccounts, TokenRow, OwnerRow, Row, Connection
<1>6. ASSUME task'[r] = task[r], at[r] > 0
      PROVE  \E i \in at[r] .. at'[r] - 1 : h = Needs(r, task[r])[i]
  <2>1. PICK i \in 1 .. at'[r] - 1 : h = Needs(r, task[r])[i]
    BY <1>5, <1>6, Zenon
  <2>2. i \notin 1 .. at[r] - 1
    BY <1>4, <1>6, <2>1 DEF Held
  <2>3. at[r] \in Nat /\ at'[r] \in Nat
    BY Zenon DEF LockInv
  <2> QED BY <2>1, <2>2, <2>3
<1>7. CASE Begin(r)
  <2>1. at'[r] = 1
    BY <1>7, Zenon DEF Begin, LockInv
  <2> QED BY <1>5, <2>1
<1>8. CASE Lock(r)
  <2>1. task'[r] = task[r] /\ at'[r] = at[r] + 1 /\ Asking(r) /\ task[r] # "done" /\ ~extra[r]
    BY <1>8, Zenon DEF Lock, LockInv, Asking
  <2>2. at[r] > 0 /\ at[r] \in Nat
    BY <2>1, PlaceOf, Zenon
  <2>3. h = Want(r)
    BY <1>6, <2>1, <2>2 DEF Want
  <2>4. ~WaitsFor(r, s)
    BY <1>8, <2>1, Zenon DEF Lock, Blocked
  <2> QED BY <1>4, <1>8, <2>1, <2>3, <2>4, Zenon DEF WaitsFor, Lock, Conflict
<1>9. CASE Borrow(r)
  <2>1. task'[r] = task[r] /\ at'[r] = at[r]
    BY <1>9, Zenon DEF Borrow
  <2> QED BY <1>4, <2>1, OthersUntouched, Zenon
<1>10. CASE GiveBack(r)
  <2>1. Asking(r) /\ task[r] # "done" /\ Want(r) = Connection /\ task'[r] = task[r]
    BY <1>10, Zenon DEF GiveBack, LockInv, Asking
  <2>2. /\ at[r] \in Nat /\ Len(Needs(r, task[r])) \in Nat /\ task[r] \in Transactions
        /\ at[r] <= Len(Needs(r, task[r])) /\ at[r] > 0
    BY <2>1, PlaceOf, Zenon
  <2>3. at'[r] \in Nat /\ at'[r] <= Len(Needs(r, task[r])) + 1
    BY <2>1, <2>2, Zenon DEF LockInv, Needs, SortedAccounts, TokenRow, OwnerRow, Row,
       Connection
  <2>4. PICK i \in at[r] .. at'[r] - 1 : h = Needs(r, task[r])[i]
    BY <1>6, <2>1, <2>2, Zenon
  <2>5. at[r] \in 1 .. Len(Needs(r, task[r])) /\ i \in at[r] .. Len(Needs(r, task[r]))
    BY <2>2, <2>3
  <2>6. h = Connection
    BY <2>1, <2>2, <2>4, <2>5, NeedsKinds, Zenon DEF Want
  <2>7. k = Connection \/ k.row \in Accounts \cup Tokens
    BY HeldKinds, Zenon
  <2>8. k = Connection
    BY <1>4, <2>6, <2>7, ConnectionIsNoRow, Zenon
  <2> QED BY <2>6, <2>8, Zenon DEF Connection
<1>11. CASE \E next : EndTx(r, next)
  <2>1. at'[r] = 0
    BY <1>11, Zenon DEF EndTx, LockInv
  <2> QED BY <1>5, <2>1, Zenon
<1> QED BY <1>1, <1>7, <1>8, <1>9, <1>10, <1>11, Zenon

LEMMA LockingCorrect == Spec => [](LockInv /\ LocksExclude)
<1>1. LockInit => LockInv /\ LocksExclude
  BY LockInvInit, Zenon
<1>2. LockInv /\ LocksExclude /\ [Next]_lockVars => (LockInv /\ LocksExclude)'
  <2>1. SUFFICES ASSUME LockInv, LocksExclude, [Next]_lockVars PROVE LockInv' /\ LocksExclude'
    BY Zenon
  <2>2. CASE Next
    BY <2>1, <2>2, LockInvStep, ExcludeStep, Zenon
  <2>3. CASE UNCHANGED lockVars
    <3>1. UNCHANGED <<pool, task, at, extra, tries>>
      BY <2>3, Zenon DEF lockVars
    <3>2. \A s \in Requests : Held(s)' = Held(s) /\ (Asking(s)' <=> Asking(s)) /\ Want(s)' = Want(s)
      BY <3>1, OthersUntouched, Zenon
    <3>3. LocksExclude'
      BY <2>1, <3>2 DEF LocksExclude, Conflict
    <3>4. LockInv'
      BY <2>1, <3>1, <3>2, Zenon DEF LockInv, Needs, SortedAccounts, TokenRow, OwnerRow,
         Row, Connection
    <3> QED BY <3>3, <3>4, Zenon
  <2> QED BY <2>1, <2>2, <2>3, Zenon
<1> QED BY <1>1, <1>2, PTL DEF Spec
-----------------------------------------------------------------------------
\* Each of C waits for another one of C.
Closed(C) == \A s \in C : \E u \in C : WaitsFor(s, u)

LEMMA CycleIs ==
  ASSUME NEW S, NEW r \in S
  PROVE  InCycle(r, S) <=>
           /\ \E u \in S : WaitsFor(r, u)
           /\ \E C \in SUBSET S : /\ r \in C /\ Closed(C)
                                  /\ \A s \in C : C = {s} \/ ~Closed(C \ {s})
<1> DEFINE waits == [s \in S |-> {u \in S : WaitsFor(s, u)}]
           Cl(C) == \A s \in C : waits[s] \cap C # {}
<1>1. ASSUME NEW C \in SUBSET S PROVE Cl(C) <=> Closed(C)
  BY Zenon DEF Closed
<1>2. InCycle(r, S) <=>
        /\ \E u \in S : WaitsFor(r, u)
        /\ \E C \in SUBSET S : r \in C /\ Cl(C) /\ \A s \in C : C = {s} \/ ~Cl(C \ {s})
  BY Zenon DEF InCycle
<1> HIDE DEF Cl
<1>3. ASSUME NEW C \in SUBSET S
      PROVE  (Cl(C) <=> Closed(C)) /\ \A s \in C : Cl(C \ {s}) <=> Closed(C \ {s})
  BY <1>1, Zenon
<1> QED BY <1>2, <1>3, Zenon

\* A nonempty family of subsets of a finite set has a smallest member.
LEMMA SmallestSet ==
  ASSUME NEW S, IsFiniteSet(S), NEW C, C \subseteq SUBSET S, C # {}
  PROVE  \E T \in C : \A U \in C : U \subseteq T => U = T
<1> DEFINE R == StrictSubsetOrdering(S)
<1>1. FiniteSubsetsOf(S) = SUBSET S
  BY FS_FiniteSubsetsOfFinite, Zenon
<1>2. IsWellFoundedOn(R, SUBSET S)
  BY <1>1, FS_StrictSubsetOrderingWellFounded, Zenon
<1>3. PICK T \in C : \A U \in C : <<U, T>> \notin R
  <2> HIDE DEF R
  <2> QED BY <1>2, WFMin, Zenon
<1>4. ASSUME NEW U \in C, U \subseteq T PROVE U = T
  BY <1>3, <1>4, Zenon DEF StrictSubsetOrdering
<1> QED BY <1>4, Zenon

\* Requests each of which waits for another one of them: a smallest such set is a
\* cycle.
LEMMA WaitingMeansCycle ==
  ASSUME NEW B \in SUBSET Requests, B # {}, Closed(B)
  PROVE  \E r \in Requests : InCycle(r, Requests)
<1> DEFINE F == {C \in SUBSET Requests : C # {} /\ Closed(C)}
<1>1. B \in F /\ F \subseteq SUBSET Requests
  BY Zenon
<1>2. PICK C \in F : \A U \in F : U \subseteq C => U = C
  <2> HIDE DEF F
  <2> QED BY <1>1, SmallestSet, LockingAssumption
<1>3. C \in SUBSET Requests /\ C # {} /\ Closed(C)
  BY <1>2, Zenon
<1>4. PICK r \in C : TRUE
  BY <1>3, Zenon
<1>5. ASSUME NEW s \in C, C # {s} PROVE ~Closed(C \ {s})
  <2>1. C \ {s} # {} /\ C \ {s} \subseteq C /\ C \ {s} # C
    BY <1>5, Zenon
  <2> QED BY <1>2, <1>3, <2>1, Zenon
<1>6. \E u \in Requests : WaitsFor(r, u)
  BY <1>3, <1>4, Zenon DEF Closed
<1>7. r \in Requests
  BY <1>3, <1>4, Zenon
<1>8. InCycle(r, Requests)
  BY <1>3, <1>4, <1>5, <1>6, <1>7, CycleIs, Zenon
<1> QED BY <1>7, <1>8, Zenon

\* The server hangs without a cycle of row locks only when open transactions have
\* taken the whole pool and one of them waits for a second connection (IssueToken
\* and PUBLISH query on another connection than their own): if all of them waited
\* for rows, a smallest set of them that waits within itself would be a cycle.
THEOREM OnlyThePoolHangs == Spec => []HangTakesWholePool
<1>1. ASSUME LockInv, LocksExclude PROVE HangTakesWholePool
  <2>1. SUFFICES ASSUME Hung
                 PROVE  Cardinality(Begun) = pool /\ \E r \in Begun : Want(r) = Connection
    BY Zenon DEF HangTakesWholePool
  <2>2. \A r \in Begun : r \in Requests /\ task[r] # "done" /\ at[r] # 0
    BY <1>1 DEF Begun, LockInv
  <2>3. \A r \in Begun : Blocked(r)
    BY <2>1, <2>2, Zenon DEF Hung
  <2>4. InUse = Cardinality(Begun)
    <3>1. \A r \in Requests : extra[r] => r \in Begun
      BY <1>1, PlaceOf, Zenon DEF LockInv, Begun, Asking
    <3>2. {r \in Requests : extra[r]} = {}
      BY <2>3, <3>1, Zenon DEF Blocked
    <3>3. Cardinality(Begun) \in Nat
      <4>1. IsFiniteSet(Begun)
        BY FS_Subset, LockingAssumption, Zenon DEF Begun
      <4> QED BY <4>1, FS_CardinalityType, Zenon
    <3>4. Cardinality({}) = 0
      BY FS_EmptySet, Zenon
    <3> QED BY <3>2, <3>3, <3>4 DEF InUse
  <2>5. Begun # {}
    <3>1. SUFFICES ASSUME Begun = {} PROVE FALSE
      BY Zenon
    <3>2. PICK r \in Requests : task[r] # "done"
      BY <2>1, Zenon DEF Hung
    <3>3. at[r] = 0
      BY <1>1, <3>1 DEF Begun, LockInv
    <3>4. InUse = pool
      BY <2>1, <3>2, <3>3, Zenon DEF Hung
    <3>5. pool # 0
      BY <1>1, LockingAssumption, Zenon DEF LockInv
    <3> QED BY <2>4, <3>1, <3>4, <3>5, FS_EmptySet, Zenon
  <2>6. PICK r \in Begun : Want(r) = Connection
    <3>1. SUFFICES ASSUME \A r \in Begun : Want(r) # Connection PROVE FALSE
      BY Zenon
    <3>2. ASSUME NEW r \in Begun PROVE \E s \in Begun : WaitsFor(r, s)
      <4>1. PICK s \in Requests : WaitsFor(r, s)
        BY <2>3, <3>1, Zenon DEF Blocked
      <4>2. s \in Begun
        BY <1>1, <2>2, <4>1, WaitingHasNoExtra, Zenon DEF Begun
      <4> QED BY <4>1, <4>2, Zenon
    <3>3. Closed(Begun) /\ Begun \in SUBSET Requests
      BY <3>2, Zenon DEF Closed, Begun
    <3> QED BY <2>1, <2>5, <3>3, WaitingMeansCycle, Zenon DEF Hung
  <2>7. InUse = pool
    BY <2>3, <2>6, Zenon DEF Blocked
  <2> QED BY <2>4, <2>6, <2>7, Zenon
<1> QED BY <1>1, LockingCorrect, PTL
-----------------------------------------------------------------------------
\* A transaction that has some rows and asks for another one asks for an account,
\* and not for one before the accounts it has, unless it is a RESERVE that asks
\* for its token.
LEMMA AsksInOrder ==
  ASSUME NEW r \in Requests, NEW tx \in Transactions, NEW n \in 1 .. Len(Needs(r, tx)),
         NEW i \in 1 .. n - 1, Needs(r, tx)[n] # Connection,
         ~(tx = "RESERVE" /\ Needs(r, tx)[n].row \in Tokens)
  PROVE  LET want == Needs(r, tx)[n]
             has == Needs(r, tx)[i]
         IN  /\ want.row \in Accounts
             /\ has.row \in Accounts => has.row <= want.row /\ has.mode = "update"
<1> DEFINE q == Needs(r, tx)
<1>1. \A a, m : Row(a, m).row = a /\ Row(a, m).mode = m
  BY Zenon DEF Row
<1>2. /\ Low(r) \in Accounts /\ High(r) \in Accounts /\ Low(r) <= High(r)
      /\ Work[r].sender \in Accounts /\ Work[r].token \in Tokens
  <2> DEFINE a == Work[r].sender
             b == Work[r].receiver
  <2>1. a \in Accounts /\ b \in Accounts /\ Work[r].token \in Tokens
    BY LockingAssumption, Zenon
  <2>2. Low(r) = (IF a <= b THEN a ELSE b) /\ High(r) = (IF a <= b THEN b ELSE a)
    BY Zenon DEF Low, High
  <2>3. a \in Nat /\ b \in Nat
    BY <2>1, LockingAssumption, Zenon
  <2> HIDE DEF a, b
  <2>4. Low(r) \in Accounts /\ High(r) \in Accounts /\ Low(r) <= High(r)
    BY <2>1, <2>2, <2>3
  <2> QED BY <2>1, <2>4, Zenon DEF a
<1>3. Work[r].token \notin Accounts
  BY <1>2, LockingAssumption, Zenon
<1>4. \A a \in Accounts : a <= a
  BY LockingAssumption
<1>5. CASE tx = "RESERVE"
  <2>1. /\ Len(q) = 3 /\ q[1] = Row(Low(r), "update") /\ q[2] = Row(High(r), "update")
        /\ q[3] = Row(Work[r].token, "key_share")
    BY <1>5, NeedsAre
  <2>2. q[3].row \in Tokens
    BY <1>1, <1>2, <2>1
  <2> HIDE DEF q
  <2>3. n = 2 /\ i = 1
    <3>1. n \in 1 .. 3 /\ n # 3
      BY <1>5, <2>1, <2>2, Zenon DEF q
    <3> QED BY <3>1
  <2>4. q[2].row = High(r) /\ q[1].row = Low(r) /\ q[1].mode = "update"
    BY <1>1, <2>1
  <2> QED BY <1>2, <2>3, <2>4, Zenon DEF q
<1>6. CASE tx = "LEDGER_COMMIT"
  <2>1. /\ Len(q) = 3 /\ q[1] = Row(Work[r].token, "update") /\ q[2] = Row(Low(r), "update")
        /\ q[3] = Row(High(r), "update")
    BY <1>6, NeedsAre
  <2> HIDE DEF q
  <2>2. (n = 2 /\ i = 1) \/ (n = 3 /\ i = 1) \/ (n = 3 /\ i = 2)
    <3>1. n \in 1 .. 3
      BY <2>1, Zenon DEF q
    <3> QED BY <3>1
  <2>3. /\ q[2].row = Low(r) /\ q[2].mode = "update" /\ q[3].row = High(r)
        /\ q[1].row = Work[r].token
    BY <1>1, <2>1
  <2> QED BY <1>2, <1>3, <2>2, <2>3, Zenon DEF q
<1>7. CASE tx = "UNDO_LEDGER"
  <2>1. Len(q) = 2 /\ q[1] = Row(Low(r), "update") /\ q[2] = Row(High(r), "update")
    BY <1>7, NeedsAre
  <2> HIDE DEF q
  <2>2. n = 2 /\ i = 1
    <3>1. n \in 1 .. 2
      BY <2>1, Zenon DEF q
    <3> QED BY <3>1
  <2>3. q[2].row = High(r) /\ q[1].row = Low(r) /\ q[1].mode = "update"
    BY <1>1, <2>1
  <2> QED BY <1>2, <2>2, <2>3, Zenon DEF q
<1>8. CASE tx = "RELEASE"
  <2>1. Len(q) = 2 /\ q[1] = Row(Work[r].token, "update") /\ q[2] = Row(Work[r].sender, "update")
    BY <1>8, NeedsAre
  <2> HIDE DEF q
  <2>2. n = 2 /\ i = 1
    <3>1. n \in 1 .. 2
      BY <2>1, Zenon DEF q
    <3> QED BY <3>1
  <2>3. q[2].row = Work[r].sender /\ q[1].row = Work[r].token
    BY <1>1, <2>1
  <2> QED BY <1>2, <1>3, <2>2, <2>3, Zenon DEF q
<1>9. CASE tx = "ISSUE"
  <2>1. Len(q) = 3 /\ q[2] = Connection /\ q[3] = Connection
    BY <1>9, NeedsAre
  <2> HIDE DEF q
  <2>2. n \in 1 .. 3
    BY <2>1, Zenon DEF q
  <2>3. n = 1
    BY <2>1, <2>2 DEF q
  <2> QED BY <2>3
<1>10. CASE tx \in {"CONSUME_TOKEN", "UNDO_CONSUME", "PUBLISH", "UNDO_RESERVE"}
  <2>1. Len(q) \in {0, 1}
    BY <1>10, NeedsAre
  <2> HIDE DEF q
  <2>2. n \in 1 .. Len(q) /\ n \in Int
    BY DEF q
  <2>3. n = 1
    <3>1. CASE Len(q) = 0
      BY <2>2, <3>1
    <3>2. CASE Len(q) = 1
      BY <2>2, <3>2
    <3> QED BY <2>1, <3>1, <3>2, Zenon
  <2> QED BY <2>3
<1> QED BY <1>5, <1>6, <1>7, <1>8, <1>9, <1>10, Zenon DEF Transactions, Undos

\* A request u that another one waits for, and that waits for a row itself, wants
\* an account behind the row the other one wants.
LEMMA WaitsAscend ==
  ASSUME LockInv, LocksExclude, NEW s \in Requests, NEW u \in Requests, NEW v \in Requests,
         WaitsFor(s, u), WaitsFor(u, v), ~(task[u] = "RESERVE" /\ Want(u).row \in Tokens)
  PROVE  /\ Want(u).row \in Accounts
         /\ Want(s).row \in Accounts => Want(s).row < Want(u).row
<1>1. PICK h \in Held(u) : h.row = Want(s).row /\ Want(s) # Connection
  BY Zenon DEF WaitsFor
<1>2. task[u] # "done" /\ Asking(u) /\ Want(u) # Connection
  BY Zenon DEF WaitsFor, Asking
<1>3. /\ at[u] \in Nat /\ at[u] > 0 /\ at[u] <= Len(Needs(u, task[u])) /\ task[u] \in Transactions
      /\ Len(Needs(u, task[u])) \in Nat
  BY <1>2, PlaceOf, Zenon
<1>4. PICK i \in 1 .. at[u] - 1 : h = Needs(u, task[u])[i]
  BY <1>1, <1>3, Zenon DEF Held
<1>5. at[u] \in 1 .. Len(Needs(u, task[u]))
  BY <1>3
<1>6. /\ Want(u).row \in Accounts
      /\ h.row \in Accounts => h.row <= Want(u).row /\ h.mode = "update"
  BY <1>2, <1>3, <1>4, <1>5, AsksInOrder, Zenon DEF Want
<1>7. ASSUME h.row \in Accounts PROVE h.row # Want(u).row
  <2>1. PICK k \in Held(v) : k.row = Want(u).row /\ u # v
    BY Zenon DEF WaitsFor
  <2>2. h.row # k.row
    BY <1>6, <1>7, <2>1, Zenon DEF LocksExclude, Conflict
  <2> QED BY <2>1, <2>2, Zenon
<1>8. h.row \in Accounts => h.row < Want(u).row
  <2>1. ASSUME NEW a \in Accounts, NEW b \in Accounts, a <= b, a # b PROVE a < b
    <3>1. a \in Nat /\ b \in Nat
      BY LockingAssumption, Zenon
    <3> QED BY <2>1, <3>1
  <2> QED BY <1>6, <1>7, <2>1, Zenon
<1> QED BY <1>1, <1>6, <1>8, Zenon

\* "Lock accounts in alphabetical order to avoid deadlocks" and the token before
\* the accounts, for any number of requests: the only transaction that breaks the
\* order is the RESERVE that has its accounts and asks for its token.  Without
\* those, the accounts waited for would ascend along a cycle for ever.
THEOREM OrderPreventsCycles == Spec => []OnlyReserveInvertsTheOrder
<1> DEFINE S == {r \in Requests : ~(task[r] = "RESERVE" /\ Asking(r) /\ Want(r).row \in Tokens)}
<1>1. ASSUME LockInv, LocksExclude, NEW r \in S, InCycle(r, S) PROVE FALSE
  <2>1. PICK C \in SUBSET S : r \in C /\ Closed(C)
    BY <1>1, CycleIs, Zenon
  <2>2. ASSUME NEW s \in C
        PROVE  \E u \in C : /\ WaitsFor(s, u) /\ Want(u).row \in Accounts
                            /\ Want(s).row \in Accounts => Want(s).row < Want(u).row
    <3>1. PICK u \in C : WaitsFor(s, u)
      BY <2>1, Zenon DEF Closed
    <3>2. PICK v \in C : WaitsFor(u, v)
      BY <2>1, Zenon DEF Closed
    <3>3. s \in Requests /\ u \in Requests /\ v \in Requests
      BY Zenon
    <3>4. ~(task[u] = "RESERVE" /\ Want(u).row \in Tokens)
      BY <3>2, Zenon DEF WaitsFor
    <3> QED BY <1>1, <3>1, <3>2, <3>3, <3>4, WaitsAscend, Zenon
  <2> DEFINE Up(T) == \A s \in T : /\ Want(s).row \in Accounts
                                   /\ \E u \in T : Want(s).row < Want(u).row
             F == {T \in SUBSET Requests : T # {} /\ Up(T)}
             A == {s \in C : Want(s).row \in Accounts}
  <2>3. A \in F
    <3>1. A # {}
      BY <2>1, <2>2, Zenon
    <3>2. Up(A)
      BY <2>2, Zenon
    <3> QED BY <3>1, <3>2, Zenon
  <2>4. PICK T \in F : \A U \in F : U \subseteq T => U = T
    <3>1. F \subseteq SUBSET Requests
      BY Zenon
    <3> HIDE DEF F
    <3> QED BY <2>3, <3>1, SmallestSet, LockingAssumption
  <2>5. T \in SUBSET Requests /\ T # {} /\ Up(T)
    BY <2>4, Zenon
  <2>6. PICK t \in T : TRUE
    BY <2>5, Zenon
  <2> DEFINE U == {u \in T : Want(t).row < Want(u).row}
  <2>7. \A s \in T : Want(s).row \in Nat
    BY <2>5, LockingAssumption, Zenon
  <2>8. t \notin U /\ U \subseteq T
    BY <2>6, <2>7
  <2>9. U # {}
    BY <2>5, <2>6, Zenon
  <2>10. Up(U)
    <3>1. SUFFICES ASSUME NEW s \in U
                   PROVE  Want(s).row \in Accounts /\ \E u \in U : Want(s).row < Want(u).row
      BY Zenon
    <3>2. PICK u \in T : Want(s).row < Want(u).row
      BY <2>5, Zenon
    <3>3. Want(t).row < Want(u).row
      BY <2>6, <2>7, <3>2
    <3> QED BY <2>5, <3>2, <3>3, Zenon
  <2>11. U \in F
    BY <2>5, <2>8, <2>9, <2>10, Zenon
  <2> QED BY <2>4, <2>6, <2>8, <2>11, Zenon
<1>2. ASSUME LockInv, LocksExclude PROVE OnlyReserveInvertsTheOrder
  BY <1>1, <1>2, Zenon DEF OnlyReserveInvertsTheOrder
<1> QED BY <1>2, LockingCorrect, PTL
=============================================================================
