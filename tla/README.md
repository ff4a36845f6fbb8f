# A TLA+ verification of OfflinePay

OfflinePay lets a payer reserve funds at a bank server as an *offline token*, spend the token on a
device without a network, and have the signed envelope settled later, when any device that carries
it reaches the server. This directory holds TLA+ models of the server, the TLC configurations that
check them on small instances, and TLAPS proofs that hold for every instance.

    tlc -config Spend.cfg MCOfflinePay        # any run: <run>.cfg with its MC module
    tlapm OfflinePaySpendProofs.tla           # any of the eight proof modules

`PROJECT.json` lists the runs, the mutants that show each property can fail, the source lines each
definition models, the hazards, the findings and the theorems.

## 1. The system

| Part | State | Operations |
|---|---|---|
| `internal/repository`, `internal/db` | PostgreSQL tables and their constraints | row operations, `WithTx`, status machine of tokens |
| `internal/token` | `offline_tokens`, `account_balances`, `ledger_entries` | `IssueToken`, `ReleaseExpiredTokens` |
| `internal/settlement`, `internal/saga` | `payment_intents`, `nonce_registry`, ledger, tokens, `saga_states` | `Settle`: checks, saga of RESERVE, CONSUME_TOKEN, LEDGER_COMMIT, PUBLISH, compensations, `saveFailedIntent`, `RecordFailure` |
| `internal/reconciliation` | none of its own | periodic scan: release expired tokens, expire stuck intents |
| `internal/outbox`, `internal/eventbus` | `outbox_events`, `dead_letter_events`, Redis streams | claim, publish, retry, dead letters, replay, subscribe |
| `internal/projection` | `payment_read_projections`, `processed_events`, checkpoint | `HandlePaymentSettled`, `HandlePaymentFailed` |
| `internal/eventsource`, `cmd/rebuild` | `payment_events`, snapshots | append, snapshot, replay, rebuild of the projection |
| `internal/recovery` | `failure_events`, `recovery_operations` | classify, decide, claim and run retries |
| `internal/relay` | dedupe cache, retry queue | receive, forward with retries |
| `internal/cluster` | simulated nodes, their logs, the leader | propose, crash, recover, elect |
| `internal/validator` | none | audits of balances and ledger |
| `internal/risk`, `identity`, `intent`, `crypto` | Redis counters, devices, keys | checks of one envelope |
| `internal/api`, `chaos`, `config`, `observability`, `state` | rate limiter, switches | routing, fault injection |

The parts meet in two places. The tables are shared: any number of `Settle` calls, token issues and
scanners, of any number of servers, work on the same rows, with a transaction per saga step and
unlocked reads between transactions. The outbox is a queue: `Settle` inserts rows, workers move them
to Redis streams, and projection readers apply them to the read model. The cluster simulation stands
by itself: the API crashes and recovers its nodes, and no payment depends on it. Two more things are
shared without being data: row locks and the 25 connections of the pool.

What makes this hard is listed with its source lines as "hazards" in `PROJECT.json`. In short: copies
of an envelope that run at the same time; reads without locks that are acted upon transactions
later; commits whose acknowledgement is lost, after which the saga compensates what has happened;
compensations that the foreign keys refuse; crashes between two steps of a saga that nothing
resumes; events that are duplicated, delayed or applied in the order of two different streams.

## 2. The modules

    Bank ── TokenService ── Reconciliation ─┐
      └──── Settlement ─────────────────────┴─ OfflinePay ── MCOfflinePay
                                                   └─ OfflinePaySpendProofs
                                                        ── OfflinePayEscrowProofs ── OfflinePayMoneyProofs
    Escrow  (implemented by OfflinePay)
      └─ Relay ──┐
        Recovery ┴─ Forwarding ── MCForwarding, ForwardingProofs
    Outbox ── Projection ── Delivery ── MCDelivery, DeliveryProofs
                               └─ Rebuild ── MCRebuild, RebuildProofs
    Locking ── MCLocking, LockingProofs
    Cluster ── MCCluster, ClusterProofs

One database transaction is one atomic step, since the code runs every saga step, every release and
every claim in a transaction that locks the rows it computes from. A read outside a transaction is a
step of its own, and what it returned is kept in a variable until it is used.

**Bank** is the schema. `avail` and `reserved` are the columns of `account_balances`; `token`,
`intent`, `nonces`, `ledger`, `outbox`, `events` and `recovery` are the tables of these names;
`expired` says whose expiry has passed, and time is the action `Expire`. Payments, tokens and
accounts are abstract ids with an owner, a value, an amount, a receiver and a nonce. Foreign keys
and unique keys are guards of the operations they can make fail. `IsValidTokenTransition` is the
table of `domain/models.go`, and `HoldToken`, `MarkConsumed`, `InvalidateToken`, `ReleaseToken` the
row operations guarded by it; `CreateToken`, `CreatePaymentIntent` and `UpdateBalance` are the
repository's.

**TokenService** has `IssueToken` (reservation, ledger row, placeholder intent, in one transaction)
and the transaction that `ReleaseExpiredTokens` runs for each token it has listed.

**Settlement** has one action per transaction of `Settle`: `CheckIdempotency`, `Validate`,
`Reserve`, `ConsumeToken`, `LedgerCommit`, `Publish`, the three compensations, the three writes of
`saveFailedIntent` and `RecordFailure`. `pc[c]` is the step an invocation is at; `saga`, `attempts`
and `verdict` are the orchestrator's state, the failed attempts at a compensation and the status the
caller gets. Decryption, signatures, attestation and risk are a rejection that may always happen.
An envelope names its payment twice, in its header (`Header`) and in the signed payload (`Envelope`).
Devices write both from one variable (`internal/intent/service.go:40`), and `Settle` never compares
them: the idempotency check, the row of the nonce (`settlement/service.go:267`) and the records of a
failure go by the header, everything else by the payload. `HeadersMatch` says that they agree.
`saga_states` is written by the orchestrator but read by nobody, so it has no effect after a crash.

**Reconciliation** has the scanner: list expired tokens, handle them one transaction at a time, list
stuck intents, mark them one at a time.

**OfflinePay** composes these and states the properties. `Crash` stops an invocation for good
(another one with the same envelope is another element of `Calls`); `CrashScanner` makes a scanner
forget its list.

**Outbox** has the worker pool: `Claim`, `PublishEvent`, `MarkPublished`, `MarkFailed`, and the
dead-letter requests `ReadDeadLetter`, `ReturnToOutbox`, `DeleteDeadLetter`. A row's payload is a
*fact* about a payment. **Projection** has the readers of the consumer group: `ReadGroup`,
`CheckProcessed`, `ReadProjection`, `WriteProjection`, `Acknowledge`; the group's cursor and its
unacknowledged entries are the state of Redis. A projection is its status, whether its sender,
receiver and amount are known (`details`) and whether it has a `settled_at`; what was read is written
back with the new status, and a row that exists keeps its details. `relay_hops`, which every event
writes with the status, stands with the status. **Delivery** composes both, with `CrashServer` for a
server with its workers and readers (a shutdown that does not wait long enough is one too). Redis
itself is external and modelled as the code uses it: an append-only log per stream and a group that
hands out each entry once.

**Cluster** has `ProposeCommand`, `CrashNode`, `RecoverNode` and `runElection`, cut into steps at the
locks: a step is what happens while one lock is held, and `locked` says that an election holds
`c.mu`, which `CrashNode` and every lookup of the leader wait for. `runElection` looks at a node and
takes its flag under two locks, so these are two steps (`LookAt`, `TakeFlag`). `acks[p]` has a member for each
increment of `acks`. `CommitIdx` is only reported and is left out.

**Escrow** is the abstract specification of the bank: a token locks its value; the escrow ends once,
by paying one payment and returning the change or by returning everything; a nonce pays once;
SETTLED is answered at most once and only for a payment that was made. `OfflinePay` implements it
(`ImplementsEscrow`) with `funds` as `avail`, the escrow of a token read off its ledger rows and the
answer of a call off its verdict.

**Relay** has `ReceiveAndRelay` and `forwardWithRetry`: `dedupe[r]` is a server's memory of txn_ids and
nonces, which `Forget` evicts key by key and `StopRelay` empties; `relayRow` is the row of
`relay_attempts` that all servers share, because all use the relay id "central-relay-node". A status
that cannot be written is ignored, as in the code. **Recovery** has `RecordFailure`, with the
decisions the policy can come to, and `RunOnce` in two steps, the locked selection of due rows with
the attempt counts it reads and the end of the transaction. `RunOnce` sends statements while its rows
are open (`manager.go:111-149`), and what comes of that is up to the driver: in the model each such
transaction may commit (`RunOnce`) and may be rolled back (`RunFails`). **Forwarding** puts both around Escrow instead of
Settlement: a forwarding attempt is a request to the bank. Every status but SETTLED comes with an
error, and the relay tells no failures apart. The relay, too, goes by the header of an envelope;
Escrow is the bank only for headers that name their payment, so here the two ids are one.

**Rebuild** extends Delivery with the event store (`store`) and every step of `cmd/rebuild`. A
settlement is announced and stored in one transaction, a failure in two statements (`owed` has what
is announced and not stored yet), a diagnosis after that. The tool takes no lock against the
projection readers. `quiet` and `whole` are history variables. Event ids are taken to grow in the
order of commits.

**Locking** has no data. A transaction is the sequence of row locks and second connections it
acquires (`Needs`), followed along the saga, its compensations, token issue and release. PostgreSQL is
external: `FOR UPDATE` excludes every lock on a row, the lock that a foreign key takes excludes
`FOR UPDATE` only, and a request in a cycle of row locks is made to fail. Waiting for a connection is
invisible to PostgreSQL.

The constant `Faults` says what may go wrong in a run. In OfflinePay: `db` (a database call fails),
`ack` (a transaction commits and the caller sees an error), `crash`, `scan_crash` and `publish` (PUBLISH fails). In Delivery:
`redis`, `redis_ack`, `db`, `crash`, in the same sense.

## 3. What the runs show

| Run | Instance | Properties |
|---|---|---|
| `Spend` | 3 payments, 2 tokens, no faults | `NoDoubleSpend`, `OneSettlementPerNonce`, `ImplementsEscrow` |
| `LostAck` | 2 copies of an envelope, one with a foreign header, a scanner, `db`, `ack`, `scan_crash` | `Conservation`, `SettlementIsAtomic`, `TokenHasOneHolder` |
| `TwoScanners` | 2 payments, 2 tokens, 2 scanners | `TypeOK`, `ReservedFromLedger` |
| `Crashes` | 2 copies, a scanner, `crash`, `publish`; fair | `AuditClean`, `BalanceFromLedger`, `SettledStaysRegistered`, `NoPhantomEvent`, `PaymentHasOneOwner`, `LedgerIsImmutable`, `ImplementsEscrow`, `SettleReturns`, `FundsComeBack` |
| `DeliveryFaults` | 2 workers, 2 readers, 2 facts, all faults | `OneClaimant`, `PublishedWasSent`, `AcknowledgedWasProcessed`, `ProjectionFromEvents`, `AppliedOnce` |
| `DeliveryLive` | 2 workers, 2 readers, 2 replay requests, `redis`; fair | `NothingVanishes`, `Delivered`, `SentIsApplied` |
| `Rebuild` | 1 payment settled, failed and diagnosed, worker, readers and the tool | `RebuiltFromEvents`, `SettledSurvivesRebuild`, `AcceptedWasConsistent`, `RejectedForAReason` |
| `Forwarding` | 2 copies at one relay, 2 servers, 1 fault; fair | `AckMeansPaid`, `QuietRowIsFinal`, `RequestsAreCounted`, `ForwardingEnds` |
| `Locking` | 2 payments in opposite directions, an issue, a release, pools of 2 and 5; fair | `OnlyReserveInvertsTheOrder`, `HangTakesWholePool`, `RequestsEnd` |
| `Failover` | 3 nodes, 3 crashes, a proposal, a recovery; fair | `OneLeader`, `ElectedIsAlive`, `FailoverCompletes` |

*Money.* A token is debited by at most one settlement and a nonce is good for one, however many
invocations race. Balances add up to what was put in, can be recomputed from the ledger, and the
reserved balance is that of the unreleased tokens, even with two scanners that work from stale
lists. The ledger never loses a row although LEDGER_COMMIT has a compensation that deletes rows: the
foreign key of `nonce_registry` refuses it. That protection is gone when a commit is reported as
failed, so `SettledStaysRegistered`, `NoPhantomEvent` and `LedgerIsImmutable` are claimed without
`ack` only.

*Headers.* The nonce protects the intent that the header names, so what keeps LEDGER_COMMIT from being
undone when PUBLISH fails is that the header names the payment. `LedgerIsImmutable`, `AuditClean`,
`FundsComeBack` and `ImplementsEscrow` are claimed under `HeadersMatch`, which holds in all instances
but that of `LostAck`. With a header that names another intent and a failing PUBLISH these four
are false: the settlement is taken back, its money is reserved again, and the token stays CONSUMED,
so that no scan releases it. The other properties hold on that instance (97,894 states: that of
`Crashes` with the header of `LostAck`), and most of them are theorems without `HeadersMatch`.

*Progress.* The funds of an expired token come back as long as a scanner runs, even when the server
that held it has crashed. A `Settle` whose server keeps running returns, also when a compensation can
never succeed.

*Abstraction.* With crashes, a failing PUBLISH and racing copies the server is still an `Escrow` to
its callers; the proof of section 4 covers failing database calls too. Under `ack`, or with headers
that name other payments, it is not one.

*Delivery.* A row is never in the hands of two workers. A row marked PUBLISHED is in its stream, and
an acknowledged entry has been applied. An event that is in its stream twice is applied once, with
one server. A row that leaves the outbox is a dead letter, was deleted, or was put back.

*Cluster.* However crashes, recoveries and elections overlap, at most one node takes itself for the
leader and it is the one `LeaderID` names. A node is up when it is elected, because `CrashNode` waits
for the election's lock, and a failover that has started ends with a working leader unless all nodes
are down.

*Relays and recovery.* A row that says ACK_SETTLED is about a payment that was made, whatever the
relays forget, repeat or lose. When nobody forwards a payment any more its row is final, unless a
server stopped or a write failed. Recovery requests are counted across servers and never exceed the
limit, since the rows are locked from the reading of the count to its update; that holds whichever of
the transactions commit. Forwarding comes to an end. Nothing is claimed about recovery making
progress: lib/pq 1.10.9, which `go.mod` names, refuses a statement while the rows of the same
transaction are open, and with it every `RunOnce` that has selected anything is rolled back.

*Rebuild.* An undisturbed rebuild gives the read model that the events amount to, whatever was there
before; it reports success only if the old read model agreed with the events, and rejects only if it
did not or if the last event is a `RecoveryDiagnosed`, which is skipped together with its checkpoint,
so that a correct result is rejected. With the readers running, no settled payment is lost, because
the events are listed after the table is emptied.

*Locks and connections.* Sorting the accounts leaves one source of lock cycles, RESERVE. The server
hangs only when open transactions hold the whole pool and one of them needs a second connection; with
one connection more than there are requests, every request ends. With the pool of 25, 25 simultaneous
transactions of PUBLISH are enough for the hang, and their contexts need not have a deadline.

**Violation runs.** Two statements of the repository do not hold, and a run shows each.

- `VStranded`: when LEDGER_COMMIT fails, its token is INVALIDATED without a release and no scan lists
  it again; ADR-009 says that reserved funds are released automatically.
- `VDeadlock`: RESERVE locks the accounts and then, through the foreign key of the intent, the token;
  LEDGER_COMMIT and the release of a token lock them the other way round. The comment in RESERVE says
  that the order of the accounts avoids deadlocks. PostgreSQL aborts one of the two transactions.

Seen while modelling and not given a run: when PUBLISH fails, the compensation of LEDGER_COMMIT is
refused by a foreign key, and the caller is told FAILED though the money has moved (ADR-008 promises
the initial state); a payment to oneself writes the same balance row twice from values read before
either write, and the balance no longer follows from the ledger (ADR-005), so the runs have senders
that differ from receivers, and theorems about balances have the hypothesis `NoSelfPayment`; `payment.failed` of a refused
duplicate can be applied after `payment.settled`, and the read model then shows a settled payment as
failed (ADR-004); a server that stops between LEDGER_COMMIT and PUBLISH leaves a settlement that is
never announced and that no rebuild finds (ADR-007 promises the event in the same transaction); a
rebuild beside running services can lose a failed payment, whose event is stored after it was
announced; NACK_FAILED can stand for a payment that was made, since a retry after a lost success is
refused as a duplicate, and it can overwrite ACK_SETTLED of another forwarder; recovery, where its
transactions commit, goes on asking for retries of a payment that has settled since, on a stream that
nobody reads; the key of a recovery
operation is `recovery:<txn_id>`, where ADR-011 has `recovery:<txn_id>:<action>`; a
scanner with a stale list turns a SETTLED intent into EXPIRED; a failed duplicate's rows can make
RESERVE's compensation fail for good; rows that a crashed worker had claimed stay PROCESSING; a
replayed dead letter goes to `payment.replayed`, which nobody reads; two servers that look up copies of an event at the same time both apply
it; a failure that has read the projection before a settlement is applied and is written after it
clears `settled_at`; a projection first created by
`payment.failed` keeps "UNKNOWN" as sender and receiver after the settlement is applied;
`ProposeCommand` looks up the leader a second time for the fan-out, so after an election in between
the old leader gets the command twice and both count, and a command "committed on quorum" can be on
one node only and be lost with it (`cluster.go:76` requires a quorum of 2/3 nodes); when all nodes
were down, the recovered ones have no leader until the next crash of the node `LeaderID` names.

**Bounds.** In OfflinePay nothing is capped: every variable is finite because calls, tokens and
payments are, and each call runs once. Two calls suffice for every race of two parties, the third in
`Spend` lets a token and a nonce conflict at the same time; amounts are chosen so that a payment
leaves change, leaves none, or exceeds its token, and so that the balance check alone would not stop
a second spending. All payments of these instances go from one account to another; payments in both
directions at once are in `Locking` and, for balances, in the theorems. In Delivery `MaxEvents` caps the rows (2, or 3 where replays matter),
`MaxRetries` is 2 instead of 5 so that a row is both retried and given up, `BatchSize` and
`ReadCount` are 1 or 2 instead of 5 and 10 so that batches of several and leftovers both happen. In
Cluster, `MaxCrashes` is 3, so that all nodes can be down and elections can overlap, and there is
one recovery and one proposal, which may come at any time; how two recoveries or two proposals
interact is not covered. In Forwarding `RetryLimit`
and `MaxAttempts` are 2 instead of 5 and 3, so that there is a first, a last and a repeated attempt,
and `MaxFaults` is 1: a server stops or a status is not written, at any step; recovery transactions
may fail any number of times. In Rebuild one payment has all three kinds of events; the tool may be started any number of
times. In Locking the pool of 2 can be exhausted and the pool of 5 cannot; `UndoAttempts` is 2 instead
of 3. `CHECK_DEADLOCK FALSE` stands where the system may come to rest: no request
is left and no scanner or crash keeps it moving. Symmetry is used in safety runs only.

**Fairness.** Weak fairness of every invocation's steps (a goroutine that can run does), of every
scanner's and every worker's steps (their tickers fire until the server stops) and of every reader's
steps (its loop polls Redis). Issuing, announcing, replaying and the passing of time are not fair.
An election that was started is run (its goroutine gets the lock); crashes, recoveries and proposals
are not fair. In Forwarding the goroutines of relays go on and `Settle` returns, which is
`SettleReturns` of OfflinePay; nobody has to deliver an envelope, the bank need not pay, and nothing is
assumed of recovery workers, whose ticker does not make their transactions commit. In
Locking a request that can go on does, and PostgreSQL ends a cycle that lasts. Weak fairness of a reader assumes that reading from Redis succeeds again some time.
The liveness properties are claimed for the faults their run has: with `crash`, a worker's claimed
rows are not published and entries a reader was given are not read again.

## 4. What is proved

Every invariant, every action property and the refinement that a passing run checks is also a theorem.
The theorems hold for any number of accounts, tokens, payments, calls, scanners, servers, workers,
readers, relays, requests and nodes, for all limits and batch sizes, and for any `Faults` except where
a hypothesis is named.

**Assumptions.** The `ASSUME`s of the modules, which TLC evaluates in the runs, give the constants
their types and say that ids of different tables differ and that token values are positive. Accounts
and tokens (`FiniteAssumption`) and the requests of `Locking` are finite, which sums and smallest
cycles need. Some theorems have a hypothesis besides, and each excludes something that the code lets
happen:

- `NoLostAck`: no transaction commits and is reported as failed. Otherwise the saga compensates a
  settlement that has happened. With `"ack"`, `"db"` and `"publish"` as `Faults` TLC finds every
  property of a theorem with this hypothesis false. `AuditClean` has `NoDbFault` as well; there
  `NoLostAck` is what the invariants behind it need.
- `HeadersMatch`: the header of every envelope names the payment in its payload. Devices write it so and
  the server does not check it. Otherwise the nonce of a payment refers to another intent, and the
  compensation of LEDGER_COMMIT can go through. `LedgerIsImmutable`, `AuditClean` and
  `ImplementsEscrow` are false without it (section 3); for `ReservedFromLedger`, `BalanceFromLedger`
  and `StrandingTakesAFault` it is the proof that uses it.
- `NoSelfPayment`: a payment has a receiver other than its sender. The code does not reject one to
  oneself, and then writes one balance row twice from values read before either write, so that
  balances, ledger and audit no longer agree.
- `NoDbFault`, `PositiveAmounts`: no database call fails, and no payment is of nothing. A failing call
  and a payment of nothing each make LEDGER_COMMIT fail, which strands the token (`VStranded`). With
  both hypotheses `StrandingTakesAFault` proves what that run refutes: the finding needs one of the two.
- `OneServer`: one server reads the streams. With two, copies of an event can be with two readers of
  its stream, and both can find it unprocessed before either commits.

| Theorem | Property | Hypotheses |
|---|---|---|
| **OfflinePaySpendProofs** | | |
| `TypeCorrect` | `TypeOK`; balances stay natural numbers | |
| `NeverSpentTwice` | `NoDoubleSpend` | |
| `TokenNeverShared` | `TokenHasOneHolder` | |
| `ReplayProtected`, `PaymentNeverShared` | `SettledStaysRegistered`, `PaymentHasOneOwner` | `NoLostAck` |
| `NonceSpentOnce` | `OneSettlementPerNonce` | `NoLostAck` |
| `LedgerNeverShrinks` | `LedgerIsImmutable` | `NoLostAck`, `HeadersMatch` |
| `NeverPhantom` | `NoPhantomEvent` | `NoLostAck` |
| **OfflinePayEscrowProofs** | | |
| `ServerIsAnEscrow` | `ImplementsEscrow` | `NoLostAck`, `HeadersMatch`, `NoSelfPayment` |
| **OfflinePayMoneyProofs** | | |
| `MoneyIsConserved` | `Conservation` | `NoSelfPayment` |
| `DoubleEntryIsAtomic` | `SettlementIsAtomic` | |
| `ReservedIsFounded`, `BalanceIsFounded` | `ReservedFromLedger`, `BalanceFromLedger` | `NoLostAck`, `HeadersMatch`, `NoSelfPayment` |
| `AuditFindsNothing`, `StrandingTakesAFault` | `AuditClean`, `InvalidatedIsReleased` | these and `NoDbFault`, `PositiveAmounts` |
| **DeliveryProofs** | | |
| `NeverClaimedTwice` | `OneClaimant` | |
| `PublishedIsInTheStream` | `PublishedWasSent` | |
| `NothingIsLost` | `NothingVanishes` | |
| `AckFollowsProcessing` | `AcknowledgedWasProcessed` | |
| `ReadModelIsFounded` | `ProjectionFromEvents` | |
| `NeverAppliedTwice` | `AppliedOnce` | `OneServer` |
| **RebuildProofs** | | |
| `RebuildRecomputes` | `RebuiltFromEvents` | |
| `SuccessMeansAgreement`, `RejectionHasAReason` | `AcceptedWasConsistent`, `RejectedForAReason` | |
| `RebuildLosesNoSettlement` | `SettledSurvivesRebuild` | |
| **ForwardingProofs** | | |
| `AckIsTrue` | `AckMeansPaid` | |
| `SharedRowEndsFinal` | `QuietRowIsFinal` | |
| `RecoveryIsBounded` | `RequestsAreCounted` | |
| **LockingProofs** | | |
| `OnlyThePoolHangs` | `HangTakesWholePool` | |
| `OrderPreventsCycles` | `OnlyReserveInvertsTheOrder` | |
| **ClusterProofs** | | |
| `NeverTwoLeaders` | `OneLeader` | |
| `NoDeadNodeElected` | `ElectedIsAlive` | |

**The arguments.**

*Spending.* `TypeOK` alone is not inductive: LEDGER_COMMIT computes the change by a subtraction whose
operands were compared in `Validate`, so `ChecksHold` carries that comparison along the saga.
`NoDoubleSpend` is not inductive because nothing in LEDGER_COMMIT's own guards stops a second debit
(`ConsumeToken` of the repository accepts CONSUMED to CONSUMED): `TokenHasOneHolder` says that past
CONSUME_TOKEN an invocation is alone with its token. The replay properties need
`PaymentHasOneOwner`, the same for the nonce that RESERVE inserts, which stays registered under the id
of the header. When that is the payment's own id, it refuses the compensation of LEDGER_COMMIT
(`CannotUndo`), and with it the only step that deletes ledger rows (`NeverReverts`).

*The ledger.* Five kinds of steps touch balances, rows and statuses (`MoneyMoves`): issue, release,
LEDGER_COMMIT, its compensation, and steps that leave the money where it is. Everything about rows is
shown for these five. `EntriesArePaired` says which rows a settlement consists of;
its compensation takes no row away from another one, because `HolderRows` says that who holds a
token finds no settlement against it but its own.

*Money.* Balances are sums over finite sets. What a sum does when one or two summands change is shown
by minimal counterexamples (a smallest set for which it fails), since the library's induction
theorems cannot be used here. A release and a settlement then leave the total as it is, each because
it moves what it takes. That the reserved balance is the value of the open tokens needs
`TokensOnLedger` (the status of a token and its ledger rows agree); that balances follow from the
ledger needs `RowsInOrder` (entry ids grow) and `FiniteRows`. The audit needs `LastRowShows` (the last
row of an account shows its balance) and `NothingStranded`, where `NoDbFault` and `PositiveAmounts`
come in: LEDGER_COMMIT cannot fail on a token that is still held (`HeldCanCommit`), because the
reserved balance covers it.

*Refinement.* `Issue` maps to `Lock`, the release of an expired token to `Return`, LEDGER_COMMIT to
`Pay`, the last step of `Settle` to `Answer`, and everything else to no step, compensations and crashes
included. `LedgerInv` has what the ledger is known to satisfy, and
`AnswersMatch` relates the verdict of a call to the ledger.

*Delivery.* `OutboxInv` relates the rows, the batches of the workers, the streams and the dead letters;
`ReaderInv` what each reader holds and the group's cursor. `AppliedOnce` needs `StillUnprocessed`:
what a reader found unprocessed still is when it writes, because it is the only reader of its stream.

*Rebuild.* While nobody interferes, the read model is the projection of the events before the one the
tool is at (`QuietInv`), so at the end it is that of all of them. The proof showed that the history
variable `quiet` used to be too generous: with two servers, a reader can write the read model
without marking an event as processed that is marked already. It now stands for what its comment
says. `RefilledInv` says that while the table is filled again, a payment whose settlement was applied
is in it or in one of the events still to be read; it rests on `SettledIsStored`, a settlement being
announced and stored in one transaction.

*Forwarding.* A relay that was told SETTLED and has not recorded it yet is about a payment that was made
(`ToldMeansPaid`), and the escrow never takes a payment back. `WithinLimit` says that every attempt is
one of the requests that the bank answers. `RequestsAreCounted` rests on the locks of `RunOnce`
(`ClaimsHold`): the count that a worker has read is still the count when it commits.

*Locks.* If a set of transactions all wait for row locks of one another and none of them for a
connection, then a smallest such set is a cycle; so a hang without a cycle involves a transaction
that waits for a connection, and the pool has none. In a cycle without a RESERVE that asks for its
token, nobody asks for an account below those it has (`AsksInOrder`), so the accounts waited for
ascend along the waits (`WaitsAscend`), and no finite cycle can do that.

*Cluster.* `ElectionInv` says that the only node with the flag is the one `LeaderID` names, that an
election has taken the flag from every node it has looked at but the one it is at (`resetting`), and
that its candidate is up as long as it holds the lock.

**Only model-checked.** The seven liveness properties (`SettleReturns`, `FundsComeBack`, `Delivered`,
`SentIsApplied`, `RequestsEnd`, `ForwardingEnds`, `FailoverCompletes`): TLAPS does not
reason about fairness and ENABLED. The violations of `VStranded` and `VDeadlock` are counterexamples and
need no proof.

## 5. What is not modelled

- Cryptography, identity and intent checks: no shared state. Their outcome is a rejection that may
  always happen in `Validate`. The risk engine's Redis counters only make that rejection more likely.
- The reads of the financial validator between concurrent transactions: they change nothing. The
  agreement they look for is `AuditClean`, on one state.
- `Replay` and the snapshots of the event store: all events have version 1 and a snapshot is due every
  five versions, so none is written, and the server calls `Replay` nowhere.
- How error texts are classified: any category may result.
- The driver. `RunOnce` depends on it (section 3): commit and rollback are both modelled, and nothing is
  claimed that needs the commit.
- HTTP parsing and the rate limiter, configuration, metrics, logging, the mock Redis, and the load
  generators, which drive the services through the operations modelled here. The faults that
  `internal/chaos` switches on are those of `Faults`.

What could be added: an abstract channel that Delivery implements; runs of Cluster with two recoveries
or proposals at a time (its theorems hold for any number).
