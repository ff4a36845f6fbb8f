------------------------------ MODULE Delivery ------------------------------
(***************************************************************************)
(* From the outbox to the read model: the workers, the streams, the        *)
(* projection readers and the dead letters of one or more servers, and the *)
(* properties of the delivery as a whole.                                  *)
(***************************************************************************)
EXTENDS Projection

vars == <<outboxVars, projectionVars>>

Init == OutboxInit /\ ProjectionInit

\* A server stops, with its workers and its readers.
CrashServer(v) == "crash" \in Faults /\ StopWorkers(v) /\ StopReaders(v)

Next ==
  \/ \E f \in Facts : Announce(f) /\ UNCHANGED projectionVars
  \/ \E w \in Workers : WorkerStep(w) /\ UNCHANGED projectionVars
  \/ \E r \in Replayers, e \in Events : ReadDeadLetter(r, e) /\ UNCHANGED projectionVars
  \/ \E r \in Replayers : ReturnToOutbox(r) /\ UNCHANGED projectionVars
  \/ \E e \in Events : DeleteDeadLetter(e) /\ UNCHANGED projectionVars
  \/ \E r \in Readers : ReaderStep(r) /\ UNCHANGED outboxVars
  \/ \E v \in Servers : CrashServer(v)

Spec == Init /\ [][Next]_vars

\* The tickers of the workers keep firing and the readers keep asking Redis.
\* Nobody is obliged to announce, to replay or to delete anything.
Fairness ==
  /\ \A w \in Workers : WF_vars(WorkerStep(w) /\ UNCHANGED projectionVars)
  /\ \A r \in Readers : WF_vars(ReaderStep(r) /\ UNCHANGED outboxVars)

FairSpec == Spec /\ Fairness
-----------------------------------------------------------------------------
\* A row is worked on by one worker at a time, and is PROCESSING as long as it
\* is: claims that run beside each other, claims of rows that were put back and
\* claims after a crash never hand the same row to two workers (SKIP LOCKED,
\* ADR-007).
OneClaimant ==
  \A w \in Workers : \A e \in batch[w] :
    /\ row[e] = "PROCESSING"
    /\ \A u \in Workers \ {w} : e \notin batch[u]

\* An announcement is never lost: what left the outbox is a dead letter, was
\* deleted by an operator, or is in the outbox again as a later row.
NothingVanishes ==
  \A e \in Events :
    row[e] = "DELETED" =>
      \/ e \in dlq \cup purged
      \/ \E f \in Events : f > e /\ payload[f] = payload[e]

\* A row that says PUBLISHED has an entry in its stream, whatever failed or
\* crashed on the way.
PublishedWasSent ==
  \A e \in Events :
    row[e] = "PUBLISHED" => \E i \in DOMAIN log[stream[e]] : log[stream[e]][i] = e

\* An entry the group has acknowledged has been applied to the projection: a
\* handler that fails, a read whose answer is lost and a crash between the
\* commit and XACK never acknowledge anything unprocessed.
AcknowledgedWasProcessed ==
  \A s \in Subscribed : \A p \in 1 .. cursor[s] :
    p \notin pending[s] => log[s][p] \in processed

\* The announcements about payment x that have been applied, by status.
Applied(x, S) == {e \in processed : PaymentOf[payload[e]] = x /\ StatusOf[payload[e]] \in S}

\* A projection shows nothing that was not announced: its status is that of an
\* applied announcement, it has settled_at only if a settlement was applied, and
\* it shows SETTLED only with settled_at.  The handlers write back a settled_at
\* they have read outside of their transaction.
ProjectionFromEvents ==
  \A x \in Payments :
    /\ proj[x].status # "NONE" => Applied(x, {proj[x].status}) # {}
    /\ proj[x].settledAt => Applied(x, {"SETTLED"}) # {}
    /\ proj[x].status = "SETTLED" => proj[x].settledAt

\* Every announcement changes the projection at most once, though its row may
\* be in the stream several times (the test of ConsumerIdempotency): with one
\* server, a step that changes the projection records a new processed event.
AppliedOnce == [][proj' # proj => processed # processed']_vars
-----------------------------------------------------------------------------
\* A pending row is eventually published or given up (ADR-007, "retried ... and
\* eventually routed to a Dead Letter Queue"), as long as its workers run.
Delivered == \A e \in Events : row[e] = "PENDING" ~> row[e] \in {"PUBLISHED", "DELETED"}

\* What has reached a subscribed stream is eventually applied.
SentIsApplied ==
  \A s \in Subscribed : \A e \in Events :
    (\E i \in DOMAIN log[s] : log[s][i] = e) ~> e \in processed
=============================================================================
