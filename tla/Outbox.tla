------------------------------- MODULE Outbox -------------------------------
(***************************************************************************)
(* internal/outbox and the publishing half of internal/eventbus: a pool of *)
(* workers claims pending rows of outbox_events in a short transaction,    *)
(* publishes them to Redis streams outside of it, and records the outcome  *)
(* of each in a further transaction.  A row that has failed too often      *)
(* moves to dead_letter_events, from which an operator can replay it.      *)
(*                                                                         *)
(* A row is known by its event_id.  Its payload is a fact about a payment: *)
(* that it has been settled, or with which status an attempt failed.       *)
(***************************************************************************)
EXTENDS Integers, Sequences, FiniteSets

CONSTANTS
  Servers,      \* servers on the same database and Redis
  Workers,      \* their outbox workers (3 for each server in the code)
  Host,         \* Host[w]: the server worker w runs on
  Replayers,    \* concurrent requests to replay a dead letter
  Facts,        \* payloads the services announce, each once
  StreamOf,     \* StreamOf[f]: the stream fact f is announced on
  MaxEvents,    \* bound: how many outbox rows are ever inserted
  MaxRetries,   \* failed attempts after which a row is given up (5 in the code)
  BatchSize,    \* rows claimed at once (5 in the code)
  Faults        \* "redis" a Redis command fails, "redis_ack" one takes effect
                \* and is reported as failed, "db" a database operation fails,
                \* "crash" a server stops

ASSUME OutboxAssumption ==
  /\ MaxEvents \in Nat /\ MaxRetries \in Nat \ {0} /\ BatchSize \in Nat \ {0}
  /\ Host \in [Workers -> Servers]
  /\ StreamOf \in [Facts -> {"payment.settled", "payment.failed", "payment.recovery"}]
  /\ Faults \subseteq {"redis", "redis_ack", "db", "crash"}

VARIABLES
  row,       \* row[e]: status of outbox row e; "DELETED" once it is removed
  retries,   \* row[e]'s retry_count
  stream,    \* row[e]'s stream_name, "none" before the row is inserted
  payload,   \* row[e]'s payload
  lastId,    \* the last event_id drawn from the sequence
  dlq,       \* dead_letter_events, by the outbox row each one came from
  purged,    \* dead letters an operator has deleted
  batch,     \* batch[w]: claimed rows that worker w has not dealt with yet
  wpc,       \* wpc[w]: what worker w does with the first of them
  letter,    \* letter[r]: the dead letter request r has read, 0 for none
  log        \* log[s]: the entries of stream s, by their event_id

outboxVars == <<row, retries, stream, payload, lastId, dlq, purged, batch, wpc,
                letter, log>>

Events == 1 .. MaxEvents
Streams == {"payment.settled", "payment.failed", "payment.recovery", "payment.replayed"}
NoFact == "no_fact"

OutboxInit ==
  /\ row = [e \in Events |-> "NONE"]
  /\ retries = [e \in Events |-> 0]
  /\ stream = [e \in Events |-> "none"]
  /\ payload = [e \in Events |-> NoFact]
  /\ lastId = 0
  /\ dlq = {}
  /\ purged = {}
  /\ batch = [w \in Workers |-> {}]
  /\ wpc = [w \in Workers |-> "idle"]
  /\ letter = [r \in Replayers |-> 0]
  /\ log = [s \in Streams |-> <<>>]
-----------------------------------------------------------------------------
\* INSERT INTO outbox_events; the row starts PENDING with retry_count 0.
InsertRow(s, f) ==
  /\ lastId < MaxEvents
  /\ lastId' = lastId + 1
  /\ row' = [row EXCEPT ![lastId + 1] = "PENDING"]
  /\ stream' = [stream EXCEPT ![lastId + 1] = s]
  /\ payload' = [payload EXCEPT ![lastId + 1] = f]

\* A transaction of the settlement service that announces f commits.
Announce(f) ==
  /\ \A e \in Events : payload[e] # f
  /\ InsertRow(StreamOf[f], f)
  /\ UNCHANGED <<retries, dlq, purged, batch, wpc, letter, log>>

\* Broken variant of Pending: claimed rows are listed too.
PendingOrClaimed == {e \in Events : row[e] \in {"PENDING", "PROCESSING"}}

\* The rows GetPendingOutboxEventsForUpdate looks for.
Pending == {e \in Events : row[e] = "PENDING"}

\* The first BatchSize rows of a set, in the order of their ids.
FirstOf(S) == {e \in S : Cardinality({f \in S : f < e}) < BatchSize}

\* GetPendingOutboxEventsForUpdate: the first pending rows that no other claim
\* has locked become PROCESSING.  A claim that is rolled back hides the rows it
\* had locked from the claims running beside it.
Claim(w) ==
  /\ wpc[w] = "idle"
  /\ \E locked \in SUBSET Pending :
       /\ locked # {} => "db" \in Faults
       /\ LET claimed == FirstOf(Pending \ locked) IN
          /\ claimed # {}
          /\ row' = [e \in Events |-> IF e \in claimed THEN "PROCESSING" ELSE row[e]]
          /\ batch' = [batch EXCEPT ![w] = claimed]
          /\ wpc' = [wpc EXCEPT ![w] = "publish"]
  /\ UNCHANGED <<retries, stream, payload, lastId, dlq, purged, letter, log>>

\* The claimed row that worker w is at.
Current(w) == CHOOSE e \in batch[w] : \A f \in batch[w] : e <= f

\* Broken variant of AfterPublish: the error is not looked at.
AfterPublishUnchecked(ok) == "mark"

\* What processSingleEvent does next, by whether Publish returned an error.
AfterPublish(ok) == IF ok THEN "mark" ELSE "fail"

\* EventBus.Publish, XADD: the entry is added or not, and the worker is told so
\* or is told of an error.
PublishEvent(w) ==
  LET e == Current(w) IN
  /\ wpc[w] = "publish"
  /\ \E ok \in BOOLEAN :
       /\ \/ /\ ok \/ "redis_ack" \in Faults
             /\ log' = [log EXCEPT ![stream[e]] = Append(@, e)]
          \/ ~ok /\ "redis" \in Faults /\ UNCHANGED log
       /\ wpc' = [wpc EXCEPT ![w] = AfterPublish(ok)]
  /\ UNCHANGED <<row, retries, stream, payload, lastId, dlq, purged, batch, letter>>

\* Worker w goes on to the next row of its batch.
NextRow(w) ==
  /\ batch' = [batch EXCEPT ![w] = @ \ {Current(w)}]
  /\ wpc' = [wpc EXCEPT ![w] = IF batch[w] = {Current(w)} THEN "idle" ELSE "publish"]

\* MarkOutboxEventPublished; its error is only logged.
MarkPublished(w) ==
  /\ wpc[w] = "mark"
  /\ \/ row' = [row EXCEPT ![Current(w)] = "PUBLISHED"]
     \/ "db" \in Faults /\ UNCHANGED row
  /\ NextRow(w)
  /\ UNCHANGED <<retries, stream, payload, lastId, dlq, purged, letter, log>>

\* Broken variants of the last two below: a failed row that is not put back, and a
\* row that leaves without entering the dead letters.
StatusOnceFailed(e) == IF retries[e] + 1 >= MaxRetries THEN "DELETED" ELSE "PROCESSING"
DeadLettersLate(e) == IF retries[e] + 1 > MaxRetries THEN dlq \cup {e} ELSE dlq

\* MarkOutboxEventFailed: whether one more failure is one too many.
Exhausted(e) == retries[e] + 1 >= MaxRetries

\* The row is pending again or, in the same transaction, moves to the dead letters.
StatusAfterFailure(e) == IF Exhausted(e) THEN "DELETED" ELSE "PENDING"
DeadLettersAfterFailure(e) == IF Exhausted(e) THEN dlq \cup {e} ELSE dlq

\* The transaction after a failed publication.  Its error is only logged.
MarkFailed(w) ==
  LET e == Current(w) IN
  /\ wpc[w] = "fail"
  /\ \/ /\ retries' = [retries EXCEPT ![e] = @ + 1]
        /\ row' = [row EXCEPT ![e] = StatusAfterFailure(e)]
        /\ dlq' = DeadLettersAfterFailure(e)
     \/ "db" \in Faults /\ UNCHANGED <<retries, row, dlq>>
  /\ NextRow(w)
  /\ UNCHANGED <<stream, payload, lastId, purged, letter, log>>

\* Server v stops and starts again; its batches were in memory, and the rows in
\* them stay PROCESSING.
StopWorkers(v) ==
  /\ batch' = [w \in Workers |-> IF Host[w] = v THEN {} ELSE batch[w]]
  /\ wpc' = [w \in Workers |-> IF Host[w] = v THEN "idle" ELSE wpc[w]]
  /\ UNCHANGED <<row, retries, stream, payload, lastId, dlq, purged, letter, log>>

\* ReplayDLQEvent reads the dead letter on a connection of its own, outside the
\* transaction in which it then writes.
ReadDeadLetter(r, e) ==
  /\ letter[r] = 0
  /\ e \in dlq
  /\ letter' = [letter EXCEPT ![r] = e]
  /\ UNCHANGED <<row, retries, stream, payload, lastId, dlq, purged, batch, wpc, log>>

\* The payloads of the services do not name their stream, so the row goes to
\* payment.replayed.  Deleting a dead letter that is gone is no error.
ReturnToOutbox(r) ==
  /\ letter[r] # 0
  /\ \/ /\ InsertRow("payment.replayed", payload[letter[r]])
        /\ dlq' = dlq \ {letter[r]}
     \/ Faults \cap {"db", "crash"} # {} /\ UNCHANGED <<row, stream, payload, lastId, dlq>>
  /\ letter' = [letter EXCEPT ![r] = 0]
  /\ UNCHANGED <<retries, purged, batch, wpc, log>>

\* DELETE /dlq/:id.
DeleteDeadLetter(e) ==
  /\ e \in dlq
  /\ dlq' = dlq \ {e}
  /\ purged' = purged \cup {e}
  /\ UNCHANGED <<row, retries, stream, payload, lastId, batch, wpc, letter, log>>

WorkerStep(w) == Claim(w) \/ PublishEvent(w) \/ MarkPublished(w) \/ MarkFailed(w)
=============================================================================
