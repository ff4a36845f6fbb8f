------------------------------ MODULE Rebuild -------------------------------
(***************************************************************************)
(* The event store and cmd/rebuild, the tool that recomputes the read model*)
(* from it, beside a server whose projection readers write the same tables:*)
(* the tool takes no lock against them.                                    *)
(*                                                                         *)
(* payment_events holds a row for each fact the services announce.  A      *)
(* settlement is announced and stored in one transaction (PUBLISH), a      *)
(* failure in two statements (saveFailedIntent), and the diagnosis of a    *)
(* failure in one transaction after those (RecordFailure).  Every event has*)
(* version 1, so no snapshot is ever due.                                  *)
(***************************************************************************)
EXTENDS Delivery

VARIABLES
  store,       \* payment_events, in the order of event_id
  owed,        \* announced failures whose event is still to be stored
  tool,        \* what cmd/rebuild does next
  cached,      \* the projections it has read first
  listed,      \* the number of events it has listed
  pos,         \* the event it is at
  saw,         \* the projection of that event's payment, as it has read it
  whole,       \* history: the tables have been filled again since the last TRUNCATE
  quiet        \* history: since the tool started nobody else has written the
               \* projections or the event store

toolVars == <<tool, cached, listed, pos, saw, whole>>
rebuildVars == <<vars, store, owed, toolVars, quiet>>

NoCache == [x \in Payments |-> NoProjection]

RebuildInit ==
  /\ Init
  /\ store = <<>> /\ owed = {}
  /\ tool = "off" /\ cached = NoCache /\ listed = 0 /\ pos = 1 /\ saw = NoProjection
  /\ whole = TRUE /\ quiet = FALSE
-----------------------------------------------------------------------------
\* SaveEventAndSnapshot, CreatePaymentEvent.
SaveEvent(f) == store' = Append(store, f)

\* PUBLISH commits.
PublishSettled(f) ==
  /\ StreamOf[f] = "payment.settled"
  /\ Announce(f) /\ SaveEvent(f)
  /\ UNCHANGED owed

\* saveFailedIntent: the outbox row is there before the event is.
AnnounceFailed(f) ==
  /\ StreamOf[f] = "payment.failed"
  /\ Announce(f)
  /\ owed' = owed \cup {f}
  /\ UNCHANGED store

\* The events of payment x.
EventsOf(x) == {i \in DOMAIN store : PaymentOf[store[i]] = x}

\* The foreign key of payment_events refuses the event of a payment without an
\* intent row; one that has events has had a row since, which they protect.
SaveFailedEvent(f) ==
  /\ f \in owed
  /\ owed' = owed \ {f}
  /\ \/ SaveEvent(f)
     \/ EventsOf(PaymentOf[f]) = {} /\ UNCHANGED store
  /\ UNCHANGED outboxVars

\* RecordFailure and appendDecision, for a payment that has an intent row: once
\* for each payment, by the idempotency key of recovery_operations.
RecordFailure(f) ==
  /\ StreamOf[f] = "payment.recovery"
  /\ \E i \in EventsOf(PaymentOf[f]) : StreamOf[store[i]] = "payment.failed"
  /\ Announce(f) /\ SaveEvent(f)
  /\ UNCHANGED owed

Services(f) ==
  \/ PublishSettled(f) \/ AnnounceFailed(f) \/ SaveFailedEvent(f) \/ RecordFailure(f)
-----------------------------------------------------------------------------
\* The projections are read into memory.
CacheProjections ==
  /\ tool = "off"
  /\ cached' = proj
  /\ quiet' = TRUE
  /\ tool' = "truncate"
  /\ UNCHANGED <<proj, checkpoint, listed, pos, saw, whole>>

\* TRUNCATE TABLE payment_read_projections; processed_events stays as it is.
Truncate ==
  /\ tool = "truncate"
  /\ proj' = NoCache
  /\ whole' = FALSE
  /\ tool' = "reset"
  /\ UNCHANGED <<checkpoint, cached, listed, pos, saw, quiet>>

ResetCheckpoint ==
  /\ tool = "reset"
  /\ checkpoint' = 0
  /\ tool' = "list"
  /\ UNCHANGED <<proj, cached, listed, pos, saw, whole, quiet>>

\* Broken variant of AllEvents: LIMIT cuts off the last one.
AllEventsButLast == IF Len(store) > 0 THEN Len(store) - 1 ELSE 0

\* GetAllPaymentEvents, in the order of event_id.
AllEvents == Len(store)

ListEvents ==
  /\ tool = "list"
  /\ listed' = AllEvents
  /\ pos' = 1
  /\ tool' = "replay"
  /\ UNCHANGED <<proj, checkpoint, cached, saw, whole, quiet>>

\* The transaction of an event starts with a look at the projection, on another
\* connection.  A diagnosis is skipped, and so is its checkpoint.
ReplayEvent ==
  /\ tool = "replay" /\ pos <= listed
  /\ IF StreamOf[store[pos]] = "payment.recovery"
     THEN pos' = pos + 1 /\ UNCHANGED <<saw, tool>>
     ELSE saw' = proj[PaymentOf[store[pos]]] /\ tool' = "write" /\ UNCHANGED pos
  /\ UNCHANGED <<proj, checkpoint, cached, listed, whole, quiet>>

\* Broken variant of Replayed: a failure clears settled_at.
ReplayedFailureClears(f) ==
  LET settled == StreamOf[f] = "payment.settled"
  IN  Upsert(PaymentOf[f], StatusOf[f], settled \/ saw.details, settled)

\* IntentSettled brings everything, IntentFailed the status only.
Replayed(f) ==
  LET settled == StreamOf[f] = "payment.settled"
  IN  Upsert(PaymentOf[f], StatusOf[f], settled \/ saw.details, settled \/ saw.settledAt)

WriteEvent ==
  /\ tool = "write"
  /\ Replayed(store[pos])
  /\ checkpoint' = pos
  /\ pos' = pos + 1
  /\ saw' = NoProjection
  /\ tool' = "replay"
  /\ UNCHANGED <<cached, listed, whole, quiet>>

\* The payments a read model shows.
Shown(p) == {x \in Payments : p[x].status # "NONE"}

\* Broken variant of Verified: only the numbers are compared.
VerifiedNumber(p) == Shown(cached) = {} \/ Cardinality(Shown(cached)) = Cardinality(Shown(p))

\* What was shown before is shown again, and not more; anything is good enough if
\* nothing was shown.  settled_at is not compared; relay_hops is, and stands with
\* the status (see NoProjection).
Verified(p) ==
  /\ Shown(cached) = {} \/ Cardinality(Shown(cached)) = Cardinality(Shown(p))
  /\ \A x \in Shown(cached) : p[x].status = cached[x].status /\ p[x].details = cached[x].details

VerifyProjections ==
  /\ tool = "replay" /\ pos > listed
  /\ tool' = IF Verified(proj) THEN "checkpoint" ELSE "rejected"
  /\ whole' = TRUE
  /\ UNCHANGED <<proj, checkpoint, cached, listed, pos, saw, quiet>>

\* Broken variant of VerifyCheckpoint: the highest event_id of the outbox instead.
VerifyCheckpointOutbox ==
  /\ tool = "checkpoint"
  /\ tool' = IF checkpoint = lastId THEN "accepted" ELSE "rejected"
  /\ UNCHANGED <<proj, checkpoint, cached, listed, pos, saw, whole, quiet>>

\* The checkpoint must be the highest event_id of the list.
VerifyCheckpoint ==
  /\ tool = "checkpoint"
  /\ tool' = IF checkpoint = listed THEN "accepted" ELSE "rejected"
  /\ UNCHANGED <<proj, checkpoint, cached, listed, pos, saw, whole, quiet>>

\* The tool ends, with a verdict or because a query has failed or it was stopped.
\* It can be started again.
Exit ==
  /\ tool # "off"
  /\ tool' = "off"
  /\ cached' = NoCache /\ listed' = 0 /\ pos' = 1 /\ saw' = NoProjection
  /\ quiet' = FALSE
  /\ UNCHANGED <<proj, checkpoint, whole>>

RebuildStep ==
  /\ \/ CacheProjections \/ Truncate \/ ResetCheckpoint \/ ListEvents \/ ReplayEvent
     \/ WriteEvent \/ VerifyProjections \/ VerifyCheckpoint \/ Exit
  /\ UNCHANGED <<outboxVars, cursor, pending, inbox, rpc, found, processed, store, owed>>

ServerStep ==
  /\ \/ \E f \in Facts : Services(f) /\ UNCHANGED projectionVars
     \/ \E w \in Workers : WorkerStep(w) /\ UNCHANGED <<projectionVars, store, owed>>
     \/ \E r \in Readers : ReaderStep(r) /\ UNCHANGED <<outboxVars, store, owed>>
  /\ quiet' = (quiet /\ UNCHANGED <<proj, processed, checkpoint, store>>)
  /\ UNCHANGED toolVars

RebuildNext == ServerStep \/ RebuildStep

RebuildSpec == RebuildInit /\ [][RebuildNext]_rebuildVars
-----------------------------------------------------------------------------
\* The projection of payment x that the stored events amount to: the status of
\* the last one, with sender, receiver and amount if the first one knew them, and
\* settled_at if there is a settlement.
FromEvents(x) ==
  LET about == {i \in EventsOf(x) : StreamOf[store[i]] # "payment.recovery"}
      first == CHOOSE i \in about : \A j \in about : i <= j
      last == CHOOSE i \in about : \A j \in about : j <= i
  IN  IF about = {} THEN NoProjection
      ELSE [status |-> StatusOf[store[last]],
            details |-> StreamOf[store[first]] = "payment.settled",
            settledAt |-> \E i \in about : StreamOf[store[i]] = "payment.settled"]

\* An undisturbed rebuild recomputes the read model from the event store alone,
\* whatever the tables showed before and wherever an earlier rebuild was stopped.
RebuiltFromEvents ==
  quiet /\ tool \in {"checkpoint", "accepted"} => \A x \in Payments : proj[x] = FromEvents(x)

\* A payment whose settlement the readers have applied is still in the read model
\* after a rebuild, though the readers go on writing all the while and never apply
\* it again: the events are listed after the tables have been emptied.
SettledSurvivesRebuild ==
  whole => \A e \in processed :
             StreamOf[payload[e]] = "payment.settled" => proj[PaymentOf[payload[e]]].status # "NONE"

\* SUCCESS of an undisturbed rebuild ("All projections verified!") means that the
\* read model had agreed with the event store on every payment it had shown.
AcceptedWasConsistent ==
  quiet /\ tool = "accepted" =>
    \A x \in Shown(cached) : /\ cached[x].status = FromEvents(x).status
                             /\ cached[x].details = FromEvents(x).details

\* An undisturbed rebuild is rejected only if the read model had not shown what
\* the events amount to, or if the last event is a diagnosis, which leaves the
\* checkpoint behind the highest event_id.
RejectedForAReason ==
  quiet /\ tool = "rejected" =>
    \/ \E x \in Payments : [cached[x] EXCEPT !.settledAt = FALSE] # [FromEvents(x) EXCEPT !.settledAt = FALSE]
    \/ store # <<>> /\ StreamOf[store[Len(store)]] = "payment.recovery"
=============================================================================
