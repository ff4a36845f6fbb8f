----------------------------- MODULE Projection -----------------------------
(***************************************************************************)
(* The subscribing half of internal/eventbus and internal/projection: every*)
(* server reads the two payment streams as a consumer of one group and     *)
(* applies each entry to payment_read_projections, once per event_id.      *)
(*                                                                         *)
(* The handlers look up processed_events and the projection on connections *)
(* of their own, outside the transaction in which they then write.         *)
(***************************************************************************)
EXTENDS Outbox

CONSTANTS
  Payments,    \* ids of the payments that facts are about
  PaymentOf,   \* PaymentOf[f]: the payment fact f is about
  StatusOf,    \* StatusOf[f]: the status it announces
  ReadCount    \* entries read at once (10 in the code)

ASSUME ProjectionAssumption ==
  /\ PaymentOf \in [Facts -> Payments]
  /\ DOMAIN StatusOf = Facts
  /\ \A f \in Facts : StatusOf[f] = "SETTLED" <=> StreamOf[f] = "payment.settled"
  /\ \A f \in Facts : StatusOf[f] # "NONE"
  /\ ReadCount \in Nat \ {0}

VARIABLES
  cursor,      \* cursor[s]: how many entries of s the group has been given
  pending,     \* pending[s]: entries given to a consumer and not acknowledged
  inbox,       \* inbox[r]: entries reader r still has to handle, by position
  rpc,         \* rpc[r]: what reader r does with the first of them
  found,       \* found[r]: the projection r has read, to be written back
  proj,        \* payment_read_projections
  processed,   \* processed_events
  checkpoint   \* last_event_id of the projection's checkpoint

projectionVars == <<cursor, pending, inbox, rpc, found, proj, processed, checkpoint>>

\* A server runs one reader for each stream it subscribes to; nobody subscribes
\* to payment.recovery or payment.replayed.
Subscribed == {"payment.settled", "payment.failed"}
Readers == Servers \X Subscribed

\* A projection; details are the sender, the receiver and the amount.  The status
\* stands for relay_hops too, which every event writes together with it.
NoProjection == [status |-> "NONE", details |-> FALSE, settledAt |-> FALSE]

ProjectionInit ==
  /\ cursor = [s \in Subscribed |-> 0]
  /\ pending = [s \in Subscribed |-> {}]
  /\ inbox = [r \in Readers |-> {}]
  /\ rpc = [r \in Readers |-> "idle"]
  /\ found = [r \in Readers |-> NoProjection]
  /\ proj = [x \in Payments |-> NoProjection]
  /\ processed = {}
  /\ checkpoint = 0
-----------------------------------------------------------------------------
Goto(r, step) == rpc' = [rpc EXCEPT ![r] = step]

\* Broken variant of NewEntries: the group starts behind the first entry.
NewEntriesAfterFirst(s) == {p \in DOMAIN log[s] : p > 1 /\ p - cursor[s] \in 1 .. ReadCount}

\* ">": the next entries that no consumer of the group has been given, from the
\* first one of the stream on.  What was given and not acknowledged is not among
\* them.
NewEntries(s) == {p \in DOMAIN log[s] : p - cursor[s] \in 1 .. ReadCount}

\* XREADGROUP; its answer can be lost.
ReadGroup(r) ==
  LET s == r[2]
      new == NewEntries(s)
  IN  /\ rpc[r] = "idle"
      /\ new # {}
      /\ cursor' = [cursor EXCEPT ![s] = CHOOSE p \in new : \A q \in new : q <= p]
      /\ pending' = [pending EXCEPT ![s] = @ \cup new]
      /\ \/ inbox' = [inbox EXCEPT ![r] = new] /\ Goto(r, "check")
         \/ "redis_ack" \in Faults /\ UNCHANGED <<inbox, rpc>>
      /\ UNCHANGED <<found, proj, processed, checkpoint>>

\* The entry reader r is at, and the outbox row and fact it carries.
Position(r) == CHOOSE p \in inbox[r] : \A q \in inbox[r] : p <= q
EventAt(r) == log[r[2]][Position(r)]
FactAt(r) == payload[EventAt(r)]

\* Reader r goes on to the next entry.
NextEntry(r) ==
  /\ inbox' = [inbox EXCEPT ![r] = @ \ {Position(r)}]
  /\ Goto(r, IF inbox[r] = {Position(r)} THEN "idle" ELSE "check")

\* Broken variant of HandlerFails: the entry is acknowledged all the same.
HandlerFailsSilently(r) == "db" \in Faults /\ Goto(r, "ack") /\ UNCHANGED inbox

\* The handler returns an error: the entry is not acknowledged.
HandlerFails(r) == "db" \in Faults /\ NextEntry(r)

\* Broken variant of IsEventProcessed: only the checkpoint is compared.
IsEventProcessedLast(e) == e = checkpoint

\* The lookup in processed_events.
IsEventProcessed(e) == e \in processed

\* The handler of a processed event has nothing to do.
CheckProcessed(r) ==
  /\ rpc[r] = "check"
  /\ \/ Goto(r, IF IsEventProcessed(EventAt(r)) THEN "ack" ELSE "read") /\ UNCHANGED inbox
     \/ HandlerFails(r)
  /\ UNCHANGED <<cursor, pending, found, proj, processed, checkpoint>>

\* GetReadProjection; an error counts as a projection that does not exist.
ReadProjection(r) ==
  /\ rpc[r] = "read"
  /\ \/ found' = [found EXCEPT ![r] = proj[PaymentOf[FactAt(r)]]]
     \/ "db" \in Faults /\ found' = [found EXCEPT ![r] = NoProjection]
  /\ Goto(r, "write")
  /\ UNCHANGED <<cursor, pending, inbox, proj, processed, checkpoint>>

\* Broken variant of Upsert: a row that exists keeps its settled_at too.
UpsertStatus(x, status, details, settledAt) ==
  proj' = [proj EXCEPT ![x] = IF @.status # "NONE" THEN [@ EXCEPT !.status = status]
             ELSE [status |-> status, details |-> details, settledAt |-> settledAt]]

\* CreateOrUpdateReadProjection: a row that exists keeps its details.
Upsert(x, status, details, settledAt) ==
  proj' = [proj EXCEPT ![x] =
             [status |-> status,
              details |-> IF @.status = "NONE" THEN details ELSE @.details,
              settledAt |-> settledAt]]

\* The event is recorded, once, and becomes the checkpoint, even after a later one.
MarkEventProcessed(e) == processed' = processed \cup {e} /\ checkpoint' = e

\* The transaction of HandlePaymentSettled and HandlePaymentFailed writes back the
\* projection that was read, if there was one, with the new status.  The former
\* knows settled_at, and the details of a new projection; the latter neither.
WriteProjection(r) ==
  LET f == FactAt(r)
      settled == r[2] = "payment.settled"
      details == IF found[r].status = "NONE" THEN settled ELSE found[r].details
  IN  /\ rpc[r] = "write"
      /\ \/ /\ Upsert(PaymentOf[f], StatusOf[f], details, settled \/ found[r].settledAt)
            /\ MarkEventProcessed(EventAt(r))
            /\ found' = [found EXCEPT ![r] = NoProjection]
            /\ Goto(r, "ack")
            /\ UNCHANGED inbox
         \/ /\ HandlerFails(r)
            /\ found' = [found EXCEPT ![r] = NoProjection]
            /\ UNCHANGED <<proj, processed, checkpoint>>
      /\ UNCHANGED <<cursor, pending>>

\* XACK; its error is only logged.
Acknowledge(r) ==
  /\ rpc[r] = "ack"
  /\ \/ pending' = [pending EXCEPT ![r[2]] = @ \ {Position(r)}]
     \/ "redis" \in Faults /\ UNCHANGED pending
  /\ NextEntry(r)
  /\ UNCHANGED <<cursor, found, proj, processed, checkpoint>>

\* Server v stops and starts again; what it was given stays unacknowledged.  A
\* reader that cannot create the group when it subscribes does not run at all.
StopReaders(v) ==
  /\ inbox' = [r \in Readers |-> IF r[1] = v THEN {} ELSE inbox[r]]
  /\ found' = [r \in Readers |-> IF r[1] = v THEN NoProjection ELSE found[r]]
  /\ \E off \in SUBSET ({v} \X Subscribed) :
       /\ off # {} => "redis" \in Faults
       /\ rpc' = [r \in Readers |-> IF r \in off THEN "off"
                                   ELSE IF r[1] = v THEN "idle" ELSE rpc[r]]
  /\ UNCHANGED <<cursor, pending, proj, processed, checkpoint>>

ReaderStep(r) ==
  \/ ReadGroup(r) \/ CheckProcessed(r) \/ ReadProjection(r) \/ WriteProjection(r)
  \/ Acknowledge(r)
=============================================================================
