--------------------------- MODULE DeliveryProofs ---------------------------
(***************************************************************************)
(* From the outbox to the read model, for any number of servers, workers,  *)
(* replay requests and announcements, all batch sizes and limits, and      *)
(* every combination of faults.                                            *)
(***************************************************************************)
EXTENDS Delivery, WellFoundedInduction, TLAPS

\* A set of numbers has a least one: the row a worker is at, and the entry a
\* reader is at, are among those it was given.
LEMMA LeastNumber ==
  ASSUME NEW S \in SUBSET Nat, S # {}
  PROVE  \E m \in S : \A n \in S : m <= n
<1> DEFINE R == OpToRel(<, Nat)
<1>1. PICK m \in S : \A n \in S : ~(<<n, m>> \in R)
  <2>1. IsWellFoundedOn(R, Nat)
    BY NatLessThanWellFounded, Zenon
  <2> HIDE DEF R
  <2> QED BY <2>1, WFMin, Zenon
<1>2. \A n \in S : ~(n < m)
  BY <1>1, Zenon DEF OpToRel
<1> QED BY <1>2

\* What an append does to a stream.
LEMMA Appended ==
  ASSUME NEW S, NEW q \in Seq(S), NEW e \in S
  PROVE  /\ Append(q, e) \in Seq(S)
         /\ DOMAIN Append(q, e) = 1 .. Len(q) + 1 /\ DOMAIN q = 1 .. Len(q) /\ Len(q) \in Nat
         /\ \A i \in DOMAIN q : Append(q, e)[i] = q[i]
         /\ Append(q, e)[Len(q) + 1] = e
OBVIOUS
-----------------------------------------------------------------------------
(***************************************************************************)
(* The outbox                                                              *)
(***************************************************************************)
OutboxTypeOK ==
  /\ row \in [Events -> {"NONE", "PENDING", "PROCESSING", "PUBLISHED", "DELETED"}]
  /\ stream \in [Events -> Streams \cup {"none"}]
  /\ payload \in [Events -> Facts \cup {NoFact}]
  /\ lastId \in Nat /\ lastId <= MaxEvents
  /\ dlq \subseteq Events
  /\ batch \in [Workers -> SUBSET Events]
  /\ wpc \in [Workers -> {"idle", "publish", "mark", "fail"}]
  /\ letter \in [Replayers -> {0} \cup Events]
  /\ log \in [Streams -> Seq(Events)]

\* The rows of outbox_events are those with an id drawn so far.  A row is in the
\* stream of its announcement, or was returned from the dead letters.
RowsAreNumbered ==
  /\ \A e \in Events :
       /\ row[e] # "NONE" <=> e <= lastId
       /\ e <= lastId => /\ stream[e] \in Streams /\ payload[e] \in Facts
                         /\ stream[e] # "payment.replayed" => StreamOf[payload[e]] = stream[e]
  /\ \A e \in dlq : e <= lastId
  /\ \A r \in Replayers : letter[r] <= lastId

\* A worker is idle exactly when its batch is done.
BusyHasBatch == \A w \in Workers : wpc[w] = "idle" <=> batch[w] = {}

\* An entry of a stream carries a row that belongs there.
EntriesAreRows ==
  \A s \in Streams : \A i \in DOMAIN log[s] : log[s][i] <= lastId /\ stream[log[s][i]] = s

Sent(e) == \E i \in DOMAIN log[stream[e]] : log[stream[e]][i] = e

\* A worker marks a row PUBLISHED after it has sent it.
MarkAfterSend == \A w \in Workers : wpc[w] = "mark" => Sent(Current(w))

\* NothingVanishes with a row that exists: an id that is still to be drawn says
\* nothing.
LeftIsAccounted ==
  \A e \in Events :
    row[e] = "DELETED" =>
      \/ e \in dlq \cup purged
      \/ \E f \in Events : f > e /\ f <= lastId /\ payload[f] = payload[e]

OutboxInv ==
  /\ OutboxTypeOK /\ RowsAreNumbered /\ BusyHasBatch /\ EntriesAreRows
  /\ OneClaimant /\ MarkAfterSend /\ PublishedWasSent /\ LeftIsAccounted

\* What a step of the outbox never does to rows and streams: ids are drawn in
\* order, a row keeps its stream and its payload, and a stream keeps its entries.
Grows ==
  /\ lastId <= lastId'
  /\ \A e \in Events : e <= lastId => stream'[e] = stream[e] /\ payload'[e] = payload[e]
  /\ \A s \in Streams : /\ DOMAIN log[s] \subseteq DOMAIN log'[s]
                        /\ \A i \in DOMAIN log[s] : log'[s][i] = log[s][i]

\* A busy worker is at a row of its batch, which is PROCESSING and nobody else's.
LEMMA CurrentIsClaimed ==
  ASSUME OutboxInv, NEW w \in Workers, wpc[w] # "idle"
  PROVE  /\ Current(w) \in batch[w] /\ Current(w) \in Events
         /\ row[Current(w)] = "PROCESSING" /\ Current(w) <= lastId
         /\ \A u \in Workers \ {w} : Current(w) \notin batch[u]
<1>1. batch[w] # {} /\ batch[w] \in SUBSET Nat /\ batch[w] \subseteq Events
  BY DEF OutboxInv, OutboxTypeOK, BusyHasBatch, Events
<1>2. Current(w) \in batch[w]
  BY <1>1, LeastNumber, Zenon DEF Current
<1> QED BY <1>1, <1>2, Zenon DEF OutboxInv, OneClaimant, RowsAreNumbered

\* A row that has been sent stays sent.
LEMMA SentForGood ==
  ASSUME OutboxInv, Grows, NEW e \in Events, e <= lastId, Sent(e)
  PROVE  Sent(e)'
<1>1. stream'[e] = stream[e] /\ stream[e] \in Streams
  BY Zenon DEF Grows, OutboxInv, RowsAreNumbered
<1> QED BY <1>1, Zenon DEF Grows, Sent

\* INSERT INTO outbox_events, for an announcement or for a dead letter.
LEMMA InsertKeeps ==
  ASSUME OutboxInv, NEW s \in Streams, NEW f \in Facts, InsertRow(s, f),
         s # "payment.replayed" => StreamOf[f] = s,
         UNCHANGED <<purged, batch, wpc, log>>,
         dlq' \subseteq dlq, \A e \in dlq \ dlq' : payload[e] = f,
         letter' \in [Replayers -> {0} \cup Events], \A r \in Replayers : letter'[r] <= lastId
  PROVE  OutboxInv' /\ Grows
<1> DEFINE n == lastId + 1
<1>1. /\ n \in Events /\ lastId \in Nat /\ lastId' = n /\ n <= MaxEvents /\ MaxEvents \in Nat
      /\ row' = [row EXCEPT ![n] = "PENDING"]
      /\ stream' = [stream EXCEPT ![n] = s]
      /\ payload' = [payload EXCEPT ![n] = f]
  BY OutboxAssumption DEF InsertRow, OutboxInv, OutboxTypeOK, Events
<1> HIDE DEF n
<1>2. /\ \A e \in Events \ {n} : row'[e] = row[e] /\ stream'[e] = stream[e] /\ payload'[e] = payload[e]
      /\ row'[n] = "PENDING" /\ stream'[n] = s /\ payload'[n] = f
  BY <1>1, Zenon DEF OutboxInv, OutboxTypeOK
<1>3. \A e \in Events : e <= n <=> e <= lastId \/ e = n
  BY <1>1 DEF n, Events
<1>4. n = lastId + 1
  BY Zenon DEF n
<1>5. OutboxTypeOK'
  <2>1. lastId' \in Nat /\ lastId' <= MaxEvents
    BY <1>1, <1>4
  <2>2. row' \in [Events -> {"NONE", "PENDING", "PROCESSING", "PUBLISHED", "DELETED"}]
    BY <1>1, Zenon DEF OutboxInv, OutboxTypeOK
  <2>3. stream' \in [Events -> Streams \cup {"none"}] /\ payload' \in [Events -> Facts \cup {NoFact}]
    BY <1>1, Zenon DEF OutboxInv, OutboxTypeOK
  <2> QED BY <2>1, <2>2, <2>3, Zenon DEF OutboxInv, OutboxTypeOK
<1>6. Grows
  BY <1>1, <1>2, <1>4 DEF Grows, Events
<1>7. RowsAreNumbered'
  <2>1. \A r \in Replayers : letter'[r] <= n
    BY <1>1, <1>4 DEF Events
  <2>2. \A e \in dlq' : e <= n
    BY <1>3, Zenon DEF OutboxInv, RowsAreNumbered, OutboxTypeOK
  <2> QED BY <1>1, <1>2, <1>3, <2>1, <2>2 DEF OutboxInv, RowsAreNumbered
<1>8. BusyHasBatch' /\ OneClaimant'
  <2>1. row[n] = "NONE"
    BY <1>1, <1>4 DEF OutboxInv, RowsAreNumbered
  <2> QED BY <1>2, <2>1 DEF OutboxInv, BusyHasBatch, OneClaimant, OutboxTypeOK
<1>9. EntriesAreRows'
  <2>1. ASSUME NEW u \in Streams, NEW i \in DOMAIN log[u]
        PROVE  log[u][i] \in Events /\ log[u][i] <= lastId /\ stream[log[u][i]] = u
    BY DEF OutboxInv, OutboxTypeOK, EntriesAreRows
  <2> QED BY <1>1, <1>3, <1>6, <2>1 DEF EntriesAreRows, Grows
<1>10. MarkAfterSend'
  <2> SUFFICES ASSUME NEW w \in Workers, wpc[w] = "mark" PROVE Sent(Current(w))'
    BY Zenon DEF MarkAfterSend
  <2>1. Sent(Current(w)) /\ Current(w) \in Events /\ Current(w) <= lastId
    BY CurrentIsClaimed, Zenon DEF OutboxInv, MarkAfterSend
  <2>2. Current(w)' = Current(w)
    BY Zenon DEF Current
  <2> QED BY <1>6, <2>1, <2>2, SentForGood DEF Sent
<1>11. PublishedWasSent'
  <2> SUFFICES ASSUME NEW e \in Events, row'[e] = "PUBLISHED" PROVE Sent(e)'
    BY Zenon DEF PublishedWasSent, Sent
  <2>1. row[e] = "PUBLISHED" /\ e <= lastId
    BY <1>2, Zenon DEF OutboxInv, RowsAreNumbered
  <2> QED BY <1>6, <2>1, SentForGood, Zenon DEF OutboxInv, PublishedWasSent, Sent
<1>12. LeftIsAccounted'
  <2> SUFFICES ASSUME NEW e \in Events, row'[e] = "DELETED"
               PROVE  \/ e \in dlq' \cup purged'
                      \/ \E g \in Events : g > e /\ g <= n /\ payload'[g] = payload'[e]
    BY <1>1, Zenon DEF LeftIsAccounted
  <2>1. row[e] = "DELETED" /\ e <= lastId /\ e # n /\ payload'[e] = payload[e] /\ n > e
    BY <1>1, <1>2, <1>4 DEF OutboxInv, RowsAreNumbered, Events
  <2>2. CASE e \in dlq \ dlq'
    <3>1. payload'[n] = payload'[e] /\ n <= n
      BY <1>1, <1>2, <1>4, <2>1, <2>2
    <3> QED BY <1>1, <2>1, <3>1, Zenon
  <2>3. CASE \E g \in Events : g > e /\ g <= lastId /\ payload[g] = payload[e]
    <3>1. PICK g \in Events : g > e /\ g <= lastId /\ payload[g] = payload[e]
      BY <2>3, Zenon
    <3>2. g # n /\ g <= n
      BY <1>1, <1>3, <1>4, <3>1
    <3> QED BY <1>2, <2>1, <3>1, <3>2, Zenon
  <2>4. CASE e \in dlq' \cup purged
    BY <2>4, Zenon
  <2> QED BY <2>1, <2>2, <2>3, <2>4, Zenon DEF OutboxInv, LeftIsAccounted
<1> QED BY <1>5, <1>6, <1>7, <1>8, <1>9, <1>10, <1>11, <1>12, Zenon DEF OutboxInv

\* A step that leaves the announcements, the streams' entries and every worker
\* that is about to mark a row as they were.
LEMMA WorkerKeeps ==
  ASSUME OutboxInv, OutboxTypeOK', UNCHANGED <<stream, payload, lastId, log>>,
         \A e \in Events : row'[e] = "NONE" <=> row[e] = "NONE",
         \A e \in dlq' : e <= lastId, \A r \in Replayers : letter'[r] <= lastId,
         \A w \in Workers : wpc'[w] = "mark" => wpc[w] = "mark" /\ batch'[w] = batch[w]
  PROVE  RowsAreNumbered' /\ EntriesAreRows' /\ MarkAfterSend' /\ Grows
<1>1. RowsAreNumbered' /\ EntriesAreRows'
  BY DEF OutboxInv, RowsAreNumbered, EntriesAreRows
<1>2. Grows
  BY DEF OutboxInv, OutboxTypeOK, Grows
<1>3. MarkAfterSend'
  <2> SUFFICES ASSUME NEW w \in Workers, wpc'[w] = "mark" PROVE Sent(Current(w))'
    BY Zenon DEF MarkAfterSend
  <2>1. Sent(Current(w)) /\ Current(w)' = Current(w)
    BY Zenon DEF OutboxInv, MarkAfterSend, Current
  <2> QED BY <2>1, Zenon DEF Sent
<1> QED BY <1>1, <1>2, <1>3, Zenon

\* GetPendingOutboxEventsForUpdate.
LEMMA ClaimKeeps ==
  ASSUME OutboxInv, NEW w \in Workers, Claim(w)
  PROVE  OutboxInv' /\ Grows
<1>1. PICK locked \in SUBSET Pending :
        LET claimed == FirstOf(Pending \ locked) IN
          /\ claimed # {}
          /\ row' = [e \in Events |-> IF e \in claimed THEN "PROCESSING" ELSE row[e]]
          /\ batch' = [batch EXCEPT ![w] = claimed]
          /\ wpc' = [wpc EXCEPT ![w] = "publish"]
  BY Zenon DEF Claim
<1> DEFINE C == FirstOf(Pending \ locked)
<1>2. C \subseteq Events /\ C # {} /\ \A e \in C : row[e] = "PENDING"
  BY <1>1, Zenon DEF FirstOf, Pending
<1>3. /\ row' = [e \in Events |-> IF e \in C THEN "PROCESSING" ELSE row[e]]
      /\ batch' = [batch EXCEPT ![w] = C]
      /\ wpc' = [wpc EXCEPT ![w] = "publish"]
      /\ UNCHANGED <<stream, payload, lastId, dlq, purged, letter, log>>
      /\ wpc[w] = "idle"
  BY <1>1, Zenon DEF Claim
<1> HIDE DEF C
<1>4. OutboxTypeOK'
  BY <1>2, <1>3, Zenon DEF OutboxInv, OutboxTypeOK
<1>5. RowsAreNumbered' /\ EntriesAreRows' /\ MarkAfterSend' /\ Grows
  <2>1. \A e \in Events : row'[e] = "NONE" <=> row[e] = "NONE"
    BY <1>2, <1>3, Zenon
  <2>2. (\A e \in dlq' : e <= lastId) /\ \A r \in Replayers : letter'[r] <= lastId
    BY <1>3, Zenon DEF OutboxInv, RowsAreNumbered
  <2>3. \A u \in Workers : wpc'[u] = "mark" => wpc[u] = "mark" /\ batch'[u] = batch[u]
    BY <1>3, Zenon DEF OutboxInv, OutboxTypeOK
  <2> QED BY <1>3, <1>4, <2>1, <2>2, <2>3, WorkerKeeps, Zenon
<1>6. BusyHasBatch'
  BY <1>2, <1>3, Zenon DEF OutboxInv, BusyHasBatch, OutboxTypeOK
<1>7. OneClaimant'
  BY <1>2, <1>3 DEF OutboxInv, OneClaimant, OutboxTypeOK
<1>8. PublishedWasSent'
  BY <1>2, <1>3, Zenon DEF OutboxInv, PublishedWasSent
<1>9. LeftIsAccounted'
  BY <1>2, <1>3, Zenon DEF OutboxInv, LeftIsAccounted
<1> QED BY <1>4, <1>5, <1>6, <1>7, <1>8, <1>9, Zenon DEF OutboxInv

\* EventBus.Publish: the entry goes to the stream of the row.
LEMMA PublishKeeps ==
  ASSUME OutboxInv, NEW w \in Workers, PublishEvent(w)
  PROVE  OutboxInv' /\ Grows
<1> DEFINE e == Current(w)
           t == stream[e]
           q == log[t]
<1>1. /\ wpc[w] = "publish" /\ e \in Events /\ e <= lastId /\ e \in batch[w]
      /\ UNCHANGED <<row, stream, payload, lastId, dlq, purged, batch, letter>>
  BY CurrentIsClaimed, Zenon DEF PublishEvent
<1>2. t \in Streams /\ q \in Seq(Events)
  BY <1>1, Zenon DEF OutboxInv, OutboxTypeOK, RowsAreNumbered
<1>3. PICK ok \in BOOLEAN :
        /\ \/ /\ ok \/ "redis_ack" \in Faults
              /\ log' = [log EXCEPT ![t] = Append(q, e)]
           \/ ~ok /\ "redis" \in Faults /\ UNCHANGED log
        /\ wpc' = [wpc EXCEPT ![w] = AfterPublish(ok)]
  BY Zenon DEF PublishEvent
<1>4. wpc'[w] = "mark" => ok
  BY <1>3, Zenon DEF AfterPublish, OutboxInv, OutboxTypeOK
<1>5. wpc' \in [Workers -> {"idle", "publish", "mark", "fail"}] /\ wpc'[w] \in {"mark", "fail"}
  BY <1>3, Zenon DEF AfterPublish, OutboxInv, OutboxTypeOK
<1>6. /\ log' \in [Streams -> Seq(Events)]
      /\ \A s \in Streams : /\ DOMAIN log[s] \subseteq DOMAIN log'[s]
                            /\ \A i \in DOMAIN log[s] : log'[s][i] = log[s][i]
                            /\ \A i \in DOMAIN log'[s] :
                                 i \in DOMAIN log[s] \/ (s = t /\ log'[s][i] = e)
      /\ ok => \E i \in DOMAIN log'[t] : log'[t][i] = e
  <2>1. CASE ~ok /\ log' = log
    <3> HIDE DEF e, t
    <3>1. log' \in [Streams -> Seq(Events)]
      BY <2>1, Zenon DEF OutboxInv, OutboxTypeOK
    <3> QED BY ONLY <2>1, <3>1, Zenon
  <2>2. CASE log' = [log EXCEPT ![t] = Append(q, e)]
    <3>1. /\ Append(q, e) \in Seq(Events)
          /\ DOMAIN Append(q, e) = 1 .. Len(q) + 1 /\ DOMAIN q = 1 .. Len(q) /\ Len(q) \in Nat
          /\ \A i \in DOMAIN q : Append(q, e)[i] = q[i]
          /\ Append(q, e)[Len(q) + 1] = e
      BY <1>1, <1>2, Appended
    <3>2. log'[t] = Append(q, e) /\ \A s \in Streams \ {t} : log'[s] = log[s]
      BY <1>2, <2>2, Zenon DEF OutboxInv, OutboxTypeOK
    <3>3. \A i \in 1 .. Len(q) + 1 : i \in 1 .. Len(q) \/ i = Len(q) + 1
      BY <3>1
    <3>4. 1 .. Len(q) \subseteq 1 .. Len(q) + 1 /\ Len(q) + 1 \in 1 .. Len(q) + 1
      BY <3>1
    <3>5. log' \in [Streams -> Seq(Events)]
      BY <1>2, <2>2, <3>1, Zenon DEF OutboxInv, OutboxTypeOK
    <3> HIDE DEF e, t
    <3>6. /\ DOMAIN log[t] \subseteq DOMAIN log'[t]
          /\ \A i \in DOMAIN log[t] : log'[t][i] = log[t][i]
          /\ \A i \in DOMAIN log'[t] : i \in DOMAIN log[t] \/ log'[t][i] = e
          /\ \E i \in DOMAIN log'[t] : log'[t][i] = e
      BY <3>1, <3>2, <3>3, <3>4, Zenon
    <3>7. ASSUME NEW s \in Streams
          PROVE  /\ DOMAIN log[s] \subseteq DOMAIN log'[s]
                 /\ \A i \in DOMAIN log[s] : log'[s][i] = log[s][i]
                 /\ \A i \in DOMAIN log'[s] : i \in DOMAIN log[s] \/ (s = t /\ log'[s][i] = e)
      BY <3>2, <3>6, Zenon
    <3> QED BY <3>5, <3>6, <3>7, Zenon
  <2> QED BY <1>3, <2>1, <2>2, Zenon
<1>7. OutboxTypeOK'
  BY <1>1, <1>5, <1>6, Zenon DEF OutboxInv, OutboxTypeOK
<1>8. Grows
  BY <1>1, <1>6 DEF OutboxInv, OutboxTypeOK, Grows
<1>9. RowsAreNumbered' /\ OneClaimant' /\ LeftIsAccounted'
  BY <1>1, Zenon DEF OutboxInv, RowsAreNumbered, OneClaimant, LeftIsAccounted
<1>10. BusyHasBatch'
  BY <1>1, <1>3, <1>5, Zenon DEF OutboxInv, BusyHasBatch, OutboxTypeOK
<1>11. EntriesAreRows'
  <2> HIDE DEF e
  <2> QED BY <1>1, <1>6 DEF OutboxInv, EntriesAreRows
<1>12. MarkAfterSend'
  <2> SUFFICES ASSUME NEW u \in Workers, wpc'[u] = "mark" PROVE Sent(Current(u))'
    BY Zenon DEF MarkAfterSend
  <2>1. Current(u)' = Current(u)
    BY <1>1, Zenon DEF Current
  <2>2. CASE u = w
    BY <1>1, <1>4, <1>6, <2>1, <2>2, Zenon DEF Sent
  <2>3. CASE u # w
    <3>1. wpc[u] = "mark"
      BY <1>3, <2>3, Zenon DEF OutboxInv, OutboxTypeOK
    <3>2. Sent(Current(u)) /\ Current(u) \in Events /\ Current(u) <= lastId
      BY <3>1, CurrentIsClaimed, Zenon DEF OutboxInv, MarkAfterSend
    <3> QED BY <1>8, <2>1, <3>2, SentForGood, Zenon DEF Sent
  <2> QED BY <2>2, <2>3, Zenon
<1>13. PublishedWasSent'
  <2> SUFFICES ASSUME NEW d \in Events, row'[d] = "PUBLISHED" PROVE Sent(d)'
    BY Zenon DEF PublishedWasSent, Sent
  <2>1. row[d] = "PUBLISHED" /\ d <= lastId
    BY <1>1, Zenon DEF OutboxInv, RowsAreNumbered
  <2> QED BY <1>8, <2>1, SentForGood, Zenon DEF OutboxInv, PublishedWasSent, Sent
<1> QED BY <1>7, <1>8, <1>9, <1>10, <1>11, <1>12, <1>13, Zenon DEF OutboxInv

\* A worker that goes on: its batch shrinks by the row it was at.
LEMMA NextRowKeeps ==
  ASSUME OutboxInv, NEW w \in Workers, wpc[w] # "idle", NextRow(w)
  PROVE  /\ batch' \in [Workers -> SUBSET Events]
         /\ wpc' \in [Workers -> {"idle", "publish", "mark", "fail"}]
         /\ batch'[w] = batch[w] \ {Current(w)} /\ wpc'[w] # "mark"
         /\ \A u \in Workers \ {w} : batch'[u] = batch[u] /\ wpc'[u] = wpc[u]
         /\ BusyHasBatch'
<1>1. Current(w) \in batch[w]
  BY CurrentIsClaimed, Zenon
<1>2. /\ batch' = [batch EXCEPT ![w] = @ \ {Current(w)}]
      /\ wpc' = [wpc EXCEPT ![w] = IF batch[w] = {Current(w)} THEN "idle" ELSE "publish"]
  BY Zenon DEF NextRow
<1>3. /\ batch' \in [Workers -> SUBSET Events]
      /\ wpc' \in [Workers -> {"idle", "publish", "mark", "fail"}]
      /\ batch'[w] = batch[w] \ {Current(w)}
      /\ wpc'[w] = IF batch[w] = {Current(w)} THEN "idle" ELSE "publish"
      /\ \A u \in Workers \ {w} : batch'[u] = batch[u] /\ wpc'[u] = wpc[u]
  BY <1>2, Zenon DEF OutboxInv, OutboxTypeOK
<1>4. wpc'[w] = "idle" <=> batch'[w] = {}
  BY <1>1, <1>3, Zenon
<1> QED BY <1>3, <1>4, Zenon DEF OutboxInv, BusyHasBatch

\* MarkOutboxEventPublished.
LEMMA MarkPublishedKeeps ==
  ASSUME OutboxInv, NEW w \in Workers, MarkPublished(w)
  PROVE  OutboxInv' /\ Grows
<1> DEFINE e == Current(w)
<1>1. /\ wpc[w] = "mark" /\ NextRow(w)
      /\ UNCHANGED <<stream, payload, lastId, dlq, purged, letter, log>>
      /\ row' = [row EXCEPT ![e] = "PUBLISHED"] \/ row' = row
  BY Zenon DEF MarkPublished
<1>2. /\ e \in batch[w] /\ e \in Events /\ row[e] = "PROCESSING"
      /\ \A u \in Workers \ {w} : e \notin batch[u]
  BY <1>1, CurrentIsClaimed, Zenon
<1>3. /\ batch' \in [Workers -> SUBSET Events]
      /\ wpc' \in [Workers -> {"idle", "publish", "mark", "fail"}]
      /\ batch'[w] = batch[w] \ {e} /\ wpc'[w] # "mark"
      /\ \A u \in Workers \ {w} : batch'[u] = batch[u] /\ wpc'[u] = wpc[u]
      /\ BusyHasBatch'
  BY <1>1, NextRowKeeps, Zenon
<1>4. Sent(e)
  BY <1>1, Zenon DEF OutboxInv, MarkAfterSend
<1> HIDE DEF e
<1>5. /\ \A d \in Events \ {e} : row'[d] = row[d]
      /\ row'[e] \in {"PROCESSING", "PUBLISHED"}
      /\ row' \in [Events -> {"NONE", "PENDING", "PROCESSING", "PUBLISHED", "DELETED"}]
  BY <1>1, <1>2 DEF OutboxInv, OutboxTypeOK
<1>6. OutboxTypeOK'
  BY <1>1, <1>3, <1>5, Zenon DEF OutboxInv, OutboxTypeOK
<1>7. RowsAreNumbered' /\ EntriesAreRows' /\ MarkAfterSend' /\ Grows
  <2>1. \A d \in Events : row'[d] = "NONE" <=> row[d] = "NONE"
    BY <1>2, <1>5, Zenon
  <2>2. (\A d \in dlq' : d <= lastId) /\ \A r \in Replayers : letter'[r] <= lastId
    BY <1>1, Zenon DEF OutboxInv, RowsAreNumbered
  <2> QED BY <1>1, <1>3, <1>6, <2>1, <2>2, WorkerKeeps, Zenon
<1>8. OneClaimant'
  <2>1. \A u \in Workers : batch'[u] \subseteq batch[u] \ {e}
    BY <1>2, <1>3
  <2>2. \A u \in Workers : \A d \in batch[u] : d \in Events
    BY Zenon DEF OutboxInv, OutboxTypeOK
  <2> QED BY <1>5, <2>1, <2>2, Zenon DEF OutboxInv, OneClaimant
<1>9. PublishedWasSent'
  BY <1>1, <1>4, <1>5, Zenon DEF OutboxInv, PublishedWasSent, Sent
<1>10. LeftIsAccounted'
  BY <1>1, <1>2, <1>5 DEF OutboxInv, LeftIsAccounted
<1> QED BY <1>3, <1>6, <1>7, <1>8, <1>9, <1>10, Zenon DEF OutboxInv

\* MarkOutboxEventFailed: the row leaves for the dead letters or is pending again.
LEMMA MarkFailedKeeps ==
  ASSUME OutboxInv, NEW w \in Workers, MarkFailed(w)
  PROVE  OutboxInv' /\ Grows
<1> DEFINE e == Current(w)
<1>1. /\ wpc[w] = "fail" /\ NextRow(w)
      /\ UNCHANGED <<stream, payload, lastId, purged, letter, log>>
      /\ \/ row' = [row EXCEPT ![e] = StatusAfterFailure(e)] /\ dlq' = DeadLettersAfterFailure(e)
         \/ row' = row /\ dlq' = dlq
  BY Zenon DEF MarkFailed
<1>2. /\ e \in batch[w] /\ e \in Events /\ row[e] = "PROCESSING" /\ e <= lastId
      /\ \A u \in Workers \ {w} : e \notin batch[u]
  BY <1>1, CurrentIsClaimed, Zenon
<1>3. /\ batch' \in [Workers -> SUBSET Events]
      /\ wpc' \in [Workers -> {"idle", "publish", "mark", "fail"}]
      /\ batch'[w] = batch[w] \ {e} /\ wpc'[w] # "mark"
      /\ \A u \in Workers \ {w} : batch'[u] = batch[u] /\ wpc'[u] = wpc[u]
      /\ BusyHasBatch'
  BY <1>1, NextRowKeeps, Zenon
<1> HIDE DEF e
<1>4. /\ \A d \in Events \ {e} : row'[d] = row[d]
      /\ row'[e] \in {"PROCESSING", "PENDING", "DELETED"}
      /\ row'[e] = "DELETED" => e \in dlq'
      /\ dlq \subseteq dlq' /\ dlq' \subseteq dlq \cup {e}
      /\ row' \in [Events -> {"NONE", "PENDING", "PROCESSING", "PUBLISHED", "DELETED"}]
  BY <1>1, <1>2, Zenon DEF OutboxInv, OutboxTypeOK, StatusAfterFailure,
     DeadLettersAfterFailure
<1>5. OutboxTypeOK'
  BY <1>1, <1>2, <1>3, <1>4 DEF OutboxInv, OutboxTypeOK
<1>6. RowsAreNumbered' /\ EntriesAreRows' /\ MarkAfterSend' /\ Grows
  <2>1. \A d \in Events : row'[d] = "NONE" <=> row[d] = "NONE"
    BY <1>2, <1>4, Zenon
  <2>2. (\A d \in dlq' : d <= lastId) /\ \A r \in Replayers : letter'[r] <= lastId
    BY <1>1, <1>2, <1>4, Zenon DEF OutboxInv, RowsAreNumbered
  <2>3. \A u \in Workers : wpc'[u] = "mark" => wpc[u] = "mark" /\ batch'[u] = batch[u]
    BY <1>3, Zenon
  <2> QED BY <1>1, <1>5, <2>1, <2>2, <2>3, WorkerKeeps, Zenon
<1>7. OneClaimant'
  <2>1. \A u \in Workers : batch'[u] \subseteq batch[u] \ {e}
    BY <1>2, <1>3
  <2>2. \A u \in Workers : \A d \in batch[u] : d \in Events
    BY Zenon DEF OutboxInv, OutboxTypeOK
  <2> QED BY <1>4, <2>1, <2>2, Zenon DEF OutboxInv, OneClaimant
<1>8. PublishedWasSent'
  BY <1>1, <1>4, Zenon DEF OutboxInv, PublishedWasSent
<1>9. LeftIsAccounted'
  BY <1>1, <1>4, Zenon DEF OutboxInv, LeftIsAccounted
<1> QED BY <1>3, <1>5, <1>6, <1>7, <1>8, <1>9, Zenon DEF OutboxInv

\* A server stops: the rows of its batches stay PROCESSING and nobody has them.
LEMMA StopWorkersKeeps ==
  ASSUME OutboxInv, NEW v \in Servers, StopWorkers(v)
  PROVE  OutboxInv' /\ Grows
<1>1. /\ UNCHANGED <<row, stream, payload, lastId, dlq, purged, letter, log>>
      /\ \A w \in Workers : \/ batch'[w] = {} /\ wpc'[w] = "idle"
                            \/ batch'[w] = batch[w] /\ wpc'[w] = wpc[w]
      /\ batch' \in [Workers -> SUBSET Events]
      /\ wpc' \in [Workers -> {"idle", "publish", "mark", "fail"}]
  BY Zenon DEF StopWorkers, OutboxInv, OutboxTypeOK
<1>2. OutboxTypeOK'
  BY <1>1, Zenon DEF OutboxInv, OutboxTypeOK
<1>3. RowsAreNumbered' /\ EntriesAreRows' /\ MarkAfterSend' /\ Grows
  <2>1. (\A d \in dlq' : d <= lastId) /\ \A r \in Replayers : letter'[r] <= lastId
    BY <1>1, Zenon DEF OutboxInv, RowsAreNumbered
  <2> QED BY <1>1, <1>2, <2>1, WorkerKeeps, Zenon
<1>4. BusyHasBatch' /\ OneClaimant'
  BY <1>1, Zenon DEF OutboxInv, BusyHasBatch, OneClaimant
<1>5. PublishedWasSent' /\ LeftIsAccounted'
  BY <1>1 DEF OutboxInv, PublishedWasSent, LeftIsAccounted
<1> QED BY <1>2, <1>3, <1>4, <1>5, Zenon DEF OutboxInv

\* The operator's requests: ReplayDLQEvent, its read and its transaction, and the
\* deletion of a dead letter.
LEMMA ReadDeadLetterKeeps ==
  ASSUME OutboxInv, NEW r \in Replayers, NEW e \in Events, ReadDeadLetter(r, e)
  PROVE  OutboxInv' /\ Grows
<1>1. /\ UNCHANGED <<row, stream, payload, lastId, dlq, purged, batch, wpc, log>>
      /\ letter' = [letter EXCEPT ![r] = e] /\ e <= lastId
  BY Zenon DEF ReadDeadLetter, OutboxInv, RowsAreNumbered
<1>2. letter' \in [Replayers -> {0} \cup Events] /\ \A u \in Replayers : letter'[u] <= lastId
  BY <1>1, Zenon DEF OutboxInv, OutboxTypeOK, RowsAreNumbered
<1>3. OutboxTypeOK'
  BY <1>1, <1>2, Zenon DEF OutboxInv, OutboxTypeOK
<1>4. RowsAreNumbered' /\ EntriesAreRows' /\ MarkAfterSend' /\ Grows
  <2>1. \A d \in dlq' : d <= lastId
    BY <1>1, Zenon DEF OutboxInv, RowsAreNumbered
  <2> QED BY <1>1, <1>2, <1>3, <2>1, WorkerKeeps, Zenon
<1>5. BusyHasBatch' /\ OneClaimant' /\ PublishedWasSent' /\ LeftIsAccounted'
  BY <1>1, Zenon DEF OutboxInv, BusyHasBatch, OneClaimant, PublishedWasSent, LeftIsAccounted
<1> QED BY <1>3, <1>4, <1>5, Zenon DEF OutboxInv

LEMMA ReturnToOutboxKeeps ==
  ASSUME OutboxInv, NEW r \in Replayers, ReturnToOutbox(r)
  PROVE  OutboxInv' /\ Grows
<1>1. /\ letter[r] # 0 /\ letter' = [letter EXCEPT ![r] = 0]
      /\ UNCHANGED <<purged, batch, wpc, log>>
      /\ \/ InsertRow("payment.replayed", payload[letter[r]]) /\ dlq' = dlq \ {letter[r]}
         \/ UNCHANGED <<row, stream, payload, lastId, dlq>>
  BY Zenon DEF ReturnToOutbox
<1>2. letter[r] \in Events /\ payload[letter[r]] \in Facts
  BY <1>1, Zenon DEF OutboxInv, OutboxTypeOK, RowsAreNumbered
<1>3. letter' \in [Replayers -> {0} \cup Events] /\ \A u \in Replayers : letter'[u] <= lastId
  BY <1>1 DEF OutboxInv, OutboxTypeOK, RowsAreNumbered
<1>4. CASE InsertRow("payment.replayed", payload[letter[r]]) /\ dlq' = dlq \ {letter[r]}
  <2>1. "payment.replayed" \in Streams
    BY Zenon DEF Streams
  <2>2. dlq' \subseteq dlq /\ \A e \in dlq \ dlq' : payload[e] = payload[letter[r]]
    BY <1>4, Zenon
  <2> QED BY <1>1, <1>2, <1>3, <1>4, <2>1, <2>2, InsertKeeps, Zenon
<1>5. CASE UNCHANGED <<row, stream, payload, lastId, dlq>>
  <2>1. OutboxTypeOK'
    BY <1>1, <1>3, <1>5, Zenon DEF OutboxInv, OutboxTypeOK
  <2>2. RowsAreNumbered' /\ EntriesAreRows' /\ MarkAfterSend' /\ Grows
    <3>1. \A d \in dlq' : d <= lastId
      BY <1>5, Zenon DEF OutboxInv, RowsAreNumbered
    <3> QED BY <1>1, <1>3, <1>5, <2>1, <3>1, WorkerKeeps, Zenon
  <2>3. BusyHasBatch' /\ OneClaimant' /\ PublishedWasSent' /\ LeftIsAccounted'
    BY <1>1, <1>5, Zenon DEF OutboxInv, BusyHasBatch, OneClaimant, PublishedWasSent,
       LeftIsAccounted
  <2> QED BY <2>1, <2>2, <2>3, Zenon DEF OutboxInv
<1> QED BY <1>1, <1>4, <1>5, Zenon

LEMMA DeleteDeadLetterKeeps ==
  ASSUME OutboxInv, NEW e \in Events, DeleteDeadLetter(e)
  PROVE  OutboxInv' /\ Grows
<1>1. /\ UNCHANGED <<row, stream, payload, lastId, batch, wpc, letter, log>>
      /\ dlq' = dlq \ {e} /\ purged' = purged \cup {e}
  BY Zenon DEF DeleteDeadLetter
<1>2. OutboxTypeOK'
  BY <1>1, Zenon DEF OutboxInv, OutboxTypeOK
<1>3. RowsAreNumbered' /\ EntriesAreRows' /\ MarkAfterSend' /\ Grows
  <2>1. (\A d \in dlq' : d <= lastId) /\ \A r \in Replayers : letter'[r] <= lastId
    BY <1>1, Zenon DEF OutboxInv, RowsAreNumbered
  <2> QED BY <1>1, <1>2, <2>1, WorkerKeeps, Zenon
<1>4. BusyHasBatch' /\ OneClaimant' /\ PublishedWasSent' /\ LeftIsAccounted'
  BY <1>1, Zenon DEF OutboxInv, BusyHasBatch, OneClaimant, PublishedWasSent, LeftIsAccounted
<1> QED BY <1>2, <1>3, <1>4, Zenon DEF OutboxInv

\* A transaction that announces f.
LEMMA AnnounceKeeps ==
  ASSUME OutboxInv, NEW f \in Facts, Announce(f)
  PROVE  OutboxInv' /\ Grows
<1>1. StreamOf[f] \in Streams
  BY OutboxAssumption, Zenon DEF Streams
<1>2. /\ InsertRow(StreamOf[f], f)
      /\ UNCHANGED <<dlq, purged, batch, wpc, letter, log>>
  BY Zenon DEF Announce
<1>3. letter' \in [Replayers -> {0} \cup Events] /\ \A r \in Replayers : letter'[r] <= lastId
  BY <1>2, Zenon DEF OutboxInv, OutboxTypeOK, RowsAreNumbered
<1>4. dlq' \subseteq dlq /\ \A e \in dlq \ dlq' : payload[e] = f
  BY <1>2, Zenon
<1> QED BY <1>1, <1>2, <1>3, <1>4, InsertKeeps, Zenon

\* A step of somebody else.
LEMMA OutboxIdle ==
  ASSUME OutboxInv, UNCHANGED outboxVars
  PROVE  OutboxInv' /\ Grows
<1>1. UNCHANGED <<row, stream, payload, lastId, dlq, purged, batch, wpc, letter, log>>
  BY Zenon DEF outboxVars
<1>2. OutboxTypeOK' /\ RowsAreNumbered' /\ BusyHasBatch' /\ EntriesAreRows' /\ OneClaimant'
  BY <1>1, Zenon DEF OutboxInv, OutboxTypeOK, RowsAreNumbered, BusyHasBatch,
     EntriesAreRows, OneClaimant
<1>3. PublishedWasSent' /\ LeftIsAccounted'
  BY <1>1, Zenon DEF OutboxInv, PublishedWasSent, LeftIsAccounted
<1>4. MarkAfterSend' /\ Grows
  <2>1. (\A d \in dlq' : d <= lastId) /\ \A r \in Replayers : letter'[r] <= lastId
    BY <1>1, Zenon DEF OutboxInv, RowsAreNumbered
  <2> QED BY <1>1, <1>2, <2>1, WorkerKeeps, Zenon
<1> QED BY <1>2, <1>3, <1>4, Zenon DEF OutboxInv

LEMMA OutboxInvInit == ASSUME OutboxInit PROVE OutboxInv
<1>1. OutboxTypeOK
  BY OutboxAssumption DEF OutboxInit, OutboxTypeOK
<1>2. RowsAreNumbered
  BY DEF OutboxInit, RowsAreNumbered, Events
<1>3. BusyHasBatch /\ EntriesAreRows /\ OneClaimant
  BY DEF OutboxInit, BusyHasBatch, EntriesAreRows, OneClaimant
<1>4. MarkAfterSend /\ PublishedWasSent /\ LeftIsAccounted
  BY Zenon DEF OutboxInit, MarkAfterSend, PublishedWasSent, LeftIsAccounted
<1> QED BY <1>1, <1>2, <1>3, <1>4, Zenon DEF OutboxInv

\* Every step of the delivery keeps the outbox in order and lets it only grow.
LEMMA OutboxInvStep ==
  ASSUME OutboxInv, [Next]_vars
  PROVE  OutboxInv' /\ Grows
<1>1. ASSUME NEW f \in Facts, Announce(f) PROVE OutboxInv' /\ Grows
  BY <1>1, AnnounceKeeps, Zenon
<1>2. ASSUME NEW w \in Workers, WorkerStep(w) PROVE OutboxInv' /\ Grows
  BY <1>2, ClaimKeeps, PublishKeeps, MarkPublishedKeeps, MarkFailedKeeps, Zenon
     DEF WorkerStep
<1>3. ASSUME NEW r \in Replayers, NEW e \in Events, ReadDeadLetter(r, e) PROVE OutboxInv' /\ Grows
  BY <1>3, ReadDeadLetterKeeps, Zenon
<1>4. ASSUME NEW r \in Replayers, ReturnToOutbox(r) PROVE OutboxInv' /\ Grows
  BY <1>4, ReturnToOutboxKeeps, Zenon
<1>5. ASSUME NEW e \in Events, DeleteDeadLetter(e) PROVE OutboxInv' /\ Grows
  BY <1>5, DeleteDeadLetterKeeps, Zenon
<1>6. ASSUME NEW v \in Servers, CrashServer(v) PROVE OutboxInv' /\ Grows
  BY <1>6, StopWorkersKeeps, Zenon DEF CrashServer
<1>7. CASE UNCHANGED outboxVars
  BY <1>7, OutboxIdle, Zenon
<1> QED BY <1>1, <1>2, <1>3, <1>4, <1>5, <1>6, <1>7, Zenon DEF Next, vars

LEMMA OutboxCorrect == Spec => []OutboxInv
<1>1. Init => OutboxInv
  BY OutboxInvInit, Zenon DEF Init
<1>2. OutboxInv /\ [Next]_vars => OutboxInv'
  BY OutboxInvStep, Zenon
<1> QED BY <1>1, <1>2, PTL DEF Spec

\* Two workers never work on the same outbox row: the claims of
\* GetPendingOutboxEventsForUpdate exclude each other for any number of workers,
\* servers and rows, through failed transactions, rows put back and crashes.
THEOREM NeverClaimedTwice == Spec => []OneClaimant
<1>1. OutboxInv => OneClaimant
  BY Zenon DEF OutboxInv
<1> QED BY <1>1, OutboxCorrect, PTL

\* MarkOutboxEventPublished comes only after XADD has taken effect: whatever
\* fails or crashes, a row that says PUBLISHED is in its stream.
THEOREM PublishedIsInTheStream == Spec => []PublishedWasSent
<1>1. OutboxInv => PublishedWasSent
  BY Zenon DEF OutboxInv
<1> QED BY <1>1, OutboxCorrect, PTL

\* No announcement is lost between outbox_events and dead_letter_events, through
\* exhausted retries, concurrent replays and the operator's deletions.
THEOREM NothingIsLost == Spec => []NothingVanishes
<1>1. OutboxInv => NothingVanishes
  BY Zenon DEF OutboxInv, LeftIsAccounted, NothingVanishes
<1> QED BY <1>1, OutboxCorrect, PTL
-----------------------------------------------------------------------------
(***************************************************************************)
(* The readers                                                             *)
(***************************************************************************)
Statuses == {"NONE"} \cup {StatusOf[f] : f \in Facts}
ProjectionRow == [status : Statuses, details : BOOLEAN, settledAt : BOOLEAN]

LEMMA NoRow == NoProjection \in ProjectionRow /\ NoProjection.settledAt = FALSE
BY Zenon DEF NoProjection, ProjectionRow, Statuses

ReaderTypeOK ==
  /\ cursor \in [Subscribed -> Nat]
  /\ pending \in [Subscribed -> SUBSET Nat]
  /\ inbox \in [Readers -> SUBSET Nat]
  /\ rpc \in [Readers -> {"off", "idle", "check", "read", "write", "ack"}]
  /\ found \in [Readers -> ProjectionRow]
  /\ proj \in [Payments -> ProjectionRow]
  /\ processed \subseteq Events

\* The group is given entries that exist, and a reader works on entries that the
\* group has been given.
GivenEntries ==
  /\ \A s \in Subscribed : 1 .. cursor[s] \subseteq DOMAIN log[s]
  /\ \A r \in Readers : inbox[r] \subseteq 1 .. cursor[r[2]]

BusyHasEntry == \A r \in Readers : rpc[r] \in {"off", "idle"} <=> inbox[r] = {}

\* A reader acknowledges what has been processed, by itself or by another server.
AckAfterProcessing == \A r \in Readers : rpc[r] = "ack" => EventAt(r) \in processed

ProcessedAreRows == \A e \in processed : e <= lastId

\* The settled_at a handler has read was there because of a settlement that had
\* been applied; it still has been when the handler writes it back.
FoundWasApplied ==
  \A r \in Readers :
    rpc[r] = "write" /\ found[r].settledAt => Applied(PaymentOf[FactAt(r)], {"SETTLED"}) # {}

ReaderInv ==
  /\ ReaderTypeOK /\ GivenEntries /\ BusyHasEntry /\ AckAfterProcessing
  /\ ProcessedAreRows /\ FoundWasApplied
  /\ AcknowledgedWasProcessed /\ ProjectionFromEvents

\* With one server, an event a handler has found unprocessed stays so until the
\* handler itself commits: the other reader has another stream.
StillUnprocessed ==
  \A r \in Readers : rpc[r] \in {"read", "write"} => EventAt(r) \notin processed

\* A busy reader is at an entry of its stream, which carries a row announced on
\* that stream: nothing in it was returned from the dead letters.
LEMMA EntryAt ==
  ASSUME OutboxInv, ReaderInv, NEW r \in Readers, inbox[r] # {}
  PROVE  /\ Position(r) \in inbox[r] /\ Position(r) \in 1 .. cursor[r[2]]
         /\ r[2] \in Subscribed /\ Position(r) \in DOMAIN log[r[2]]
         /\ EventAt(r) \in Events /\ EventAt(r) <= lastId /\ stream[EventAt(r)] = r[2]
         /\ FactAt(r) \in Facts /\ StreamOf[FactAt(r)] = r[2]
<1>1. Position(r) \in inbox[r]
  <2>1. inbox[r] \in SUBSET Nat
    BY Zenon DEF ReaderInv, ReaderTypeOK
  <2> QED BY <2>1, LeastNumber, Zenon DEF Position
<1>2. r[2] \in Subscribed /\ r[2] \in Streams /\ r[2] # "payment.replayed"
  BY Zenon DEF Readers, Subscribed, Streams
<1>3. Position(r) \in 1 .. cursor[r[2]] /\ Position(r) \in DOMAIN log[r[2]]
  BY <1>1, <1>2, Zenon DEF ReaderInv, GivenEntries
<1>4. EventAt(r) \in Events /\ EventAt(r) <= lastId /\ stream[EventAt(r)] = r[2]
  BY <1>2, <1>3 DEF EventAt, OutboxInv, OutboxTypeOK, EntriesAreRows
<1>5. FactAt(r) \in Facts /\ StreamOf[FactAt(r)] = r[2]
  BY <1>2, <1>4, Zenon DEF FactAt, OutboxInv, RowsAreNumbered
<1> QED BY <1>1, <1>2, <1>3, <1>4, <1>5, Zenon

\* What has been applied stays applied as events are processed and rows added.
LEMMA AppliedGrows ==
  ASSUME OutboxInv, ReaderInv, Grows, processed \subseteq processed', NEW x, NEW S
  PROVE  Applied(x, S) \subseteq Applied(x, S)'
BY Zenon DEF Applied, Grows, ReaderInv, ReaderTypeOK, ProcessedAreRows

\* A reader that is not disturbed stays at its entry.
LEMMA EntryStays ==
  ASSUME OutboxInv, ReaderInv, Grows, NEW r \in Readers, inbox[r] # {}, inbox'[r] = inbox[r]
  PROVE  EventAt(r)' = EventAt(r) /\ FactAt(r)' = FactAt(r)
<1>1. Position(r)' = Position(r)
  BY Zenon DEF Position
<1>2. r[2] \in Streams /\ Position(r) \in DOMAIN log[r[2]] /\ EventAt(r) \in Events /\ EventAt(r) <= lastId
  BY EntryAt, Zenon DEF Subscribed, Streams
<1>3. EventAt(r)' = EventAt(r)
  BY <1>1, <1>2 DEF Grows, EventAt
<1> QED BY <1>2, <1>3, Zenon DEF Grows, FactAt

\* The parts of the invariant a step keeps when it only adds rows, entries and
\* processed events, and takes no reader to an acknowledgement or a write.
LEMMA ReadersUndisturbed ==
  ASSUME OutboxInv, ReaderInv, Grows, OutboxTypeOK', ReaderTypeOK', processed \subseteq processed',
         \A e \in processed' \ processed : e <= lastId',
         NEW R \in SUBSET Readers,
         \A r \in R : inbox'[r] = inbox[r] /\ rpc'[r] = rpc[r] /\ found'[r] = found[r],
         \A r \in Readers \ R : rpc'[r] = "ack" => EventAt(r)' \in processed',
         \A r \in Readers \ R : rpc'[r] = "write" /\ found'[r].settledAt =>
            Applied(PaymentOf[FactAt(r)], {"SETTLED"})' # {}
  PROVE  AckAfterProcessing' /\ ProcessedAreRows' /\ FoundWasApplied'
<1>1. ASSUME NEW r \in R, rpc'[r] = "ack" PROVE EventAt(r)' \in processed'
  <2>1. inbox[r] # {} /\ EventAt(r) \in processed
    BY <1>1, Zenon DEF ReaderInv, BusyHasEntry, AckAfterProcessing
  <2> QED BY <2>1, EntryStays, Zenon
<1>2. ASSUME NEW r \in R, rpc'[r] = "write", found'[r].settledAt
      PROVE  Applied(PaymentOf[FactAt(r)], {"SETTLED"})' # {}
  <2>1. inbox[r] # {} /\ Applied(PaymentOf[FactAt(r)], {"SETTLED"}) # {}
    BY <1>2, Zenon DEF ReaderInv, BusyHasEntry, FoundWasApplied
  <2>2. FactAt(r)' = FactAt(r)
    BY <2>1, EntryStays, Zenon
  <2>3. PICK e \in processed : PaymentOf[payload[e]] = PaymentOf[FactAt(r)] /\ StatusOf[payload[e]] = "SETTLED"
    BY <2>1, Zenon DEF Applied
  <2>4. payload'[e] = payload[e] /\ e \in processed'
    BY Zenon DEF Grows, ReaderInv, ReaderTypeOK, ProcessedAreRows
  <2> QED BY <2>2, <2>3, <2>4, Zenon DEF Applied
<1>3. AckAfterProcessing'
  BY <1>1, Zenon DEF AckAfterProcessing
<1>4. FoundWasApplied'
  BY <1>2, Zenon DEF FoundWasApplied
<1>5. ProcessedAreRows'
  <2>1. lastId \in Nat /\ lastId' \in Nat /\ lastId <= lastId'
    BY Zenon DEF OutboxInv, OutboxTypeOK, Grows
  <2> QED BY <2>1 DEF ReaderInv, ReaderTypeOK, ProcessedAreRows, Events
<1> QED BY <1>3, <1>4, <1>5, Zenon

LEMMA ProjectionKept ==
  ASSUME OutboxInv, ReaderInv, Grows, processed \subseteq processed', proj' = proj
  PROVE  ProjectionFromEvents'
<1> SUFFICES ASSUME NEW x \in Payments
             PROVE  /\ proj[x].status # "NONE" => Applied(x, {proj[x].status})' # {}
                    /\ proj[x].settledAt => Applied(x, {"SETTLED"})' # {}
                    /\ proj[x].status = "SETTLED" => proj[x].settledAt
  BY Zenon DEF ProjectionFromEvents, Applied
<1>1. ASSUME NEW S PROVE Applied(x, S) \subseteq Applied(x, S)'
  BY AppliedGrows, Zenon
<1>2. Applied(x, {proj[x].status}) \subseteq Applied(x, {proj[x].status})'
  BY Zenon DEF Applied, Grows, ReaderInv, ReaderTypeOK, ProcessedAreRows
<1> QED BY <1>1, <1>2, Zenon DEF ReaderInv, ProjectionFromEvents

\* Acknowledging what has been processed, or nothing.
LEMMA AcknowledgementsKept ==
  ASSUME OutboxInv, ReaderInv, Grows, processed \subseteq processed', cursor' = cursor,
         \A s \in Subscribed : \A p \in 1 .. cursor[s] :
            p \notin pending'[s] => p \notin pending[s] \/ log[s][p] \in processed
  PROVE  AcknowledgedWasProcessed' /\ \A s \in Subscribed : 1 .. cursor'[s] \subseteq DOMAIN log'[s]
<1>1. ASSUME NEW s \in Subscribed, NEW p \in 1 .. cursor[s]
      PROVE  p \in DOMAIN log[s] /\ p \in DOMAIN log'[s] /\ log'[s][p] = log[s][p]
  BY Zenon DEF ReaderInv, GivenEntries, Grows, Subscribed, Streams
<1> QED BY <1>1, Zenon DEF ReaderInv, AcknowledgedWasProcessed

\* The readers while the outbox or the operator takes a step.
LEMMA ReadersIdle ==
  ASSUME OutboxInv, OutboxTypeOK', ReaderInv, Grows, UNCHANGED projectionVars
  PROVE  ReaderInv'
<1>1. UNCHANGED <<cursor, pending, inbox, rpc, found, proj, processed>>
  BY Zenon DEF projectionVars
<1>2. ReaderTypeOK' /\ BusyHasEntry'
  BY <1>1, Zenon DEF ReaderInv, ReaderTypeOK, BusyHasEntry
<1>3. AckAfterProcessing' /\ ProcessedAreRows' /\ FoundWasApplied'
  <2>1. Readers \in SUBSET Readers /\ Readers \ Readers = {}
    BY Zenon
  <2> QED BY <1>1, <1>2, <2>1, ReadersUndisturbed, Zenon
<1>4. ProjectionFromEvents'
  BY <1>1, ProjectionKept, Zenon
<1>5. AcknowledgedWasProcessed' /\ GivenEntries'
  BY <1>1, AcknowledgementsKept, Zenon DEF ReaderInv, GivenEntries
<1> QED BY <1>2, <1>3, <1>4, <1>5, Zenon DEF ReaderInv

\* A server stops with its readers; what they were given stays unacknowledged.
LEMMA StopReadersKeeps ==
  ASSUME OutboxInv, OutboxTypeOK', ReaderInv, Grows, NEW v \in Servers, StopReaders(v)
  PROVE  ReaderInv'
<1> DEFINE R == {r \in Readers : r[1] # v}
<1>1. UNCHANGED <<cursor, pending, proj, processed>>
  BY Zenon DEF StopReaders
<1>2. /\ \A r \in R : inbox'[r] = inbox[r] /\ rpc'[r] = rpc[r] /\ found'[r] = found[r]
      /\ \A r \in Readers \ R : inbox'[r] = {} /\ rpc'[r] \in {"off", "idle"} 
      /\ inbox' \in [Readers -> SUBSET Nat]
      /\ rpc' \in [Readers -> {"off", "idle", "check", "read", "write", "ack"}]
  <2>1. PICK off \in SUBSET ({v} \X Subscribed) :
          rpc' = [r \in Readers |-> IF r \in off THEN "off"
                                    ELSE IF r[1] = v THEN "idle" ELSE rpc[r]]
    BY Zenon DEF StopReaders
  <2>2. \A r \in off : r[1] = v
    BY <2>1, Zenon
  <2>3. /\ inbox' = [r \in Readers |-> IF r[1] = v THEN {} ELSE inbox[r]]
        /\ found' = [r \in Readers |-> IF r[1] = v THEN NoProjection ELSE found[r]]
    BY Zenon DEF StopReaders
  <2>4. \A r \in Readers : /\ inbox'[r] = IF r[1] = v THEN {} ELSE inbox[r]
                           /\ found'[r] = IF r[1] = v THEN NoProjection ELSE found[r]
    BY <2>3, Zenon
  <2> QED BY <2>1, <2>2, <2>3, <2>4, Zenon DEF ReaderInv, ReaderTypeOK
<1>3. found' \in [Readers -> ProjectionRow]
  BY NoRow, Zenon DEF StopReaders, ReaderInv, ReaderTypeOK
<1> HIDE DEF R
<1>4. R \in SUBSET Readers
  BY Zenon DEF R
<1>5. ReaderTypeOK'
  BY <1>1, <1>2, <1>3, Zenon DEF ReaderInv, ReaderTypeOK
<1>6. BusyHasEntry'
  BY <1>2, <1>4, Zenon DEF ReaderInv, BusyHasEntry
<1>7. AckAfterProcessing' /\ ProcessedAreRows' /\ FoundWasApplied'
  <2>1. \A r \in Readers \ R : rpc'[r] # "ack" /\ rpc'[r] # "write"
    BY <1>2, Zenon
  <2> QED BY <1>1, <1>2, <1>4, <1>5, <2>1, ReadersUndisturbed, Zenon
<1>8. ProjectionFromEvents'
  BY <1>1, ProjectionKept, Zenon
<1>9. AcknowledgedWasProcessed' /\ GivenEntries'
  <2>1. AcknowledgedWasProcessed' /\ \A s \in Subscribed : 1 .. cursor'[s] \subseteq DOMAIN log'[s]
    BY <1>1, AcknowledgementsKept, Zenon
  <2> QED BY <1>1, <1>2, <1>4, <2>1, Zenon DEF ReaderInv, GivenEntries
<1> QED BY <1>5, <1>6, <1>7, <1>8, <1>9, Zenon DEF ReaderInv

\* A reader that goes on: its inbox shrinks by the entry it was at.
LEMMA NextEntryKeeps ==
  ASSUME OutboxInv, ReaderInv, NEW r \in Readers, inbox[r] # {}, NextEntry(r)
  PROVE  /\ inbox' \in [Readers -> SUBSET Nat]
         /\ rpc' \in [Readers -> {"off", "idle", "check", "read", "write", "ack"}]
         /\ inbox'[r] \subseteq inbox[r] /\ rpc'[r] \in {"idle", "check"}
         /\ \A u \in Readers \ {r} : inbox'[u] = inbox[u] /\ rpc'[u] = rpc[u]
         /\ BusyHasEntry'
<1>1. Position(r) \in inbox[r]
  BY EntryAt, Zenon
<1>2. /\ inbox' = [inbox EXCEPT ![r] = @ \ {Position(r)}]
      /\ rpc' = [rpc EXCEPT ![r] = IF inbox[r] = {Position(r)} THEN "idle" ELSE "check"]
  BY Zenon DEF NextEntry, Goto
<1>3. /\ inbox' \in [Readers -> SUBSET Nat]
      /\ rpc' \in [Readers -> {"off", "idle", "check", "read", "write", "ack"}]
      /\ inbox'[r] = inbox[r] \ {Position(r)}
      /\ rpc'[r] = IF inbox[r] = {Position(r)} THEN "idle" ELSE "check"
      /\ \A u \in Readers \ {r} : inbox'[u] = inbox[u] /\ rpc'[u] = rpc[u]
  BY <1>2, Zenon DEF ReaderInv, ReaderTypeOK
<1>4. rpc'[r] \in {"off", "idle"} <=> inbox'[r] = {}
  BY <1>1, <1>3, Zenon
<1> QED BY <1>3, <1>4, Zenon DEF ReaderInv, BusyHasEntry

\* The step a reader takes within an entry.
LEMMA GotoKeeps ==
  ASSUME ReaderInv, NEW r \in Readers, inbox[r] # {}, NEW step \in {"read", "write", "ack"},
         Goto(r, step), UNCHANGED inbox
  PROVE  /\ rpc' \in [Readers -> {"off", "idle", "check", "read", "write", "ack"}]
         /\ rpc'[r] = step /\ \A u \in Readers \ {r} : rpc'[u] = rpc[u]
         /\ BusyHasEntry'
BY Zenon DEF Goto, ReaderInv, ReaderTypeOK, BusyHasEntry

\* What a step of reader r has to show besides.
LEMMA ReaderMoves ==
  ASSUME OutboxInv, ReaderInv, UNCHANGED outboxVars, NEW r \in Readers,
         ReaderTypeOK', BusyHasEntry', UNCHANGED <<cursor, pending, proj, processed>>,
         inbox'[r] \subseteq inbox[r],
         \A u \in Readers \ {r} : inbox'[u] = inbox[u] /\ rpc'[u] = rpc[u] /\ found'[u] = found[u],
         rpc'[r] = "ack" => EventAt(r)' \in processed',
         rpc'[r] = "write" /\ found'[r].settledAt => Applied(PaymentOf[FactAt(r)], {"SETTLED"})' # {}
  PROVE  ReaderInv'
<1>1. OutboxTypeOK' /\ Grows
  BY OutboxIdle, Zenon DEF OutboxInv
<1>2. AckAfterProcessing' /\ ProcessedAreRows' /\ FoundWasApplied'
  <2> DEFINE R == Readers \ {r}
  <2>1. R \in SUBSET Readers /\ \A u \in Readers \ R : u = r
    BY Zenon
  <2> HIDE DEF R
  <2>2. \A u \in R : inbox'[u] = inbox[u] /\ rpc'[u] = rpc[u] /\ found'[u] = found[u]
    BY Zenon DEF R
  <2>3. \A u \in Readers \ R : rpc'[u] = "ack" => EventAt(u)' \in processed'
    BY <2>1, Zenon
  <2>4. \A u \in Readers \ R : rpc'[u] = "write" /\ found'[u].settledAt =>
           Applied(PaymentOf[FactAt(u)], {"SETTLED"})' # {}
    BY <2>1, Zenon
  <2> QED BY <1>1, <2>1, <2>2, <2>3, <2>4, ReadersUndisturbed, Zenon
<1>3. ProjectionFromEvents'
  BY <1>1, ProjectionKept, Zenon
<1>4. AcknowledgedWasProcessed' /\ \A s \in Subscribed : 1 .. cursor'[s] \subseteq DOMAIN log'[s]
  BY <1>1, AcknowledgementsKept, Zenon
<1>5. GivenEntries'
  BY <1>4, Zenon DEF ReaderInv, GivenEntries
<1> QED BY <1>2, <1>3, <1>4, <1>5, Zenon DEF ReaderInv

\* The lookup in processed_events, or its failure.
LEMMA CheckKeeps ==
  ASSUME OutboxInv, ReaderInv, UNCHANGED outboxVars, NEW r \in Readers, CheckProcessed(r)
  PROVE  ReaderInv'
<1>1. rpc[r] = "check" /\ inbox[r] # {} /\ UNCHANGED <<cursor, pending, found, proj, processed>>
  BY Zenon DEF CheckProcessed, ReaderInv, BusyHasEntry
<1>2. CASE HandlerFails(r)
  <2>1. /\ inbox' \in [Readers -> SUBSET Nat]
        /\ rpc' \in [Readers -> {"off", "idle", "check", "read", "write", "ack"}]
        /\ inbox'[r] \subseteq inbox[r] /\ rpc'[r] \in {"idle", "check"}
        /\ \A u \in Readers \ {r} : inbox'[u] = inbox[u] /\ rpc'[u] = rpc[u]
        /\ BusyHasEntry'
    BY <1>1, <1>2, NextEntryKeeps, Zenon DEF HandlerFails
  <2>2. ReaderTypeOK'
    BY <1>1, <2>1, Zenon DEF ReaderInv, ReaderTypeOK
  <2> QED BY <1>1, <2>1, <2>2, ReaderMoves, Zenon
<1>3. CASE Goto(r, IF IsEventProcessed(EventAt(r)) THEN "ack" ELSE "read") /\ UNCHANGED inbox
  <2> DEFINE step == IF IsEventProcessed(EventAt(r)) THEN "ack" ELSE "read"
  <2>1. step \in {"read", "write", "ack"} /\ (step = "ack" => EventAt(r) \in processed) /\ step # "write"
    BY Zenon DEF IsEventProcessed
  <2> HIDE DEF step
  <2>2. Goto(r, step) /\ UNCHANGED inbox
    BY <1>3, Zenon DEF step
  <2>3. /\ rpc' \in [Readers -> {"off", "idle", "check", "read", "write", "ack"}]
        /\ rpc'[r] = step /\ \A u \in Readers \ {r} : rpc'[u] = rpc[u]
        /\ BusyHasEntry'
    BY <1>1, <2>1, <2>2, GotoKeeps, Zenon
  <2>4. ReaderTypeOK'
    BY <1>1, <2>2, <2>3, Zenon DEF ReaderInv, ReaderTypeOK
  <2>5. EventAt(r)' = EventAt(r)
    BY <1>1, <2>2, OutboxIdle, EntryStays, Zenon
  <2> QED BY <1>1, <2>1, <2>2, <2>3, <2>4, <2>5, ReaderMoves, Zenon
<1> QED BY <1>2, <1>3, Zenon DEF CheckProcessed

\* GetReadProjection: a settled_at that is found was put there by a settlement.
LEMMA ReadProjectionKeeps ==
  ASSUME OutboxInv, ReaderInv, UNCHANGED outboxVars, NEW r \in Readers, ReadProjection(r)
  PROVE  ReaderInv'
<1> DEFINE x == PaymentOf[FactAt(r)]
<1>1. /\ inbox[r] # {} /\ Goto(r, "write")
      /\ UNCHANGED <<cursor, pending, inbox, proj, processed>>
  BY Zenon DEF ReadProjection, ReaderInv, BusyHasEntry
<1>2. x \in Payments
  BY <1>1, EntryAt, ProjectionAssumption, Zenon
<1>3. proj[x].settledAt => Applied(x, {"SETTLED"}) # {}
  BY <1>2, Zenon DEF ReaderInv, ReaderTypeOK, ProjectionFromEvents
<1>4. PICK b \in ProjectionRow :
        found' = [found EXCEPT ![r] = b] /\ (b.settledAt => proj[x].settledAt)
  BY <1>2, <1>3, NoRow, Zenon DEF ReadProjection, ReaderInv, ReaderTypeOK
<1>5. found' \in [Readers -> ProjectionRow]
  BY <1>4, Zenon DEF ReaderInv, ReaderTypeOK
<1>6. found'[r] = b /\ \A u \in Readers \ {r} : found'[u] = found[u]
  BY <1>4, Zenon DEF ReaderInv, ReaderTypeOK
<1>7. /\ rpc' \in [Readers -> {"off", "idle", "check", "read", "write", "ack"}]
      /\ rpc'[r] = "write" /\ \A u \in Readers \ {r} : rpc'[u] = rpc[u]
      /\ BusyHasEntry'
  BY <1>1, GotoKeeps, Zenon
<1>8. ReaderTypeOK'
  BY <1>1, <1>5, <1>7, Zenon DEF ReaderInv, ReaderTypeOK
<1>9. found'[r].settledAt => Applied(x, {"SETTLED"})' # {}
  <2>1. FactAt(r)' = FactAt(r) /\ payload' = payload
    BY <1>1, OutboxIdle, EntryStays, Zenon DEF outboxVars
  <2> QED BY <1>1, <1>3, <1>4, <1>6, <2>1, Zenon DEF Applied
<1> QED BY <1>1, <1>6, <1>7, <1>8, <1>9, ReaderMoves, Zenon

\* The transaction of the handlers.  The settled_at of another handler that was
\* read outside of it may be gone by then; the settlement behind it is not.
LEMMA WriteKeeps ==
  ASSUME OutboxInv, ReaderInv, UNCHANGED outboxVars, NEW r \in Readers, WriteProjection(r)
  PROVE  ReaderInv'
<1> DEFINE f == FactAt(r)
           e == EventAt(r)
           x == PaymentOf[f]
           settled == r[2] = "payment.settled"
           details == IF found[r].status = "NONE" THEN settled ELSE found[r].details
<1>1. rpc[r] = "write" /\ inbox[r] # {} /\ UNCHANGED <<cursor, pending>>
  BY Zenon DEF WriteProjection, ReaderInv, BusyHasEntry
<1>2. /\ e \in Events /\ e <= lastId /\ f \in Facts /\ f = payload[e] /\ x \in Payments
      /\ StatusOf[f] = "SETTLED" <=> settled
  BY <1>1, EntryAt, ProjectionAssumption, Zenon DEF FactAt
<1>3. UNCHANGED <<payload, lastId, log>> /\ OutboxTypeOK' /\ Grows
  BY OutboxIdle, Zenon DEF outboxVars, OutboxInv
<1>4. found' = [found EXCEPT ![r] = NoProjection]
  BY Zenon DEF WriteProjection
<1>5. found' \in [Readers -> ProjectionRow]
  BY <1>4, NoRow, Zenon DEF ReaderInv, ReaderTypeOK
<1>6. \A u \in Readers \ {r} : found'[u] = found[u]
  BY <1>4, Zenon DEF ReaderInv, ReaderTypeOK
<1>7. CASE HandlerFails(r) /\ UNCHANGED <<proj, processed>>
  <2>1. /\ inbox' \in [Readers -> SUBSET Nat]
        /\ rpc' \in [Readers -> {"off", "idle", "check", "read", "write", "ack"}]
        /\ inbox'[r] \subseteq inbox[r] /\ rpc'[r] \in {"idle", "check"}
        /\ \A u \in Readers \ {r} : inbox'[u] = inbox[u] /\ rpc'[u] = rpc[u]
        /\ BusyHasEntry'
    BY <1>1, <1>7, NextEntryKeeps, Zenon DEF HandlerFails
  <2>2. ReaderTypeOK'
    BY <1>1, <1>5, <1>7, <2>1, Zenon DEF ReaderInv, ReaderTypeOK
  <2> QED BY <1>1, <1>6, <1>7, <2>1, <2>2, ReaderMoves, Zenon
<1>8. CASE /\ Upsert(x, StatusOf[f], details, settled \/ found[r].settledAt)
           /\ MarkEventProcessed(e) /\ Goto(r, "ack") /\ UNCHANGED inbox
  <2>1. /\ rpc' \in [Readers -> {"off", "idle", "check", "read", "write", "ack"}]
        /\ rpc'[r] = "ack" /\ \A u \in Readers \ {r} : rpc'[u] = rpc[u]
        /\ BusyHasEntry'
    BY <1>1, <1>8, GotoKeeps, Zenon
  <2>2. processed' = processed \cup {e} /\ EventAt(r)' = e
    BY <1>1, <1>3, <1>8, EntryStays, Zenon DEF MarkEventProcessed
  <2>3. PICK d \in BOOLEAN, b \in BOOLEAN :
          /\ b <=> settled \/ found[r].settledAt
          /\ proj' = [proj EXCEPT ![x] = [status |-> StatusOf[f], details |-> d, settledAt |-> b]]
    <3>1. (settled \/ found[r].settledAt) \in BOOLEAN
      BY Zenon
    <3>2. details \in BOOLEAN
      BY Zenon DEF ReaderInv, ReaderTypeOK, ProjectionRow
    <3> HIDE DEF details
    <3>3. (IF proj[x].status = "NONE" THEN details ELSE proj[x].details) \in BOOLEAN
      BY <1>2, <3>2, Zenon DEF ReaderInv, ReaderTypeOK, ProjectionRow
    <3> QED BY <1>8, <3>1, <3>3, Zenon DEF Upsert
  <2>4. /\ proj' \in [Payments -> ProjectionRow]
        /\ proj'[x].status = StatusOf[f] /\ proj'[x].settledAt = b
        /\ \A y \in Payments \ {x} : proj'[y] = proj[y]
    <3> HIDE DEF x, settled
    <3>1. StatusOf[f] \in Statuses
      BY <1>2, Zenon DEF Statuses
    <3> HIDE DEF f
    <3> QED BY <1>2, <2>3, <3>1, Zenon DEF ReaderInv, ReaderTypeOK, ProjectionRow
  <2>5. ReaderTypeOK'
    BY <1>1, <1>2, <1>5, <1>8, <2>1, <2>2, <2>4, Zenon DEF ReaderInv, ReaderTypeOK
  <2>6. AckAfterProcessing' /\ ProcessedAreRows' /\ FoundWasApplied'
    <3> DEFINE R == Readers \ {r}
    <3>1. R \in SUBSET Readers /\ \A u \in Readers \ R : u = r
      BY Zenon
    <3>2. /\ \A u \in R : inbox'[u] = inbox[u] /\ rpc'[u] = rpc[u] /\ found'[u] = found[u]
          /\ \A u \in Readers \ R : rpc'[u] = "ack" => EventAt(u)' \in processed'
          /\ \A u \in Readers \ R : rpc'[u] = "write" /\ found'[u].settledAt =>
                Applied(PaymentOf[FactAt(u)], {"SETTLED"})' # {}
      BY <1>6, <1>8, <2>1, <2>2, <3>1, Zenon
    <3>3. processed \subseteq processed' /\ \A d2 \in processed' \ processed : d2 <= lastId'
      BY <1>2, <1>3, <2>2, Zenon
    <3> HIDE DEF R
    <3> QED BY <1>3, <2>5, <3>1, <3>2, <3>3, ReadersUndisturbed, Zenon
  <2>7. ProjectionFromEvents'
    <3> SUFFICES ASSUME NEW y \in Payments
                 PROVE  /\ proj'[y].status # "NONE" => Applied(y, {proj[y].status})' # {}
                        /\ proj'[y].settledAt => Applied(y, {"SETTLED"})' # {}
                        /\ proj'[y].status = "SETTLED" => proj'[y].settledAt
      BY Zenon DEF ProjectionFromEvents, Applied
    <3>1. CASE y # x
      <4>1. proj'[y] = proj[y]
        BY <2>4, <3>1, Zenon
      <4> QED BY <1>3, <2>2, <4>1, Zenon DEF ReaderInv, ProjectionFromEvents, Applied
    <3>2. CASE y = x
      <4>1. e \in processed' /\ PaymentOf[payload'[e]] = y /\ StatusOf[payload'[e]] = StatusOf[f]
        BY <1>2, <1>3, <2>2, <3>2, Zenon
      <4>2. Applied(y, {proj[y].status})' # {}
        BY <2>4, <3>2, <4>1, Zenon DEF Applied
      <4>3. b => Applied(y, {"SETTLED"})' # {}
        <5>1. CASE settled
          BY <1>2, <4>1, <5>1, Zenon DEF Applied
        <5>2. CASE found[r].settledAt
          <6>1. Applied(y, {"SETTLED"}) # {}
            BY <1>1, <3>2, <5>2, Zenon DEF ReaderInv, FoundWasApplied
          <6> QED BY <1>3, <2>2, <6>1, Zenon DEF Applied
        <5> QED BY <2>3, <5>1, <5>2, Zenon
      <4>4. StatusOf[f] = "SETTLED" => b
        BY <1>2, <2>3, Zenon
      <4> QED BY <2>4, <3>2, <4>2, <4>3, <4>4, Zenon
    <3> QED BY <3>1, <3>2, Zenon
  <2>8. AcknowledgedWasProcessed' /\ \A s \in Subscribed : 1 .. cursor'[s] \subseteq DOMAIN log'[s]
    BY <1>1, <1>3, <2>2, AcknowledgementsKept, Zenon
  <2>9. GivenEntries'
    BY <1>1, <1>8, <2>8, Zenon DEF ReaderInv, GivenEntries
  <2> QED BY <2>1, <2>5, <2>6, <2>7, <2>8, <2>9, Zenon DEF ReaderInv
<1> QED BY <1>7, <1>8, Zenon DEF WriteProjection

\* XACK: the acknowledged entry has been processed.
LEMMA AcknowledgeKeeps ==
  ASSUME OutboxInv, ReaderInv, UNCHANGED outboxVars, NEW r \in Readers, Acknowledge(r)
  PROVE  ReaderInv'
<1>1. /\ rpc[r] = "ack" /\ inbox[r] # {} /\ NextEntry(r) /\ UNCHANGED <<cursor, found, proj, processed>>
      /\ pending' = [pending EXCEPT ![r[2]] = @ \ {Position(r)}] \/ pending' = pending
  BY Zenon DEF Acknowledge, ReaderInv, BusyHasEntry
<1>2. r[2] \in Subscribed /\ log[r[2]][Position(r)] \in processed
  BY <1>1, EntryAt, Zenon DEF ReaderInv, AckAfterProcessing, EventAt
<1>3. OutboxTypeOK' /\ Grows
  BY OutboxIdle, Zenon DEF OutboxInv
<1>4. /\ inbox' \in [Readers -> SUBSET Nat]
      /\ rpc' \in [Readers -> {"off", "idle", "check", "read", "write", "ack"}]
      /\ inbox'[r] \subseteq inbox[r] /\ rpc'[r] \in {"idle", "check"}
      /\ \A u \in Readers \ {r} : inbox'[u] = inbox[u] /\ rpc'[u] = rpc[u]
      /\ BusyHasEntry'
  BY <1>1, NextEntryKeeps, Zenon
<1>5. /\ pending' \in [Subscribed -> SUBSET Nat]
      /\ \A s \in Subscribed : \A p \in pending[s] \ pending'[s] : s = r[2] /\ p = Position(r)
  BY <1>1, <1>2 DEF ReaderInv, ReaderTypeOK
<1>6. ReaderTypeOK'
  BY <1>1, <1>4, <1>5, Zenon DEF ReaderInv, ReaderTypeOK
<1>7. AckAfterProcessing' /\ ProcessedAreRows' /\ FoundWasApplied'
  <2> DEFINE R == Readers \ {r}
  <2>1. R \in SUBSET Readers /\ \A u \in Readers \ R : rpc'[u] # "ack" /\ rpc'[u] # "write"
    BY <1>4, Zenon
  <2>2. \A u \in R : inbox'[u] = inbox[u] /\ rpc'[u] = rpc[u] /\ found'[u] = found[u]
    BY <1>1, <1>4, Zenon
  <2> HIDE DEF R
  <2> QED BY <1>1, <1>3, <1>6, <2>1, <2>2, ReadersUndisturbed, Zenon
<1>8. ProjectionFromEvents'
  BY <1>1, <1>3, ProjectionKept, Zenon
<1>9. AcknowledgedWasProcessed' /\ \A s \in Subscribed : 1 .. cursor'[s] \subseteq DOMAIN log'[s]
  <2>1. \A s \in Subscribed : \A p \in 1 .. cursor[s] :
          p \notin pending'[s] => p \notin pending[s] \/ log[s][p] \in processed
    BY <1>2, <1>5, Zenon
  <2> QED BY <1>1, <1>3, <2>1, AcknowledgementsKept, Zenon
<1>10. GivenEntries'
  BY <1>1, <1>4, <1>9, Zenon DEF ReaderInv, GivenEntries
<1> QED BY <1>4, <1>6, <1>7, <1>8, <1>9, <1>10, Zenon DEF ReaderInv

\* XREADGROUP gives out the entries that directly follow those already given.
LEMMA NewEntriesFollow ==
  ASSUME OutboxInv, ReaderInv, NEW s \in Subscribed, NewEntries(s) # {},
         NEW m, m = CHOOSE p \in NewEntries(s) : \A q \in NewEntries(s) : q <= p
  PROVE  /\ m \in Nat /\ cursor[s] <= m /\ 1 .. m \subseteq DOMAIN log[s]
         /\ NewEntries(s) = {p \in 1 .. m : p > cursor[s]}
<1> DEFINE c == cursor[s]
           L == Len(log[s])
           new == NewEntries(s)
<1>1. /\ c \in Nat /\ L \in Nat /\ DOMAIN log[s] = 1 .. L /\ ReadCount \in Nat \ {0}
      /\ 1 .. c \subseteq 1 .. L
  <2>1. log[s] \in Seq(Events)
    BY Zenon DEF OutboxInv, OutboxTypeOK, Subscribed, Streams
  <2> QED BY <2>1, ProjectionAssumption DEF ReaderInv, ReaderTypeOK, GivenEntries
<1>2. new = {p \in 1 .. L : p - c \in 1 .. ReadCount}
  BY <1>1, Zenon DEF NewEntries
<1> HIDE DEF c, L, new
<1>3. PICK p \in new : TRUE
  BY Zenon DEF new
<1>4. c < L
  BY <1>1, <1>2, <1>3
<1> DEFINE k == IF c + ReadCount <= L THEN c + ReadCount ELSE L
<1>5. k \in new /\ \A q \in new : q <= k
  BY <1>1, <1>2, <1>4
<1> HIDE DEF k
<1>6. m \in new /\ \A q \in new : q <= m
  <2>1. m = CHOOSE i \in new : \A q \in new : q <= i
    BY Zenon DEF new
  <2>2. \E i \in new : \A q \in new : q <= i
    BY <1>5, Zenon
  <2> QED BY <2>1, <2>2, Zenon
<1>7. m \in Nat /\ c <= m /\ m <= L /\ m - c <= ReadCount
  BY <1>1, <1>2, <1>6
<1>8. new = {q \in 1 .. m : q > c}
  <2>1. ASSUME NEW q \in new PROVE q \in 1 .. m /\ q > c
    BY <1>1, <1>2, <1>6, <1>7, <2>1
  <2>2. ASSUME NEW q \in 1 .. m, q > c PROVE q \in new
    BY <1>1, <1>2, <1>7, <2>2
  <2> QED BY <2>1, <2>2, Zenon
<1>9. 1 .. m \subseteq 1 .. L
  <2>1. ASSUME NEW q \in 1 .. m PROVE q \in 1 .. L
    BY <1>1, <1>7
  <2> QED BY <2>1, Zenon
<1> QED BY <1>1, <1>7, <1>8, <1>9, Zenon DEF c, new

LEMMA ReadGroupKeeps ==
  ASSUME OutboxInv, ReaderInv, UNCHANGED outboxVars, NEW r \in Readers, ReadGroup(r)
  PROVE  ReaderInv'
<1> DEFINE s == r[2]
           new == NewEntries(s)
           m == CHOOSE p \in new : \A q \in new : q <= p
<1>1. s \in Subscribed /\ rpc[r] = "idle" /\ new # {} /\ UNCHANGED <<found, proj, processed, log>>
  BY Zenon DEF ReadGroup, Readers, outboxVars
<1>2. /\ m \in Nat /\ cursor[s] <= m /\ 1 .. m \subseteq DOMAIN log[s]
      /\ new = {p \in 1 .. m : p > cursor[s]}
  BY <1>1, NewEntriesFollow, Zenon
<1>3. cursor' = [cursor EXCEPT ![s] = m] /\ pending' = [pending EXCEPT ![s] = @ \cup new]
  BY Zenon DEF ReadGroup
<1>4. \/ inbox' = [inbox EXCEPT ![r] = new] /\ rpc' = [rpc EXCEPT ![r] = "check"]
      \/ UNCHANGED <<inbox, rpc>>
  BY Zenon DEF ReadGroup, Goto
<1> HIDE DEF m, new, s
<1>5. /\ cursor' \in [Subscribed -> Nat] /\ pending' \in [Subscribed -> SUBSET Nat]
      /\ cursor'[s] = m /\ pending'[s] = pending[s] \cup new
      /\ \A u \in Subscribed \ {s} : cursor'[u] = cursor[u] /\ pending'[u] = pending[u]
  BY <1>1, <1>2, <1>3 DEF ReaderInv, ReaderTypeOK
<1>6. /\ inbox' \in [Readers -> SUBSET Nat]
      /\ rpc' \in [Readers -> {"off", "idle", "check", "read", "write", "ack"}]
      /\ \/ inbox'[r] = new /\ rpc'[r] = "check"
         \/ inbox'[r] = inbox[r] /\ rpc'[r] = "idle"
      /\ \A u \in Readers \ {r} : inbox'[u] = inbox[u] /\ rpc'[u] = rpc[u]
  BY <1>1, <1>2, <1>4 DEF ReaderInv, ReaderTypeOK
<1>7. ReaderTypeOK'
  BY <1>1, <1>5, <1>6, Zenon DEF ReaderInv, ReaderTypeOK
<1>8. BusyHasEntry'
  BY <1>1, <1>6, Zenon DEF ReaderInv, BusyHasEntry
<1>9. OutboxTypeOK' /\ Grows
  BY OutboxIdle, Zenon DEF OutboxInv
<1>10. AckAfterProcessing' /\ ProcessedAreRows' /\ FoundWasApplied'
  <2> DEFINE R == Readers \ {r}
  <2>1. R \in SUBSET Readers /\ \A u \in Readers \ R : rpc'[u] # "ack" /\ rpc'[u] # "write"
    BY <1>6, Zenon
  <2>2. \A u \in R : inbox'[u] = inbox[u] /\ rpc'[u] = rpc[u] /\ found'[u] = found[u]
    BY <1>1, <1>6, Zenon
  <2> HIDE DEF R
  <2> QED BY <1>1, <1>7, <1>9, <2>1, <2>2, ReadersUndisturbed, Zenon
<1>11. ProjectionFromEvents'
  BY <1>1, <1>9, ProjectionKept, Zenon
<1>12. AcknowledgedWasProcessed'
  <2> SUFFICES ASSUME NEW u \in Subscribed, NEW p \in 1 .. cursor'[u], p \notin pending'[u]
               PROVE  log[u][p] \in processed
    BY <1>1, Zenon DEF AcknowledgedWasProcessed
  <2>1. p \in 1 .. cursor[u] /\ p \notin pending[u]
    <3>1. CASE u = s
      <4>1. p \in 1 .. m /\ p \notin pending[s] /\ p \notin new
        BY <1>5, <3>1, Zenon
      <4>2. p <= cursor[s]
        BY <1>1, <1>2, <4>1 DEF ReaderInv, ReaderTypeOK
      <4> QED BY <1>1, <3>1, <4>1, <4>2 DEF ReaderInv, ReaderTypeOK
    <3> QED BY <1>5, <3>1, Zenon
  <2> QED BY <2>1, Zenon DEF ReaderInv, AcknowledgedWasProcessed
<1>13. GivenEntries'
  <2>1. \A u \in Subscribed : 1 .. cursor'[u] \subseteq DOMAIN log'[u]
    BY <1>1, <1>2, <1>5, Zenon DEF ReaderInv, GivenEntries
  <2>2. ASSUME NEW u \in Readers PROVE inbox'[u] \subseteq 1 .. cursor'[u[2]]
    <3>1. u[2] \in Subscribed /\ inbox[u] \subseteq 1 .. cursor[u[2]]
      BY Zenon DEF Readers, ReaderInv, GivenEntries
    <3>2. 1 .. cursor[u[2]] \subseteq 1 .. cursor'[u[2]]
      BY <1>1, <1>2, <1>5, <3>1 DEF ReaderInv, ReaderTypeOK
    <3>3. CASE inbox'[u] = inbox[u]
      BY <3>1, <3>2, <3>3, Zenon
    <3>4. CASE u = r /\ inbox'[r] = new
      BY <1>2, <1>5, <3>4, Zenon DEF s
    <3> QED BY <1>6, <3>3, <3>4, Zenon
  <2> QED BY <2>1, <2>2, Zenon DEF GivenEntries
<1> QED BY <1>7, <1>8, <1>10, <1>11, <1>12, <1>13, Zenon DEF ReaderInv

LEMMA ReaderInvInit == ASSUME ProjectionInit, OutboxInit PROVE ReaderInv
<1>1. ReaderTypeOK
  <2>1. proj \in [Payments -> ProjectionRow]
    BY NoRow, Zenon DEF ProjectionInit
  <2>2. found \in [Readers -> ProjectionRow]
    BY NoRow, Zenon DEF ProjectionInit
  <2> QED BY <2>1, <2>2, Zenon DEF ProjectionInit, ReaderTypeOK
<1>2. GivenEntries
  <2>1. \A r \in Readers : r[2] \in Subscribed
    BY Zenon DEF Readers
  <2> QED BY <2>1 DEF ProjectionInit, GivenEntries
<1>3. BusyHasEntry /\ AckAfterProcessing /\ ProcessedAreRows /\ FoundWasApplied
  BY Zenon DEF ProjectionInit, BusyHasEntry, AckAfterProcessing, ProcessedAreRows,
     FoundWasApplied
<1>4. AcknowledgedWasProcessed
  BY DEF ProjectionInit, AcknowledgedWasProcessed
<1>5. ProjectionFromEvents
  BY Zenon DEF ProjectionInit, NoProjection, ProjectionFromEvents
<1> QED BY <1>1, <1>2, <1>3, <1>4, <1>5, Zenon DEF ReaderInv

LEMMA ReaderInvStep ==
  ASSUME OutboxInv, ReaderInv, [Next]_vars
  PROVE  ReaderInv'
<1>1. OutboxTypeOK' /\ Grows
  BY OutboxInvStep, Zenon DEF OutboxInv
<1>2. CASE UNCHANGED projectionVars
  BY <1>1, <1>2, ReadersIdle, Zenon
<1>3. ASSUME NEW r \in Readers, ReaderStep(r), UNCHANGED outboxVars PROVE ReaderInv'
  BY <1>3, ReadGroupKeeps, CheckKeeps, ReadProjectionKeeps, WriteKeeps, AcknowledgeKeeps,
     Zenon
     DEF ReaderStep
<1>4. ASSUME NEW v \in Servers, CrashServer(v) PROVE ReaderInv'
  BY <1>1, <1>4, StopReadersKeeps, Zenon DEF CrashServer
<1> QED BY <1>2, <1>3, <1>4, Zenon DEF Next, vars

LEMMA DeliveryCorrect == Spec => [](OutboxInv /\ ReaderInv)
<1>1. Init => OutboxInv /\ ReaderInv
  BY OutboxInvInit, ReaderInvInit, Zenon DEF Init
<1>2. OutboxInv /\ ReaderInv /\ [Next]_vars => OutboxInv' /\ ReaderInv'
  BY OutboxInvStep, ReaderInvStep, Zenon
<1> QED BY <1>1, <1>2, PTL DEF Spec

\* Nothing is acknowledged that has not been processed: for any number of
\* servers in the consumer group, through failing handlers, answers of Redis that
\* are lost and crashes between the handler's commit and XACK.
THEOREM AckFollowsProcessing == Spec => []AcknowledgedWasProcessed
<1>1. ReaderInv => AcknowledgedWasProcessed
  BY Zenon DEF ReaderInv
<1> QED BY <1>1, DeliveryCorrect, PTL

\* The read model shows only what was announced and applied, though the handlers
\* of several servers read it outside of the transactions in which they write.
THEOREM ReadModelIsFounded == Spec => []ProjectionFromEvents
<1>1. ReaderInv => ProjectionFromEvents
  BY Zenon DEF ReaderInv
<1> QED BY <1>1, DeliveryCorrect, PTL

\* What a reader's step does to the other readers, to processed_events and to
\* the projection.
LEMMA ReaderEffect ==
  ASSUME ReaderInv, StillUnprocessed, NEW r \in Readers, ReaderStep(r)
  PROVE  /\ \A u \in Readers \ {r} : rpc'[u] = rpc[u] /\ inbox'[u] = inbox[u]
         /\ \/ processed' = processed /\ proj' = proj
            \/ rpc[r] = "write" /\ rpc'[r] = "ack" /\ processed' = processed \cup {EventAt(r)}
         /\ rpc'[r] \in {"read", "write"} =>
              inbox[r] # {} /\ inbox'[r] = inbox[r] /\ EventAt(r) \notin processed
<1>1. ASSUME NextEntry(r)
      PROVE  /\ \A u \in Readers \ {r} : rpc'[u] = rpc[u] /\ inbox'[u] = inbox[u]
             /\ rpc'[r] \notin {"read", "write"}
  BY <1>1, Zenon DEF NextEntry, Goto, ReaderInv, ReaderTypeOK
<1>2. ASSUME NEW step, Goto(r, step)
      PROVE  rpc'[r] = step /\ \A u \in Readers \ {r} : rpc'[u] = rpc[u]
  BY <1>2, Zenon DEF Goto, ReaderInv, ReaderTypeOK
<1>3. rpc[r] \notin {"idle", "off"} => inbox[r] # {}
  BY Zenon DEF ReaderInv, BusyHasEntry
<1>4. CASE ReadGroup(r)
  <2>1. \A u \in Readers \ {r} : inbox'[u] = inbox[u]
    BY <1>4, Zenon DEF ReadGroup, ReaderInv, ReaderTypeOK
  <2>2. /\ \A u \in Readers \ {r} : rpc'[u] = rpc[u]
        /\ rpc'[r] \notin {"read", "write"} /\ processed' = processed /\ proj' = proj
    BY <1>2, <1>4 DEF ReadGroup
  <2> QED BY <2>1, <2>2, Zenon
<1>5. CASE CheckProcessed(r)
  <2>1. processed' = processed /\ proj' = proj /\ inbox[r] # {}
    BY <1>3, <1>5, Zenon DEF CheckProcessed
  <2>2. CASE HandlerFails(r)
    BY <1>1, <2>1, <2>2, Zenon DEF HandlerFails
  <2>3. CASE Goto(r, IF IsEventProcessed(EventAt(r)) THEN "ack" ELSE "read") /\ UNCHANGED inbox
    BY <1>2, <2>1, <2>3 DEF IsEventProcessed
  <2> QED BY <1>5, <2>2, <2>3, Zenon DEF CheckProcessed
<1>6. CASE ReadProjection(r)
  <2>1. EventAt(r) \notin processed /\ inbox[r] # {}
    BY <1>3, <1>6, Zenon DEF ReadProjection, StillUnprocessed
  <2> QED BY <1>2, <1>6, <2>1, Zenon DEF ReadProjection
<1>7. CASE WriteProjection(r)
  <2>1. CASE HandlerFails(r) /\ UNCHANGED <<proj, processed>>
    BY <1>1, <2>1, Zenon DEF HandlerFails
  <2>2. CASE MarkEventProcessed(EventAt(r)) /\ Goto(r, "ack") /\ UNCHANGED inbox
    BY <1>2, <1>7, <2>2 DEF MarkEventProcessed, WriteProjection
  <2> QED BY <1>7, <2>1, <2>2, Zenon DEF WriteProjection
<1>8. CASE Acknowledge(r)
  BY <1>1, <1>8, Zenon DEF Acknowledge
<1> QED BY <1>4, <1>5, <1>6, <1>7, <1>8, Zenon DEF ReaderStep

OneServer == \A u, v \in Servers : u = v

LEMMA UnprocessedStep ==
  ASSUME OneServer, OutboxInv, ReaderInv, StillUnprocessed, [Next]_vars
  PROVE  StillUnprocessed' /\ (proj' # proj => processed # processed')
<1>1. Grows
  BY OutboxInvStep, Zenon
<1>2. \A u \in Readers : rpc[u] \in {"read", "write"} => inbox[u] # {}
  BY Zenon DEF ReaderInv, BusyHasEntry
<1>3. CASE UNCHANGED projectionVars
  <2>1. ASSUME NEW u \in Readers, rpc'[u] \in {"read", "write"} PROVE EventAt(u)' \notin processed'
    <3>1. rpc[u] = rpc'[u] /\ inbox'[u] = inbox[u] /\ processed' = processed
      BY <1>3, Zenon DEF projectionVars
    <3> QED BY <1>1, <1>2, <2>1, <3>1, EntryStays, Zenon DEF StillUnprocessed
  <2> QED BY <1>3, <2>1, Zenon DEF StillUnprocessed, projectionVars
<1>4. ASSUME NEW r \in Readers, ReaderStep(r), UNCHANGED outboxVars
      PROVE  StillUnprocessed' /\ (proj' # proj => processed # processed')
  <2>1. /\ \A u \in Readers \ {r} : rpc'[u] = rpc[u] /\ inbox'[u] = inbox[u]
        /\ \/ processed' = processed /\ proj' = proj
           \/ rpc[r] = "write" /\ rpc'[r] = "ack" /\ processed' = processed \cup {EventAt(r)}
        /\ rpc'[r] \in {"read", "write"} =>
             inbox[r] # {} /\ inbox'[r] = inbox[r] /\ EventAt(r) \notin processed
    BY <1>4, ReaderEffect, Zenon
  <2>2. proj' # proj => processed # processed'
    BY <2>1, Zenon DEF StillUnprocessed
  <2>3. ASSUME NEW u \in Readers, rpc'[u] \in {"read", "write"} PROVE EventAt(u)' \notin processed'
    <3>1. CASE u = r
      BY <1>1, <2>1, <2>3, <3>1, EntryStays, Zenon
    <3>2. CASE u # r
      <4>1. rpc[u] = rpc'[u] /\ inbox[u] # {} /\ EventAt(u) \notin processed /\ EventAt(u)' = EventAt(u)
        BY <1>1, <1>2, <2>1, <2>3, <3>2, EntryStays, Zenon DEF StillUnprocessed
      <4>2. ASSUME rpc[r] = "write" PROVE EventAt(u) # EventAt(r)
        <5>1. u[2] # r[2]
          BY <3>2 DEF Readers, OneServer
        <5>2. stream[EventAt(u)] = u[2] /\ stream[EventAt(r)] = r[2]
          BY <1>2, <4>1, <4>2, EntryAt, Zenon
        <5> QED BY <5>1, <5>2, Zenon
      <4> QED BY <2>1, <4>1, <4>2
    <3> QED BY <3>1, <3>2, Zenon
  <2> QED BY <2>2, <2>3, Zenon DEF StillUnprocessed
<1>5. ASSUME NEW v \in Servers, CrashServer(v)
      PROVE  StillUnprocessed' /\ (proj' # proj => processed # processed')
  <2>1. ASSUME NEW u \in Readers PROVE rpc'[u] \notin {"read", "write"}
    <3>1. u[1] = v
      BY Zenon DEF Readers, OneServer
    <3> QED BY <1>5, <3>1, Zenon DEF CrashServer, StopReaders
  <2> QED BY <1>5, <2>1, Zenon DEF StillUnprocessed, CrashServer, StopReaders
<1> QED BY <1>3, <1>4, <1>5, Zenon DEF Next, vars

\* With one server, an announcement changes the read model at most once, however
\* often its row is in the stream: a step that changes payment_read_projections
\* records an event that was not in processed_events (ConsumerIdempotency).  Two
\* servers can both find an event unprocessed, so the hypothesis is needed.
THEOREM NeverAppliedTwice ==
  ASSUME OneServer
  PROVE  Spec => AppliedOnce
<1>1. Init => StillUnprocessed
  BY Zenon DEF Init, ProjectionInit, StillUnprocessed
<1>2. OutboxInv /\ ReaderInv /\ StillUnprocessed /\ [Next]_vars
        => StillUnprocessed' /\ [proj' # proj => processed # processed']_vars
  BY UnprocessedStep, Zenon
<1> QED BY <1>1, <1>2, DeliveryCorrect, PTL DEF Spec, AppliedOnce
=============================================================================
