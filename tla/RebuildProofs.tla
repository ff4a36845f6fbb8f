--------------------------- MODULE RebuildProofs ----------------------------
(***************************************************************************)
(* The rebuild of the read model from the event store, for any number of   *)
(* events and payments, beside any number of servers.                      *)
(***************************************************************************)
EXTENDS Rebuild, DeliveryProofs

\* The events about payment x among the first n that count for its projection,
\* and the projection that they amount to: FromEvents is the case of all events.
Upto(n, x) == {i \in EventsOf(x) : i <= n /\ StreamOf[store[i]] # "payment.recovery"}
Least(A) == CHOOSE i \in A : \A j \in A : i <= j
Greatest(A) == CHOOSE i \in A : \A j \in A : j <= i
FromFirst(n, x) ==
  IF Upto(n, x) = {} THEN NoProjection
  ELSE [status |-> StatusOf[store[Greatest(Upto(n, x))]],
        details |-> StreamOf[store[Least(Upto(n, x))]] = "payment.settled",
        settledAt |-> \E i \in Upto(n, x) : StreamOf[store[i]] = "payment.settled"]

IsRow(p) == p = [status |-> p.status, details |-> p.details, settledAt |-> p.settledAt]

ToolSteps == {"off", "truncate", "reset", "list", "replay", "write", "checkpoint",
              "accepted", "rejected"}

\* The tool is at one of the events it has listed, which are stored for good.
ToolInv ==
  /\ store \in Seq(Facts) /\ owed \subseteq Facts
  /\ listed \in Nat /\ listed <= Len(store)
  /\ pos \in Nat /\ 1 <= pos /\ pos <= listed + 1
  /\ tool \in ToolSteps
  /\ tool = "write" => pos <= listed /\ StreamOf[store[pos]] # "payment.recovery"
  /\ proj = [x \in Payments |-> proj[x]]
  /\ \A x \in Payments : IsRow(proj[x]) /\ IsRow(cached[x])

\* As long as nobody else writes, the tables hold what the events before the
\* current one amount to, and the checkpoint is the last of those unless that
\* was skipped.
QuietInv ==
  quiet =>
    /\ tool # "off"
    /\ tool \in {"reset", "list"} => \A x \in Payments : proj[x] = NoProjection
    /\ tool = "list" => checkpoint = 0
    /\ tool \in {"replay", "write", "checkpoint", "accepted", "rejected"} =>
         /\ listed = Len(store)
         /\ \A x \in Payments : proj[x] = FromFirst(pos - 1, x)
         /\ pos = 1 => checkpoint = 0
         /\ pos > 1 => StreamOf[store[pos - 1]] = "payment.recovery" \/ checkpoint = pos - 1
    /\ tool = "write" => saw = proj[PaymentOf[store[pos]]]
    /\ tool \in {"checkpoint", "accepted", "rejected"} => pos = listed + 1
    /\ tool \in {"checkpoint", "accepted"} => Verified(proj)
    /\ tool = "rejected" => ~Verified(proj) \/ checkpoint # listed

LEMMA LeastIs ==
  ASSUME NEW A \in SUBSET Nat, NEW m \in A, \A j \in A : m <= j
  PROVE  Least(A) = m
<1> DEFINE P(i) == i \in A /\ \A j \in A : i <= j
<1>1. P(m)
  BY Zenon
<1>2. Least(A) = CHOOSE i : P(i)
  BY Zenon DEF Least
<1> HIDE DEF P
<1>3. P(Least(A))
  BY <1>1, <1>2, Zenon
<1> DEFINE l == Least(A)
<1>4. l \in A /\ l <= m /\ m <= l
  BY <1>3, Zenon DEF P
<1>5. l \in Nat /\ m \in Nat
  BY <1>4, Zenon
<1> HIDE DEF l
<1>6. l = m
  BY <1>4, <1>5
<1> QED BY <1>6, Zenon DEF l

LEMMA GreatestIs ==
  ASSUME NEW A \in SUBSET Nat, NEW m \in A, \A j \in A : j <= m
  PROVE  Greatest(A) = m
<1> DEFINE P(i) == i \in A /\ \A j \in A : j <= i
<1>1. P(m)
  BY Zenon
<1>2. Greatest(A) = CHOOSE i : P(i)
  BY Zenon DEF Greatest
<1> HIDE DEF P
<1>3. P(Greatest(A))
  BY <1>1, <1>2, Zenon
<1> DEFINE l == Greatest(A)
<1>4. l \in A /\ l <= m /\ m <= l
  BY <1>3, Zenon DEF P
<1>5. l \in Nat /\ m \in Nat
  BY <1>4, Zenon
<1> HIDE DEF l
<1>6. l = m
  BY <1>4, <1>5
<1> QED BY <1>6, Zenon DEF l

\* A set of numbers up to n has a greatest one: the least distance from n.
LEMMA GreatestIn ==
  ASSUME NEW n \in Nat, NEW A \in SUBSET Nat, A # {}, \A i \in A : i <= n
  PROVE  \E m \in A : \A j \in A : j <= m
<1> DEFINE D == {n - i : i \in A}
<1>1. D \in SUBSET Nat /\ D # {}
  <2>1. ASSUME NEW i \in A PROVE n - i \in Nat
    <3>1. i \in Nat /\ i <= n
      BY Zenon
    <3> QED BY <3>1
  <2> QED BY <2>1, Zenon
<1>2. PICK d \in D : \A c \in D : d <= c
  BY <1>1, LeastNumber, Zenon
<1>3. PICK m \in A : d = n - m
  BY Zenon
<1>4. ASSUME NEW j \in A PROVE j <= m
  <2>1. n - j \in D
    BY Zenon
  <2>2. d <= n - j
    BY <1>2, <2>1, Zenon
  <2> QED BY <1>3, <2>2
<1> QED BY <1>4, Zenon

\* The first of the events that count stays the first, and an event that counts
\* becomes the last.
LEMMA NextEvent ==
  ASSUME store \in Seq(Facts), NEW n \in Nat, n < Len(store), NEW x \in Payments
  PROVE  LET f == store[n + 1]
             before == FromFirst(n, x)
             settled == StreamOf[f] = "payment.settled"
         IN  IF PaymentOf[f] = x /\ StreamOf[f] # "payment.recovery"
             THEN FromFirst(n + 1, x) =
                    [status |-> StatusOf[f],
                     details |-> IF before.status = "NONE" THEN settled ELSE before.details,
                     settledAt |-> settled \/ before.settledAt]
             ELSE FromFirst(n + 1, x) = before
<1> DEFINE f == store[n + 1]
           A == Upto(n, x)
           B == Upto(n + 1, x)
           counts == PaymentOf[f] = x /\ StreamOf[f] # "payment.recovery"
<1>1. n + 1 \in DOMAIN store /\ DOMAIN store = 1 .. Len(store) /\ Len(store) \in Nat /\ f \in Facts
  OBVIOUS
<1>2. A \in SUBSET Nat /\ B \in SUBSET Nat /\ \A i \in A : i <= n /\ store[i] \in Facts
  BY <1>1 DEF Upto, EventsOf
<1>3. B = IF counts THEN A \cup {n + 1} ELSE A
  <2>1. ASSUME NEW i \in DOMAIN store PROVE i <= n + 1 <=> i <= n \/ i = n + 1
    BY <1>1, <2>1
  <2> QED BY <1>1, <2>1, Zenon DEF Upto, EventsOf
<1>4. CASE ~counts
  <2>1. A = B
    BY <1>3, <1>4, Zenon
  <2> HIDE DEF A, B
  <2>2. FromFirst(n + 1, x) = FromFirst(n, x)
    BY <2>1, Zenon DEF FromFirst, A, B
  <2> QED BY <1>4, <2>2, Zenon
<1>5. CASE counts
  <2>1. n + 1 \in B /\ B # {} /\ \A j \in B : j <= n + 1
    BY <1>2, <1>3, <1>5
  <2>2. Greatest(B) = n + 1
    BY <1>2, <2>1, GreatestIs, Zenon
  <2> DEFINE settled == StreamOf[f] = "payment.settled"
             before == FromFirst(n, x)
             any == \E i \in A : StreamOf[store[i]] = "payment.settled"
  <2>3. (\E i \in B : StreamOf[store[i]] = "payment.settled") <=> settled \/ any
    BY <1>3, <1>5, Zenon
  <2>4. FromFirst(n + 1, x) =
          [status |-> StatusOf[f], details |-> StreamOf[store[Least(B)]] = "payment.settled",
           settledAt |-> settled \/ any]
    BY <2>1, <2>2, <2>3, Zenon DEF FromFirst
  <2>5. CASE A = {}
    <3>1. Least(B) = n + 1
      BY <1>2, <1>3, <1>5, <2>1, <2>5, LeastIs
    <3>2. before = NoProjection /\ ~any
      BY <2>5, Zenon DEF FromFirst
    <3> QED BY <1>5, <2>4, <3>1, <3>2 DEF NoProjection
  <2>6. CASE A # {}
    <3>1. PICK m \in A : \A j \in A : m <= j
      BY <1>2, <2>6, LeastNumber, Zenon
    <3>2. Least(A) = m
      BY <1>2, <3>1, LeastIs, Zenon
    <3>3. m \in B /\ \A j \in B : m <= j
      BY <1>2, <1>3, <1>5, <3>1
    <3>4. Least(B) = m
      BY <1>2, <3>3, LeastIs, Zenon
    <3>5. before = [status |-> StatusOf[store[Greatest(A)]],
                    details |-> StreamOf[store[Least(A)]] = "payment.settled",
                    settledAt |-> any]
      BY <2>6, Zenon DEF FromFirst
    <3>6. Greatest(A) \in A
      <4>1. PICK k \in A : \A j \in A : j <= k
        BY <1>1, <1>2, <2>6, GreatestIn, Zenon
      <4> QED BY <1>2, <4>1, GreatestIs, Zenon
    <3>7. before.status # "NONE"
      BY <1>2, <3>5, <3>6, ProjectionAssumption
    <3> QED BY <1>5, <2>4, <3>2, <3>4, <3>5, <3>7
  <2> QED BY <2>5, <2>6, Zenon
<1> QED BY <1>4, <1>5, Zenon

\* All of the events are the first Len(store) ones.
LEMMA AllOfThem ==
  ASSUME store \in Seq(Facts), NEW x \in Payments
  PROVE  FromEvents(x) = FromFirst(Len(store), x)
<1> DEFINE about == {i \in EventsOf(x) : StreamOf[store[i]] # "payment.recovery"}
<1>1. about = Upto(Len(store), x)
  BY DEF EventsOf, Upto
<1> HIDE DEF about
<1>2. FromEvents(x) =
        IF about = {} THEN NoProjection
        ELSE [status |-> StatusOf[store[Greatest(about)]],
              details |-> StreamOf[store[Least(about)]] = "payment.settled",
              settledAt |-> \E i \in about : StreamOf[store[i]] = "payment.settled"]
  BY Zenon DEF FromEvents, about, Least, Greatest
<1> QED BY <1>1, <1>2, Zenon DEF FromFirst

LEMMA UpsertEffect ==
  ASSUME proj = [x \in Payments |-> proj[x]], \A x \in Payments : IsRow(proj[x]),
         NEW y, NEW status, NEW details, NEW settledAt, Upsert(y, status, details, settledAt)
  PROVE  /\ proj' = [x \in Payments |-> proj'[x]]
         /\ \A x \in Payments :
              /\ IsRow(proj'[x])
              /\ x # y => proj'[x] = proj[x]
              /\ x = y => proj'[x] =
                   [status |-> status,
                    details |-> IF proj[x].status = "NONE" THEN details ELSE proj[x].details,
                    settledAt |-> settledAt]
BY Zenon DEF Upsert, IsRow

\* What a step of the server can do to the tables the tool works with.
LEMMA ServerEffect ==
  ASSUME ToolInv, ServerStep
  PROVE  /\ UNCHANGED toolVars
         /\ owed' \subseteq Facts
         /\ store' = store \/ \E f \in Facts : store' = Append(store, f)
         /\ proj' = [x \in Payments |-> proj'[x]] /\ \A x \in Payments : IsRow(proj'[x])
         /\ quiet' => quiet /\ UNCHANGED <<proj, processed, checkpoint, store>>
<1> DEFINE Kept == proj' = [x \in Payments |-> proj'[x]] /\ \A x \in Payments : IsRow(proj'[x])
<1>1. UNCHANGED toolVars /\ (quiet' => quiet /\ UNCHANGED <<proj, processed, checkpoint, store>>)
  BY Zenon DEF ServerStep
<1>2. proj' = proj => Kept
  BY Zenon DEF ToolInv
<1>3. ASSUME NEW f \in Facts, Services(f), UNCHANGED projectionVars
      PROVE  /\ owed' \subseteq Facts /\ Kept
             /\ store' = store \/ \E g \in Facts : store' = Append(store, g)
  BY <1>2, <1>3, Zenon DEF Services, PublishSettled, AnnounceFailed, SaveFailedEvent,
     RecordFailure,
     SaveEvent, projectionVars, ToolInv
<1>4. ASSUME NEW w \in Workers, UNCHANGED <<projectionVars, store, owed>>
      PROVE  owed' \subseteq Facts /\ Kept /\ store' = store
  BY <1>2, <1>4, Zenon DEF projectionVars, ToolInv
<1>5. ASSUME NEW r \in Readers, ReaderStep(r), UNCHANGED <<outboxVars, store, owed>>
      PROVE  owed' \subseteq Facts /\ Kept /\ store' = store
  <2>1. proj' = proj \/ \E y, status, details, settledAt : Upsert(y, status, details, settledAt)
    BY <1>5, Zenon DEF ReaderStep, ReadGroup, CheckProcessed, ReadProjection,
       WriteProjection, Acknowledge
  <2>2. Kept
    BY <1>2, <2>1, UpsertEffect, Zenon DEF ToolInv
  <2> QED BY <1>5, <2>2, Zenon DEF ToolInv
<1> HIDE DEF Kept
<1>6. owed' \subseteq Facts /\ Kept /\ (store' = store \/ \E f \in Facts : store' = Append(store, f))
  BY <1>3, <1>4, <1>5, Zenon DEF ServerStep
<1> QED BY <1>1, <1>6, Zenon DEF Kept

LEMMA ToolInvInit == ASSUME RebuildInit PROVE ToolInv
BY DEF RebuildInit, Init, ProjectionInit, ToolInv, NoCache, NoProjection, IsRow, ToolSteps

LEMMA ServerKeepsTool ==
  ASSUME ToolInv, ServerStep
  PROVE  ToolInv'
<1>1. UNCHANGED toolVars /\ owed' \subseteq Facts
      /\ proj' = [x \in Payments |-> proj'[x]] /\ \A x \in Payments : IsRow(proj'[x])
  BY ServerEffect, Zenon
<1>2. \A x \in Payments : IsRow(cached'[x])
  BY <1>1, Zenon DEF ToolInv, toolVars
<1>3. /\ store' \in Seq(Facts) /\ Len(store) \in Nat /\ Len(store') \in Nat
      /\ Len(store) <= Len(store') /\ \A i \in 1 .. Len(store) : store'[i] = store[i]
  <2>1. store \in Seq(Facts) /\ Len(store) \in Nat
    BY DEF ToolInv
  <2>2. CASE store' = store
    BY <2>1, <2>2
  <2>3. CASE \E f \in Facts : store' = Append(store, f)
    BY <2>1, <2>3
  <2> QED BY <2>2, <2>3, ServerEffect, Zenon
<1>4. tool' = "write" => pos' <= listed' /\ StreamOf[store'[pos']] # "payment.recovery"
  <2>1. SUFFICES ASSUME tool = "write"
                 PROVE  pos <= listed /\ StreamOf[store'[pos]] # "payment.recovery"
    BY <1>1, Zenon DEF toolVars
  <2>2. pos \in 1 .. Len(store)
    BY <1>3, <2>1 DEF ToolInv
  <2> QED BY <1>3, <2>1, <2>2, Zenon DEF ToolInv
<1> QED BY <1>1, <1>2, <1>3, <1>4 DEF ToolInv, toolVars

LEMMA RebuildKeepsTool ==
  ASSUME ToolInv, RebuildStep
  PROVE  ToolInv'
<1>1. UNCHANGED <<store, owed>> /\ store \in Seq(Facts) /\ Len(store) \in Nat /\ owed \subseteq Facts
  BY DEF RebuildStep, ToolInv
<1>2. CASE WriteEvent
  <2>1. PICK status, details, settledAt : Upsert(PaymentOf[store[pos]], status, details, settledAt)
    BY <1>2, Zenon DEF WriteEvent, Replayed
  <2>2. proj' = [x \in Payments |-> proj'[x]] /\ \A x \in Payments : IsRow(proj'[x])
    BY <2>1, UpsertEffect, Zenon DEF ToolInv
  <2> QED BY <1>1, <1>2, <2>2 DEF WriteEvent, ToolInv, ToolSteps
<1>3. CASE ReplayEvent
  BY <1>1, <1>3 DEF ReplayEvent, ToolInv, ToolSteps
<1>4. CASE CacheProjections \/ ResetCheckpoint
  BY <1>1, <1>4, Zenon DEF CacheProjections, ResetCheckpoint, ToolInv, ToolSteps
<1>7. NoCache = [x \in Payments |-> NoCache[x]] /\ \A x \in Payments : IsRow(NoCache[x])
  BY Zenon DEF NoCache, NoProjection, IsRow
<1>8. CASE Truncate
  BY <1>1, <1>7, <1>8, Zenon DEF Truncate, ToolInv, ToolSteps
<1>9. CASE Exit
  BY <1>1, <1>7, <1>9 DEF Exit, ToolInv, ToolSteps
<1>5. CASE ListEvents
  BY <1>1, <1>5 DEF ListEvents, AllEvents, ToolInv, ToolSteps
<1>6. CASE VerifyProjections \/ VerifyCheckpoint
  BY <1>1, <1>6, Zenon DEF VerifyProjections, VerifyCheckpoint, ToolInv, ToolSteps
<1> QED BY <1>2, <1>3, <1>4, <1>5, <1>6, <1>8, <1>9, Zenon DEF RebuildStep

\* A projection without a status is that of a payment without events.
LEMMA NoneMeansNothing ==
  ASSUME store \in Seq(Facts), NEW n \in Nat, NEW x \in Payments, FromFirst(n, x).status = "NONE"
  PROVE  FromFirst(n, x) = NoProjection
<1> DEFINE A == Upto(n, x)
<1>1. SUFFICES ASSUME A # {} PROVE FALSE
  BY Zenon DEF FromFirst
<1>2. A \in SUBSET Nat /\ \A i \in A : i <= n /\ store[i] \in Facts
  BY DEF Upto, EventsOf
<1>3. PICK k \in A : \A j \in A : j <= k
  BY <1>1, <1>2, GreatestIn, Zenon
<1>4. Greatest(A) = k
  BY <1>2, <1>3, GreatestIs, Zenon
<1>5. FromFirst(n, x).status = StatusOf[store[k]]
  BY <1>1, <1>4, Zenon DEF FromFirst
<1> QED BY <1>2, <1>3, <1>5, ProjectionAssumption, Zenon

LEMMA ServerKeepsQuiet ==
  ASSUME ToolInv, QuietInv, ServerStep
  PROVE  QuietInv'
<1>1. SUFFICES ASSUME quiet' PROVE QuietInv'
  BY Zenon DEF QuietInv
<1>2. quiet /\ UNCHANGED <<proj, processed, checkpoint, store, toolVars, quiet>>
  BY <1>1, ServerEffect, Zenon DEF ServerStep
<1>3. \A n, x : FromFirst(n, x)' = FromFirst(n, x)
  BY <1>2 DEF FromFirst, Upto, EventsOf
<1>4. Verified(proj)' <=> Verified(proj)
  BY <1>2, Zenon DEF Verified, Shown, toolVars
<1> QED BY <1>2, <1>3, <1>4, Zenon DEF QuietInv, toolVars

LEMMA WriteKeepsQuiet ==
  ASSUME ToolInv, QuietInv, WriteEvent, UNCHANGED store
  PROVE  QuietInv'
<1>1. SUFFICES ASSUME quiet PROVE QuietInv'
  BY Zenon DEF QuietInv, WriteEvent
<1> DEFINE n == pos - 1
           f == store[pos]
<1>2. /\ store \in Seq(Facts) /\ Len(store) \in Nat /\ pos \in Nat /\ n \in Nat /\ pos = n + 1
      /\ n < Len(store) /\ pos <= listed /\ listed = Len(store) /\ f = store[n + 1]
      /\ StreamOf[f] # "payment.recovery"
      /\ saw = proj[PaymentOf[f]]
  BY <1>1 DEF ToolInv, QuietInv, WriteEvent
<1>3. /\ tool' = "replay" /\ pos' = pos + 1 /\ checkpoint' = pos
      /\ UNCHANGED <<cached, listed, quiet, store>>
  BY Zenon DEF WriteEvent
<1>4. ASSUME NEW x \in Payments PROVE proj'[x] = FromFirst(pos, x)
  <2> DEFINE settled == StreamOf[f] = "payment.settled"
             before == FromFirst(n, x)
  <2>1. proj[x] = before
    BY <1>1, Zenon DEF QuietInv, WriteEvent
  <2>2. Upsert(PaymentOf[f], StatusOf[f], settled \/ saw.details, settled \/ saw.settledAt)
    BY Zenon DEF WriteEvent, Replayed
  <2>3. /\ x # PaymentOf[f] => proj'[x] = proj[x]
        /\ x = PaymentOf[f] => proj'[x] =
             [status |-> StatusOf[f],
              details |-> IF proj[x].status = "NONE" THEN settled \/ saw.details ELSE proj[x].details,
              settledAt |-> settled \/ saw.settledAt]
    BY <2>2, UpsertEffect DEF ToolInv
  <2>4. IF PaymentOf[f] = x /\ StreamOf[f] # "payment.recovery"
        THEN FromFirst(n + 1, x) =
               [status |-> StatusOf[f],
                details |-> IF before.status = "NONE" THEN settled ELSE before.details,
                settledAt |-> settled \/ before.settledAt]
        ELSE FromFirst(n + 1, x) = before
    BY <1>2, NextEvent, ZenonT(30)
  <2>5. CASE x # PaymentOf[f]
    BY <1>2, <2>1, <2>3, <2>4, <2>5, Zenon
  <2>6. CASE x = PaymentOf[f]
    <3>1. saw = before
      BY <1>2, <2>1, <2>6, Zenon
    <3>2. before.status = "NONE" => before = NoProjection
      BY <1>2, NoneMeansNothing, Zenon
    <3>3. before.status = "NONE" => before.details = FALSE
      BY <3>2 DEF NoProjection
    <3> HIDE DEF before, settled
    <3>4. (IF before.status = "NONE" THEN settled \/ before.details ELSE before.details)
            = (IF before.status = "NONE" THEN settled \/ FALSE ELSE before.details)
      BY <3>3, Zenon
    <3>5. (settled \/ FALSE) = settled
      BY Zenon DEF settled
    <3> QED BY <1>2, <2>1, <2>3, <2>4, <2>6, <3>1, <3>4, <3>5, Zenon
  <2> QED BY <2>5, <2>6, Zenon
<1>5. \A m, x : FromFirst(m, x)' = FromFirst(m, x)
  BY <1>3 DEF FromFirst, Upto, EventsOf
<1>6. pos' - 1 = pos /\ pos' # 1
  BY <1>2, <1>3
<1> QED BY <1>1, <1>2, <1>3, <1>4, <1>5, <1>6, Zenon DEF QuietInv

LEMMA ReplayKeepsQuiet ==
  ASSUME ToolInv, QuietInv, ReplayEvent, UNCHANGED store
  PROVE  QuietInv'
<1>1. SUFFICES ASSUME quiet PROVE QuietInv'
  BY Zenon DEF QuietInv, ReplayEvent
<1> DEFINE n == pos - 1
           f == store[pos]
<1>2. /\ store \in Seq(Facts) /\ Len(store) \in Nat /\ pos \in Nat /\ n \in Nat /\ pos = n + 1
      /\ n < Len(store) /\ pos <= listed /\ listed = Len(store) /\ f = store[n + 1]
  BY <1>1 DEF ToolInv, QuietInv, ReplayEvent
<1>3. UNCHANGED <<proj, checkpoint, cached, listed, quiet, store>> /\ tool = "replay"
  BY Zenon DEF ReplayEvent
<1>4. \A m, x : FromFirst(m, x)' = FromFirst(m, x)
  BY <1>3 DEF FromFirst, Upto, EventsOf
<1>5. CASE StreamOf[f] = "payment.recovery"
  <2>1. pos' = pos + 1 /\ tool' = "replay"
    BY <1>5, Zenon DEF ReplayEvent
  <2>2. ASSUME NEW x \in Payments PROVE proj[x] = FromFirst(pos, x)
    <3>1. proj[x] = FromFirst(n, x)
      BY <1>1, <1>3, Zenon DEF QuietInv
    <3>2. FromFirst(n + 1, x) = FromFirst(n, x)
      BY <1>2, <1>5, NextEvent, Zenon
    <3> QED BY <1>2, <3>1, <3>2, Zenon
  <2>3. pos' - 1 = pos /\ pos' # 1
    BY <1>2, <2>1
  <2> QED BY <1>1, <1>2, <1>3, <1>4, <1>5, <2>1, <2>2, <2>3, Zenon DEF QuietInv
<1>6. CASE StreamOf[f] # "payment.recovery"
  <2>1. pos' = pos /\ tool' = "write" /\ saw' = proj[PaymentOf[f]]
    BY <1>6, Zenon DEF ReplayEvent
  <2> QED BY <1>1, <1>2, <1>3, <1>4, <2>1, Zenon DEF QuietInv
<1> QED BY <1>5, <1>6, Zenon

LEMMA RebuildKeepsQuiet ==
  ASSUME ToolInv, QuietInv, RebuildStep
  PROVE  QuietInv'
<1>1. UNCHANGED store /\ store \in Seq(Facts) /\ Len(store) \in Nat
  BY DEF RebuildStep, ToolInv
<1>2. CASE WriteEvent
  BY <1>1, <1>2, WriteKeepsQuiet, Zenon
<1>3. CASE ReplayEvent
  BY <1>1, <1>3, ReplayKeepsQuiet, Zenon
<1>4. CASE CacheProjections
  BY <1>4, Zenon DEF CacheProjections, QuietInv
<1>5. CASE Truncate
  BY <1>5, Zenon DEF Truncate, QuietInv, NoCache
<1>6. CASE ResetCheckpoint
  BY <1>6, Zenon DEF ResetCheckpoint, QuietInv
<1>7. CASE Exit
  BY <1>7, Zenon DEF Exit, QuietInv
<1>8. CASE ListEvents
  <2>1. ASSUME NEW x \in Payments PROVE FromFirst(0, x)' = NoProjection
    <3>1. Upto(0, x)' = {}
      BY <1>1 DEF Upto, EventsOf
    <3> QED BY <3>1, Zenon DEF FromFirst
  <2> QED BY <1>1, <1>8, <2>1 DEF ListEvents, AllEvents, QuietInv
<1>9. \A m, x : FromFirst(m, x)' = FromFirst(m, x)
  BY <1>1 DEF FromFirst, Upto, EventsOf
<1>10. CASE VerifyProjections
  <2>1. Verified(proj)' <=> Verified(proj)
    BY <1>10, Zenon DEF VerifyProjections, Verified, Shown
  <2>2. pos' = listed' + 1
    BY <1>10 DEF VerifyProjections, ToolInv
  <2> QED BY <1>1, <1>9, <1>10, <2>1, <2>2, Zenon DEF VerifyProjections, QuietInv
<1>11. CASE VerifyCheckpoint
  <2>1. Verified(proj)' <=> Verified(proj)
    BY <1>11, Zenon DEF VerifyCheckpoint, Verified, Shown
  <2> QED BY <1>1, <1>9, <1>11, <2>1, Zenon DEF VerifyCheckpoint, QuietInv
<1> QED BY <1>2, <1>3, <1>4, <1>5, <1>6, <1>7, <1>8, <1>10, <1>11, Zenon DEF RebuildStep

LEMMA QuietRebuild == RebuildSpec => [](ToolInv /\ QuietInv)
<1>1. RebuildInit => ToolInv /\ QuietInv
  BY ToolInvInit, Zenon DEF RebuildInit, QuietInv
<1>2. ToolInv /\ QuietInv /\ [RebuildNext]_rebuildVars => (ToolInv /\ QuietInv)'
  <2>1. SUFFICES ASSUME ToolInv, QuietInv, [RebuildNext]_rebuildVars PROVE ToolInv' /\ QuietInv'
    BY Zenon
  <2>2. CASE ServerStep
    BY <2>1, <2>2, ServerKeepsTool, ServerKeepsQuiet, Zenon
  <2>3. CASE RebuildStep
    BY <2>1, <2>3, RebuildKeepsTool, RebuildKeepsQuiet, Zenon
  <2>4. CASE UNCHANGED rebuildVars
    <3>1. UNCHANGED <<store, owed, tool, cached, listed, pos, saw, proj, checkpoint, quiet>>
      BY <2>4, Zenon DEF rebuildVars, toolVars, vars, projectionVars
    <3>2. ToolInv'
      BY <2>1, <3>1, Zenon DEF ToolInv
    <3>3. \A m, x : FromFirst(m, x)' = FromFirst(m, x)
      BY <3>1 DEF FromFirst, Upto, EventsOf
    <3>4. Verified(proj)' <=> Verified(proj)
      BY <3>1, Zenon DEF Verified, Shown
    <3> QED BY <2>1, <3>1, <3>2, <3>3, <3>4, Zenon DEF QuietInv
  <2> QED BY <2>1, <2>2, <2>3, <2>4, Zenon DEF RebuildNext
<1> QED BY <1>1, <1>2, PTL DEF RebuildSpec

\* The tables after the last event.
LEMMA AfterTheLast ==
  ASSUME ToolInv, QuietInv, quiet, tool \in {"checkpoint", "accepted", "rejected"}
  PROVE  /\ listed = Len(store) /\ pos = listed + 1
         /\ \A x \in Payments : proj[x] = FromEvents(x)
<1>1. listed = Len(store) /\ pos = listed + 1 /\ store \in Seq(Facts) /\ Len(store) \in Nat
  BY Zenon DEF QuietInv, ToolInv
<1>2. pos - 1 = Len(store)
  BY <1>1
<1> QED BY <1>1, <1>2, AllOfThem, Zenon DEF QuietInv

\* The tables after an undisturbed run of cmd/rebuild hold, for every payment, what
\* the stored events amount to: for any number of servers, workers, payments and
\* events, and wherever an earlier run was stopped.
THEOREM RebuildRecomputes == RebuildSpec => []RebuiltFromEvents
<1>1. ToolInv /\ QuietInv => RebuiltFromEvents
  BY AfterTheLast, Zenon DEF RebuiltFromEvents
<1> QED BY <1>1, QuietRebuild, PTL

\* SUCCESS of an undisturbed run of cmd/rebuild means that the read model had agreed
\* with the event store on every payment it had shown.
THEOREM SuccessMeansAgreement == RebuildSpec => []AcceptedWasConsistent
<1>1. ToolInv /\ QuietInv => AcceptedWasConsistent
  BY AfterTheLast, Zenon DEF AcceptedWasConsistent, QuietInv, Verified, Shown
<1> QED BY <1>1, QuietRebuild, PTL

\* An undisturbed run of cmd/rebuild rejects only a read model that differs from the
\* events, or a list whose last event is a diagnosis.
THEOREM RejectionHasAReason == RebuildSpec => []RejectedForAReason
<1>1. ASSUME ToolInv, QuietInv PROVE RejectedForAReason
  <2>1. SUFFICES ASSUME quiet, tool = "rejected",
                        \A x \in Payments : [cached[x] EXCEPT !.settledAt = FALSE]
                                              = [FromEvents(x) EXCEPT !.settledAt = FALSE]
                 PROVE  store # <<>> /\ StreamOf[store[Len(store)]] = "payment.recovery"
    BY Zenon DEF RejectedForAReason
  <2>2. /\ listed = Len(store) /\ pos = listed + 1 /\ \A x \in Payments : proj[x] = FromEvents(x)
        /\ store \in Seq(Facts) /\ Len(store) \in Nat
    BY <1>1, <2>1, AfterTheLast, Zenon DEF ToolInv
  <2>3. ASSUME NEW x \in Payments
        PROVE  cached[x].status = proj[x].status /\ cached[x].details = proj[x].details
    <3>1. [cached[x] EXCEPT !.settledAt = FALSE] = [proj[x] EXCEPT !.settledAt = FALSE]
      BY <2>1, <2>2, Zenon
    <3>2. IsRow(cached[x]) /\ IsRow(proj[x])
      BY <1>1, Zenon DEF ToolInv
    <3> QED BY <3>1, <3>2, Zenon DEF IsRow
  <2>4. Verified(proj)
    <3>1. Shown(cached) = Shown(proj)
      BY <2>3, Zenon DEF Shown
    <3> QED BY <2>3, <3>1, Zenon DEF Verified, Shown
  <2>5. checkpoint # listed
    BY <1>1, <2>1, <2>4, Zenon DEF QuietInv
  <2>6. pos > 1 /\ StreamOf[store[pos - 1]] = "payment.recovery"
    BY <1>1, <2>1, <2>2, <2>5 DEF QuietInv
  <2> QED BY <2>2, <2>6
<1> QED BY <1>1, QuietRebuild, PTL
-----------------------------------------------------------------------------
\* A reader is at an entry of its stream, and what it has processed are rows.
HandlingInv ==
  /\ inbox \in [Readers -> SUBSET Nat]
  /\ rpc \in [Readers -> {"off", "idle", "check", "read", "write", "ack"}]
  /\ \A r \in Readers : /\ inbox[r] \subseteq DOMAIN log[r[2]]
                        /\ rpc[r] \in {"check", "read", "write", "ack"} => inbox[r] # {}
  /\ processed \subseteq Events /\ \A e \in processed : e <= lastId

\* A settlement is announced and stored at once.
SettledIsStored ==
  \A e \in Events :
    e <= lastId /\ StreamOf[payload[e]] = "payment.settled" =>
      \E i \in DOMAIN store : store[i] = payload[e]

SettlementApplied(x) ==
  \E e \in processed : StreamOf[payload[e]] = "payment.settled" /\ PaymentOf[payload[e]] = x

\* While the tables are filled again, a settled payment is shown, or one of the
\* events still to come is about it.
RefilledInv ==
  \A x \in Payments :
    SettlementApplied(x) /\ proj[x].status = "NONE" =>
      /\ ~whole
      /\ tool \in {"replay", "write"} =>
           \E i \in pos .. listed :
             PaymentOf[store[i]] = x /\ StreamOf[store[i]] # "payment.recovery"

LEMMA OutboxInRebuild ==
  ASSUME OutboxInv, [RebuildNext]_rebuildVars
  PROVE  OutboxInv' /\ Grows
<1>1. ASSUME NEW f \in Facts, Services(f) PROVE OutboxInv' /\ Grows
  BY <1>1, AnnounceKeeps, OutboxIdle, Zenon
     DEF Services, PublishSettled, AnnounceFailed, SaveFailedEvent, RecordFailure
<1>2. ASSUME NEW w \in Workers, WorkerStep(w) PROVE OutboxInv' /\ Grows
  BY <1>2, ClaimKeeps, PublishKeeps, MarkPublishedKeeps, MarkFailedKeeps, Zenon
     DEF WorkerStep
<1>3. CASE UNCHANGED outboxVars
  BY <1>3, OutboxIdle, Zenon
<1> QED BY <1>1, <1>2, <1>3, Zenon DEF RebuildNext, ServerStep, RebuildStep, rebuildVars,
           vars

LEMMA AtAnEntry ==
  ASSUME OutboxInv, HandlingInv, NEW r \in Readers, inbox[r] # {}
  PROVE  /\ Position(r) \in inbox[r]
         /\ EventAt(r) \in Events /\ EventAt(r) <= lastId /\ FactAt(r) \in Facts
<1>1. Position(r) \in inbox[r]
  <2>1. inbox[r] \in SUBSET Nat
    BY Zenon DEF HandlingInv
  <2> QED BY <2>1, LeastNumber, Zenon DEF Position
<1>2. r[2] \in Streams /\ Position(r) \in DOMAIN log[r[2]]
  BY <1>1, Zenon DEF Readers, Subscribed, Streams, HandlingInv
<1>3. EventAt(r) \in Events /\ EventAt(r) <= lastId
  BY <1>2 DEF EventAt, OutboxInv, OutboxTypeOK, EntriesAreRows
<1> QED BY <1>1, <1>3, Zenon DEF FactAt, OutboxInv, RowsAreNumbered

LEMMA HandlingStep ==
  ASSUME OutboxInv, OutboxInv', Grows, HandlingInv, [RebuildNext]_rebuildVars
  PROVE  HandlingInv'
<1>0. \A r \in Readers : r[2] \in Streams
  BY Zenon DEF Readers, Subscribed, Streams
<1>1. CASE UNCHANGED <<inbox, rpc, processed>>
  <2>1. ASSUME NEW r \in Readers PROVE inbox[r] \subseteq DOMAIN log'[r[2]]
    BY <1>0, Zenon DEF Grows, HandlingInv
  <2>2. lastId \in Nat /\ lastId' \in Nat /\ processed \subseteq Int
    BY DEF HandlingInv, OutboxInv, OutboxTypeOK, Events
  <2>3. lastId <= lastId' /\ \A e \in processed : e <= lastId
    BY Zenon DEF Grows, HandlingInv
  <2>4. \A e \in processed : e <= lastId'
    BY <2>2, <2>3
  <2> QED BY <1>1, <2>1, <2>4, Zenon DEF HandlingInv
<1>2. ASSUME NEW r \in Readers, ReaderStep(r), UNCHANGED outboxVars PROVE HandlingInv'
  <2>1. UNCHANGED <<log, lastId>>
    BY <1>2, Zenon DEF outboxVars
  <2>2. CASE ReadGroup(r)
    <3>1. NewEntries(r[2]) \subseteq DOMAIN log[r[2]] /\ NewEntries(r[2]) # {}
          /\ NewEntries(r[2]) \in SUBSET Nat
      <4>1. log[r[2]] \in Seq(Events)
        BY <1>0, Zenon DEF OutboxInv, OutboxTypeOK
      <4> QED BY <2>2, <4>1 DEF ReadGroup, NewEntries
    <3> QED BY <2>1, <2>2, <3>1, SMTT(30) DEF ReadGroup, Goto, HandlingInv
  <2>3. ASSUME inbox[r] # {}, NextEntry(r), UNCHANGED processed PROVE HandlingInv'
    <3>1. Position(r) \in inbox[r]
      BY <2>3, AtAnEntry, Zenon
    <3>2. inbox[r] # {Position(r)} => inbox[r] \ {Position(r)} # {}
      BY <3>1, Zenon
    <3> QED BY <2>1, <2>3, <3>1, <3>2, Zenon DEF NextEntry, Goto, HandlingInv
  <2>4. ASSUME inbox[r] # {}, NEW step \in {"read", "write", "ack"}, Goto(r, step),
               UNCHANGED <<inbox, processed>>
        PROVE  HandlingInv'
    BY <2>1, <2>4, Zenon DEF Goto, HandlingInv
  <2>5. rpc[r] \in {"check", "read", "write", "ack"} => inbox[r] # {}
    BY Zenon DEF HandlingInv
  <2>6. CASE CheckProcessed(r)
    BY <2>3, <2>4, <2>5, <2>6, Zenon DEF CheckProcessed, HandlerFails
  <2>7. CASE ReadProjection(r)
    BY <2>4, <2>5, <2>7, Zenon DEF ReadProjection
  <2>8. CASE Acknowledge(r)
    BY <2>3, <2>5, <2>8, Zenon DEF Acknowledge
  <2>9. CASE WriteProjection(r)
    <3>1. inbox[r] # {} /\ EventAt(r) \in Events /\ EventAt(r) <= lastId
      BY <2>5, <2>9, AtAnEntry, Zenon DEF WriteProjection
    <3>2. CASE HandlerFails(r) /\ UNCHANGED processed
      BY <2>3, <3>1, <3>2, Zenon DEF HandlerFails
    <3>3. CASE MarkEventProcessed(EventAt(r)) /\ Goto(r, "ack") /\ UNCHANGED inbox
      BY <2>1, <3>1, <3>3, Zenon DEF MarkEventProcessed, Goto, HandlingInv
    <3> QED BY <2>9, <3>2, <3>3, Zenon DEF WriteProjection
  <2> QED BY <1>2, <2>2, <2>6, <2>7, <2>8, <2>9, Zenon DEF ReaderStep
<1> QED BY <1>1, <1>2, Zenon DEF RebuildNext, ServerStep, RebuildStep, rebuildVars, vars,
           projectionVars

LEMMA StoredStep ==
  ASSUME OutboxInv, OutboxInv', Grows, ToolInv, SettledIsStored, [RebuildNext]_rebuildVars
  PROVE  SettledIsStored'
<1>1. \A i \in DOMAIN store : i \in DOMAIN store' /\ store'[i] = store[i]
  <2>1. store \in Seq(Facts)
    BY Zenon DEF ToolInv
  <2>2. store' = store \/ \E f \in Facts : store' = Append(store, f)
    BY ServerEffect, Zenon DEF RebuildNext, RebuildStep, rebuildVars
  <2> QED BY <2>1, <2>2, Appended
<1>2. SUFFICES ASSUME NEW e \in Events, e <= lastId', StreamOf[payload'[e]] = "payment.settled"
               PROVE  \E i \in DOMAIN store' : store'[i] = payload'[e]
  BY Zenon DEF SettledIsStored
<1>3. CASE e <= lastId
  BY <1>1, <1>2, <1>3 DEF Grows, SettledIsStored
<1>4. CASE ~(e <= lastId)
  <2>1. ~UNCHANGED lastId
    BY <1>2, <1>4, Zenon
  <2>2. \A w \in Workers : WorkerStep(w) => UNCHANGED lastId
    BY Zenon DEF WorkerStep, Claim, PublishEvent, MarkPublished, MarkFailed
  <2>3. PICK f \in Facts : Services(f)
    BY <2>1, <2>2, Zenon DEF RebuildNext, ServerStep, RebuildStep, rebuildVars, vars,
       outboxVars
  <2>4. Announce(f) /\ (SaveEvent(f) \/ StreamOf[f] # "payment.settled")
    BY <2>1, <2>3, Zenon DEF Services, PublishSettled, AnnounceFailed, SaveFailedEvent,
       RecordFailure,
       outboxVars
  <2>5. payload'[e] = f
    <3>1. lastId' = lastId + 1 /\ payload' = [payload EXCEPT ![lastId + 1] = f] /\ lastId \in Nat
      BY <2>4, Zenon DEF Announce, InsertRow, OutboxInv, OutboxTypeOK
    <3>2. e = lastId + 1
      BY <1>2, <1>4, <3>1 DEF Events
    <3>3. payload \in [Events -> Facts \cup {NoFact}]
      BY Zenon DEF OutboxInv, OutboxTypeOK
    <3> QED BY <3>1, <3>2, <3>3, Zenon
  <2>6. store' = Append(store, f)
    BY <1>2, <2>4, <2>5, Zenon DEF SaveEvent
  <2> QED BY <2>5, <2>6, Appended DEF ToolInv
<1> QED BY <1>3, <1>4, Zenon

\* The server never takes a payment out of the read model, and shows a payment
\* whose settlement it applies.
LEMMA ServerShows ==
  ASSUME OutboxInv, Grows, HandlingInv, ToolInv, ServerStep, NEW x \in Payments
  PROVE  /\ proj[x].status # "NONE" => proj'[x].status # "NONE"
         /\ SettlementApplied(x)' => SettlementApplied(x) \/ proj'[x].status # "NONE"
<1>1. \A e \in processed : payload'[e] = payload[e]
  BY Zenon DEF HandlingInv, Grows
<1>2. CASE UNCHANGED <<proj, processed>>
  BY <1>1, <1>2, Zenon DEF SettlementApplied
<1>3. ASSUME NEW r \in Readers, WriteProjection(r), UNCHANGED outboxVars, ~UNCHANGED <<proj, processed>>
      PROVE  /\ proj[x].status # "NONE" => proj'[x].status # "NONE"
             /\ SettlementApplied(x)' => SettlementApplied(x) \/ proj'[x].status # "NONE"
  <2> DEFINE f == FactAt(r)
  <2>1. f \in Facts
    BY <1>3, AtAnEntry, Zenon DEF WriteProjection, HandlingInv
  <2>2. /\ \E details, settledAt : Upsert(PaymentOf[f], StatusOf[f], details, settledAt)
        /\ processed' = processed \cup {EventAt(r)}
    BY <1>3, Zenon DEF WriteProjection, MarkEventProcessed
  <2>3. /\ x # PaymentOf[f] => proj'[x] = proj[x]
        /\ x = PaymentOf[f] => proj'[x].status = StatusOf[f]
    <3>1. PICK details, settledAt : Upsert(PaymentOf[f], StatusOf[f], details, settledAt)
      BY <2>2, Zenon
    <3> DEFINE y == PaymentOf[f]
               status == StatusOf[f]
    <3>2. Upsert(y, status, details, settledAt)
      BY <3>1, Zenon
    <3> HIDE DEF y, status
    <3>4. proj = [z \in Payments |-> proj[z]]
      BY Zenon DEF ToolInv
    <3>3. (x # y => proj'[x] = proj[x]) /\ (x = y => proj'[x].status = status)
      BY <3>2, <3>4, Zenon DEF Upsert
    <3> QED BY <3>3, Zenon DEF y, status
  <2>4. StatusOf[f] # "NONE"
    BY <2>1, ProjectionAssumption, Zenon
  <2>5. payload'[EventAt(r)] = f
    BY <1>3, Zenon DEF FactAt, outboxVars
  <2> HIDE DEF f
  <2>6. SettlementApplied(x)' => SettlementApplied(x) \/ x = PaymentOf[f]
    BY <1>1, <2>2, <2>5, Zenon DEF SettlementApplied
  <2> QED BY <2>3, <2>4, <2>6, Zenon
<1>4. \A r \in Readers : ReaderStep(r) => WriteProjection(r) \/ UNCHANGED <<proj, processed>>
  BY Zenon DEF ReaderStep, ReadGroup, CheckProcessed, ReadProjection, Acknowledge
<1> QED BY <1>2, <1>3, <1>4, Zenon DEF ServerStep, projectionVars

LEMMA RefilledStep ==
  ASSUME OutboxInv, Grows, HandlingInv, ToolInv, SettledIsStored, RefilledInv, RebuildNext
  PROVE  RefilledInv'
<1> DEFINE Coming(x) == \E i \in pos .. listed :
                          PaymentOf[store[i]] = x /\ StreamOf[store[i]] # "payment.recovery"
<1>1. SUFFICES ASSUME NEW x \in Payments, SettlementApplied(x)', proj'[x].status = "NONE"
               PROVE  ~whole' /\ (tool' \in {"replay", "write"} => Coming(x)')
  BY Zenon DEF RefilledInv
<1>2. store \in Seq(Facts) /\ DOMAIN store = 1 .. Len(store) /\ Len(store) \in Nat /\ listed \in Nat
      /\ pos \in Nat /\ 1 <= pos /\ listed <= Len(store)
  BY DEF ToolInv
<1>3. CASE ServerStep
  <2>1. SettlementApplied(x) /\ proj[x].status = "NONE"
    BY <1>1, <1>3, ServerShows, Zenon
  <2>2. ~whole /\ (tool \in {"replay", "write"} => Coming(x))
    BY <2>1, Zenon DEF RefilledInv
  <2>3. UNCHANGED <<tool, whole, pos, listed>> /\ \A i \in DOMAIN store : store'[i] = store[i]
    <3>1. store' = store \/ \E f \in Facts : store' = Append(store, f)
      BY <1>3, ServerEffect, Zenon
    <3> QED BY <1>2, <1>3, <3>1, Appended DEF ServerStep, toolVars
  <2>4. \A i \in pos .. listed : store'[i] = store[i]
    BY <1>2, <2>3
  <2> QED BY <2>2, <2>3, <2>4, Zenon
<1>4. CASE RebuildStep
  <2>1. UNCHANGED <<store, processed, payload>>
    BY <1>4, Zenon DEF RebuildStep, outboxVars
  <2>2. SettlementApplied(x)
    BY <1>1, <2>1, Zenon DEF SettlementApplied
  <2>3. proj[x].status = "NONE" => ~whole /\ (tool \in {"replay", "write"} => Coming(x))
    BY <2>2, Zenon DEF RefilledInv
  <2>4. CASE CacheProjections \/ ResetCheckpoint \/ VerifyCheckpoint \/ Exit
    BY <1>1, <2>3, <2>4 DEF CacheProjections, ResetCheckpoint, VerifyCheckpoint, Exit
  <2>5. CASE Truncate
    BY <2>5, Zenon DEF Truncate
  <2>6. CASE ListEvents
    <3>1. PICK e \in processed : StreamOf[payload[e]] = "payment.settled" /\ PaymentOf[payload[e]] = x
      BY <2>2, Zenon DEF SettlementApplied
    <3>2. PICK i \in DOMAIN store : store[i] = payload[e]
      BY <3>1, Zenon DEF SettledIsStored, HandlingInv
    <3>3. i \in pos' .. listed'
      BY <1>2, <2>6, Zenon DEF ListEvents, AllEvents
    <3> QED BY <1>1, <2>1, <2>3, <2>6, <3>1, <3>2, <3>3, Zenon DEF ListEvents
  <2>7. CASE ReplayEvent
    <3>1. proj[x].status = "NONE" /\ tool = "replay" /\ UNCHANGED <<whole, listed>>
      BY <1>1, <2>7, Zenon DEF ReplayEvent
    <3>2. PICK i \in pos .. listed : PaymentOf[store[i]] = x /\ StreamOf[store[i]] # "payment.recovery"
      BY <2>3, <3>1, Zenon
    <3>3. i \in pos' .. listed'
      BY <1>2, <2>7, <3>2 DEF ReplayEvent
    <3> QED BY <2>1, <2>3, <3>1, <3>2, <3>3, Zenon
  <2>8. CASE WriteEvent
    <3> DEFINE f == store[pos]
    <3>1. f \in Facts /\ UNCHANGED <<whole, listed>> /\ pos' = pos + 1 /\ tool = "write"
      BY <1>2, <2>8 DEF WriteEvent, ToolInv
    <3>2. /\ x # PaymentOf[f] => proj'[x] = proj[x]
          /\ x = PaymentOf[f] => proj'[x].status = StatusOf[f]
      <4>1. PICK details, settledAt : Upsert(PaymentOf[f], StatusOf[f], details, settledAt)
        BY <2>8, Zenon DEF WriteEvent, Replayed
      <4> DEFINE y == PaymentOf[f]
                 status == StatusOf[f]
      <4>2. Upsert(y, status, details, settledAt)
        BY <4>1, Zenon
      <4> HIDE DEF y, status
      <4>4. proj = [z \in Payments |-> proj[z]]
        BY Zenon DEF ToolInv
      <4>3. (x # y => proj'[x] = proj[x]) /\ (x = y => proj'[x].status = status)
        BY <4>2, <4>4, Zenon DEF Upsert
      <4> QED BY <4>3, Zenon DEF y, status
    <3>3. x # PaymentOf[f] /\ proj[x].status = "NONE"
      BY <1>1, <3>1, <3>2, ProjectionAssumption, Zenon
    <3>4. PICK i \in pos .. listed : PaymentOf[store[i]] = x /\ StreamOf[store[i]] # "payment.recovery"
      BY <2>3, <3>1, <3>3, Zenon
    <3>5. i \in pos' .. listed'
      BY <1>2, <3>1, <3>3, <3>4, SMTT(30)
    <3> QED BY <2>1, <2>3, <3>1, <3>3, <3>4, <3>5, Zenon
  <2>9. CASE VerifyProjections
    <3>1. proj[x].status = "NONE" /\ tool = "replay" /\ pos > listed
      BY <1>1, <2>9, Zenon DEF VerifyProjections
    <3>2. Coming(x)
      BY <2>3, <3>1, Zenon
    <3> QED BY <1>2, <3>1, <3>2
  <2> QED BY <1>4, <2>4, <2>5, <2>6, <2>7, <2>8, <2>9, Zenon DEF RebuildStep
<1> QED BY <1>3, <1>4, Zenon DEF RebuildNext

\* A payment whose settlement has been applied is in the read model after any run
\* of cmd/rebuild, beside any number of servers that go on applying events and
\* after any number of runs that were stopped on the way.
THEOREM RebuildLosesNoSettlement == RebuildSpec => []SettledSurvivesRebuild
<1> DEFINE Inv == OutboxInv /\ HandlingInv /\ SettledIsStored /\ RefilledInv
<1>1. RebuildInit => Inv
  <2>1. SUFFICES ASSUME RebuildInit PROVE Inv
    BY Zenon
  <2>2. OutboxInv
    BY <2>1, OutboxInvInit, Zenon DEF RebuildInit, Init
  <2>3. HandlingInv /\ RefilledInv
    BY <2>1, Zenon DEF RebuildInit, Init, ProjectionInit, HandlingInv, RefilledInv,
       SettlementApplied
  <2>4. SettledIsStored
    BY <2>1 DEF RebuildInit, Init, OutboxInit, SettledIsStored, Events
  <2> QED BY <2>2, <2>3, <2>4, Zenon
<1>2. ToolInv /\ Inv /\ [RebuildNext]_rebuildVars => Inv'
  <2>1. SUFFICES ASSUME ToolInv, Inv, [RebuildNext]_rebuildVars PROVE Inv'
    BY Zenon
  <2>2. OutboxInv' /\ Grows
    BY <2>1, OutboxInRebuild, Zenon
  <2>3. HandlingInv' /\ SettledIsStored'
    BY <2>1, <2>2, HandlingStep, StoredStep, Zenon
  <2>4. CASE RebuildNext
    BY <2>1, <2>2, <2>3, <2>4, RefilledStep, Zenon
  <2>5. CASE UNCHANGED rebuildVars
    <3>1. UNCHANGED <<store, tool, listed, pos, whole, proj, processed, payload>>
      BY <2>5, Zenon DEF rebuildVars, toolVars, vars, projectionVars, outboxVars
    <3>2. RefilledInv'
      BY <2>1, <3>1, Zenon DEF RefilledInv, SettlementApplied
    <3> QED BY <2>2, <2>3, <3>2, Zenon
  <2> QED BY <2>1, <2>4, <2>5, Zenon
<1>3. Inv => SettledSurvivesRebuild
  <2>1. SUFFICES ASSUME OutboxInv, HandlingInv, RefilledInv, whole, NEW e \in processed,
                        StreamOf[payload[e]] = "payment.settled"
                 PROVE  proj[PaymentOf[payload[e]]].status # "NONE"
    BY Zenon DEF SettledSurvivesRebuild
  <2>2. payload[e] \in Facts
    BY <2>1, Zenon DEF HandlingInv, OutboxInv, RowsAreNumbered
  <2>3. PaymentOf[payload[e]] \in Payments
    BY <2>2, ProjectionAssumption, Zenon
  <2> QED BY <2>1, <2>3, Zenon DEF RefilledInv, SettlementApplied
<1> HIDE DEF Inv
<1> QED BY <1>1, <1>2, <1>3, QuietRebuild, PTL DEF RebuildSpec
=============================================================================
