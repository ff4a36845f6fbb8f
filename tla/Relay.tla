------------------------------- MODULE Relay --------------------------------
(***************************************************************************)
(* internal/relay: a relay accepts an envelope unless it remembers its     *)
(* txn_id or its nonce, and forwards it to the settlement service in the   *)
(* background, attempt after attempt.  Settlement is not modelled here: the*)
(* bank is any implementation of Escrow, and a forwarding attempt is one of*)
(* its requests.                                                           *)
(*                                                                         *)
(* All servers write under the same relay id, so a payment has one row in  *)
(* relay_attempts whichever of them forwards it.                           *)
(***************************************************************************)
EXTENDS Escrow, FiniteSets

CONSTANTS
  Relays,       \* servers, each with the relay's memory of its own
  Deliveries,   \* envelopes handed to a relay, copies included
  RelayOf,      \* RelayOf[d]: the relay delivery d reaches
  PaymentOf,    \* PaymentOf[d]: the payment in its envelope
  RetryLimit    \* forwarding attempts for an envelope (5 in the code)

ASSUME RelayAssumption ==
  /\ RetryLimit \in Nat \ {0}
  /\ RelayOf \in [Deliveries -> Relays]
  /\ PaymentOf \in [Deliveries -> Txns]
  /\ Calls = Deliveries \X (1 .. RetryLimit)
  /\ \A c \in Calls : Envelope[c] = PaymentOf[c[1]]

VARIABLES
  step,        \* step[d]: where delivery d is; it ends "dropped", "ack", "nack" or
               \* "lost"
  attempt,     \* attempt[d]: its forwarding attempt, 0 before the first
  dedupe,      \* dedupe[r]: the txn_ids and nonces relay r remembers
  relayRow,    \* relayRow[x]: status of the row of relay_attempts
  missed       \* history: payments with a status that could not be written

relayVars == <<step, attempt, dedupe, relayRow, missed>>

RelayInit ==
  /\ step = [d \in Deliveries |-> "new"]
  /\ attempt = [d \in Deliveries |-> 0]
  /\ dedupe = [r \in Relays |-> {}]
  /\ relayRow = [x \in Txns |-> "NONE"]
  /\ missed = {}
-----------------------------------------------------------------------------
\* The keys of an envelope in the relay's memory.
Keys(d) == {<<"txn", PaymentOf[d]>>, <<"nonce", NonceOf[PaymentOf[d]]>>}

\* Whether the relay has seen the envelope's txn_id or nonce.
Remembered(d) == Keys(d) \cap dedupe[RelayOf[d]] # {}

Goto(d, s) == step' = [step EXCEPT ![d] = s]

\* RecordRelayAttempt: the one row of the payment is overwritten.  The relay
\* ignores a statement that fails.
Record(d, status, written) ==
  /\ relayRow' = IF written THEN [relayRow EXCEPT ![PaymentOf[d]] = status] ELSE relayRow
  /\ missed' = IF written THEN missed ELSE missed \cup {PaymentOf[d]}

\* ReceiveAndRelay up to the unlock: a duplicate is dropped, anything else is
\* remembered.
Receive(d) ==
  /\ step[d] = "new"
  /\ IF Remembered(d) THEN Goto(d, "dropped") /\ UNCHANGED dedupe
     ELSE /\ dedupe' = [dedupe EXCEPT ![RelayOf[d]] = @ \cup Keys(d)]
          /\ Goto(d, "received")
  /\ UNCHANGED <<attempt, relayRow, missed>>

\* The row says RECEIVED and the forwarding starts.
StartForwarding(d, written) ==
  /\ step[d] = "received"
  /\ Record(d, "RECEIVED", written)
  /\ Goto(d, "forward")
  /\ UNCHANGED <<attempt, dedupe>>

\* An attempt starts: the row says FORWARDING and Settle is called.
CallSettle(d, written) ==
  /\ step[d] = "forward"
  /\ attempt' = [attempt EXCEPT ![d] = @ + 1]
  /\ Record(d, "FORWARDING", written)
  /\ Goto(d, "calling")
  /\ UNCHANGED dedupe

\* Broken variant of Answered: only a refusal counts as a failure.
AnsweredUnchecked(d, status) ==
  /\ step[d] = "calling"
  /\ Goto(d, IF status # "REJECTED" THEN "acked" ELSE "failed")
  /\ UNCHANGED <<attempt, dedupe, relayRow, missed>>

\* Settle returns an error with every status but SETTLED.
Answered(d, status) ==
  /\ step[d] = "calling"
  /\ Goto(d, IF status = "SETTLED" THEN "acked" ELSE "failed")
  /\ UNCHANGED <<attempt, dedupe, relayRow, missed>>

Acknowledge(d, written) ==
  /\ step[d] = "acked"
  /\ Record(d, "ACK_SETTLED", written)
  /\ Goto(d, "ack")
  /\ UNCHANGED <<attempt, dedupe>>

\* Broken variants of RetryOrGiveUp: giving up silently, and never giving up.
GiveUpSilently(d, written) ==
  /\ step[d] = "failed"
  /\ Goto(d, IF attempt[d] = RetryLimit THEN "nack" ELSE "forward")
  /\ UNCHANGED <<attempt, dedupe, relayRow, missed>>
RetryForever(d, written) ==
  /\ step[d] = "failed"
  /\ Goto(d, "forward")
  /\ attempt' = [attempt EXCEPT ![d] = 0]
  /\ UNCHANGED <<dedupe, relayRow, missed>>

\* After the last attempt the relay gives up, before it sleeps.
RetryOrGiveUp(d, written) ==
  /\ step[d] = "failed"
  /\ IF attempt[d] = RetryLimit THEN Record(d, "NACK_FAILED", written) /\ Goto(d, "nack")
     ELSE Goto(d, "forward") /\ UNCHANGED <<relayRow, missed>>
  /\ UNCHANGED <<attempt, dedupe>>

\* cleanDedupeCacheLoop: a key that is old enough is forgotten, without the other
\* key of its envelope if that is younger.
Forget(r, k) ==
  /\ k \in dedupe[r]
  /\ dedupe' = [dedupe EXCEPT ![r] = @ \ {k}]
  /\ UNCHANGED <<step, attempt, relayRow, missed>>

\* Relay r stops and starts again: its memory is empty, and nobody takes up the
\* envelopes it was forwarding.
StopRelay(r) ==
  /\ dedupe' = [dedupe EXCEPT ![r] = {}]
  /\ step' = [d \in Deliveries |->
                IF RelayOf[d] = r /\ step[d] \notin {"new", "dropped", "ack", "nack"}
                THEN "lost" ELSE step[d]]
  /\ UNCHANGED <<attempt, relayRow, missed>>

RelayStep(d, written) ==
  \/ StartForwarding(d, written) \/ CallSettle(d, written)
  \/ Acknowledge(d, written) \/ RetryOrGiveUp(d, written)
=============================================================================
