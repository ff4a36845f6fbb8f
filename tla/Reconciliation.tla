--------------------------- MODULE Reconciliation ---------------------------
(***************************************************************************)
(* internal/reconciliation: the periodic scan.  A scan lists the expired   *)
(* tokens and releases them one transaction at a time, then lists the      *)
(* stuck intents and expires those past their expiry, one statement at a   *)
(* time.  Both lists are read without locks and used later.  Every server  *)
(* replica runs its own scanner.                                           *)
(***************************************************************************)
EXTENDS TokenService

CONSTANT Scanners   \* reconciliation workers, one per server

VARIABLES
  phase,   \* phase[w]: what scanner w is doing
  todo     \* todo[w]: the listed rows scanner w has not handled yet

scanVars == <<phase, todo>>

ScanTypeOK ==
  /\ phase \in [Scanners -> {"idle", "tokens", "intents"}]
  /\ todo \in [Scanners -> SUBSET IntentIds]

ScanInit ==
  /\ phase = [w \in Scanners |-> "idle"]
  /\ todo = [w \in Scanners |-> {}]

Handled(w, k) ==
  /\ todo' = [todo EXCEPT ![w] = @ \ {k}]
  /\ UNCHANGED phase

\* The ticker fires; ReleaseExpiredTokens reads its list.
ListExpiredTokens(w) ==
  /\ phase[w] = "idle"
  /\ phase' = [phase EXCEPT ![w] = "tokens"]
  /\ todo' = [todo EXCEPT ![w] = ExpiredTokens]
  /\ UNCHANGED bankVars

\* One iteration of ReleaseExpiredTokens; a failed transaction is logged and
\* the loop goes on.
ReleaseListed(w, t) ==
  /\ phase[w] = "tokens"
  /\ t \in todo[w]
  /\ Handled(w, t)
  /\ \/ ReleaseExpiredToken(t)
     \/ "db" \in Faults /\ UNCHANGED bankVars

\* GetStuckPaymentIntents: of the statuses it selects only RESERVED is ever
\* stored.  That a listed row is ten seconds old needs no clock here: a row
\* the query skips behaves like one that the scan has not come to yet.
StuckIntents == {k \in IntentIds : intent[k] = "RESERVED"}

ListStuckIntents(w) ==
  /\ phase[w] = "tokens"
  /\ todo[w] = {}
  /\ phase' = [phase EXCEPT ![w] = "intents"]
  /\ todo' = [todo EXCEPT ![w] = StuckIntents]
  /\ UNCHANGED bankVars

\* UpdatePaymentIntentStatus to EXPIRED: no guard on the current status, and no
\* effect when the row is gone.
MarkExpired(k) ==
  /\ intent' = IF k \in expired /\ intent[k] # "NONE"
               THEN [intent EXCEPT ![k] = "EXPIRED"]
               ELSE intent
  /\ UNCHANGED <<money, token, nonces, outbox, events, recovery, expired>>

ExpireListed(w, k) ==
  /\ phase[w] = "intents"
  /\ k \in todo[w]
  /\ Handled(w, k)
  /\ \/ MarkExpired(k)
     \/ "db" \in Faults /\ UNCHANGED bankVars

\* The ledger check and the metrics only read; the scan ends.
EndScan(w) ==
  /\ phase[w] = "intents"
  /\ todo[w] = {}
  /\ phase' = [phase EXCEPT ![w] = "idle"]
  /\ UNCHANGED <<todo, bankVars>>

\* The server stops during a scan; the lists are only in memory.
CrashScanner(w) ==
  /\ "scan_crash" \in Faults
  /\ phase[w] # "idle"
  /\ phase' = [phase EXCEPT ![w] = "idle"]
  /\ todo' = [todo EXCEPT ![w] = {}]
  /\ UNCHANGED bankVars

ScanStep(w) ==
  \/ ListExpiredTokens(w)
  \/ \E t \in Tokens : ReleaseListed(w, t)
  \/ ListStuckIntents(w)
  \/ \E k \in IntentIds : ExpireListed(w, k)
  \/ EndScan(w)
=============================================================================
