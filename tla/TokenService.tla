---------------------------- MODULE TokenService ----------------------------
(***************************************************************************)
(* internal/token: issuing offline spending tokens against the owner's     *)
(* balance, and giving the reservation back when a token expires unspent.  *)
(***************************************************************************)
EXTENDS Bank

\* IssueToken: one transaction moves the token's value from available to
\* reserved and inserts the token, its placeholder intent, the RESERVATION
\* entry and the token.issued event.  A refused request changes nothing.
\* The credit limit is a bound on Value[t] that the caller has passed.
IssueToken(t) ==
  LET o == Owner[t]
      newAvailable == avail[o] - Value[t]
  IN  /\ avail[o] >= Value[t]
      /\ UpdateBalance(o, newAvailable, reserved[o] + Value[t])
      /\ CreateToken(t)
      /\ CreatePaymentIntent(t, "RESERVED")
      /\ entryId' = entryId + 1
      /\ ledger' = ledger \cup {Entry(entryId + 1, t, o, "DEBIT", Value[t],
                                      "RESERVATION", newAvailable)}
      /\ outbox' = outbox \cup {OutboxRow("token.issued", t, t)}
      /\ UNCHANGED <<nonces, events, recovery, expired>>

\* Broken variant of ExpiredTokens: held tokens are left to their holders.
ExpiredTokensNotHeld == {t \in Tokens \cap expired : token[t] = "ISSUED"}

\* GetExpiredTokens: past expiry, not consumed, released_at still null.
ExpiredTokens == {t \in Tokens \cap expired : token[t] \in {"ISSUED", "HELD"}}

\* Broken variants of CanRelease: the list is trusted and the token's status is
\* not read again; nothing at all is checked again.
CanReleaseStale(t) == reserved[Owner[t]] >= Value[t]
CanReleaseBlindly(t) == t \in Tokens

\* The transaction that ReleaseExpiredTokens runs for a token it has listed.
\* The token may have been consumed or released since; then nothing happens.
CanRelease(t) ==
  /\ token[t] \notin {"CONSUMED", "INVALIDATED"}
  /\ reserved[Owner[t]] >= Value[t]
  /\ IsValidTokenTransition(token[t], "INVALIDATED")

ReleaseExpiredToken(t) ==
  LET o == Owner[t]
      newAvailable == avail[o] + Value[t]
  IN  IF CanRelease(t)
      THEN /\ UpdateBalance(o, newAvailable, reserved[o] - Value[t])
           /\ ReleaseToken(t)
           /\ entryId' = entryId + 1
           /\ ledger' = ledger \cup {Entry(entryId + 1, t, o, "CREDIT", Value[t],
                                           "RELEASE", newAvailable)}
           /\ outbox' = outbox \cup {OutboxRow("token.expired", t, t)}
           /\ UNCHANGED <<intent, nonces, events, recovery, expired>>
      ELSE UNCHANGED bankVars
=============================================================================
