------------------------------- MODULE Escrow -------------------------------
(***************************************************************************)
(* What the bank promises its clients, whatever runs inside: a token locks *)
(* its value in escrow; the escrow ends once, either by paying one payment *)
(* and returning the change or by returning everything; a nonce pays once; *)
(* and a request is answered SETTLED only if it made the payment happen.   *)
(* There are no sagas, intents, ledger rows or scanners here.              *)
(***************************************************************************)
EXTENDS Integers

CONSTANTS Accounts, Tokens, Txns, Calls, Owner, Value, Receiver, Amount, TokenOf,
          NonceOf, InitialBalance, Envelope

ASSUME EscrowAssumption ==
  /\ TokenOf \in [Txns -> Tokens]
  /\ Txns \cap {"FREE", "LOCKED", "RETURNED"} = {}

VARIABLES
  funds,    \* funds[a]: what account a may dispose of
  escrow,   \* escrow[t]: "FREE", "LOCKED", "RETURNED", or the payment it paid
  answer    \* answer[c]: what request c has been told, "NONE" before that

escrowVars == <<funds, escrow, answer>>

Answers == {"SETTLED", "REJECTED", "FAILED", "DUPLICATE", "EXPIRED"}

Paid(x) == escrow[TokenOf[x]] = x

EscrowInit ==
  /\ funds = InitialBalance
  /\ escrow = [t \in Tokens |-> "FREE"]
  /\ answer = [c \in Calls |-> "NONE"]

Lock(t) ==
  /\ escrow[t] = "FREE"
  /\ funds[Owner[t]] >= Value[t]
  /\ funds' = [funds EXCEPT ![Owner[t]] = @ - Value[t]]
  /\ escrow' = [escrow EXCEPT ![t] = "LOCKED"]
  /\ UNCHANGED answer

Pay(x) ==
  LET t == TokenOf[x] IN
  /\ escrow[t] = "LOCKED"
  /\ Amount[x] \in 1 .. Value[t]
  /\ Receiver[x] \in Accounts
  /\ \A y \in Txns : NonceOf[y] = NonceOf[x] => ~Paid(y)
  /\ funds' = [funds EXCEPT ![Owner[t]] = @ + (Value[t] - Amount[x]),
                            ![Receiver[x]] = @ + Amount[x]]
  /\ escrow' = [escrow EXCEPT ![t] = x]
  /\ UNCHANGED answer

Return(t) ==
  /\ escrow[t] = "LOCKED"
  /\ funds' = [funds EXCEPT ![Owner[t]] = @ + Value[t]]
  /\ escrow' = [escrow EXCEPT ![t] = "RETURNED"]
  /\ UNCHANGED answer

Answer(c, v) ==
  /\ answer[c] = "NONE"
  /\ v = "SETTLED" =>
       /\ Paid(Envelope[c])
       /\ \A d \in Calls : Envelope[d] = Envelope[c] => answer[d] # "SETTLED"
  /\ answer' = [answer EXCEPT ![c] = v]
  /\ UNCHANGED <<funds, escrow>>

EscrowNext ==
  \/ \E t \in Tokens : Lock(t) \/ Return(t)
  \/ \E x \in Txns : Pay(x)
  \/ \E c \in Calls, v \in Answers : Answer(c, v)

EscrowSpec == EscrowInit /\ [][EscrowNext]_escrowVars
=============================================================================
