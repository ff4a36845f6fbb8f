SPECIFICATION FairSpec
CONSTANTS
  alice = alice  bob = bob  t1 = t1  x1 = x1  r1 = r1  r2 = r2
  d1 = d1  d2 = d2
  Accounts = {alice, bob}
  Tokens = {t1}
  Txns = {x1}
  Payments = {x1}
  Relays = {r1, r2}
  Servers = {r1, r2}
  Deliveries = {d1, d2}
  RetryLimit = 2
  MaxAttempts = 2
  MaxFaults = 1
  Calls <- MCCalls
  Owner <- MCOwner
  Value <- MCValue
  Receiver <- MCReceiver
  Amount <- MCAmount
  TokenOf <- MCTokenOf
  NonceOf <- MCNonceOf
  InitialBalance <- MCInitialBalance
  Envelope <- MCEnvelope
  RelayOf <- MCRelayOf
  PaymentOf <- MCPaymentOf
CHECK_DEADLOCK FALSE
INVARIANTS AckMeansPaid QuietRowIsFinal RequestsAreCounted
PROPERTIES ForwardingEnds
