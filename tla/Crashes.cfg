SPECIFICATION FairSpec
CONSTANTS
  alice = alice  bob = bob  t1 = t1  t2 = t2
  x1 = x1  x2 = x2  x3 = x3  x5 = x5  x7 = x7
  c1 = c1  c2 = c2  c4 = c4  c5 = c5  c7 = c7  c9 = c9
  Accounts = {alice, bob}
  Tokens = {t1}
  Txns = {x1}
  Calls = {c1, c2}
  Scanners = {w1}
  Faults = {"crash", "publish"}
  UnknownRows = TRUE
  Owner <- MCOwner
  Value <- MCValue
  TokenOf <- MCTokenOf
  Nonces <- MCNonces
  NonceOf <- MCNonceOf
  Amount <- MCAmount
  Receiver <- MCReceiver
  InitialBalance <- MCInitialBalance
  Envelope <- MCEnvelope
  Header <- MCHeader
INVARIANTS AuditClean BalanceFromLedger SettledStaysRegistered NoPhantomEvent PaymentHasOneOwner
PROPERTIES LedgerIsImmutable ImplementsEscrow SettleReturns FundsComeBack
