SPECIFICATION FairSpec
CONSTANTS
  v1 = v1  w1 = w1  w2 = w2  r1 = r1  r2 = r2
  settled1 = settled1  failed1 = failed1
  Servers = {v1}
  Workers = {w1, w2}
  Replayers = {r1, r2}
  Facts = {settled1, failed1}
  Payments = {"x1"}
  MaxEvents = 3
  MaxRetries = 2
  BatchSize = 1
  ReadCount = 2
  Faults = {"redis"}
  Host <- MCHost
  StreamOf <- MCStreamOf
  PaymentOf <- MCPaymentOf
  StatusOf <- MCStatusOf
CHECK_DEADLOCK FALSE
INVARIANTS NothingVanishes
PROPERTIES Delivered SentIsApplied
