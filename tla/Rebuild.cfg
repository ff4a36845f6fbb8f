SPECIFICATION RebuildSpec
CONSTANTS
  v1 = v1  w1 = w1
  settled1 = settled1  failed1 = failed1  diagnosed1 = diagnosed1  failed2 = failed2
  Servers = {v1}
  Workers = {w1}
  Replayers = {}
  Facts = {settled1, failed1, diagnosed1}
  Payments = {"x1"}
  MaxEvents = 3
  MaxRetries = 1
  BatchSize = 2
  ReadCount = 2
  Faults = {}
  Host <- MCHost
  StreamOf <- MCStreamOf
  PaymentOf <- MCPaymentOf
  StatusOf <- MCStatusOf
INVARIANTS RebuiltFromEvents SettledSurvivesRebuild AcceptedWasConsistent RejectedForAReason
