CONSTANTS
  t1 = t1
  t2 = t2
  pay1 = pay1
  pay2 = pay2
  back = back
  issue = issue
  release = release
  Requests = {pay1, back, issue, release}
  Accounts = {1, 2}
  Tokens = {t1, t2}
  Work <- MCWork
  PoolSizes = {2, 5}
  UndoAttempts = 2
SPECIFICATION FairSpec
CHECK_DEADLOCK FALSE
INVARIANTS OnlyReserveInvertsTheOrder HangTakesWholePool
PROPERTIES RequestsEnd
