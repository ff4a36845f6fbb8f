CONSTANTS
  t1 = t1
  t2 = t2
  pay1 = pay1
  pay2 = pay2
  back = back
  issue = issue
  release = release
  Requests = {pay1, pay2}
  Accounts = {1, 2}
  Tokens = {t1, t2}
  Work <- MCWork
  PoolSizes = {3}
  UndoAttempts = 3
SPECIFICATION Spec
CHECK_DEADLOCK FALSE
INVARIANTS NoDeadlock
