SPECIFICATION FairSpec
CONSTANTS
  a = a  b = b  c = c  p1 = p1  r1 = r1
  Nodes = {a, b, c}
  FirstLeader = a
  Proposals = {p1}
  Recoveries = {r1}
  MaxCrashes = 3
INVARIANTS OneLeader
PROPERTIES ElectedIsAlive FailoverCompletes
CHECK_DEADLOCK FALSE
