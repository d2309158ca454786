CONSTANTS
  p1 = p1
  p2 = p2
  t1 = t1
  t2 = t2
  NULL = NULL
  Threads = {p1, p2, t1, t2}
  Role <- MCRole
  Rounds <- MCRounds
  Capacity = 1
  MaxSpurious = 2
SPECIFICATION FairSpec
CHECK_DEADLOCK FALSE
INVARIANTS IInv
PROPERTIES Implements EveryoneServed
