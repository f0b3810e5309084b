SPECIFICATION Spec
CONSTANTS
  h1 = h1
  h2 = h2
  w1 = w1
  w2 = w2
  s1 = s1
  s2 = s2
  t1 = t1
  t2 = t2
  t3 = t3
  None = None
  Host = {h1, h2}
  Process = {w1, w2}
  Subscriber = {s1, s2}
  Task = {t1, t2, t3}
  Mixes <- MCMixes
CHECK_DEADLOCK FALSE
INVARIANTS
  RowFollowsHost
  AwaitedHasOwner
  OneAfterTheOther
PROPERTIES
  ChainsEnd
