SPECIFICATION ShellSpec
CONSTANTS
  x1 = x1
  x2 = x2
  d1 = d1
  s1 = s1
  s2 = s2
  None = None
  Elsewhere = Elsewhere
  Executor = {x1, x2}
  Dest = {d1}
  Source = {s1, s2}
  Tries = 2
  Mixes <- MCMixes
CHECK_DEADLOCK FALSE
INVARIANTS
  ReplyIsOwn
  RunAtMostOnce
  CopyHolds
PROPERTIES
  EveryExecutorEnds
