SPECIFICATION Spec
CONSTANTS
  r1 = r1
  r2 = r2
  r3 = r3
  i1 = i1
  i2 = i2
  t1 = t1
  t2 = t2
  n1 = n1
  n2 = n2
  n3 = n3
  None = None
  Request = {r1, r2, r3}
  First = {i1, i2}
  Type = {t1, t2}
  Name = {n1, n2, n3}
  Mixes <- MCMixes
CHECK_DEADLOCK FALSE
INVARIANTS
  OneScriptPerType
  DirectoryHasScript
  JobsMatchTasks
  SentFits
