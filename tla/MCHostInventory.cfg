SPECIFICATION Spec
CONSTANTS
  r1 = r1
  r2 = r2
  r3 = r3
  Request <- MCRequest
  Mixes <- MCMixes
  Ip = {a1, a2}
  Port = {p}
  Name = {n}
  Group0 = g0
  Nobody = nobody
  Given = given
  None = none
SYMMETRY Symmetry
CHECK_DEADLOCK FALSE
INVARIANTS
  NothingTwice
  HostHasGroup
  OnlineKeyOpens
  DeletedIsAnnounced
