SPECIFICATION Spec
CONSTANTS
  r1 = r1
  r2 = r2
  s1 = s1
  s2 = s2
  s3 = s3
  c0 = c0
  c1 = c1
  c2 = c2
  g1 = g1
  u1 = u1
  u2 = u2
  nothing = nothing
  Request = {r1, r2}
  Remote = {c1, c2}
  MaxTries = 2
  Here = c0
  Group = {g1}
  User = {u1, u2}
  Session = {s1, s2, s3}
  Begins <- MCBegins
  Nothing = nothing
  Subject = u1
  Plans <- MCPlans
CHECK_DEADLOCK FALSE
INVARIANTS
  AccessAgrees
  FreshCache
  TokensMatchRows
PROPERTIES
  StaleGroupsExpire
