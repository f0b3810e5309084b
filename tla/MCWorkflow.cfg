SPECIFICATION FairSpec
CONSTANTS
  start = start
  a = a
  b = b
  c = c
  end = end
  Node <- OneJobNode
  Step <- OneJobStep
  Plans <- OneJobPlans
  Settings <- OneJobSettings
  MaxWorkJobs = 2
CHECK_DEADLOCK FALSE
INVARIANTS
  StartsAfterPredecessors
  SkipReasonIsFailedStep
  NormalMeansAllSucceeded
PROPERTIES
  Terminates
