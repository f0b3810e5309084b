SPECIFICATION Spec
CONSTANTS
  start = start
  a = a
  b = b
  c = c
  end = end
  Node <- OneJobNode
  Step <- OneJobStep
  Plans <- OneJobPlans
  Settings <- TemplateSettings
  MaxWorkJobs = 2
CHECK_DEADLOCK FALSE
INVARIANTS
  FailedPredecessorStopsStep
