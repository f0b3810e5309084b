SPECIFICATION FairSpec
CONSTANTS
  r1 = r1
  r2 = r2
  r3 = r3
  Request <- ThreeRequests
  Kinds <- AllKinds
  MaxBusy = 3
  Restarts = TRUE
CHECK_DEADLOCK FALSE
INVARIANTS
  InFlightStatusHasOwner
  WorkDirHasOwner
  OneRunAtATime
PROPERTIES
  Settles
