SPECIFICATION Spec
CONSTANTS
  c1 = c1
  c2 = c2
  w1 = w1
  w2 = w2
  Cluster <- MCCluster
  Worker <- MCWorker
  Budgets <- MCBudgets
SYMMETRY Symmetry
CHECK_DEADLOCK FALSE
INVARIANTS
  KeysMatch
  ManagedIsKnown
  RunningHasOwner
  OrphanIsCancelled
  CanalFollowsRow
