SPECIFICATION GraphSpec
CONSTANT Descriptions <- MCDescriptions
CHECK_DEADLOCK FALSE
INVARIANTS
  AcceptsExactlyAcyclic
  AccountsRestored
  JobBracketsSteps
