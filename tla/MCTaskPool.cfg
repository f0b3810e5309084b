SPECIFICATION FairPoolSpec
CONSTANTS
  t1 = t1
  t2 = t2
  t3 = t3
  Task <- ThreeTasks
  MaxRunning = 2
  MaxTasks = 2
CHECK_DEADLOCK FALSE
INVARIANTS
  EveryTaskOnce
PROPERTIES
  SubmittedIsRun
