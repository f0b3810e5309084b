SPECIFICATION FairSpec
CONSTANTS
  h1 = h1
  h2 = h2
  h3 = h3
  Host <- MCHost
  BatchSize = 2
CHECK_DEADLOCK FALSE
PROPERTIES
  ImplementsStepExecution
  StepIsReported
