CONSTANTS
  MaxAttempts = 2
  MaxRuns = 1
  MaxApprovals = 2
SPECIFICATION Spec
PROPERTY DeniedIsCertain
\* When the attempts are used up nothing claims the run.
CHECK_DEADLOCK FALSE
