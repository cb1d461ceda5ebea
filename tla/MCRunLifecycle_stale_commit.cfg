CONSTANTS
  MaxAttempts = 2
  ClaimLimit = 2
SPECIFICATION Spec
PROPERTY StaleWorkerCannotCommit
\* A finished run with every worker gone takes no further step.
CHECK_DEADLOCK FALSE
