\* The liveness of one run, claimed up to twice, under FairSpec.
CONSTANTS
  MaxAttempts = 2
  ClaimLimit = 2
SPECIFICATION FairSpec
PROPERTIES
  DeadWorkerIsReplaced
  IdleRunReleasesCompute
\* A finished run with every worker gone takes no further step.
CHECK_DEADLOCK FALSE
