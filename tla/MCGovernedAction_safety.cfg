\* Three attempts over a run and its replacement.
CONSTANTS
  MaxAttempts = 3
  MaxRuns = 2
  MaxApprovals = 2
SPECIFICATION Spec
INVARIANTS
  OneReceiptPerLineage
  PendingApprovalIsAwaited
  ApprovedBeforeDispatch
PROPERTY ImplementsExternalEffect
\* When the attempts are used up nothing claims the run.
CHECK_DEADLOCK FALSE
