\* Signals: three claims, one that suspends the run, a stale one, one that
\* resumes it.  Checkpoints: an epoch and its successor.
CONSTANTS
  Names = {"paid", "shipped"}
  FirstName = "paid"
  LooseClaims = 2
  MaxAttempts = 2
  ClaimLimit = 3
  MaxDeliveries = 2
  MaxWaits = 2
  MaxClaims = 2
  SuccessorCalls = 1
  MaxSteps = 2
  CheckpointEvery = 1
  MaxNoToolTurns = 2
  MaxVerifyRetries = 1
  FanOut = 2
  Signatures = {a}
  Silent = silent
  MostCompleted = 1
  LoopThreshold = 2
  StagnationSteps = 3
  Window = 3
  MaxEscalations = 1
  WatchedSteps = 4
  SaveEvery = 2
  SilentTurns = 2
  MaxWatches = 2
  LineageRuns = {1, 2}
  ParentOf <- MCParentOf
  ForkedFrom <- MCForkedFrom
  Secrets = {1, 2}
  Grants = {1, 2, 3}
  GrantPolicies <- MCPolicies
  UseLimits = {0, 1}
  Keys = {1}
  Releases = {1, 2}
  LeaseLimit = 2
  Changes = 3
  Scripts <- MCScripts
  MaxWorkers = 3
SPECIFICATION MCSpec
INVARIANTS
  WaitsAreAnsweredByEvents
  PendingWaitIsAnsweredOrAwaited
  CallsAreAnsweredOnce
  HeadHoldsTheCheckpoint
  ArtifactsAreOfTheCompletion
  SpinningEnds
  UsesAreReceipts
  CompletedPastEveryGate
PROPERTIES
  OwnerSuspendsForAMissingSignal
  ReleasedToTheOwnerOnly
\* Each component may stop for good.
CHECK_DEADLOCK FALSE
