\* A window of one candidate, two workers, one replacement for a subtask.
CONSTANTS
  MaxRuns = 4
  MaxClaims = 2
  MaxAttempts = 2
  Workers = {w1, w2}
  CandidateLimit = 1
  MaxChildReplacements = 1
  FanOut = 2
  MaxConcurrent = 3
  DailyBudget = 10
  Budgets = {2, 3, 4}
  InputCeiling = 1
  OutputCap = 1
  LongLedgers = {1}
  Scopes = {"resolve", "spend", "admit", "defer"}
SPECIFICATION MCSpec
INVARIANTS
  OneCurrentRunPerSubtask
  OutcomesAreFinal
  SubtaskWithinBudget
  AdmittedWithinLimits
  DeferralsLetOthersPass
CHECK_DEADLOCK FALSE
