\* One request of each kind beside two workers, two events, one child.
CONSTANTS
  NoOne = NoOne
  SessionIds = {s1, s2}
  EventIds = {e1, e2}
  Receivers = {p1}
  Cancellers = {c1}
  Dispatchers = {w1, w2}
  MaxRuns = 5
  MaxChildren = 1
  CandidateLimit = 1
  RetryDelay = 1
  MaxAge = 0
  MaxAttempts = 2
  Absences = {{s2, w2}, {s2, c1}, {c1, w2}}
SPECIFICATION MCSpec
INVARIANTS
  CancelledSessionIsQuiet
  EventStartsOneRun
  SessionShowsItsRun
  WaitsEnd
  OrderedByOneWorker
CHECK_DEADLOCK FALSE
