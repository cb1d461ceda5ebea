\* Two workers serve one session while its tenant runs out of capacity.
CONSTANTS
  NoOne = NoOne
  SessionIds = {s1, s2}
  EventIds = {e1, e2}
  Receivers = {p1}
  Cancellers = {c1}
  Dispatchers = {w1, w2}
  MaxRuns = 5
  MaxChildren = 1
  CandidateLimit = 1
  RetryDelay = 1
  MaxAge = 0
  MaxAttempts = 2
  Absences = {{s2, c1}}
SPECIFICATION MCSpec
INVARIANT NewerEventsDoNotOvertake
CHECK_DEADLOCK FALSE
