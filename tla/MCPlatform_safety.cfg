\* run: claimed up to twice, so that a stale epoch meets a newer one, the first
\* attempt is requeued when it is lost and the second is the last one.
CONSTANTS
  Scopes = {"run", "drain", "read", "pool", "rate", "sandbox", "shell",
            "provision", "egress", "knowledge", "export", "objects"}
  MaxAttempts = 2
  ClaimLimit = 2
  Ledgers = {l1}
  Writers = {w1, w2}
  Relays = {r1, r2}
  Readers = {c1}
  RelayBatch = 2
  ReadLimit = 1
  MaxRows = 3
  MaxCopies = 4
  a1 = a1
  a2 = a2
  a3 = a3
  a4 = a4
  m1 = m1
  m2 = m2
  Actions = {a1, a2, a3, a4}
  ModelCalls = {m1, m2}
  Transactions = {x1}
  LockOf <- MCLockOf
  PoolMax = 3
  k2 = k2
  t1 = t1
  t2 = t2
  Tenants = {t1, t2}
  ApiKeys = {k2}
  KeyTenant <- MCKeyTenant
  OperatorToken = op
  DefaultTenant = t1
  Nodes = {n1, n2}
  BucketScopes = {"instance", "global"}
  Burst = 2
  PerSec = 1
  MaxTime = 2
  MaxRequests = 3
  s1 = s1
  s2 = s2
  s3 = s3
  Creators = {s1, s2, s3}
  RunOfAttempt <- MCRunOfAttempt
  Replaces <- MCReplaces
  CleanupTries = 2
  FileVersions = 2
  Chunks = 2
  MaxTries = 3
  Provisioners = {p1, p2}
  f1 = f1
  f2 = f2
  Fresh = {f1, f2}
  Foreign = {x}
  Missing = missing
  AmbiguityTries = 2
  Origins = {"api", "other", "meta"}
  Literals = {"meta"}
  Proxy = "proxy"
  MaxRedirects = 2
  MaxAnswers = 1
  Coordinates = {"c1", "c2"}
  Operators = {o1, o2}
  Searchers = {q1}
  MaxRevisions = 3
  MaxEvents = 6
  MaxSnapshots = 1
  MaxPuts = 2
SPECIFICATION MCSpec
INVARIANTS
  ExecutingRunIsRecoverable
  CallInFlightIsFenced
  ReadersSeeWholeStreams
  MarkedRowsArePublished
  PoolIsNeverWedged
  RateIsBounded
  OnlyOwnRunIsKilled
  WrittenFileIsWhole
  OnlyOwnFunctionIsDeleted
  EveryHopIsAuthorized
  SearchesAreLiveVerified
  ExportsHoldTogether
  EvidenceIsTrue
PROPERTY ImplementsDurableRun
\* Each component may stop for good.
CHECK_DEADLOCK FALSE
