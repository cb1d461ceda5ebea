--------------------------- MODULE Services_proofs ---------------------------
(***************************************************************************)
(* Proofs about the services around a run, each one on its own and for any *)
(* number of actors: knowledge bindings, rate limits, sandboxes, the       *)
(* function application they run under, the HTTP connector's egress, the   *)
(* files of the private web shell, and the object store's requests.        *)
(***************************************************************************)
EXTENDS KnowledgeBindings, RateLimits, Sandboxes, Provisioning, Egress,
        PrivateShell, ObjectStore, TLAPS

-----------------------------------------------------------------------------
(* Knowledge bindings.                                                     *)

\* A verification that has probed and whose revision is still the binding's has
\* probed the binding's coordinates: a rebinding has another revision.
KnowledgeInv ==
  /\ KnowledgeTypeOK
  /\ \A v \in Operators :
       /\ verifier[v].revision <= binding.revision
       /\ verifier[v].at = "marking" /\ verifier[v].revision = binding.revision
            => binding.at \in probed
  /\ binding.verified => binding.at \in probed
  /\ \A s \in Searchers : searcher[s] \subseteq probed
  /\ searched \subseteq probed

\* Whatever operators and runs do with a binding, what is verified or searched
\* has answered a probe (knowledgeBindings.ts).
THEOREM KnowledgeInductive == KnowledgeSpec => []KnowledgeInv
  <1>. DEFINE Verifiers == [at : {"idle", "probing", "marking"}, revision : 0..MaxRevisions]
              Bindings == [at : Coordinates, status : {"active", "disabled"},
                           revision : 0..MaxRevisions, verified : BOOLEAN]
  <1>1. KnowledgeInit => KnowledgeInv
    BY KnowledgeAssumption DEF KnowledgeInit, KnowledgeInv, KnowledgeTypeOK
  <1>2. ASSUME KnowledgeInv, [KnowledgeNext]_knowledgeVars
        PROVE  KnowledgeInv'
    <2>. USE <1>2, KnowledgeAssumption DEF KnowledgeInv, KnowledgeTypeOK
    <2>1. CASE \E c \in Coordinates : Rebind(c)
      <3>1. PICK c \in Coordinates : Rebind(c)
        BY <2>1
      <3>. QED
        BY <3>1 DEF Rebind
    <2>2. CASE Disable
      BY <2>2 DEF Disable
    <2>3. ASSUME NEW v \in Operators, BeginVerify(v)
          PROVE  KnowledgeInv'
      BY <2>3 DEF BeginVerify
    <2>4. ASSUME NEW v \in Operators, ProbeProvider(v)
          PROVE  KnowledgeInv'
      BY <2>4 DEF ProbeProvider, VerifierAt
    <2>5. ASSUME NEW v \in Operators, MarkVerified(v)
          PROVE  KnowledgeInv'
      BY <2>5 DEF MarkVerified, VerifierAt
    <2>6. ASSUME NEW s \in Searchers, ResolveBinding(s)
          PROVE  KnowledgeInv'
      BY <2>6 DEF ResolveBinding
    <2>7. ASSUME NEW s \in Searchers, SearchKnowledge(s)
          PROVE  KnowledgeInv'
      BY <2>7 DEF SearchKnowledge
    <2>8. CASE UNCHANGED knowledgeVars
      BY <2>8 DEF knowledgeVars
    <2>. QED
      BY <2>1, <2>2, <2>3, <2>4, <2>5, <2>6, <2>7, <2>8 DEF KnowledgeNext
  <1>. QED
    BY <1>1, <1>2, PTL DEF KnowledgeSpec

\* A run's search is sent only to coordinates that answered a live probe
\* (knowledgeBindings.ts, markKnowledgeBindingVerified).
THEOREM SearchesOfProbedOnly == KnowledgeSpec => []SearchesAreLiveVerified
  <1>1. KnowledgeInv => SearchesAreLiveVerified
    BY DEF KnowledgeInv, SearchesAreLiveVerified
  <1>. QED
    BY <1>1, KnowledgeInductive, PTL

-----------------------------------------------------------------------------
(* Rate limits.                                                            *)

\* What a bucket has admitted and still holds is at most what the burst and
\* the rate had brought by its last refill, and once more what late statements have
\* set back; a bucket that a denied request has taken below zero has admitted no
\* more either.
BucketIsCovered(b) ==
  LET brought == Burst + PerSec * (bucket[b].last + setBack[b]) IN
  admitted[b] <= brought /\ admitted[b] + bucket[b].tokens <= brought

RateInv ==
  /\ clock \in 0..MaxTime /\ asked \in 0..MaxRequests
  /\ bucket \in [Buckets -> [tokens : Int, last : Nat]]
  /\ admitted \in [Buckets -> Nat] /\ setBack \in [Buckets -> Nat]
  /\ \A b \in Buckets :
       /\ bucket[b].tokens \in -1..Burst /\ bucket[b].last <= clock
       /\ BucketIsCovered(b)
  /\ bucketScope \in BucketScopes

\* Time brings tokens at the rate, whenever a bucket is looked at; what a late look
\* sets back is counted, so that it takes nothing away.
LEMMA RateOverTime ==
  ASSUME NEW last \in Nat, NEW at \in Nat, NEW k \in Nat
  PROVE  LET j == k + Larger(0, last - at)
             change == (at - last) * PerSec
             gained == IF at < last THEN 0 ELSE change
             limit == Burst + PerSec * (last + k) IN
         /\ j \in Nat /\ change \in Int /\ gained \in Nat /\ limit \in Nat
         /\ change <= gained /\ (~(at < last) => change = gained)
         /\ Burst + PerSec * (at + j) = limit + gained
  <1>0. PerSec \in Nat \ {0} /\ Burst \in Nat \ {0}
    BY RateLimitsAssumption
  <1>1. PerSec * (last + k) \in Nat
    BY <1>0
  <1>2. CASE at < last
    <2>1. PICK d \in Nat : d = last - at
      BY <1>2
    <2>2. d * PerSec \in Nat /\ (at - last) * PerSec = -(d * PerSec)
      BY <1>0, <2>1
    <2>3. Larger(0, last - at) = d
      BY <1>2, <2>1 DEF Larger
    <2>4. at + (k + d) = last + k
      BY <2>1
    <2>. QED
      BY <1>0, <1>1, <1>2, <2>1, <2>2, <2>3, <2>4
  <1>3. CASE ~(at < last)
    <2>1. PICK d \in Nat : d = at - last
      BY <1>3
    <2>2. d * PerSec \in Nat /\ (at - last) * PerSec = d * PerSec
      BY <1>0, <2>1
    <2>3. Larger(0, last - at) = 0
      BY <1>3 DEF Larger
    <2>4. PerSec * (at + k) = PerSec * (last + k) + d * PerSec
      BY <1>0, <2>1
    <2>. QED
      BY <1>0, <1>1, <1>3, <2>1, <2>2, <2>3, <2>4
  <1>. QED
    BY <1>2, <1>3

\* One look at a bucket, of either limiter: what it admits is covered.
LEMMA CheckIsCovered ==
  ASSUME NEW b \in [tokens : Int, last : Nat], b.tokens \in -1..Burst,
         clock \in Nat, b.last <= clock, NEW n \in Nat, NEW k \in Nat,
         n <= Burst + PerSec * (b.last + k),
         n + b.tokens <= Burst + PerSec * (b.last + k),
         NEW v, v \in Checks(b)
  PROVE  /\ v.bucket \in [tokens : Int, last : Nat]
         /\ v.bucket.tokens \in -1..Burst /\ v.bucket.last <= clock
         /\ LET m == n + (IF v.ok THEN 1 ELSE 0)
                j == k + Larger(0, b.last - v.bucket.last) IN
            /\ m \in Nat /\ j \in Nat
            /\ m <= Burst + PerSec * (v.bucket.last + j)
            /\ m + v.bucket.tokens <= Burst + PerSec * (v.bucket.last + j)
  <1>1. PICK at \in Nat :
          /\ at <= clock
          /\ v = GlobalCheck(b, at) \/ (v = InstanceCheck(b) /\ at = clock)
    BY DEF Checks
  <1>. DEFINE j == k + Larger(0, b.last - at)
              change == (at - b.last) * PerSec
              gained == IF at < b.last THEN 0 ELSE change
              limit == Burst + PerSec * (b.last + k)
              brought == Burst + PerSec * (at + j)
  <1>2. /\ j \in Nat /\ change \in Int /\ gained \in Nat /\ limit \in Nat
        /\ change <= gained /\ (~(at < b.last) => change = gained)
        /\ brought = limit + gained
    BY RateOverTime
  <1>3. /\ b.tokens \in Int /\ b.tokens >= -1 /\ b.tokens <= Burst
        /\ n <= limit /\ n + b.tokens <= limit /\ Burst \in Nat \ {0}
    BY RateLimitsAssumption
  <1>4. Refilled(b, at) = IF Burst < b.tokens + change THEN Burst ELSE b.tokens + change
    BY DEF Refilled, Smaller
  <1>. HIDE DEF change, gained, limit, brought, j
  <1>5. /\ Refilled(b, at) \in Int /\ Refilled(b, at) <= Burst
        /\ n + Refilled(b, at) <= brought /\ n <= brought
        /\ ~(at < b.last) => Refilled(b, at) >= -1
        /\ brought \in Nat
    BY <1>2, <1>3, <1>4
  <1>6. PICK t \in -1..Burst, ok \in BOOLEAN :
          /\ v = [ok |-> ok, bucket |-> [tokens |-> t, last |-> at]]
          /\ n + (IF ok THEN 1 ELSE 0) <= brought
          /\ n + (IF ok THEN 1 ELSE 0) + t <= brought
    <2>1. CASE v = GlobalCheck(b, at)
      <3>1. PICK t \in Int : t = IF -1 > Refilled(b, at) - 1 THEN -1 ELSE Refilled(b, at) - 1
        BY <1>5
      <3>2. v = [ok |-> t >= 0, bucket |-> [tokens |-> t, last |-> at]]
        BY <2>1, <3>1 DEF GlobalCheck, Larger
      <3>3. t \in -1..Burst /\ (t >= 0) \in BOOLEAN
        BY <1>3, <1>5, <3>1
      <3>4. /\ n + (IF t >= 0 THEN 1 ELSE 0) <= brought
            /\ n + (IF t >= 0 THEN 1 ELSE 0) + t <= brought
        BY <1>5, <3>1
      <3>. QED
        BY <3>2, <3>3, <3>4
    <2>2. CASE v = InstanceCheck(b) /\ at = clock
      <3>1. Refilled(b, at) \in -1..Burst
        BY <1>3, <1>5, <2>2
      <3>2. CASE Refilled(b, at) < 1
        <4>1. v = [ok |-> FALSE, bucket |-> [tokens |-> Refilled(b, at), last |-> at]]
          BY <2>2, <3>2 DEF InstanceCheck
        <4>2. PICK t \in -1..Burst : t = Refilled(b, at)
          BY <3>1
        <4>3. n + (IF FALSE THEN 1 ELSE 0) <= brought /\ n + (IF FALSE THEN 1 ELSE 0) + t <= brought
          BY <1>5, <4>2
        <4>. QED
          BY <4>1, <4>2, <4>3
      <3>3. CASE ~(Refilled(b, at) < 1)
        <4>1. v = [ok |-> TRUE, bucket |-> [tokens |-> Refilled(b, at) - 1, last |-> at]]
          BY <2>2, <3>3 DEF InstanceCheck
        <4>2. PICK t \in -1..Burst : t = Refilled(b, at) - 1
          BY <1>3, <1>5, <3>1, <3>3
        <4>3. n + 1 <= brought /\ n + 1 + t <= brought
          BY <1>5, <3>3, <4>2
        <4>. QED
          BY <4>1, <4>2, <4>3
      <3>. QED
        BY <3>2, <3>3
    <2>. QED
      BY <1>1, <2>1, <2>2
  <1>7. /\ v.bucket \in [tokens : Int, last : Nat]
        /\ v.bucket.tokens = t /\ v.bucket.last = at /\ v.ok = ok
        /\ n + (IF ok THEN 1 ELSE 0) \in Nat
    BY <1>6
  <1>8. j = k + Larger(0, b.last - at) /\ brought = Burst + PerSec * (at + j)
    BY DEF j, brought
  <1>. QED
    BY <1>1, <1>2, <1>6, <1>7, <1>8

\* Whatever requests are made, admitted and denied, at whatever nodes.
THEOREM RateInductive == RateLimitsSpec => []RateInv
  <1>1. RateLimitsInit => RateInv
    BY RateLimitsAssumption DEF RateLimitsInit, RateInv, BucketIsCovered, FullBucket
  <1>2. ASSUME RateInv, [RateLimitsNext]_rateLimitVars
        PROVE  RateInv'
    <2>. USE <1>2
    <2>1. ASSUME NEW n \in Nodes, NEW k \in Callers, Request(n, k)
          PROVE  RateInv'
      <3>1. /\ asked' = asked + 1 /\ asked < MaxRequests
            /\ UNCHANGED <<bucketScope, tenantState, keyState, clock>>
            /\ Reject(k) \/ Limit(n, k)
        BY <2>1 DEF Request
      <3>2. asked' \in 0..MaxRequests
        BY <3>1, RateLimitsAssumption DEF RateInv
      <3>3. CASE Reject(k)
        BY <3>1, <3>2, <3>3 DEF Reject, RateInv, BucketIsCovered
      <3>4. CASE Limit(n, k)
        <4>1. PICK t \in Resolved(k) :
                LET b == <<BucketOf(n), t>> IN
                \E v \in Checks(bucket[b]) :
                  /\ bucket' = [bucket EXCEPT ![b] = v.bucket]
                  /\ admitted' = [admitted EXCEPT ![b] = admitted[b] + (IF v.ok THEN 1 ELSE 0)]
                  /\ setBack' = [setBack EXCEPT ![b] =
                       setBack[b] + Larger(0, bucket[b].last - v.bucket.last)]
          BY <3>4 DEF Limit
        <4>2. t \in Tenants
          BY RateLimitsAssumption DEF Resolved, Callers
        <4>3. PICK b \in Buckets : b = <<BucketOf(n), t>>
          <5>1. BucketOf(n) \in Nodes \cup {"row"}
            BY DEF BucketOf
          <5>2. <<BucketOf(n), t>> \in Buckets
            BY <4>2, <5>1 DEF Buckets
          <5>. QED
            BY <5>2
        <4>. DEFINE m(v) == admitted[b] + (IF v.ok THEN 1 ELSE 0)
                    j(v) == setBack[b] + Larger(0, bucket[b].last - v.bucket.last)
                    brought(c, x) == Burst + PerSec * (c.last + x)
        <4>4. PICK v \in Checks(bucket[b]) :
                /\ bucket' = [bucket EXCEPT ![b] = v.bucket]
                /\ admitted' = [admitted EXCEPT ![b] = m(v)]
                /\ setBack' = [setBack EXCEPT ![b] = j(v)]
          BY <4>1, <4>3
        <4>5. /\ bucket[b] \in [tokens : Int, last : Nat] /\ admitted[b] \in Nat
              /\ bucket[b].tokens \in -1..Burst /\ bucket[b].last <= clock /\ clock \in Nat
              /\ setBack[b] \in Nat
              /\ admitted[b] <= brought(bucket[b], setBack[b])
              /\ admitted[b] + bucket[b].tokens <= brought(bucket[b], setBack[b])
          BY DEF RateInv, BucketIsCovered
        <4>7. /\ v.bucket \in [tokens : Int, last : Nat]
              /\ v.bucket.tokens \in -1..Burst /\ v.bucket.last <= clock
              /\ m(v) \in Nat /\ j(v) \in Nat
              /\ m(v) <= brought(v.bucket, j(v))
              /\ m(v) + v.bucket.tokens <= brought(v.bucket, j(v))
          BY <4>5, CheckIsCovered
        <4>. HIDE DEF m, j
        <4>9. /\ bucket' \in [Buckets -> [tokens : Int, last : Nat]]
              /\ admitted' \in [Buckets -> Nat] /\ setBack' \in [Buckets -> Nat]
              /\ bucket'[b] = v.bucket /\ admitted'[b] = m(v) /\ setBack'[b] = j(v)
              /\ \A c \in Buckets \ {b} :
                   bucket'[c] = bucket[c] /\ admitted'[c] = admitted[c] /\ setBack'[c] = setBack[c]
          BY <4>4, <4>7 DEF RateInv
        <4>10. ASSUME NEW c \in Buckets
               PROVE  /\ bucket'[c].tokens \in -1..Burst /\ bucket'[c].last <= clock
                      /\ admitted'[c] <= brought(bucket'[c], setBack'[c])
                      /\ admitted'[c] + bucket'[c].tokens <= brought(bucket'[c], setBack'[c])
          <5>1. CASE c = b
            BY <4>7, <4>9, <5>1
          <5>2. CASE c # b
            BY <4>9, <5>2 DEF RateInv, BucketIsCovered
          <5>. QED
            BY <5>1, <5>2
        <4>. QED
          BY <3>1, <3>2, <4>9, <4>10 DEF RateInv, BucketIsCovered
      <3>. QED
        BY <3>1, <3>3, <3>4
    <2>2. CASE Tick
      <3>1. clock' = clock + 1 /\ clock < MaxTime /\ asked' = 0
        BY <2>2 DEF Tick
      <3>2. clock' \in 0..MaxTime /\ clock <= clock' /\ clock \in Int /\ clock' \in Int
        BY <3>1, RateLimitsAssumption DEF RateInv
      <3>3. UNCHANGED <<bucket, admitted, setBack, bucketScope>> /\ asked' \in 0..MaxRequests
        BY <2>2, RateLimitsAssumption DEF Tick
      <3>4. \A b \in Buckets : bucket[b].last <= clock'
        BY <3>2 DEF RateInv
      <3>. QED
        BY <3>2, <3>3, <3>4 DEF RateInv, BucketIsCovered
    <2>3. CASE UNCHANGED <<bucketScope, bucket, clock, asked, admitted, setBack>>
      BY <2>3 DEF RateInv, BucketIsCovered
    <2>4. ASSUME NEW k \in ApiKeys, CreateApiKey(k) \/ RevokeKey(k)
          PROVE  RateInv'
      BY <2>3, <2>4 DEF CreateApiKey, RevokeKey
    <2>5. ASSUME NEW t \in Tenants, CreateTenant(t) \/ SuspendTenant(t)
          PROVE  RateInv'
      BY <2>3, <2>5 DEF CreateTenant, SuspendTenant
    <2>. QED
      BY <2>1, <2>2, <2>3, <2>4, <2>5 DEF RateLimitsNext, rateLimitVars
  <1>. QED
    BY <1>1, <1>2, PTL DEF RateLimitsSpec

\* No tenant gets more than the burst and the rate allow (config.ts:22-23), in
\* one node's memory or in the row that all share, but for what the statements that
\* waited for the row have set back.
THEOREM RateBounded == RateLimitsSpec => []RateIsBounded
  <1>1. ASSUME RateInv PROVE RateIsBounded
    <2>1. ASSUME NEW b \in Buckets
          PROVE  admitted[b] <= Burst + PerSec * (clock + setBack[b])
      <3>1. /\ bucket[b].last \in Nat /\ clock \in Nat /\ bucket[b].last <= clock
            /\ admitted[b] \in Nat /\ setBack[b] \in Nat
            /\ admitted[b] <= Burst + PerSec * (bucket[b].last + setBack[b])
        BY <1>1 DEF RateInv, BucketIsCovered
      <3>2. PICK gained \in Nat :
              Burst + PerSec * (clock + setBack[b])
                = Burst + PerSec * (bucket[b].last + setBack[b]) + gained
        <4>1. setBack[b] + Larger(0, bucket[b].last - clock) = setBack[b]
          BY <3>1 DEF Larger
        <4>. DEFINE change == (clock - bucket[b].last) * PerSec
        <4>2. /\ change \in Nat
              /\ Burst + PerSec * (clock + setBack[b])
                   = Burst + PerSec * (bucket[b].last + setBack[b]) + change
          BY <3>1, <4>1, RateOverTime
        <4>. HIDE DEF change
        <4>. QED
          BY <4>2
      <3>3. Burst + PerSec * (bucket[b].last + setBack[b]) \in Nat
        BY <3>1, RateOverTime
      <3>. QED
        BY <3>1, <3>2, <3>3
    <2>. QED
      BY <2>1 DEF RateIsBounded
  <1>. QED
    BY <1>1, RateInductive, PTL

-----------------------------------------------------------------------------
(* Sandboxes.                                                              *)

AttemptPcs ==
  {"idle", "wait", "list", "kill", "verify", "clean", "unverified", "held", "stop",
   "stopping", "stopped", "failed", "dead"}
Attempts == [pc : AttemptPcs, tries : 0..CleanupTries, kill : SUBSET Creators]
Instances ==
  [state : {"none", "late", "starting", "ready", "failed", "dying", "gone"}, shown : BOOLEAN]

\* What a cleanup is about to kill, and what was killed, is the run's; and an
\* attempt holds, or its row names, only a sandbox that had become ready.
SandboxesInv ==
  /\ SandboxesTypeOK
  /\ attempt \in [Creators -> Attempts]
  /\ killedBy \in [Creators -> SUBSET Creators] /\ sandboxRow \subseteq Creators
  /\ \A a \in Creators :
       /\ attempt[a].kill \subseteq OfRun(a)
       /\ attempt[a].pc = "held" =>
            instance[a].shown /\ instance[a].state \in {"ready", "dying", "gone"}
       /\ a \in sandboxRow => attempt[a].pc # "idle"
       /\ attempt[a].pc \in {"idle", "list"} => attempt[a].tries < CleanupTries
  /\ OnlyOwnRunIsKilled

\* A kill, by whichever way, ends nothing but its target and is noted.
LEMMA KillStep ==
  ASSUME SandboxesInv, NEW a \in Creators, NEW b \in OfRun(a), Kill(a, b)
  PROVE  /\ instance' \in [Creators -> Instances]
         /\ \A c \in Creators :
              \/ instance'[c] = instance[c]
              \/ instance'[c].state = "dying" /\ instance'[c].shown
         /\ killedBy' \in [Creators -> SUBSET Creators]
         /\ OnlyOwnRunIsKilled'
  <1>. USE DEF SandboxesInv, SandboxesTypeOK, Instances
  <1>0. b \in Creators /\ RunOfAttempt[a] = RunOfAttempt[b]
    BY DEF OfRun
  <1>1. CASE Listed(b)
    <2>1. \/ instance' = [instance EXCEPT ![b].state = "dying"]
          \/ UNCHANGED instance
      BY <1>1 DEF Kill
    <2>2. killedBy' = [killedBy EXCEPT ![b] = killedBy[b] \cup {a}]
      BY <1>1 DEF Kill
    <2>3. instance[b].shown
      BY <1>1 DEF Listed
    <2>4. OnlyOwnRunIsKilled'
      BY <1>0, <2>2 DEF OnlyOwnRunIsKilled
    <2>5. /\ instance' \in [Creators -> Instances]
          /\ \A c \in Creators :
               \/ instance'[c] = instance[c]
               \/ instance'[c].state = "dying" /\ instance'[c].shown
      <3>1. CASE instance' = [instance EXCEPT ![b].state = "dying"]
        BY <1>0, <2>3, <3>1
      <3>. QED
        BY <2>1, <3>1
    <2>6. killedBy' \in [Creators -> SUBSET Creators]
      BY <1>0, <2>2
    <2>. QED
      BY <2>4, <2>5, <2>6
  <1>2. CASE ~Listed(b)
    BY <1>2 DEF Kill, OnlyOwnRunIsKilled
  <1>. QED
    BY <1>1, <1>2

\* A step of one attempt: the invariant is kept if what it is about to kill is
\* still the run's, what it holds has become ready, and a sandbox that had become
\* ready has only been ended.
LEMMA AttemptStep ==
  ASSUME SandboxesInv, NEW a \in Creators,
         attempt' \in [Creators -> Attempts],
         \A c \in Creators \ {a} : attempt'[c] = attempt[c],
         attempt'[a].kill \subseteq OfRun(a),
         attempt'[a].pc = "held" =>
           instance'[a].shown /\ instance'[a].state \in {"ready", "dying", "gone"},
         attempt'[a].pc # "idle" \/ a \notin sandboxRow',
         attempt'[a].pc \in {"idle", "list"} => attempt'[a].tries < CleanupTries,
         instance' \in [Creators -> Instances],
         \A c \in Creators : instance[c].shown /\ instance[c].state \in {"ready", "dying", "gone"}
           /\ (c = a => attempt[a].pc # "idle")
             => instance'[c].shown /\ instance'[c].state \in {"ready", "dying", "gone"},
         killedBy' \in [Creators -> SUBSET Creators], OnlyOwnRunIsKilled',
         sandboxRow' \subseteq sandboxRow \cup (IF attempt[a].pc = "held" THEN {a} ELSE {})
  PROVE  SandboxesInv'
  <1>1. ASSUME NEW c \in Creators
        PROVE  attempt'[c].kill \subseteq OfRun(c)
    BY DEF SandboxesInv
  <1>2. ASSUME NEW c \in Creators, attempt'[c].pc = "held"
        PROVE  instance'[c].shown /\ instance'[c].state \in {"ready", "dying", "gone"}
    BY <1>2 DEF SandboxesInv
  <1>3. ASSUME NEW c \in sandboxRow'
        PROVE  /\ c \in Creators /\ attempt'[c].pc # "idle"
               /\ instance'[c].shown /\ instance'[c].state \in {"ready", "dying", "gone"}
    <2>1. CASE c \in sandboxRow
      BY <2>1 DEF SandboxesInv, SandboxesTypeOK
    <2>2. CASE c = a /\ attempt[a].pc = "held"
      BY <2>2 DEF SandboxesInv
    <2>. QED
      BY <2>1, <2>2
  <1>4. \A c \in Creators : /\ attempt'[c].pc \in AttemptPcs /\ attempt'[c].tries \in 0..CleanupTries
                            /\ attempt'[c].kill \subseteq Creators
    BY DEF Attempts
  <1>5. SandboxesTypeOK'
    BY <1>3, <1>4 DEF SandboxesTypeOK, Instances, AttemptPcs
  <1>6. (\A c \in Creators : attempt[c].kill \subseteq OfRun(c))'
    BY <1>1 DEF OfRun
  <1>7. \A c \in Creators : attempt'[c].pc \in {"idle", "list"} => attempt'[c].tries < CleanupTries
    BY DEF SandboxesInv
  <1>. QED
    BY <1>2, <1>3, <1>5, <1>6, <1>7 DEF SandboxesInv

\* Of such a step, when only the place of the attempt changes.
LEMMA GoToStep ==
  ASSUME SandboxesInv, NEW a \in Creators, NEW pc \in AttemptPcs \ {"idle", "list"}, GoTo(a, pc),
         attempt[a].pc # "idle",
         pc = "held" => instance[a].shown /\ instance[a].state \in {"ready", "dying", "gone"},
         UNCHANGED <<instance, killedBy>>,
         sandboxRow' \subseteq sandboxRow
  PROVE  SandboxesInv'
  <1>1. attempt \in [Creators -> Attempts] /\ attempt[a].kill \subseteq OfRun(a)
    BY DEF SandboxesInv
  <1>2. /\ attempt' \in [Creators -> Attempts]
        /\ \A c \in Creators \ {a} : attempt'[c] = attempt[c]
        /\ attempt'[a].pc = pc /\ attempt'[a].kill = attempt[a].kill
    BY <1>1 DEF GoTo, Attempts
  <1>3. /\ instance' \in [Creators -> Instances] /\ killedBy' \in [Creators -> SUBSET Creators]
        /\ OnlyOwnRunIsKilled'
    BY DEF SandboxesInv, SandboxesTypeOK, Instances, OnlyOwnRunIsKilled
  <1>. QED
    BY <1>1, <1>2, <1>3, AttemptStep

\* Whatever the provider hides, delays or ignores, and whoever dies.
THEOREM SandboxesInductive == SandboxesSpec => []SandboxesInv
  <1>1. SandboxesInit => SandboxesInv
    BY SandboxesAssumption
    DEF SandboxesInit, SandboxesInv, SandboxesTypeOK, OnlyOwnRunIsKilled, Attempts, AttemptPcs
  <1>2. ASSUME SandboxesInv, [SandboxesNext]_sandboxVars
        PROVE  SandboxesInv'
    <2>. USE <1>2
    <2>0. /\ attempt \in [Creators -> Attempts] /\ instance \in [Creators -> Instances]
          /\ killedBy \in [Creators -> SUBSET Creators] /\ OnlyOwnRunIsKilled
          /\ \A a \in Creators : attempt[a].kill \subseteq OfRun(a)
          /\ \A a \in Creators : attempt[a].pc = "held" =>
                instance[a].shown /\ instance[a].state \in {"ready", "dying", "gone"}
          /\ \A a \in sandboxRow : attempt[a].pc # "idle"
          /\ \A a \in Creators : attempt[a].pc \in {"idle", "list"} =>
                attempt[a].tries < CleanupTries
      BY DEF SandboxesInv, SandboxesTypeOK, Instances
    <2>. DEFINE HasBeenReady(i) == i.shown /\ i.state \in {"ready", "dying", "gone"}
    <2>1. ASSUME NEW a \in Creators, ProviderStep(a)
          PROVE  SandboxesInv'
      <3>1. UNCHANGED <<attempt, killedBy, sandboxRow>>
        BY <2>1 DEF ProviderStep
      <3>2. PICK i \in Instances : /\ instance' = [instance EXCEPT ![a] = i]
                                   /\ HasBeenReady(instance[a]) => HasBeenReady(i)
        <4>1. ASSUME NEW i \in Instances, i = instance[a]
              PROVE  \E j \in Instances :
                       /\ instance' = [instance EXCEPT ![a] = j]
                       /\ HasBeenReady(i) => HasBeenReady(j)
          <5>1. CASE i.state = "late" /\ instance' = [instance EXCEPT ![a].state = "starting"]
            <6>1. [i EXCEPT !.state = "starting"] \in Instances
              BY DEF Instances
            <6>2. instance' = [instance EXCEPT ![a] = [i EXCEPT !.state = "starting"]]
              BY <4>1, <5>1
            <6>. QED
              BY <5>1, <6>1, <6>2
          <5>2. CASE i.state \in AliveStates /\ instance' = [instance EXCEPT ![a].shown = TRUE]
            <6>1. /\ [i EXCEPT !.shown = TRUE] \in Instances
                  /\ [i EXCEPT !.shown = TRUE].state = i.state
                  /\ [i EXCEPT !.shown = TRUE].shown
              BY DEF Instances
            <6>2. instance' = [instance EXCEPT ![a] = [i EXCEPT !.shown = TRUE]]
              BY <4>1, <5>2
            <6>. QED
              BY <5>2, <6>1, <6>2
          <5>3. ASSUME i.state = "starting", NEW s \in {"ready", "failed"},
                       instance' = [instance EXCEPT ![a].state = s]
                PROVE  \E j \in Instances :
                         /\ instance' = [instance EXCEPT ![a] = j]
                         /\ HasBeenReady(i) => HasBeenReady(j)
            <6>1. [i EXCEPT !.state = s] \in Instances
              BY DEF Instances
            <6>2. instance' = [instance EXCEPT ![a] = [i EXCEPT !.state = s]]
              BY <4>1, <5>3
            <6>. QED
              BY <5>3, <6>1, <6>2
          <5>4. CASE i.state = "dying" /\ instance' = [instance EXCEPT ![a].state = "gone"]
            <6>1. /\ [i EXCEPT !.state = "gone"] \in Instances
                  /\ [i EXCEPT !.state = "gone"].state = "gone"
                  /\ [i EXCEPT !.state = "gone"].shown = i.shown
              BY DEF Instances
            <6>2. instance' = [instance EXCEPT ![a] = [i EXCEPT !.state = "gone"]]
              BY <4>1, <5>4
            <6>. QED
              BY <5>4, <6>1, <6>2
          <5>. QED
            BY <2>1, <4>1, <5>1, <5>2, <5>3, <5>4 DEF ProviderStep
        <4>. QED
          BY <2>0, <4>1
      <3>3. /\ instance' \in [Creators -> Instances]
            /\ \A c \in Creators : HasBeenReady(instance[c]) => HasBeenReady(instance'[c])
        BY <2>0, <3>2
      <3>4. OnlyOwnRunIsKilled'
        BY <2>0, <3>1 DEF OnlyOwnRunIsKilled
      <3>. QED
        BY <2>0, <3>1, <3>3, <3>4, AttemptStep
    <2>2. ASSUME NEW a \in Creators, CreateSandbox(a)
          PROVE  SandboxesInv'
      <3>1. /\ UNCHANGED <<killedBy, sandboxRow>> /\ attempt[a].pc = "idle"
            /\ GoTo(a, "wait") \/ GoTo(a, "list")
        BY <2>2 DEF CreateSandbox
      <3>2. PICK i \in Instances : instance' = [instance EXCEPT ![a] = i]
        BY <2>2 DEF CreateSandbox, Instances
      <3>3. /\ instance' \in [Creators -> Instances]
            /\ \A c \in Creators \ {a} : instance'[c] = instance[c]
        BY <2>0, <3>2
      <3>4. /\ attempt' \in [Creators -> Attempts]
            /\ \A c \in Creators \ {a} : attempt'[c] = attempt[c]
            /\ attempt'[a].pc \in {"wait", "list"} /\ attempt'[a].kill = attempt[a].kill
            /\ attempt'[a].tries = attempt[a].tries
        BY <2>0, <3>1 DEF GoTo, Attempts, AttemptPcs
      <3>5. OnlyOwnRunIsKilled'
        BY <2>0, <3>1 DEF OnlyOwnRunIsKilled
      <3>. QED
        BY <2>0, <3>1, <3>3, <3>4, <3>5, AttemptStep
    <2>3. ASSUME NEW a \in Creators, WaitForReady(a)
          PROVE  SandboxesInv'
      <3>1. UNCHANGED <<instance, killedBy, sandboxRow>> /\ attempt[a].pc = "wait"
        BY <2>3 DEF WaitForReady
      <3>2. PICK pc \in {"held", "stop"} :
              /\ GoTo(a, pc)
              /\ pc = "held" => instance[a].shown /\ instance[a].state = "ready"
        BY <2>3 DEF WaitForReady
      <3>3. pc \in AttemptPcs \ {"idle", "list"}
        BY DEF AttemptPcs
      <3>. QED
        BY <3>1, <3>2, <3>3, GoToStep
    <2>4. ASSUME NEW a \in Creators, ListForCleanup(a)
          PROVE  SandboxesInv'
      <3>1. UNCHANGED <<instance, killedBy, sandboxRow>> /\ attempt[a].pc = "list"
        BY <2>4 DEF ListForCleanup
      <3>2. CASE GoTo(a, "unverified")
        <4>1. "unverified" \in AttemptPcs \ {"idle", "list"}
          BY DEF AttemptPcs
        <4>. QED
          BY <3>1, <3>2, <4>1, GoToStep
      <3>3. CASE \E found \in Inventories(a) :
                   /\ found \subseteq OfRun(a)
                   /\ attempt' = [attempt EXCEPT ![a].pc = "kill", ![a].kill = found]
        <4>1. PICK found : /\ found \subseteq OfRun(a)
                           /\ attempt' = [attempt EXCEPT ![a].pc = "kill", ![a].kill = found]
          BY <3>3
        <4>2. found \subseteq Creators
          BY <4>1 DEF OfRun
        <4>3. /\ attempt' \in [Creators -> Attempts]
              /\ \A c \in Creators \ {a} : attempt'[c] = attempt[c]
              /\ attempt'[a].pc = "kill" /\ attempt'[a].kill = found
          <5>. DEFINE p == [attempt[a] EXCEPT !.pc = "kill"]
                      q == [p EXCEPT !.kill = found]
          <5>1. q \in Attempts /\ q.pc = "kill" /\ q.kill = found
            <6>1. attempt[a] \in Attempts /\ "kill" \in AttemptPcs /\ found \in SUBSET Creators
              BY <2>0, <4>2 DEF AttemptPcs
            <6>2. PICK r \in Attempts : r = attempt[a]
              BY <6>1
            <6>. QED
              BY <6>1, <6>2 DEF Attempts
          <5>2. attempt' = [attempt EXCEPT ![a] = q]
            BY <2>0, <4>1
          <5>. HIDE DEF q
          <5>. QED
            BY <2>0, <5>1, <5>2
        <4>. QED
          BY <2>0, <3>1, <4>1, <4>3, AttemptStep DEF OnlyOwnRunIsKilled
      <3>4. CASE attempt' = [attempt EXCEPT ![a].tries = attempt[a].tries + 1,
                   ![a].pc = IF attempt[a].tries + 1 < CleanupTries THEN "list" ELSE "clean"]
        <4>1. attempt[a].tries \in 0..CleanupTries /\ CleanupTries \in Nat
          BY <2>0, SandboxesAssumption DEF Attempts
        <4>2. attempt[a].tries + 1 \in 0..CleanupTries
          BY <2>0, <3>1, <4>1
        <4>3. /\ attempt' \in [Creators -> Attempts]
              /\ \A c \in Creators \ {a} : attempt'[c] = attempt[c]
              /\ attempt'[a].pc \in {"list", "clean"} /\ attempt'[a].kill = attempt[a].kill
              /\ attempt'[a].pc = "list" => attempt'[a].tries < CleanupTries
          <5>. DEFINE pc == IF attempt[a].tries + 1 < CleanupTries THEN "list" ELSE "clean"
                      p == [attempt[a] EXCEPT !.tries = attempt[a].tries + 1]
                      q == [p EXCEPT !.pc = pc]
          <5>1. pc \in {"list", "clean"} /\ (pc = "list" => attempt[a].tries + 1 < CleanupTries)
            OBVIOUS
          <5>2. attempt' = [attempt EXCEPT ![a] = q]
            BY <2>0, <3>4
          <5>. HIDE DEF pc
          <5>3. /\ q \in Attempts /\ q.pc = pc /\ q.kill = attempt[a].kill
                /\ q.tries = attempt[a].tries + 1
            <6>1. attempt[a] \in Attempts /\ pc \in AttemptPcs
              BY <2>0, <4>2, <5>1 DEF AttemptPcs
            <6>2. PICK r \in Attempts : r = attempt[a]
              BY <6>1
            <6>. QED
              BY <6>1, <6>2, <4>2 DEF Attempts
          <5>. HIDE DEF q
          <5>. QED
            BY <2>0, <5>1, <5>2, <5>3
        <4>. QED
          BY <2>0, <3>1, <4>3, AttemptStep DEF OnlyOwnRunIsKilled
      <3>. QED
        BY <2>4, <3>2, <3>3, <3>4 DEF ListForCleanup
    <2>5. ASSUME NEW a \in Creators, KillForCleanup(a)
          PROVE  SandboxesInv'
      <3>1. sandboxRow' = sandboxRow /\ attempt[a].pc = "kill"
        BY <2>5 DEF KillForCleanup
      <3>2. ASSUME NEW b \in attempt[a].kill, Kill(a, b),
                   attempt' = [attempt EXCEPT ![a].kill = attempt[a].kill \ {b},
                     ![a].pc = IF attempt[a].kill = {b} THEN "verify" ELSE "kill"]
            PROVE  SandboxesInv'
        <4>1. b \in OfRun(a)
          BY <2>0
        <4>2. PICK pc \in {"verify", "kill"}, kill \in SUBSET Creators :
                /\ kill \subseteq attempt[a].kill
                /\ attempt' = [attempt EXCEPT ![a].kill = kill, ![a].pc = pc]
          BY <2>0, <3>2 DEF Attempts
        <4>3. /\ attempt' \in [Creators -> Attempts]
              /\ \A c \in Creators \ {a} : attempt'[c] = attempt[c]
              /\ attempt'[a].pc = pc /\ attempt'[a].kill = kill
          <5>. DEFINE p == [attempt[a] EXCEPT !.kill = kill]
                      q == [p EXCEPT !.pc = pc]
          <5>1. q \in Attempts /\ q.pc = pc /\ q.kill = kill
            <6>1. attempt[a] \in Attempts /\ pc \in AttemptPcs
              BY <2>0 DEF AttemptPcs
            <6>2. PICK r \in Attempts : r = attempt[a]
              BY <6>1
            <6>. QED
              BY <6>1, <6>2 DEF Attempts
          <5>2. attempt' = [attempt EXCEPT ![a] = q]
            BY <2>0, <4>2
          <5>. HIDE DEF q
          <5>. QED
            BY <2>0, <5>1, <5>2
        <4>4. /\ instance' \in [Creators -> Instances]
              /\ \A c \in Creators : \/ instance'[c] = instance[c]
                                     \/ instance'[c].state = "dying" /\ instance'[c].shown
              /\ killedBy' \in [Creators -> SUBSET Creators] /\ OnlyOwnRunIsKilled'
          BY <3>2, <4>1, KillStep
        <4>. QED
          BY <2>0, <3>1, <4>2, <4>3, <4>4, AttemptStep
      <3>3. CASE GoTo(a, "unverified") /\ UNCHANGED <<instance, killedBy>>
        <4>1. "unverified" \in AttemptPcs \ {"idle", "list"}
          BY DEF AttemptPcs
        <4>. QED
          BY <3>1, <3>3, <4>1, GoToStep
      <3>. QED
        BY <2>5, <3>2, <3>3 DEF KillForCleanup
    <2>6. ASSUME NEW a \in Creators, VerifyCleanup(a)
          PROVE  SandboxesInv'
      <3>1. PICK pc \in {"unverified", "clean"} : GoTo(a, pc)
        BY <2>6 DEF VerifyCleanup
      <3>2. pc \in AttemptPcs \ {"idle", "list"} /\ pc # "held"
        BY DEF AttemptPcs
      <3>3. UNCHANGED <<instance, killedBy, sandboxRow>> /\ attempt[a].pc # "idle"
        BY <2>6 DEF VerifyCleanup
      <3>. QED
        BY <3>1, <3>2, <3>3, GoToStep
    <2>7. ASSUME NEW a \in Creators, RecordSandbox(a)
          PROVE  SandboxesInv'
      <3>1. /\ attempt[a].pc = "held" /\ sandboxRow' = sandboxRow \cup {a}
            /\ UNCHANGED <<instance, attempt, killedBy>>
        BY <2>7 DEF RecordSandbox
      <3>. QED
        BY <2>0, <3>1, AttemptStep DEF OnlyOwnRunIsKilled
    <2>8. ASSUME NEW a \in Creators, EndEpoch(a)
          PROVE  SandboxesInv'
      <3>1. PICK pc \in {"stop"} : GoTo(a, pc)
        BY <2>8 DEF EndEpoch
      <3>2. pc \in AttemptPcs \ {"idle", "list"} /\ pc # "held"
        BY DEF AttemptPcs
      <3>3. UNCHANGED <<instance, killedBy, sandboxRow>> /\ attempt[a].pc # "idle"
        BY <2>8 DEF EndEpoch
      <3>. QED
        BY <3>1, <3>2, <3>3, GoToStep
    <2>9. ASSUME NEW a \in Creators, KillOwn(a)
          PROVE  SandboxesInv'
      <3>1. sandboxRow' = sandboxRow /\ attempt[a].pc = "stop"
        BY <2>9 DEF KillOwn
      <3>2. CASE Kill(a, a) /\ GoTo(a, "stopping")
        <4>1. a \in OfRun(a)
          BY DEF OfRun
        <4>2. /\ attempt' \in [Creators -> Attempts]
              /\ \A c \in Creators \ {a} : attempt'[c] = attempt[c]
              /\ attempt'[a].pc = "stopping" /\ attempt'[a].kill = attempt[a].kill
          BY <2>0, <3>2 DEF GoTo, Attempts, AttemptPcs
        <4>3. /\ instance' \in [Creators -> Instances]
              /\ \A c \in Creators : \/ instance'[c] = instance[c]
                                     \/ instance'[c].state = "dying" /\ instance'[c].shown
              /\ killedBy' \in [Creators -> SUBSET Creators] /\ OnlyOwnRunIsKilled'
          BY <3>2, <4>1, KillStep
        <4>. QED
          BY <2>0, <3>1, <4>2, <4>3, AttemptStep
      <3>3. CASE GoTo(a, "failed") /\ UNCHANGED <<instance, killedBy>>
        <4>1. "failed" \in AttemptPcs \ {"idle", "list"}
          BY DEF AttemptPcs
        <4>. QED
          BY <3>1, <3>3, <4>1, GoToStep
      <3>. QED
        BY <2>9, <3>2, <3>3 DEF KillOwn
    <2>10. ASSUME NEW a \in Creators, WaitForTerminal(a)
          PROVE  SandboxesInv'
      <3>1. PICK pc \in {"stopped", "failed"} : GoTo(a, pc)
        BY <2>10 DEF WaitForTerminal
      <3>2. pc \in AttemptPcs \ {"idle", "list"} /\ pc # "held"
        BY DEF AttemptPcs
      <3>3. UNCHANGED <<instance, killedBy, sandboxRow>> /\ attempt[a].pc # "idle"
        BY <2>10 DEF WaitForTerminal
      <3>. QED
        BY <3>1, <3>2, <3>3, GoToStep
    <2>11. ASSUME NEW a \in Creators, WorkerDies(a)
          PROVE  SandboxesInv'
      <3>1. PICK pc \in {"dead"} : GoTo(a, pc)
        BY <2>11 DEF WorkerDies
      <3>2. pc \in AttemptPcs \ {"idle", "list"} /\ pc # "held"
        BY DEF AttemptPcs
      <3>3. UNCHANGED <<instance, killedBy, sandboxRow>> /\ attempt[a].pc # "idle"
        BY <2>11 DEF WorkerDies
      <3>. QED
        BY <3>1, <3>2, <3>3, GoToStep
    <2>12. ASSUME NEW a \in Creators, ReapSandbox(a)
          PROVE  SandboxesInv'
      <3>1. PICK pc \in {"stop"} : GoTo(a, pc)
        BY <2>12 DEF ReapSandbox
      <3>2. pc \in AttemptPcs \ {"idle", "list"} /\ pc # "held"
        BY DEF AttemptPcs
      <3>3. UNCHANGED <<instance, killedBy, sandboxRow>> /\ attempt[a].pc # "idle"
        BY <2>12 DEF ReapSandbox
      <3>. QED
        BY <3>1, <3>2, <3>3, GoToStep
    <2>13. CASE UNCHANGED sandboxVars
      BY <2>13 DEF sandboxVars, SandboxesInv, SandboxesTypeOK, OnlyOwnRunIsKilled, OfRun
    <2>. QED
      BY <2>1, <2>2, <2>3, <2>4, <2>5, <2>6, <2>7, <2>8, <2>9, <2>10, <2>11, <2>12, <2>13
      DEF SandboxesNext
  <1>. QED
    BY <1>1, <1>2, PTL DEF SandboxesSpec

\* No worker ends the sandbox of another run, even when the provider ignores the
\* filter of a listing (vefaasSandbox.ts, exactRunSandboxInventory).
THEOREM OwnRunIsKilled == SandboxesSpec => []OnlyOwnRunIsKilled
  <1>1. SandboxesInv => OnlyOwnRunIsKilled
    BY DEF SandboxesInv
  <1>. QED
    BY <1>1, SandboxesInductive, PTL

-----------------------------------------------------------------------------
(* The function application.                                               *)

ProvisionPcs ==
  {"list", "status", "create", "compare", "release", "poll", "remove", "ambiguous",
   "verify", "unresolved", "failed", "reused", "created"}
Provisions ==
  [pc : ProvisionPcs, tries : 0..AmbiguityTries, about : FunctionIds \cup {Missing}]
Cleaners ==
  [pc : {"idle", "match", "delete", "verify", "failed", "absent"},
   target : FunctionIds \cup {Missing}]
Attempted == Provisioners \cup {Missing}
FunctionStates ==
  [state : {"none", "late", "draft", "releasing", "stable", "broken", "gone"},
   named : BOOLEAN, managed : BOOLEAN, attempt : Attempted, fits : BOOLEAN]

\* The tag names the attempt that a function was made for.
FunctionsInv ==
  /\ function \in [FunctionIds -> FunctionStates] /\ sandboxed \subseteq FunctionIds
  /\ madeFor \in [FunctionIds -> Attempted]
  /\ \A f \in FunctionIds : function[f].attempt \in {Missing, madeFor[f]}

\* Provisioner p in the state q may list again where it listed, and what it is going
\* to release or to remove was made for it.
WellAimed(p, q, functions, made) ==
  /\ q.pc \in {"list", "create", "ambiguous"} => q.tries < AmbiguityTries
  /\ q.pc \in {"release", "poll", "remove"} =>
       q.about \in FunctionIds /\ made[q.about] = p /\ functions[q.about].state # "none"
ProvisionsInv ==
  /\ provision \in [Provisioners -> Provisions]
  /\ \A p \in Provisioners : WellAimed(p, provision[p], function, madeFor)

\* The cleanup is about a function that was there when it was recorded, and it
\* deletes nothing that does not match.
CleanerInv ==
  /\ cleaner \in Cleaners
  /\ cleaner.pc # "idle" =>
       cleaner.target \in FunctionIds /\ function[cleaner.target].state # "none"
  /\ cleaner.pc = "delete" =>
       function[cleaner.target].named /\ function[cleaner.target].managed

\* Of the functions that were asked to be deleted.
DeletionsInv ==
  /\ deletedBy \in [FunctionIds -> SUBSET (Provisioners \cup {"cleaner"})]
  /\ \A f \in FunctionIds :
       /\ function[f].state = "none" => deletedBy[f] = {}
       /\ "cleaner" \in deletedBy[f] => cleaner.pc # "idle"
  /\ OnlyOwnFunctionIsDeleted

\* The inductive invariant.
ProvisioningInv == FunctionsInv /\ ProvisionsInv /\ CleanerInv /\ DeletionsInv

\* What is never changed of a function that is there.
FunctionsGrow ==
  \A f \in FunctionIds :
    function[f].state # "none" =>
      /\ function'[f].state # "none"
      /\ function'[f].named = function[f].named /\ function'[f].managed = function[f].managed
      /\ madeFor'[f] = madeFor[f]

\* Each part outlasts a step that does not concern its own variables.
LEMMA PartsAreKept ==
  ASSUME ProvisioningInv
  PROVE  /\ UNCHANGED <<function, sandboxed, madeFor>> => FunctionsInv' /\ FunctionsGrow
         /\ FunctionsGrow /\ UNCHANGED provision => ProvisionsInv'
         /\ FunctionsGrow /\ UNCHANGED cleaner => CleanerInv'
         /\ FunctionsGrow /\ UNCHANGED <<cleaner, deletedBy>> => DeletionsInv'
  <1>1. ASSUME UNCHANGED <<function, sandboxed, madeFor>> PROVE FunctionsInv' /\ FunctionsGrow
    BY <1>1 DEF ProvisioningInv, FunctionsInv, FunctionsGrow
  <1>2. ASSUME FunctionsGrow, UNCHANGED provision PROVE ProvisionsInv'
    BY <1>2 DEF ProvisioningInv, ProvisionsInv, WellAimed, FunctionsGrow
  <1>3. ASSUME FunctionsGrow, UNCHANGED cleaner PROVE CleanerInv'
    <2>1. cleaner' \in Cleaners /\ cleaner' = cleaner
      BY <1>3 DEF ProvisioningInv, CleanerInv
    <2>2. CASE cleaner.pc = "idle"
      BY <2>1, <2>2 DEF CleanerInv
    <2>3. CASE cleaner.pc # "idle"
      BY <1>3, <2>1, <2>3 DEF ProvisioningInv, CleanerInv, FunctionsGrow
    <2>. QED
      BY <2>2, <2>3
  <1>4. ASSUME FunctionsGrow, UNCHANGED <<cleaner, deletedBy>> PROVE DeletionsInv'
    <2>1. ASSUME NEW f \in FunctionIds
          PROVE  /\ function'[f].state = "none" => deletedBy[f] = {}
                 /\ "cleaner" \in deletedBy[f] => cleaner.pc # "idle"
                 /\ deletedBy[f] \subseteq {madeFor'[f], "cleaner"}
                 /\ "cleaner" \in deletedBy[f] =>
                      f = cleaner.target /\ function'[f].named /\ function'[f].managed
      <3>1. /\ function[f].state = "none" => deletedBy[f] = {}
            /\ "cleaner" \in deletedBy[f] => cleaner.pc # "idle"
            /\ deletedBy[f] \subseteq {madeFor[f], "cleaner"}
            /\ "cleaner" \in deletedBy[f] =>
                 f = cleaner.target /\ function[f].named /\ function[f].managed
        BY DEF ProvisioningInv, DeletionsInv, OnlyOwnFunctionIsDeleted
      <3>2. CASE deletedBy[f] = {}
        BY <3>2
      <3>3. CASE function[f].state # "none"
        BY <1>4, <3>1, <3>3 DEF FunctionsGrow
      <3>. QED
        BY <3>1, <3>2, <3>3
    <2>. QED
      BY <1>4, <2>1 DEF ProvisioningInv, DeletionsInv, OnlyOwnFunctionIsDeleted
  <1>. QED
    BY <1>1, <1>2, <1>3, <1>4

\* One provisioner comes to a state that is well aimed.
LEMMA ProvisionStep ==
  ASSUME ProvisioningInv, FunctionsGrow, NEW p \in Provisioners, NEW q \in Provisions,
         provision' = [provision EXCEPT ![p] = q], WellAimed(p, q, function', madeFor')
  PROVE  ProvisionsInv'
  <1>1. provision' \in [Provisioners -> Provisions]
    BY DEF ProvisioningInv, ProvisionsInv
  <1>2. ASSUME NEW r \in Provisioners
        PROVE  WellAimed(r, provision'[r], function', madeFor')
    <2>1. CASE r = p
      BY <2>1 DEF ProvisioningInv, ProvisionsInv
    <2>2. CASE r # p
      <3>1. provision'[r] = provision[r] /\ WellAimed(r, provision[r], function, madeFor)
        BY <2>2 DEF ProvisioningInv, ProvisionsInv
      <3>. QED
        BY <3>1 DEF WellAimed, FunctionsGrow
    <2>. QED
      BY <2>1, <2>2
  <1>. QED
    BY <1>1, <1>2 DEF ProvisionsInv

\* A step of a provisioner to another place ..
LEMMA PlainStep ==
  ASSUME ProvisioningInv, FunctionsGrow, NEW p \in Provisioners,
         NEW pc \in ProvisionPcs, Step(p, pc),
         pc \in {"list", "create", "ambiguous"} =>
           provision[p].pc \in {"list", "create", "ambiguous"},
         pc \in {"release", "poll", "remove"} =>
           provision[p].pc \in {"release", "poll", "remove"}
  PROVE  ProvisionsInv'
  <1>1. PICK q \in Provisions : q = provision[p]
    BY DEF ProvisioningInv, ProvisionsInv
  <1>. DEFINE r == [q EXCEPT !.pc = pc]
  <1>2. r \in Provisions /\ r.pc = pc /\ r.tries = q.tries /\ r.about = q.about
    BY DEF Provisions
  <1>3. provision' = [provision EXCEPT ![p] = r]
    BY <1>1 DEF Step, ProvisioningInv, ProvisionsInv
  <1>. HIDE DEF r
  <1>4. WellAimed(p, q, function, madeFor)
    BY <1>1 DEF ProvisioningInv, ProvisionsInv
  <1>5. WellAimed(p, r, function', madeFor')
    BY <1>1, <1>2, <1>4 DEF WellAimed, FunctionsGrow
  <1>. QED
    BY <1>2, <1>3, <1>5, ProvisionStep

\* .. and about another function.
LEMMA AimStep ==
  ASSUME ProvisioningInv, FunctionsGrow, NEW p \in Provisioners, NEW f \in FunctionIds,
         NEW pc \in ProvisionPcs \ {"list", "create", "ambiguous"}, Aim(p, pc, f),
         pc \in {"release", "poll", "remove"} =>
           madeFor'[f] = p /\ function'[f].state # "none"
  PROVE  ProvisionsInv'
  <1>1. PICK q \in Provisions : q = provision[p]
    BY DEF ProvisioningInv, ProvisionsInv
  <1>. DEFINE r == [[q EXCEPT !.pc = pc] EXCEPT !.about = f]
  <1>2. r \in Provisions /\ r.pc = pc /\ r.about = f
    BY DEF Provisions
  <1>3. provision' = [provision EXCEPT ![p] = r]
    BY <1>1 DEF Aim, ProvisioningInv, ProvisionsInv
  <1>. HIDE DEF r
  <1>4. WellAimed(p, r, function', madeFor')
    BY <1>2 DEF WellAimed
  <1>. QED
    BY <1>2, <1>3, <1>4, ProvisionStep

\* A function that is deleted was there, and remains the one it was.
LEMMA DeleteStep ==
  ASSUME ProvisioningInv, NEW f \in FunctionIds, function[f].state # "none",
         NEW who \in Provisioners \cup {"cleaner"}, Delete(who, f), madeFor' = madeFor
  PROVE  /\ FunctionsInv' /\ FunctionsGrow
         /\ deletedBy' \in [FunctionIds -> SUBSET (Provisioners \cup {"cleaner"})]
         /\ deletedBy' = [deletedBy EXCEPT ![f] = deletedBy[f] \cup {who}]
  <1>1. deletedBy' = [deletedBy EXCEPT ![f] = deletedBy[f] \cup {who}]
    BY DEF Delete
  <1>2. deletedBy' \in [FunctionIds -> SUBSET (Provisioners \cup {"cleaner"})]
    BY <1>1 DEF ProvisioningInv, DeletionsInv
  <1>3. CASE UNCHANGED <<function, sandboxed>>
    BY <1>1, <1>2, <1>3, PartsAreKept
  <1>4. CASE function' = [function EXCEPT ![f].state = "gone"] /\ sandboxed' = sandboxed \ {f}
    <2>1. PICK g \in FunctionStates : g = function[f]
      BY DEF ProvisioningInv, FunctionsInv
    <2>. DEFINE h == [g EXCEPT !.state = "gone"]
    <2>2. /\ h \in FunctionStates
          /\ h.state = "gone" /\ h.named = g.named /\ h.managed = g.managed
          /\ h.attempt = g.attempt
      BY DEF FunctionStates
    <2>3. function' = [function EXCEPT ![f] = h]
      BY <1>4, <2>1 DEF ProvisioningInv, FunctionsInv
    <2>. HIDE DEF h
    <2>4. FunctionsInv' /\ FunctionsGrow
      BY <1>4, <2>1, <2>2, <2>3 DEF ProvisioningInv, FunctionsInv, FunctionsGrow
    <2>. QED
      BY <1>1, <1>2, <2>4
  <1>. QED
    BY <1>3, <1>4 DEF Delete

\* A provisioner asks to delete the function that was made for it ..
LEMMA OwnDeletion ==
  ASSUME ProvisioningInv, FunctionsGrow, NEW f \in FunctionIds, NEW p \in Provisioners,
         madeFor[f] = p, function[f].state # "none", UNCHANGED <<cleaner, madeFor>>,
         deletedBy' \in [FunctionIds -> SUBSET (Provisioners \cup {"cleaner"})],
         deletedBy' = [deletedBy EXCEPT ![f] = deletedBy[f] \cup {p}]
  PROVE  DeletionsInv'
  <1>1. p # "cleaner"
    BY ProvisioningAssumption
  <1>2. ASSUME NEW g \in FunctionIds
        PROVE  /\ function'[g].state = "none" => deletedBy'[g] = {}
               /\ "cleaner" \in deletedBy'[g] => cleaner.pc # "idle"
               /\ deletedBy'[g] \subseteq {madeFor[g], "cleaner"}
               /\ "cleaner" \in deletedBy'[g] =>
                    g = cleaner.target /\ function'[g].named /\ function'[g].managed
    <2>1. /\ function[g].state = "none" => deletedBy[g] = {}
          /\ "cleaner" \in deletedBy[g] => cleaner.pc # "idle"
          /\ deletedBy[g] \subseteq {madeFor[g], "cleaner"}
          /\ "cleaner" \in deletedBy[g] =>
               g = cleaner.target /\ function[g].named /\ function[g].managed
      BY DEF ProvisioningInv, DeletionsInv, OnlyOwnFunctionIsDeleted
    <2>2. deletedBy'[g] = IF g = f THEN deletedBy[g] \cup {p} ELSE deletedBy[g]
      BY DEF ProvisioningInv, DeletionsInv
    <2>3. CASE g = f
      BY <1>1, <2>1, <2>2, <2>3 DEF FunctionsGrow
    <2>4. CASE g # f
      BY <2>1, <2>2, <2>4 DEF FunctionsGrow
    <2>. QED
      BY <2>3, <2>4
  <1>. QED
    BY <1>2 DEF DeletionsInv, OnlyOwnFunctionIsDeleted

\* .. and the cleanup the one that matched.
LEMMA MatchedDeletion ==
  ASSUME ProvisioningInv, FunctionsGrow, NEW f \in FunctionIds, f = cleaner.target,
         function[f].state # "none", function[f].named, function[f].managed,
         madeFor' = madeFor, cleaner'.target = f, cleaner'.pc \in {"verify", "failed"},
         deletedBy' \in [FunctionIds -> SUBSET (Provisioners \cup {"cleaner"})],
         deletedBy' = [deletedBy EXCEPT ![f] = deletedBy[f] \cup {"cleaner"}]
  PROVE  DeletionsInv'
  <1>1. ASSUME NEW g \in FunctionIds
        PROVE  /\ function'[g].state = "none" => deletedBy'[g] = {}
               /\ "cleaner" \in deletedBy'[g] => cleaner'.pc # "idle"
               /\ deletedBy'[g] \subseteq {madeFor[g], "cleaner"}
               /\ "cleaner" \in deletedBy'[g] =>
                    g = f /\ function'[g].named /\ function'[g].managed
    <2>1. /\ function[g].state = "none" => deletedBy[g] = {}
          /\ deletedBy[g] \subseteq {madeFor[g], "cleaner"}
          /\ "cleaner" \in deletedBy[g] => g = f
      BY DEF ProvisioningInv, DeletionsInv, OnlyOwnFunctionIsDeleted
    <2>2. deletedBy'[g] = IF g = f THEN deletedBy[g] \cup {"cleaner"} ELSE deletedBy[g]
      BY DEF ProvisioningInv, DeletionsInv
    <2>3. CASE g = f
      BY <2>1, <2>2, <2>3 DEF FunctionsGrow
    <2>4. CASE g # f
      BY <2>1, <2>2, <2>4 DEF FunctionsGrow
    <2>. QED
      BY <2>3, <2>4
  <1>. QED
    BY <1>1 DEF DeletionsInv, OnlyOwnFunctionIsDeleted

\* A function's state moves on, and nothing else of it.
LEMMA StateStep ==
  ASSUME ProvisioningInv, NEW f \in FunctionIds, function[f].state # "none",
         NEW s \in {"draft", "releasing", "stable", "broken"},
         function' = [function EXCEPT ![f].state = s], UNCHANGED <<sandboxed, madeFor>>
  PROVE  FunctionsInv' /\ FunctionsGrow
  <1>1. PICK g \in FunctionStates : g = function[f]
    BY DEF ProvisioningInv, FunctionsInv
  <1>. DEFINE h == [g EXCEPT !.state = s]
  <1>2. /\ h \in FunctionStates
        /\ h.state = s /\ h.named = g.named /\ h.managed = g.managed
        /\ h.attempt = g.attempt
    BY DEF FunctionStates
  <1>3. function' = [function EXCEPT ![f] = h]
    BY <1>1 DEF ProvisioningInv, FunctionsInv
  <1>. HIDE DEF h
  <1>. QED
    BY <1>1, <1>2, <1>3 DEF ProvisioningInv, FunctionsInv, FunctionsGrow

\* However answers are lost and provisioners of one name overlap.
THEOREM ProvisioningInductive == ProvisioningSpec => []ProvisioningInv
  <1>1. ProvisioningInit => ProvisioningInv
    <2>. SUFFICES ASSUME ProvisioningInit PROVE ProvisioningInv
      OBVIOUS
    <2>1. /\ Unborn \in FunctionStates /\ Unborn.attempt = Missing
          /\ Others \subseteq FunctionStates /\ \A g \in Others : g.attempt = Missing
      BY DEF Unborn, FunctionStates, Others, Attempted
    <2>2. /\ \A f \in FunctionIds :
               function[f] \in Others \cup {Unborn}
          /\ function \in [FunctionIds -> FunctionStates]
      BY <2>1 DEF ProvisioningInit, FunctionIds
    <2>3. FunctionsInv
      BY <2>1, <2>2 DEF ProvisioningInit, FunctionsInv, Attempted
    <2>4. ProvisionsInv
      BY ProvisioningAssumption
      DEF ProvisioningInit, ProvisionsInv, WellAimed, Provisions, ProvisionPcs
    <2>5. CleanerInv /\ DeletionsInv
      BY DEF ProvisioningInit, CleanerInv, Cleaners, DeletionsInv, OnlyOwnFunctionIsDeleted
    <2>. QED
      BY <2>3, <2>4, <2>5 DEF ProvisioningInv
  <1>2. ASSUME ProvisioningInv, [ProvisioningNext]_provisioningVars
        PROVE  ProvisioningInv'
    <2>. USE <1>2
    <2>0. /\ AmbiguityTries \in Nat \ {0}
          /\ Fresh \subseteq FunctionIds
          /\ provision \in [Provisioners -> Provisions]
          /\ function \in [FunctionIds -> FunctionStates]
          /\ \A p \in Provisioners : WellAimed(p, provision[p], function, madeFor)
      BY ProvisioningAssumption DEF ProvisioningInv, FunctionsInv, FunctionIds, ProvisionsInv
    <2>1. ASSUME NEW f \in FunctionIds, ProviderWorks(f)
          PROVE  ProvisioningInv'
      <3>1. UNCHANGED <<provision, cleaner, sandboxed, madeFor, deletedBy>>
        BY <2>1 DEF ProviderWorks
      <3>2. PICK s \in {"draft", "releasing", "stable", "broken"} :
              function[f].state # "none" /\ function' = [function EXCEPT ![f].state = s]
        BY <2>1 DEF ProviderWorks
      <3>3. FunctionsInv' /\ FunctionsGrow
        BY <3>1, <3>2, StateStep
      <3>. QED
        BY <3>1, <3>3, PartsAreKept DEF ProvisioningInv
    <2>2. ASSUME NEW f \in FunctionIds, SandboxUse(f)
          PROVE  ProvisioningInv'
      <3>1. UNCHANGED <<function, provision, cleaner, madeFor, deletedBy>>
        BY <2>2 DEF SandboxUse
      <3>2. FunctionsInv' /\ FunctionsGrow
        BY <2>2, <3>1 DEF SandboxUse, ProvisioningInv, FunctionsInv, FunctionsGrow
      <3>. QED
        BY <3>1, <3>2, PartsAreKept DEF ProvisioningInv
    \* The steps that only look leave the functions and what was deleted alone.
    <2>3. ASSUME ProvisionsInv', UNCHANGED <<function, cleaner, sandboxed, madeFor, deletedBy>>
          PROVE  ProvisioningInv'
      BY <2>3, PartsAreKept DEF ProvisioningInv
    <2>4. ASSUME NEW p \in Provisioners, ListByName(p)
          PROVE  ProvisioningInv'
      <3>1. /\ UNCHANGED <<function, cleaner, sandboxed, madeFor, deletedBy>>
            /\ provision[p].pc = "list" /\ FunctionsGrow
        BY <2>4, PartsAreKept DEF ListByName
      <3>2. CASE \E pc \in {"create", "failed"} : Step(p, pc)
        BY <2>3, <3>1, <3>2, PlainStep DEF ProvisionPcs
      <3>3. CASE \E f \in FunctionIds : Aim(p, "status", f)
        BY <2>3, <3>1, <3>3, AimStep DEF ProvisionPcs
      <3>. QED
        BY <2>4, <3>2, <3>3 DEF ListByName
    <2>5. ASSUME NEW p \in Provisioners,
                 \/ CheckReleased(p) \/ CompareAndReuse(p) \/ PollRelease(p) \/ VerifyDeletion(p)
          PROVE  ProvisioningInv'
      <3>1. /\ UNCHANGED <<function, cleaner, sandboxed, madeFor, deletedBy>>
            /\ FunctionsGrow
        BY <2>5, PartsAreKept DEF CheckReleased, CompareAndReuse, PollRelease, VerifyDeletion
      <3>2. PICK pc \in {"compare", "reused", "failed", "created", "remove", "unresolved"} :
              Step(p, pc) /\ (pc = "remove" => provision[p].pc = "poll")
        BY <2>5 DEF CheckReleased, CompareAndReuse, PollRelease, VerifyDeletion
      <3>. QED
        BY <2>3, <3>1, <3>2, PlainStep DEF ProvisionPcs
    <2>6. ASSUME NEW p \in Provisioners, CreateFunction(p)
          PROVE  ProvisioningInv'
      <3>1. UNCHANGED <<cleaner, sandboxed, deletedBy>> /\ provision[p].pc = "create"
        BY <2>6 DEF CreateFunction
      <3>2. CASE Step(p, "ambiguous") /\ UNCHANGED <<function, madeFor>>
        BY <2>3, <3>1, <3>2, PlainStep, PartsAreKept DEF ProvisionPcs
      <3>3. ASSUME NEW f \in Fresh, NEW s \in {"late", "draft"}, NEW fits \in BOOLEAN,
                   function[f].state = "none",
                   function' = [function EXCEPT ![f] =
                     [state |-> s, named |-> TRUE, managed |-> TRUE, attempt |-> p,
                      fits |-> fits]],
                   madeFor' = [madeFor EXCEPT ![f] = p],
                   \/ Aim(p, "release", f) \/ Step(p, "unresolved") \/ Step(p, "ambiguous")
            PROVE  ProvisioningInv'
        <4>. DEFINE g == [state |-> s, named |-> TRUE, managed |-> TRUE, attempt |-> p,
                          fits |-> fits]
        <4>1. /\ g \in FunctionStates /\ g.attempt = p /\ g.state # "none"
              /\ function' = [function EXCEPT ![f] = g]
          BY <3>3 DEF FunctionStates, Attempted
        <4>. HIDE DEF g
        <4>2. FunctionsInv' /\ FunctionsGrow /\ madeFor'[f] = p /\ function'[f].state # "none"
          BY <2>0, <3>1, <3>3, <4>1
          DEF ProvisioningInv, FunctionsInv, FunctionsGrow, Attempted
        <4>3. ProvisionsInv'
          <5>1. CASE Aim(p, "release", f)
            BY <2>0, <4>2, <5>1, AimStep DEF ProvisionPcs
          <5>2. CASE \E pc \in {"unresolved", "ambiguous"} : Step(p, pc)
            BY <3>1, <4>2, <5>2, PlainStep DEF ProvisionPcs
          <5>. QED
            BY <3>3, <5>1, <5>2
        <4>. QED
          BY <3>1, <4>2, <4>3, PartsAreKept DEF ProvisioningInv
      <3>. QED
        BY <2>6, <3>2, <3>3 DEF CreateFunction
    <2>7. ASSUME NEW p \in Provisioners, ResolveAmbiguity(p)
          PROVE  ProvisioningInv'
      <3>. DEFINE tries == provision[p].tries + 1
      <3>1. /\ UNCHANGED <<function, cleaner, sandboxed, madeFor, deletedBy>>
            /\ provision[p].pc = "ambiguous" /\ FunctionsGrow
        BY <2>7, PartsAreKept DEF ResolveAmbiguity
      <3>2. ASSUME NEW f \in FunctionIds,
                   {g \in ExactName : function[g].attempt = p} = {f}, Aim(p, "remove", f)
            PROVE  ProvisioningInv'
        <4>1. f \in ExactName /\ function[f].attempt = p
          BY <3>2
        <4>2. function[f].state # "none" /\ madeFor[f] = p
          BY <4>1, ProvisioningAssumption DEF ExactName, Existing, ProvisioningInv, FunctionsInv
        <4>. QED
          BY <2>3, <3>1, <3>2, <4>2, AimStep DEF ProvisionPcs
      <3>3. CASE provision' = [provision EXCEPT ![p].tries = tries,
                   ![p].pc = IF tries < AmbiguityTries THEN provision[p].pc ELSE "failed"]
        <4>1. PICK q \in Provisions : q = provision[p] /\ q.pc = "ambiguous"
          BY <2>0, <3>1
        <4>2. tries \in 0..AmbiguityTries
          BY <2>0, <3>1 DEF WellAimed, Provisions
        <4>. HIDE DEF tries
        <4>3. PICK pc \in {"ambiguous", "failed"} :
                pc = (IF tries < AmbiguityTries THEN provision[p].pc ELSE "failed")
          BY <3>1
        <4>. DEFINE r == [[q EXCEPT !.tries = tries] EXCEPT !.pc = pc]
        <4>4. r \in Provisions /\ r.pc = pc /\ r.tries = tries
          BY <4>2 DEF Provisions, ProvisionPcs
        <4>5. provision' = [provision EXCEPT ![p] = r]
          BY <2>0, <3>3, <4>1, <4>3
        <4>. HIDE DEF r
        <4>6. WellAimed(p, r, function', madeFor')
          BY <3>1, <4>3, <4>4 DEF WellAimed
        <4>. QED
          BY <2>3, <3>1, <4>4, <4>5, <4>6, ProvisionStep
      <3>4. CASE Step(p, "unresolved")
        BY <2>3, <3>1, <3>4, PlainStep DEF ProvisionPcs
      <3>. QED
        BY <2>7, <3>2, <3>3, <3>4 DEF ResolveAmbiguity
    <2>8. ASSUME NEW p \in Provisioners, Release(p)
          PROVE  ProvisioningInv'
      <3>1. UNCHANGED <<cleaner, sandboxed, madeFor, deletedBy>> /\ provision[p].pc = "release"
        BY <2>8 DEF Release
      <3>2. provision[p].about \in FunctionIds /\ function[provision[p].about].state # "none"
        BY <2>0, <3>1 DEF WellAimed
      <3>3. FunctionsInv' /\ FunctionsGrow
        <4>1. CASE UNCHANGED function
          BY <3>1, <4>1, PartsAreKept
        <4>2. CASE function' = [function EXCEPT ![provision[p].about].state = "releasing"]
          BY <3>1, <3>2, <4>2, StateStep
        <4>. QED
          BY <2>8, <4>1, <4>2 DEF Release
      <3>4. PICK pc \in {"poll", "remove"} : Step(p, pc)
        BY <2>8 DEF Release
      <3>5. ProvisionsInv'
        BY <3>1, <3>3, <3>4, PlainStep DEF ProvisionPcs
      <3>. QED
        BY <3>1, <3>3, <3>5, PartsAreKept DEF ProvisioningInv
    <2>9. ASSUME NEW p \in Provisioners, TakeBack(p)
          PROVE  ProvisioningInv'
      <3>2. UNCHANGED <<cleaner, madeFor>> /\ provision[p].pc = "remove"
        BY <2>9 DEF TakeBack
      <3>3. PICK f \in FunctionIds :
              f = provision[p].about /\ madeFor[f] = p /\ function[f].state # "none"
        BY <2>0, <3>2 DEF WellAimed
      <3>4. PICK pc \in {"verify", "unresolved"} : Step(p, pc)
        BY <2>9 DEF TakeBack
      <3>5. CASE UNCHANGED <<function, sandboxed, deletedBy>>
        <4>1. FunctionsGrow
          BY <3>2, <3>5, PartsAreKept
        <4>. QED
          BY <2>3, <3>2, <3>4, <3>5, <4>1, PlainStep DEF ProvisionPcs
      <3>6. CASE Delete(p, f)
        <4>1. /\ FunctionsInv' /\ FunctionsGrow
              /\ deletedBy' \in [FunctionIds -> SUBSET (Provisioners \cup {"cleaner"})]
              /\ deletedBy' = [deletedBy EXCEPT ![f] = deletedBy[f] \cup {p}]
          BY <3>2, <3>3, <3>6, DeleteStep
        <4>2. ProvisionsInv' /\ CleanerInv'
          BY <3>2, <3>4, <4>1, PlainStep, PartsAreKept DEF ProvisionPcs
        <4>3. DeletionsInv'
          BY <3>2, <3>3, <4>1, OwnDeletion
        <4>. QED
          BY <4>1, <4>2, <4>3 DEF ProvisioningInv
      <3>. QED
        BY <2>9, <3>3, <3>5, <3>6 DEF TakeBack
    <2>10. CASE CleanerLooks
      <3>1. /\ UNCHANGED <<function, provision, sandboxed, madeFor, deletedBy>>
            /\ cleaner.pc = "idle" /\ FunctionsGrow
        BY <2>10, PartsAreKept DEF CleanerLooks
      <3>2. CleanerInv'
        BY <2>10, <3>1 DEF CleanerLooks, CleanerInv, Cleaners
      <3>3. \A f \in FunctionIds : "cleaner" \notin deletedBy[f]
        BY <3>1 DEF ProvisioningInv, DeletionsInv
      <3>4. DeletionsInv'
        BY <3>1, <3>3 DEF ProvisioningInv, DeletionsInv, OnlyOwnFunctionIsDeleted
      <3>. QED
        BY <3>1, <3>2, <3>4, PartsAreKept DEF ProvisioningInv
    \* From then on it is about one function.
    <2>11. ASSUME CleanerMatches \/ CleanerVerifies PROVE ProvisioningInv'
      <3>1. /\ UNCHANGED <<function, provision, sandboxed, madeFor, deletedBy>>
            /\ FunctionsGrow
        BY <2>11, PartsAreKept DEF CleanerMatches, CleanerVerifies
      <3>2. CleanerInv' /\ cleaner'.target = cleaner.target /\ cleaner'.pc # "idle"
        <4>1. PICK pc \in {"delete", "failed", "absent"} :
                /\ cleaner' = [cleaner EXCEPT !.pc = pc] /\ cleaner.pc # "idle"
                /\ pc = "delete" => /\ cleaner.target \in ExactName
                                    /\ function[cleaner.target].managed
          BY <2>11 DEF CleanerMatches, CleanerVerifies
        <4>2. cleaner' \in Cleaners /\ cleaner'.pc = pc /\ cleaner'.target = cleaner.target
          BY <4>1 DEF ProvisioningInv, CleanerInv, Cleaners
        <4>. QED
          BY <3>1, <4>1, <4>2 DEF ProvisioningInv, CleanerInv, ExactName
      <3>3. DeletionsInv'
        BY <3>1, <3>2 DEF ProvisioningInv, DeletionsInv, OnlyOwnFunctionIsDeleted
      <3>. QED
        BY <3>1, <3>2, <3>3, PartsAreKept DEF ProvisioningInv
    <2>12. CASE CleanerDeletes
      <3>1. UNCHANGED <<provision, madeFor>> /\ cleaner.pc = "delete"
        BY <2>12 DEF CleanerDeletes
      <3>2. PICK f \in FunctionIds :
              /\ f = cleaner.target /\ function[f].state # "none"
              /\ function[f].named /\ function[f].managed
        BY <3>1 DEF ProvisioningInv, CleanerInv
      <3>4. /\ cleaner' \in Cleaners /\ cleaner'.target = f
            /\ cleaner'.pc \in {"verify", "failed"}
        BY <2>12, <3>2 DEF CleanerDeletes, ProvisioningInv, CleanerInv, Cleaners
      <3>5. CASE UNCHANGED <<function, sandboxed, deletedBy>>
        <4>1. FunctionsInv' /\ FunctionsGrow /\ ProvisionsInv'
          BY <3>1, <3>5, PartsAreKept
        <4>2. CleanerInv'
          BY <3>2, <3>4, <3>5 DEF CleanerInv
        <4>3. DeletionsInv'
          BY <3>1, <3>2, <3>4, <3>5 DEF ProvisioningInv, DeletionsInv, OnlyOwnFunctionIsDeleted
        <4>. QED
          BY <4>1, <4>2, <4>3 DEF ProvisioningInv
      <3>6. CASE Delete("cleaner", f)
        <4>1. /\ FunctionsInv' /\ FunctionsGrow
              /\ deletedBy' \in [FunctionIds -> SUBSET (Provisioners \cup {"cleaner"})]
              /\ deletedBy' = [deletedBy EXCEPT ![f] = deletedBy[f] \cup {"cleaner"}]
          BY <3>1, <3>2, <3>6, DeleteStep
        <4>2. ProvisionsInv'
          BY <3>1, <4>1, PartsAreKept
        <4>3. CleanerInv'
          BY <3>2, <3>4, <4>1 DEF CleanerInv, FunctionsGrow
        <4>4. DeletionsInv'
          BY <3>1, <3>2, <3>4, <4>1, MatchedDeletion
        <4>. QED
          BY <4>1, <4>2, <4>3, <4>4 DEF ProvisioningInv
      <3>. QED
        BY <2>12, <3>2, <3>5, <3>6 DEF CleanerDeletes
    <2>13. CASE UNCHANGED provisioningVars
      <3>1. UNCHANGED <<function, provision, cleaner, sandboxed, madeFor, deletedBy>>
        BY <2>13 DEF provisioningVars
      <3>. QED
        BY <3>1, PartsAreKept DEF ProvisioningInv
    <2>. QED
      BY <2>1, <2>2, <2>4, <2>5, <2>6, <2>7, <2>8, <2>9, <2>10, <2>11, <2>12, <2>13
      DEF ProvisioningNext
  <1>. QED
    BY <1>1, <1>2, PTL DEF ProvisioningSpec

\* A provisioner asks to delete only the function that was made for it, which after a
\* lost answer the name and its attempt's tag tell from others; the cleanup only the
\* recorded one, if it bears the name and the managed tags (sandboxApplication.ts).
THEOREM OwnFunctionIsDeleted == ProvisioningSpec => []OnlyOwnFunctionIsDeleted
  <1>1. ProvisioningInv => OnlyOwnFunctionIsDeleted
    BY DEF ProvisioningInv, DeletionsInv
  <1>. QED
    BY <1>1, ProvisioningInductive, PTL

-----------------------------------------------------------------------------
(* Egress.                                                                 *)

Requests ==
  [at : {"validating", "resolving", "proxying", "sending", "waiting", "answered", "refused",
         "failed"},
   origin : Origins, method : Methods, body : BOOLEAN, own : BOOLEAN, address : Classes,
   redirects : 0..MaxRedirects]
Hops == [origin : Origins, address : Classes, method : Methods, body : BOOLEAN, own : BOOLEAN]

\* The request: what it prepares has been looked at, and what it still carries
\* has been carried to its origin, and with its method, all the way.
RequestInv ==
  /\ request \in Requests
  /\ answers \in [Origins \union {Proxy} -> SUBSET Classes]
  /\ request.at \in {"resolving", "proxying", "sending", "waiting"} =>
       OriginAllowed(request.origin)
  /\ request.at \in {"proxying", "sending"} =>
       AddressAllowed(request.origin, request.address, request.origin \in granted)
  /\ request.own => \A i \in 1..Len(hops) : hops[i].origin = request.origin
  /\ request.body => \A i \in 1..Len(hops) : hops[i].method = request.method /\ hops[i].body

HopsInv ==
  /\ hops \in Seq(Hops)
  /\ \A i \in 1..Len(hops) :
       /\ OriginAllowed(hops[i].origin)
       /\ AddressAllowed(hops[i].origin, hops[i].address, hops[i].origin \in granted)
       /\ hops[i].own => \A j \in 1..i : hops[j].origin = hops[1].origin
       /\ hops[i].body => \A j \in 1..i : hops[j].method = hops[1].method /\ hops[j].body

EgressInv == RequestInv /\ HopsInv

\* A step that sends nothing keeps what has left.
LEMMA UnsentStep ==
  ASSUME EgressInv, Unsent,
         request' \in Requests,
         request'.at \in {"resolving", "proxying", "sending", "waiting"} =>
           OriginAllowed(request'.origin),
         request'.at \in {"proxying", "sending"} =>
           AddressAllowed(request'.origin, request'.address, request'.origin \in granted),
         request'.own => request.own /\ request'.origin = request.origin,
         request'.body => request.body /\ request'.method = request.method
  PROVE  EgressInv'
  <1>. USE DEF EgressInv
  <1>1. UNCHANGED <<egress, granted, answers, changes, hops>>
    BY DEF Unsent
  <1>2. HopsInv'
    BY <1>1 DEF HopsInv, OriginAllowed, AddressAllowed
  <1>3. request'.own => \A i \in 1..Len(hops) : hops[i].origin = request'.origin
    BY DEF RequestInv
  <1>4. request'.body => \A i \in 1..Len(hops) : hops[i].method = request'.method /\ hops[i].body
    BY DEF RequestInv
  <1>5. RequestInv'
    BY <1>1, <1>3, <1>4 DEF RequestInv, OriginAllowed, AddressAllowed
  <1>. QED
    BY <1>2, <1>5

\* Of such a step, when the call only comes to another place.
LEMMA EndStep ==
  ASSUME EgressInv, Unsent, NEW at \in {"resolving", "answered", "refused", "failed"}, End(at),
         at = "resolving" => OriginAllowed(request.origin)
  PROVE  EgressInv'
  <1>1. request \in Requests
    BY DEF EgressInv, RequestInv
  <1>2. /\ request' = [request EXCEPT !.at = at]
        /\ request' \in Requests /\ request'.at = at /\ request'.origin = request.origin
        /\ request'.own = request.own /\ request'.body = request.body
        /\ request'.method = request.method
    BY <1>1 DEF End, Requests
  <1>. QED
    BY <1>2, UnsentStep

\* A hop leaves with what was prepared for it.
LEMMA SendStep ==
  ASSUME EgressInv, SendHop
  PROVE  EgressInv'
  <1>1. /\ request.at = "sending" /\ UNCHANGED <<egress, granted, answers, changes>>
        /\ hops' = Append(hops, Hop(request.address))
        /\ request' = [request EXCEPT !.at = "waiting"]
    BY DEF SendHop, End
  <1>2. request \in Requests /\ hops \in Seq(Hops)
    BY DEF EgressInv, RequestInv, HopsInv
  <1>. DEFINE n == Len(hops)
  <1>3. PICK h \in Hops :
          /\ h = Hop(request.address)
          /\ h.origin = request.origin /\ h.address = request.address
          /\ h.method = request.method /\ h.body = request.body /\ h.own = request.own
    <2>1. Hop(request.address) \in Hops
      BY <1>2 DEF Hop, Hops, Requests
    <2>. QED
      BY <2>1 DEF Hop
  <1>4. /\ hops' \in Seq(Hops) /\ Len(hops') = n + 1 /\ n \in Nat
        /\ \A i \in 1..n : hops'[i] = hops[i]
        /\ hops'[n + 1] = h
    BY <1>1, <1>2, <1>3
  <1>5. /\ request' \in Requests /\ request'.at = "waiting" /\ request'.origin = request.origin
        /\ request'.own = request.own /\ request'.body = request.body
        /\ request'.method = request.method
    BY <1>1, <1>2 DEF Requests
  <1>6. /\ OriginAllowed(h.origin)
        /\ AddressAllowed(h.origin, h.address, h.origin \in granted)
    BY <1>1, <1>3 DEF EgressInv, RequestInv
  <1>7. h.own => \A j \in 1..n + 1 : hops'[j].origin = h.origin
    <2>1. h.own => \A j \in 1..n : hops[j].origin = h.origin
      BY <1>3 DEF EgressInv, RequestInv
    <2>. QED
      BY <1>4, <2>1
  <1>8. h.body => \A j \in 1..n + 1 : hops'[j].method = h.method /\ hops'[j].body
    <2>1. h.body => \A j \in 1..n : hops[j].method = h.method /\ hops[j].body
      BY <1>3 DEF EgressInv, RequestInv
    <2>. QED
      BY <1>4, <2>1
  <1>9. ASSUME NEW i \in 1..n + 1
        PROVE  /\ OriginAllowed(hops'[i].origin)
               /\ AddressAllowed(hops'[i].origin, hops'[i].address, hops'[i].origin \in granted)
               /\ hops'[i].own => \A j \in 1..i : hops'[j].origin = hops'[1].origin
               /\ hops'[i].body => \A j \in 1..i : hops'[j].method = hops'[1].method /\ hops'[j].body
    <2>1. CASE i = n + 1
      BY <1>4, <1>6, <1>7, <1>8, <2>1
    <2>2. CASE i \in 1..n
      <3>1. /\ OriginAllowed(hops[i].origin)
            /\ AddressAllowed(hops[i].origin, hops[i].address, hops[i].origin \in granted)
            /\ hops[i].own => \A j \in 1..i : hops[j].origin = hops[1].origin
            /\ hops[i].body => \A j \in 1..i : hops[j].method = hops[1].method /\ hops[j].body
        BY <2>2 DEF EgressInv, HopsInv
      <3>2. /\ \A j \in 1..i : hops'[j] = hops[j] /\ hops'[1] = hops[1]
            /\ hops'[i] = hops[i]
        BY <1>4, <2>2
      <3>. QED
        BY <3>1, <3>2
    <2>. QED
      BY <1>4, <2>1, <2>2
  <1>10. HopsInv'
    BY <1>1, <1>4, <1>9 DEF HopsInv, OriginAllowed, AddressAllowed
  <1>11. RequestInv'
    <2>1. answers \in [Origins \union {Proxy} -> SUBSET Classes] /\ OriginAllowed(request.origin)
      BY <1>3, <1>6 DEF EgressInv, RequestInv
    <2>2. request'.own => \A i \in 1..Len(hops') : hops'[i].origin = request'.origin
      BY <1>3, <1>4, <1>5, <1>7
    <2>3. request'.body => \A i \in 1..Len(hops') : hops'[i].method = request'.method /\ hops'[i].body
      BY <1>3, <1>4, <1>5, <1>8
    <2>. QED
      BY <1>1, <1>5, <2>1, <2>2, <2>3 DEF RequestInv, OriginAllowed
  <1>. QED
    BY <1>10, <1>11 DEF EgressInv

\* Whatever the name service answers and wherever the call is sent on.
THEOREM EgressInductive == EgressSpec => []EgressInv
  <1>1. EgressInit => EgressInv
    <2>. SUFFICES ASSUME EgressInit PROVE EgressInv
      OBVIOUS
    <2>1. PICK o \in Origins, m \in Methods : request = NewRequest(o, m)
      BY DEF EgressInit
    <2>2. request \in Requests /\ request.at = "validating"
      BY <2>1, EgressAssumption DEF NewRequest, Requests, Classes
    <2>3. hops = <<>> /\ Len(hops) = 0 /\ hops \in Seq(Hops)
      BY DEF EgressInit
    <2>4. answers \in [Origins \union {Proxy} -> SUBSET Classes]
      BY DEF EgressInit, Classes
    <2>. QED
      BY <2>2, <2>3, <2>4 DEF EgressInv, RequestInv, HopsInv
  <1>2. ASSUME EgressInv, [EgressNext]_egressVars
        PROVE  EgressInv'
    <2>. USE <1>2
    <2>0. request \in Requests /\ answers \in [Origins \union {Proxy} -> SUBSET Classes]
      BY DEF EgressInv, RequestInv
    <2>1. ASSUME NEW n \in Named, NEW a \in Answers, NameChanges(n, a)
          PROVE  EgressInv'
      <3>1. UNCHANGED <<egress, granted, request, hops>> /\ answers' = [answers EXCEPT ![n] = a]
        BY <2>1 DEF NameChanges
      <3>2. answers' \in [Origins \union {Proxy} -> SUBSET Classes]
        BY <2>0, <3>1 DEF Answers, Classes
      <3>. QED
        BY <3>1, <3>2 DEF EgressInv, RequestInv, HopsInv, OriginAllowed, AddressAllowed
    <2>2. CASE ValidateUrl
      <3>1. Unsent
        BY <2>2 DEF ValidateUrl
      <3>2. CASE request.origin \in Literals \ granted \/ ~OriginAllowed(request.origin)
        <4>1. End("refused")
          BY <2>2, <3>2 DEF ValidateUrl
        <4>. QED
          BY <3>1, <4>1, EndStep
      <3>3. CASE ~(request.origin \in Literals \ granted \/ ~OriginAllowed(request.origin))
        <4>1. End("resolving") /\ OriginAllowed(request.origin)
          BY <2>2, <3>3 DEF ValidateUrl
        <4>. QED
          BY <3>1, <4>1, EndStep
      <3>. QED
        BY <3>2, <3>3
    <2>3. CASE ResolveTarget
      <3>1. Unsent /\ request.at = "resolving" /\ OriginAllowed(request.origin)
        BY <2>3 DEF ResolveTarget, EgressInv, RequestInv
      <3>2. CASE End("refused")
        BY <3>1, <3>2, EndStep
      <3>3. CASE ~End("refused")
        <4>1. PICK a \in answers[request.origin], at \in {"sending", "proxying"} :
                /\ Prepared(at, a)
                /\ AddressAllowed(request.origin, a, request.origin \in granted)
          BY <2>3, <3>3 DEF ResolveTarget
        <4>2. a \in Classes /\ request.origin \in Origins
          BY <2>0 DEF Requests
        <4>. DEFINE p == [request EXCEPT !.at = at]
                    q == [p EXCEPT !.address = a]
        <4>3. /\ q \in Requests /\ q.at = at /\ q.origin = request.origin /\ q.address = a
              /\ q.own = request.own /\ q.body = request.body /\ q.method = request.method
          BY <2>0, <4>2 DEF Requests
        <4>4. request' = q
          BY <4>1 DEF Prepared
        <4>. HIDE DEF q
        <4>. QED
          BY <3>1, <4>1, <4>3, <4>4, UnsentStep
      <3>. QED
        BY <3>2, <3>3
    <2>4. CASE ResolveProxy
      <3>1. /\ Unsent /\ request.at = "proxying" /\ OriginAllowed(request.origin)
            /\ AddressAllowed(request.origin, request.address, request.origin \in granted)
        BY <2>4 DEF ResolveProxy, EgressInv, RequestInv
      <3>2. CASE End("refused")
        BY <3>1, <3>2, EndStep
      <3>3. CASE End("sending")
        <4>1. /\ request' \in Requests /\ request'.at = "sending"
              /\ request'.origin = request.origin /\ request'.address = request.address
              /\ request'.own = request.own /\ request'.body = request.body
              /\ request'.method = request.method
          BY <2>0, <3>3 DEF End, Requests
        <4>. QED
          BY <3>1, <4>1, UnsentStep
      <3>. QED
        BY <2>4, <3>2, <3>3 DEF ResolveProxy
    <2>5. CASE SendHop
      BY <2>5, SendStep
    <2>6. CASE Answered
      BY <2>6, EndStep DEF Answered
    <2>7. CASE AnswerRefused
      BY <2>7, EndStep DEF AnswerRefused
    <2>8. CASE CallFails
      BY <2>8, EndStep DEF CallFails
    <2>9. ASSUME NEW o \in Origins, RefuseRedirect(o)
          PROVE  EgressInv'
      BY <2>9, EndStep DEF RefuseRedirect
    <2>10. ASSUME NEW o \in Origins, NEW kind \in {"see-other", "moved", "kept"},
                  FollowRedirect(o, kind)
           PROVE  EgressInv'
      <3>. DEFINE get == TurnsIntoGet(kind)
      <3>1. Unsent /\ OriginAllowed(o) /\ request.redirects < MaxRedirects
        BY <2>10 DEF FollowRedirect
      <3>2. PICK own \in BOOLEAN, body \in BOOLEAN, method \in Methods :
              /\ own = (request.own /\ o = request.origin)
              /\ body = (request.body /\ ~get)
              /\ method = IF get THEN "GET" ELSE request.method
        BY <2>0 DEF Requests, Methods
      <3>. DEFINE q1 == [request EXCEPT !.at = "resolving"]
                  q2 == [q1 EXCEPT !.origin = o]
                  q3 == [q2 EXCEPT !.redirects = request.redirects + 1]
                  q4 == [q3 EXCEPT !.own = own]
                  q5 == [q4 EXCEPT !.method = method]
                  q == [q5 EXCEPT !.body = body]
      <3>3. request' = q
        <4>1. request' = [request EXCEPT !.at = "resolving", !.origin = o,
                            !.redirects = request.redirects + 1, !.own = own,
                            !.method = method, !.body = body]
          BY <2>10, <3>2 DEF FollowRedirect
        <4>. QED
          BY <4>1
      <3>4. request.redirects + 1 \in 0..MaxRedirects
        BY <2>0, <3>1, EgressAssumption DEF Requests
      <3>5. /\ q \in Requests /\ q.at = "resolving" /\ q.origin = o
            /\ q.own = own /\ q.body = body /\ q.method = method
        BY <2>0, <3>4 DEF Requests
      <3>6. own => request.own /\ o = request.origin
        BY <3>2
      <3>7. body => request.body /\ method = request.method
        BY <3>2
      <3>. HIDE DEF get, q
      <3>. QED
        BY <3>1, <3>3, <3>5, <3>6, <3>7, UnsentStep
    <2>11. CASE UNCHANGED egressVars
      BY <2>11 DEF egressVars, EgressInv, RequestInv, HopsInv, OriginAllowed, AddressAllowed
    <2>. QED
      BY <2>1, <2>2, <2>3, <2>4, <2>5, <2>6, <2>7, <2>8, <2>9, <2>10, <2>11 DEF EgressNext
  <1>. QED
    BY <1>1, <1>2, PTL DEF EgressSpec

\* Every hop goes to an allowed origin, at an address allowed for that very
\* origin; the credential goes to no origin but the first, and no body with
\* another method than its own (toolRouter.ts:875-879; safeHttp.ts:194-203).
THEOREM HopsAreAuthorized == EgressSpec => []EveryHopIsAuthorized
  <1>1. ASSUME EgressInv PROVE EveryHopIsAuthorized
    <2>1. DOMAIN hops = 1..Len(hops)
      BY <1>1 DEF EgressInv, HopsInv
    <2>. QED
      BY <1>1, <2>1 DEF EgressInv, HopsInv, EveryHopIsAuthorized
  <1>. QED
    BY <1>1, EgressInductive, PTL
-----------------------------------------------------------------------------
(* PrivateShell.                                                           *)

\* The first k chunks of version v.
UpTo(k, v) == [i \in 1..k |-> v]

ShellRows ==
  [pc : {"next", "sent", "finished", "threw"}, version : Nat \ {0}, at : Nat, try : Nat,
   did : BOOLEAN, seen : Seq(Nat)]
WriteCommands == [kind : {"write"}, at : Nat, version : Nat]

\* The file before version v is written.
Before(v) == IF v = 1 THEN <<>> ELSE UpTo(Chunks, v - 1)

\* A part whose try was given up is one the worker is past, or is trying again.
StraysAreBehind ==
  \A c \in stray :
    \/ c \in {ReadCommand, OwnCommand}
    \/ /\ c \in WriteCommands
       /\ \/ c.version < shell.version
          \/ c.version = shell.version /\ c.at < shell.at
          \/ c.version = shell.version /\ c.at = shell.at /\ shell.try >= 1

\* While no part has run late: the file is as far as the worker is.
FileFollows ==
  shell.pc # "threw" =>
    /\ shell.version > FileVersions => file = UpTo(Chunks, FileVersions)
    /\ shell.version <= FileVersions /\ shell.at = 0 =>
         /\ file \in {Before(shell.version), <<>>}
         /\ shell.try = 0 => file = Before(shell.version)
         /\ shell.pc = "sent" /\ shell.did => file = <<>>
    /\ shell.version <= FileVersions /\ shell.at > 0 =>
         /\ file \in {UpTo(shell.at - 1, shell.version), UpTo(shell.at, shell.version)}
         /\ shell.pc = "sent" /\ shell.did => file = UpTo(shell.at, shell.version)
    /\ shell.version > FileVersions /\ shell.pc = "sent" /\ shell.did /\ shell.at = 0 =>
         shell.seen = UpTo(Chunks, FileVersions)

\* What was read is the last version, when the run's own command comes.
SeenFollows ==
  shell.version > FileVersions /\ shell.at > 0 => shell.seen = UpTo(Chunks, FileVersions)

ShellInv ==
  /\ shell \in ShellRows
  /\ file \in Seq(Nat)
  /\ shell.version <= FileVersions + 1
  /\ shell.at <= Chunks
  /\ shell.pc = "sent" => shell.try >= 1
  /\ shell.pc = "finished" => Command.kind = "own"
  /\ StraysAreBehind
  /\ ~strayRan => FileFollows /\ SeenFollows

\* A chunk put at its place, for the first time or again.
LEMMA ChunksInOrder ==
  ASSUME NEW k \in Nat, NEW v \in Nat
  PROVE  /\ UpTo(k, v) \in Seq(Nat) /\ Len(UpTo(k, v)) = k
         /\ UpTo(0, v) = <<>>
         /\ k > 0 => /\ PutChunk(UpTo(k - 1, v), k, v) = UpTo(k, v)
                     /\ PutChunk(UpTo(k, v), k, v) = UpTo(k, v)
  <1>1. \A j \in Nat : UpTo(j, v) \in Seq(Nat) /\ Len(UpTo(j, v)) = j
    BY DEF UpTo
  <1>2. UpTo(0, v) = <<>>
    <2>1. Len(UpTo(0, v)) = 0 /\ UpTo(0, v) \in Seq(Nat)
      BY <1>1
    <2>. QED
      BY <2>1
  <1>3. ASSUME k > 0, NEW j \in {k - 1, k} PROVE PutChunk(UpTo(j, v), k, v) = UpTo(k, v)
    <2>1. j \in Nat /\ Len(UpTo(j, v)) = j
      BY <1>1, <1>3
    <2>2. (IF j < k THEN k ELSE j) = k
      BY <1>3, <2>1
    <2>3. PutChunk(UpTo(j, v), k, v)
            = [i \in 1..k |-> IF i = k THEN v ELSE IF i <= j THEN UpTo(j, v)[i] ELSE 0]
      BY <2>1, <2>2 DEF PutChunk
    <2>4. \A i \in 1..k : (IF i = k THEN v ELSE IF i <= j THEN UpTo(j, v)[i] ELSE 0) = v
      BY <1>3, <2>1 DEF UpTo
    <2>. QED
      BY <2>3, <2>4 DEF UpTo
  <1>. QED
    BY <1>1, <1>2, <1>3

\* A command leaves a sequence of chunks.
LEMMA EffectIsAFile ==
  ASSUME NEW f \in Seq(Nat), NEW c, c \in {ReadCommand, OwnCommand} \/ c \in WriteCommands
  PROVE  Effect(c, f) \in Seq(Nat)
  <1>1. CASE c \in {ReadCommand, OwnCommand}
    BY <1>1 DEF Effect, ReadCommand, OwnCommand
  <1>2. CASE c \in WriteCommands
    <2>1. /\ c.at \in Nat /\ c.version \in Nat
          /\ Effect(c, f) = IF c.at = 0 THEN <<>> ELSE PutChunk(f, c.at, c.version)
      BY <1>2 DEF Effect, WriteCommands
    <2>2. PICK n \in Nat : n = IF Len(f) < c.at THEN c.at ELSE Len(f)
      BY <2>1
    <2>3. PutChunk(f, c.at, c.version) =
            [i \in 1..n |-> IF i = c.at THEN c.version ELSE IF i <= Len(f) THEN f[i] ELSE 0]
      BY <2>2 DEF PutChunk
    <2>4. \A i \in 1..n : (IF i = c.at THEN c.version ELSE IF i <= Len(f) THEN f[i] ELSE 0) \in Nat
      BY <2>1, <2>2
    <2>5. PutChunk(f, c.at, c.version) \in Seq(Nat)
      BY <2>2, <2>3, <2>4
    <2>. QED
      BY <2>1, <2>5
  <1>. QED
    BY <1>1, <1>2

\* What the worker sends.
LEMMA CommandKinds ==
  ASSUME shell \in ShellRows
  PROVE  /\ shell.version <= FileVersions =>
              /\ Command \in WriteCommands
              /\ Command.kind = "write" /\ Command.at = shell.at /\ Command.version = shell.version
         /\ shell.version > FileVersions /\ shell.at = 0 => Command = ReadCommand
         /\ shell.version > FileVersions /\ shell.at > 0 => Command = OwnCommand
         /\ Command.kind = "own" <=> (shell.version > FileVersions /\ shell.at > 0)
         /\ Command.kind = "read" <=> (shell.version > FileVersions /\ shell.at = 0)
         /\ Command.kind = "write" <=> shell.version <= FileVersions
         /\ Command \in {ReadCommand, OwnCommand} \/ Command \in WriteCommands
  <1>1. shell.version \in Nat /\ shell.at \in Nat /\ FileVersions \in Nat
    BY PrivateShellAssumption DEF ShellRows
  <1>2. CASE shell.version <= FileVersions
    <2>1. Command = [kind |-> "write", at |-> shell.at, version |-> shell.version]
      BY <1>1, <1>2 DEF Command
    <2>. QED
      BY <1>1, <1>2, <2>1 DEF WriteCommands
  <1>3. CASE shell.version > FileVersions /\ shell.at = 0
    <2>1. Command = ReadCommand
      BY <1>3 DEF Command
    <2>. QED
      BY <1>1, <1>3, <2>1 DEF ReadCommand
  <1>4. CASE shell.version > FileVersions /\ shell.at > 0
    <2>1. Command = OwnCommand
      BY <1>1, <1>4 DEF Command
    <2>. QED
      BY <1>1, <1>4, <2>1 DEF OwnCommand
  <1>. QED
    BY <1>1, <1>2, <1>3, <1>4

\* The command of this try, on the file as far as the worker is.
LEMMA CommandFollows ==
  ASSUME ShellInv, shell.pc # "threw", FileFollows
  PROVE  /\ shell.version > FileVersions => Effect(Command, file) = file
         /\ shell.version <= FileVersions /\ shell.at = 0 => Effect(Command, file) = <<>>
         /\ shell.version <= FileVersions /\ shell.at > 0 =>
              Effect(Command, file) = UpTo(shell.at, shell.version)
  <1>1. /\ shell.version \in Nat /\ shell.at \in Nat /\ FileVersions \in Nat
        /\ shell \in ShellRows
    BY PrivateShellAssumption DEF ShellInv, ShellRows
  <1>2. CASE shell.version > FileVersions
    BY <1>1, <1>2, CommandKinds DEF Effect
  <1>3. CASE shell.version <= FileVersions /\ shell.at = 0
    BY <1>1, <1>3, CommandKinds DEF Effect
  <1>4. CASE shell.version <= FileVersions /\ shell.at > 0
    <2>1. Effect(Command, file) = PutChunk(file, shell.at, shell.version)
      BY <1>1, <1>4, CommandKinds DEF Effect
    <2>2. file \in {UpTo(shell.at - 1, shell.version), UpTo(shell.at, shell.version)}
      BY <1>4 DEF FileFollows
    <2>. QED
      <3>1. /\ PutChunk(UpTo(shell.at - 1, shell.version), shell.at, shell.version)
                 = UpTo(shell.at, shell.version)
            /\ PutChunk(UpTo(shell.at, shell.version), shell.at, shell.version)
                 = UpTo(shell.at, shell.version)
        BY <1>1, <1>4, ChunksInOrder
      <3>. QED
        BY <1>1, <1>4, <2>1, <2>2, <3>1
  <1>. QED
    BY <1>1, <1>2, <1>3, <1>4

\* The worker gives up, or sends.
LEMMA SendOrThrowStep ==
  ASSUME ShellInv, Throws \/ Send, UNCHANGED <<file, stray, strayRan>>
  PROVE  ShellInv'
  <1>1. CASE Throws
    <2>1. /\ shell' \in ShellRows /\ shell'.pc = "threw" /\ shell'.version = shell.version
          /\ shell'.at = shell.at /\ shell'.try = shell.try /\ shell'.seen = shell.seen
      BY <1>1 DEF Throws, ShellInv, ShellRows
    <2>. QED
      BY <2>1 DEF ShellInv, StraysAreBehind, FileFollows, SeenFollows
  <1>2. CASE Send
    <2>0. shell.try \in Nat /\ shell.try + 1 \in Nat
      BY DEF ShellInv, ShellRows
    <2>1. /\ shell' \in ShellRows /\ shell'.pc = "sent" /\ shell'.version = shell.version
          /\ shell'.at = shell.at /\ shell'.try = shell.try + 1 /\ shell'.seen = shell.seen
          /\ shell'.did = FALSE /\ shell.pc = "next"
      BY <1>2, <2>0 DEF Send, ShellInv, ShellRows
    <2>2. StraysAreBehind'
      BY <2>0, <2>1 DEF ShellInv, StraysAreBehind
    <2>3. ~strayRan' => FileFollows' /\ SeenFollows'
      BY <2>0, <2>1 DEF ShellInv, FileFollows, SeenFollows
    <2>. QED
      BY <2>0, <2>1, <2>2, <2>3 DEF ShellInv
  <1>. QED
    BY <1>1, <1>2

\* The sandbox runs what was sent.
LEMMA RunSentStep ==
  ASSUME ShellInv, RunSent
  PROVE  ShellInv'
  <1>1. /\ shell \in ShellRows /\ shell.pc = "sent" /\ file' = Effect(Command, file)
        /\ stray' = stray /\ strayRan' = strayRan
        /\ shell' = [shell EXCEPT !.did = TRUE,
                      !.seen = IF Command.kind = "read" THEN file ELSE shell.seen]
    BY DEF RunSent, ShellInv
  <1>2. file' \in Seq(Nat)
    BY <1>1, CommandKinds, EffectIsAFile DEF ShellInv
  <1>3. PICK s \in Seq(Nat) : s = IF Command.kind = "read" THEN file ELSE shell.seen
    BY <1>1 DEF ShellInv, ShellRows
  <1>4. /\ shell' \in ShellRows /\ shell'.pc = shell.pc /\ shell'.version = shell.version
        /\ shell'.at = shell.at /\ shell'.try = shell.try /\ shell'.seen = s /\ shell'.did = TRUE
    BY <1>1, <1>3 DEF ShellRows
  <1>5. /\ shell.version \in Nat /\ shell.at \in Nat /\ FileVersions \in Nat
        /\ Command.kind = "read" <=> (shell.version > FileVersions /\ shell.at = 0)
    BY <1>1, CommandKinds, PrivateShellAssumption DEF ShellRows
  <1>6. ~strayRan' => FileFollows' /\ SeenFollows'
    <2>. SUFFICES ASSUME ~strayRan PROVE FileFollows' /\ SeenFollows'
      BY <1>1
    <2>1. FileFollows /\ SeenFollows
      BY DEF ShellInv
    <2>2. /\ shell.version > FileVersions => file' = file /\ file = UpTo(Chunks, FileVersions)
          /\ shell.version <= FileVersions /\ shell.at = 0 => file' = <<>>
          /\ shell.version <= FileVersions /\ shell.at > 0 =>
               file' = UpTo(shell.at, shell.version)
      <3>1. shell.version > FileVersions => file = UpTo(Chunks, FileVersions)
        BY <1>1, <2>1 DEF FileFollows
      <3>. QED
        BY <1>1, <2>1, <3>1, CommandFollows
    <2>3. FileFollows'
      BY <1>1, <1>3, <1>4, <1>5, <2>2 DEF FileFollows, ShellInv
    <2>4. SeenFollows'
      BY <1>3, <1>4, <1>5, <2>1 DEF SeenFollows
    <2>. QED
      BY <2>3, <2>4
  <1>. QED
    BY <1>1, <1>2, <1>4, <1>6 DEF ShellInv, StraysAreBehind

\* An answer takes the worker to its next command.
LEMMA AnswerStep ==
  ASSUME ShellInv, shell.pc = "sent", shell.did, shell' = Succeeded,
         UNCHANGED <<file, stray, strayRan>>
  PROVE  ShellInv'
  <1>1. /\ shell \in ShellRows /\ shell.version \in Nat \ {0} /\ shell.at \in Nat
        /\ FileVersions \in Nat \ {0} /\ Chunks \in Nat \ {0}
    BY PrivateShellAssumption DEF ShellRows, ShellInv
  <1>2. /\ Command.kind = "own" <=> (shell.version > FileVersions /\ shell.at > 0)
        /\ Command.kind = "read" <=> (shell.version > FileVersions /\ shell.at = 0)
    BY <1>1, CommandKinds
  <1>3. CASE shell.version > FileVersions /\ shell.at > 0
    <2>1. shell' = [shell EXCEPT !.pc = "finished"]
      BY <1>2, <1>3 DEF Succeeded
    <2>2. /\ shell' \in ShellRows /\ shell'.pc = "finished" /\ shell'.version = shell.version
          /\ shell'.at = shell.at /\ shell'.try = shell.try /\ shell'.seen = shell.seen
      BY <1>1, <2>1 DEF ShellRows
    <2>3. Command'.kind = "own"
      BY <1>1, <1>3, <2>2 DEF Command, OwnCommand
    <2>4. ~strayRan' => FileFollows' /\ SeenFollows'
      BY <1>1, <1>3, <2>2 DEF ShellInv, FileFollows, SeenFollows
    <2>. QED
      BY <1>1, <2>2, <2>3, <2>4 DEF ShellInv, StraysAreBehind
  <1>4. CASE shell.version > FileVersions /\ shell.at = 0
    <2>1. shell' = [shell EXCEPT !.pc = "next", !.at = 1, !.try = 0]
      BY <1>1, <1>2, <1>4 DEF Succeeded
    <2>2. /\ shell' \in ShellRows /\ shell'.pc = "next" /\ shell'.version = shell.version
          /\ shell'.at = 1 /\ shell'.try = 0 /\ shell'.seen = shell.seen
      <3>. DEFINE q == [shell EXCEPT !.pc = "next", !.at = 1, !.try = 0]
      <3>1. q \in ShellRows
        BY <1>1 DEF ShellRows
      <3>2. /\ q.pc = "next" /\ q.version = shell.version
            /\ q.at = 1 /\ q.try = 0 /\ q.seen = shell.seen
        BY <1>1 DEF ShellRows
      <3>. QED
        BY <2>1, <3>1, <3>2
    <2>3. ~strayRan' => FileFollows' /\ SeenFollows'
      BY <1>1, <1>4, <2>2 DEF ShellInv, FileFollows, SeenFollows
    <2>4. StraysAreBehind'
      <3>. SUFFICES ASSUME NEW c \in stray, c \notin {ReadCommand, OwnCommand}
                    PROVE  c \in WriteCommands /\ \/ c.version < shell.version
                                                  \/ c.version = shell.version /\ c.at < 1
        BY <2>2 DEF StraysAreBehind
      <3>1. /\ c \in WriteCommands
            /\ \/ c.version < shell.version
               \/ c.version = shell.version /\ c.at < shell.at
               \/ c.version = shell.version /\ c.at = shell.at /\ shell.try >= 1
        BY DEF ShellInv, StraysAreBehind
      <3>. QED
        BY <1>1, <1>4, <3>1 DEF WriteCommands
    <2>. QED
      BY <1>1, <2>2, <2>3, <2>4 DEF ShellInv
  <1>5. CASE shell.version <= FileVersions /\ shell.at < Chunks
    <2>0. shell.at + 1 \in Nat
      BY <1>1
    <2>1. shell' = [shell EXCEPT !.pc = "next", !.at = shell.at + 1, !.try = 0]
      BY <1>1, <1>2, <1>5 DEF Succeeded
    <2>2. /\ shell' \in ShellRows /\ shell'.pc = "next" /\ shell'.version = shell.version
          /\ shell'.at = shell.at + 1 /\ shell'.try = 0 /\ shell'.seen = shell.seen
      <3>. DEFINE q == [shell EXCEPT !.pc = "next", !.at = shell.at + 1, !.try = 0]
      <3>1. q \in ShellRows
        BY <1>1, <2>0 DEF ShellRows
      <3>2. /\ q.pc = "next" /\ q.version = shell.version
            /\ q.at = shell.at + 1 /\ q.try = 0 /\ q.seen = shell.seen
        BY <1>1 DEF ShellRows
      <3>. QED
        BY <2>1, <3>1, <3>2
    <2>3. ~strayRan => file = UpTo(shell.at, shell.version)
      <3>1. UpTo(0, shell.version) = <<>>
        BY <1>1, ChunksInOrder
      <3>. QED
        BY <1>1, <1>5, <3>1 DEF ShellInv, FileFollows
    <2>4. shell'.at - 1 = shell.at
      BY <1>1, <2>2
    <2>5. ~strayRan' => FileFollows' /\ SeenFollows'
      BY <1>1, <1>5, <2>2, <2>3, <2>4 DEF FileFollows, SeenFollows
    <2>6. StraysAreBehind'
      BY <1>1, <2>2 DEF ShellInv, StraysAreBehind, WriteCommands
    <2>. QED
      BY <1>1, <1>5, <2>2, <2>5, <2>6 DEF ShellInv
  <1>6. CASE shell.version <= FileVersions /\ ~(shell.at < Chunks)
    <2>0. shell.version + 1 \in Nat \ {0} /\ shell.at = Chunks
      BY <1>1, <1>6 DEF ShellInv
    <2>1. shell' = [shell EXCEPT !.pc = "next", !.version = shell.version + 1, !.at = 0, !.try = 0]
      BY <1>1, <1>2, <1>6 DEF Succeeded
    <2>2. /\ shell' \in ShellRows /\ shell'.pc = "next" /\ shell'.version = shell.version + 1
          /\ shell'.at = 0 /\ shell'.try = 0 /\ shell'.seen = shell.seen
      <3>. DEFINE q == [shell EXCEPT !.pc = "next", !.version = shell.version + 1, !.at = 0, !.try = 0]
      <3>1. q \in ShellRows
        BY <1>1, <2>0 DEF ShellRows
      <3>2. /\ q.pc = "next" /\ q.version = shell.version + 1
            /\ q.at = 0 /\ q.try = 0 /\ q.seen = shell.seen
        BY <1>1 DEF ShellRows
      <3>. QED
        BY <2>1, <3>1, <3>2
    <2>3. ~strayRan => file = UpTo(Chunks, shell.version)
      BY <1>1, <1>6, <2>0 DEF ShellInv, FileFollows
    <2>4. shell'.version - 1 = shell.version /\ shell'.version # 1
      BY <1>1, <2>2
    <2>5. shell'.version > FileVersions => shell.version = FileVersions
      BY <1>1, <1>6, <2>2
    <2>6. ~strayRan' => FileFollows' /\ SeenFollows'
      BY <1>1, <1>6, <2>2, <2>3, <2>4, <2>5 DEF FileFollows, SeenFollows, Before
    <2>7. StraysAreBehind'
      <3>. SUFFICES ASSUME NEW c \in stray, c \notin {ReadCommand, OwnCommand}
                    PROVE  c \in WriteCommands /\ c.version < shell.version + 1
        BY <2>2 DEF StraysAreBehind
      <3>1. c \in WriteCommands /\ c.version <= shell.version
        <4>1. c \in WriteCommands /\ (c.version < shell.version \/ c.version = shell.version)
          BY DEF ShellInv, StraysAreBehind
        <4>. QED
          BY <1>1, <4>1 DEF WriteCommands
      <3>. QED
        BY <1>1, <3>1 DEF WriteCommands
    <2>. QED
      BY <1>1, <1>6, <2>2, <2>6, <2>7 DEF ShellInv
  <1>. QED
    BY <1>1, <1>3, <1>4, <1>5, <1>6

\* A try is given up; its command may still run.
LEMMA LostStep ==
  ASSUME ShellInv, TryIsLost \/ TryIsRefused
  PROVE  ShellInv'
  <1>1. PICK p \in {"next", "threw"} :
          /\ shell' = [shell EXCEPT !.pc = p] /\ shell.pc = "sent"
          /\ stray' = IF shell.did THEN stray ELSE stray \cup {Command}
          /\ UNCHANGED <<file, strayRan>>
    BY DEF TryIsLost, TryIsRefused, Throws
  <1>2. /\ shell' \in ShellRows /\ shell'.pc = p /\ shell'.version = shell.version
        /\ shell'.at = shell.at /\ shell'.try = shell.try /\ shell'.seen = shell.seen
        /\ shell \in ShellRows /\ shell.try >= 1
    BY <1>1 DEF ShellInv, ShellRows
  <1>3. \/ Command \in {ReadCommand, OwnCommand}
        \/ Command \in WriteCommands /\ Command.at = shell.at /\ Command.version = shell.version
    <2>1. shell.version \in Nat /\ shell.at \in Nat /\ FileVersions \in Nat
      BY <1>2, PrivateShellAssumption DEF ShellRows
    <2>. QED
      BY <1>2, <2>1, CommandKinds
  <1>4. StraysAreBehind'
    BY <1>1, <1>2, <1>3 DEF ShellInv, StraysAreBehind
  <1>5. ~strayRan' => FileFollows' /\ SeenFollows'
    BY <1>1, <1>2 DEF ShellInv, FileFollows, SeenFollows, ShellRows
  <1>. QED
    BY <1>1, <1>2, <1>4, <1>5 DEF ShellInv

\* A command of an abandoned try runs: it is the worker's own, or one it is past.
LEMMA StrayStep ==
  ASSUME ShellInv, StrayRuns
  PROVE  ShellInv'
  <1>1. PICK c \in stray :
          /\ stray' = stray \ {c} /\ file' = Effect(c, file) /\ shell' = shell
          /\ strayRan' = (strayRan \/ (c.kind = "write" /\ (shell.pc = "finished" \/ c # Command)))
    BY DEF StrayRuns
  <1>2. c \in {ReadCommand, OwnCommand} \/ c \in WriteCommands
    BY DEF ShellInv, StraysAreBehind
  <1>3. file' \in Seq(Nat) /\ shell \in ShellRows
    BY <1>1, <1>2, EffectIsAFile DEF ShellInv
  <1>4. StraysAreBehind'
    BY <1>1 DEF ShellInv, StraysAreBehind
  <1>5. ~strayRan' => FileFollows' /\ SeenFollows'
    <2>. SUFFICES ASSUME ~strayRan, c.kind = "write" => shell.pc # "finished" /\ c = Command
                  PROVE  FileFollows' /\ SeenFollows'
      BY <1>1
    <2>1. FileFollows /\ SeenFollows
      BY DEF ShellInv
    <2>2. SeenFollows'
      BY <1>1, <2>1 DEF SeenFollows
    <2>3. CASE c \in {ReadCommand, OwnCommand}
      <3>1. file' = file
        BY <1>1, <2>3 DEF Effect, ReadCommand, OwnCommand
      <3>. QED
        BY <1>1, <2>1, <2>2, <3>1 DEF FileFollows
    <2>4. CASE c \in WriteCommands /\ shell.pc # "threw"
      <3>1. c = Command /\ c.kind = "write"
        BY <2>4 DEF WriteCommands
      <3>2. /\ shell.version \in Nat /\ shell.at \in Nat /\ FileVersions \in Nat
            /\ shell.try \in Nat /\ shell.version <= FileVersions
            /\ c.at = shell.at /\ c.version = shell.version
        <4>1. shell.version \in Nat /\ shell.at \in Nat /\ FileVersions \in Nat /\ shell.try \in Nat
          BY <1>3, PrivateShellAssumption DEF ShellRows
        <4>. QED
          BY <1>3, <3>1, <4>1, CommandKinds
      <3>3. shell.try >= 1
        BY <2>4, <3>1, <3>2 DEF ShellInv, StraysAreBehind, ReadCommand, OwnCommand
      <3>4. /\ shell.at = 0 => file' = <<>>
            /\ shell.at > 0 => file' = UpTo(shell.at, shell.version)
        BY <1>1, <2>1, <2>4, <3>1, <3>2, CommandFollows
      <3>5. FileFollows'
        BY <1>1, <3>2, <3>3, <3>4 DEF FileFollows
      <3>. QED
        BY <2>2, <3>5
    <2>5. CASE shell.pc = "threw"
      BY <1>1, <2>2, <2>5 DEF FileFollows
    <2>. QED
      BY <1>2, <2>3, <2>4, <2>5
  <1>6. Command' = Command
    BY <1>1 DEF Command
  <1>. QED
    BY <1>1, <1>3, <1>4, <1>5, <1>6 DEF ShellInv

\* However many tries are lost, run late or never: while no part has run late,
\* the file is as far as the worker is (vefaasSandbox.ts writeFile).
THEOREM ShellInductive == PrivateShellSpec => []ShellInv
  <1>1. PrivateShellInit => ShellInv
    <2>. SUFFICES ASSUME PrivateShellInit PROVE ShellInv
      OBVIOUS
    <2>1. /\ shell \in ShellRows /\ shell.pc = "next" /\ shell.version = 1 /\ shell.at = 0
          /\ shell.try = 0 /\ file = <<>> /\ stray = {}
      BY DEF PrivateShellInit, ShellIdle, ShellRows
    <2>2. FileVersions \in Nat \ {0} /\ Chunks \in Nat
      BY PrivateShellAssumption
    <2>3. FileFollows /\ SeenFollows
      BY <2>1, <2>2 DEF FileFollows, SeenFollows, Before
    <2>. QED
      BY <2>1, <2>2, <2>3 DEF ShellInv, StraysAreBehind
  <1>2. ShellInv /\ [PrivateShellNext]_shellVars => ShellInv'
    <2>. SUFFICES ASSUME ShellInv, [PrivateShellNext]_shellVars PROVE ShellInv'
      OBVIOUS
    <2>1. CASE UNCHANGED shellVars
      BY <2>1 DEF shellVars, ShellInv, StraysAreBehind, FileFollows, SeenFollows, Command
    <2>2. CASE EndpointFails \/ CommandIsInvalid \/ Send \/ OutputIsRefused
      <3>1. (Throws \/ Send) /\ UNCHANGED <<file, stray, strayRan>>
        BY <2>2 DEF EndpointFails, CommandIsInvalid, Send, OutputIsRefused
      <3>. QED
        BY <3>1, SendOrThrowStep
    <2>3. CASE RunSent
      BY <2>3, RunSentStep
    <2>4. CASE AnswerArrives
      <3>1. /\ shell.pc = "sent" /\ shell.did /\ UNCHANGED <<file, stray, strayRan>>
            /\ shell' = Succeeded \/ Throws
        BY <2>4 DEF AnswerArrives
      <3>. QED
        BY <3>1, AnswerStep, SendOrThrowStep
    <2>5. CASE TryIsLost \/ TryIsRefused
      BY <2>5, LostStep
    <2>6. CASE StrayRuns
      BY <2>6, StrayStep
    <2>7. CASE StrayNeverRuns
      BY <2>7 DEF StrayNeverRuns, ShellInv, StraysAreBehind, FileFollows, SeenFollows, Command
    <2>. QED
      BY <2>1, <2>2, <2>3, <2>4, <2>5, <2>6, <2>7 DEF PrivateShellNext
  <1>. QED
    BY <1>1, <1>2, PTL DEF PrivateShellSpec

\* When writeFile returns the file is what was written last, and readFile returns
\* it, for any number of versions, chunks and tries (vefaasSandbox.ts:279-345).
THEOREM FilesAreWhole == PrivateShellSpec => []WrittenFileIsWhole
  <1>1. ShellInv => WrittenFileIsWhole
    <2>. SUFFICES ASSUME ShellInv, ~strayRan PROVE WrittenFileIsWhole
      BY DEF WrittenFileIsWhole
    <2>1. /\ shell \in ShellRows /\ shell.version \in Nat \ {0} /\ shell.at \in Nat
          /\ FileVersions \in Nat \ {0} /\ shell.version <= FileVersions + 1
          /\ FileFollows /\ SeenFollows
      BY PrivateShellAssumption DEF ShellInv, ShellRows
    <2>2. \A v : Whole(v) = UpTo(Chunks, v)
      BY DEF Whole, UpTo
    <2>3. ASSUME shell.pc \in {"next", "sent", "finished"}, shell.version > 1,
                 shell.version > FileVersions \/ (shell.at = 0 /\ shell.try = 0)
          PROVE  file = Whole(shell.version - 1)
      <3>1. shell.version > FileVersions => shell.version - 1 = FileVersions
        BY <2>1
      <3>2. Before(shell.version) = UpTo(Chunks, shell.version - 1)
        BY <2>1, <2>3 DEF Before
      <3>. QED
        BY <2>1, <2>2, <2>3, <3>1, <3>2 DEF FileFollows
    <2>4. Command = OwnCommand => shell.seen = Whole(FileVersions)
      <3>1. Command = OwnCommand => shell.version > FileVersions /\ shell.at > 0
        BY <2>1, CommandKinds DEF OwnCommand
      <3>. QED
        BY <2>1, <2>2, <3>1 DEF SeenFollows
    <2>. QED
      BY <2>3, <2>4 DEF WrittenFileIsWhole
  <1>. QED
    BY <1>1, ShellInductive, PTL

-----------------------------------------------------------------------------
(* ObjectStore.                                                            *)

\* The plan, stage by stage.
LEMMA PlanPlaces ==
  /\ DOMAIN Plan = 1..14
  /\ Plan[1].stage = "find" /\ Plan[2].stage = "create" /\ Plan[3].stage = "confirm"
  /\ \A i \in 4..9 : Plan[i].stage = "use"
  /\ \A i \in 10..11 : Plan[i].stage = "delete"
  /\ \A i \in 12..13 : Plan[i].stage = "check"
  /\ Plan[14].stage = "last"
  /\ \A i \in 1..14 : Plan[i].method = "PUT" => i \in {2, 4, 8}
  /\ Plan[12].key = "direct" /\ Plan[13].key = "presigned"
  /\ \A i \in 1..14 : Plan[i].key \in {"bucket", "direct", "presigned"}
  <1>1. DOMAIN Plan = 1..14
    BY DEF Plan
  <1>2. \A i \in 1..14 : i = 1 \/ i = 2 \/ i = 3 \/ i = 4 \/ i = 5 \/ i = 6 \/ i = 7 \/ i = 8
                         \/ i = 9 \/ i = 10 \/ i = 11 \/ i = 12 \/ i = 13 \/ i = 14
    OBVIOUS
  <1>3. /\ Plan[1].stage = "find" /\ Plan[2].stage = "create" /\ Plan[3].stage = "confirm"
        /\ Plan[4].stage = "use" /\ Plan[5].stage = "use" /\ Plan[6].stage = "use"
        /\ Plan[7].stage = "use" /\ Plan[8].stage = "use" /\ Plan[9].stage = "use"
        /\ Plan[10].stage = "delete" /\ Plan[11].stage = "delete"
        /\ Plan[12].stage = "check" /\ Plan[13].stage = "check" /\ Plan[14].stage = "last"
    BY DEF Plan
  <1>4. /\ Plan[1].method # "PUT" /\ Plan[3].method # "PUT" /\ Plan[5].method # "PUT"
        /\ Plan[6].method # "PUT" /\ Plan[7].method # "PUT" /\ Plan[9].method # "PUT"
        /\ Plan[10].method # "PUT" /\ Plan[11].method # "PUT" /\ Plan[12].method # "PUT"
        /\ Plan[13].method # "PUT" /\ Plan[14].method # "PUT"
    BY DEF Plan
  <1>5. /\ Plan[1].key = "bucket" /\ Plan[2].key = "bucket" /\ Plan[3].key = "bucket"
        /\ Plan[4].key = "direct" /\ Plan[5].key = "direct" /\ Plan[6].key = "direct"
        /\ Plan[7].key = "direct" /\ Plan[8].key = "presigned" /\ Plan[9].key = "presigned"
        /\ Plan[10].key = "direct" /\ Plan[11].key = "presigned" /\ Plan[12].key = "direct"
        /\ Plan[13].key = "presigned" /\ Plan[14].key = "direct"
    BY DEF Plan
  <1>. HIDE DEF Plan
  <1>6. \A i \in 4..9 : i = 4 \/ i = 5 \/ i = 6 \/ i = 7 \/ i = 8 \/ i = 9
    OBVIOUS
  <1>7. \A i \in 10..11 : i = 10 \/ i = 11
    OBVIOUS
  <1>8. \A i \in 12..13 : i = 12 \/ i = 13
    OBVIOUS
  <1>9. \A i \in 1..14 : Plan[i].key \in {"bucket", "direct", "presigned"}
    BY <1>2, <1>5
  <1>10. \A i \in 1..14 : Plan[i].method = "PUT" => i \in {2, 4, 8}
    BY <1>2, <1>4
  <1>. QED
    BY <1>1, <1>3, <1>5, <1>6, <1>7, <1>8, <1>9, <1>10

\* Where the stages are, and where they begin.
LEMMA StagePlaces ==
  /\ Places("use") = 4..9 /\ Places("check") = 12..13
  /\ FirstOf("confirm") = 3 /\ FirstOf("delete") = 10 /\ FirstOf("check") = 12
  /\ FirstOf("last") = 14
  <1>1. /\ \A i \in DOMAIN Plan : i \in 1..14
        /\ \A i \in 1..14 : i \in DOMAIN Plan
        /\ \A i \in 1..14 : i = 1 \/ i = 2 \/ i = 3 \/ i \in 4..9 \/ i \in 10..11
                            \/ i \in 12..13 \/ i = 14
    BY PlanPlaces
  <1>2. /\ Places("use") = 4..9 /\ Places("check") = 12..13 /\ Places("confirm") = {3}
        /\ Places("delete") = 10..11 /\ Places("last") = {14}
    <2>1. \A stage : Places(stage) = {i \in 1..14 : Plan[i].stage = stage}
      BY PlanPlaces DEF Places
    <2>2. \A i \in 4..9 : i \in 1..14
      OBVIOUS
    <2>3. \A i \in 10..13 : i \in 1..14
      OBVIOUS
    <2>4. 3 \in 1..14 /\ 14 \in 1..14
      OBVIOUS
    <2>5. Places("use") = 4..9
      BY <1>1, <2>1, <2>2, PlanPlaces
    <2>6. Places("check") = 12..13
      BY <1>1, <2>1, <2>3, PlanPlaces
    <2>7. Places("delete") = 10..11
      BY <1>1, <2>1, <2>3, PlanPlaces
    <2>8. Places("confirm") = {3} /\ Places("last") = {14}
      BY <1>1, <2>1, <2>4, PlanPlaces
    <2>. QED
      BY <2>5, <2>6, <2>7, <2>8
  <1>3. \A stage, m : m \in Places(stage) /\ m \in Nat /\ Places(stage) \subseteq Nat
                      /\ (\A j \in Places(stage) : m <= j) => FirstOf(stage) = m
    <2>. SUFFICES ASSUME NEW stage, NEW m \in Places(stage), m \in Nat,
                         Places(stage) \subseteq Nat, \A j \in Places(stage) : m <= j
                  PROVE  FirstOf(stage) = m
      OBVIOUS
    <2>1. FirstOf(stage) \in Places(stage) /\ \A j \in Places(stage) : FirstOf(stage) <= j
      BY DEF FirstOf
    <2>2. FirstOf(stage) \in Nat /\ FirstOf(stage) <= m /\ m <= FirstOf(stage)
      BY <2>1
    <2>. QED
      BY <2>2
  <1>4. FirstOf("confirm") = 3 /\ FirstOf("last") = 14
    BY <1>2, <1>3
  <1>5. FirstOf("delete") = 10
    <2>1. 10 \in 10..11 /\ (10..11) \subseteq Nat /\ \A j \in 10..11 : 10 <= j
      OBVIOUS
    <2>. QED
      BY <1>2, <1>3, <2>1
  <1>6. FirstOf("check") = 12
    <2>1. 12 \in 12..13 /\ (12..13) \subseteq Nat /\ \A j \in 12..13 : 12 <= j
      OBVIOUS
    <2>. QED
      BY <1>2, <1>3, <2>1
  <1>. QED
    BY <1>2, <1>4, <1>5, <1>6

ProbeOutcomes == {"none", "evidence", "use_failed", "cleanup_failed", "left_behind", "failed"}
Probes == [at : 1..14, try : Nat, answered : SUBSET Nat, failed : BOOLEAN, kept : Nat,
           outcome : ProbeOutcomes]

\* The uses before the probe's place are answered unless one has failed, and a key
\* whose check is behind it was absent since, unless an abandoned PUT came late.
ObjectStoreInv ==
  /\ probe \in Probes
  /\ ~probe.failed => \A i \in 4..9 : i < probe.at => i \in probe.answered
  /\ probe.failed => probe.at >= 10
  /\ probe.outcome = "evidence" => probe.at = 14
  /\ probe.at = 14 => ~probe.failed
  /\ probe.outcome = "use_failed" => probe.at = 13
  /\ ~landedLate /\ probe.at >= 13 => "direct" \notin stored
  /\ ~landedLate /\ (probe.at = 14 \/ probe.outcome = "use_failed") => "presigned" \notin stored

\* A request that threw.
LEMMA ThrewStep ==
  ASSUME ObjectStoreInv, Probing, probe' = Threw, UNCHANGED landedLate,
         \A k \in Objects : k \in stored' => k \in stored \/ probe.at < 10
  PROVE  ObjectStoreInv'
  <1>1. /\ probe \in Probes /\ probe.at \in 1..14 /\ probe.outcome = "none"
        /\ probe.failed \in BOOLEAN /\ probe.kept \in Nat /\ probe.kept + 1 \in Nat
    BY DEF ObjectStoreInv, Probing, Probes
  <1>2. probe.at \in 4..9 \/ probe.at \in 10..11 \/ probe.at \in {1, 2, 3, 12, 13, 14}
    BY <1>1
  <1>3. CASE probe.at \in 4..9
    <2>. DEFINE q == [[probe EXCEPT !.at = 10, !.try = 1] EXCEPT !.failed = TRUE]
    <2>1. Current.stage = "use"
      BY <1>3, PlanPlaces DEF Current
    <2>2. probe' = q
      BY <2>1, StagePlaces DEF Threw, GoToRequest
    <2>3. q \in Probes /\ q.at = 10 /\ q.failed = TRUE /\ q.outcome = "none"
      <3>1. [probe EXCEPT !.at = 10, !.try = 1] \in Probes
        <4>1. 10 \in 1..14 /\ 1 \in Nat
          OBVIOUS
        <4>. QED
          BY <1>1, <4>1 DEF Probes
      <3>2. q \in Probes
        BY <3>1 DEF Probes
      <3>. QED
        BY <1>1, <3>2 DEF Probes
    <2>. HIDE DEF q
    <2>. QED
      BY <2>2, <2>3 DEF ObjectStoreInv
  <1>4. CASE probe.at \in 10..11
    <2>1. Current.stage = "delete"
      BY <1>4, PlanPlaces DEF Current
    <2>2. CASE probe.at = 11
      <3>. DEFINE q == [probe EXCEPT !.outcome = "cleanup_failed"]
      <3>1. probe' = q
        BY <2>1, <2>2, StagePlaces DEF Threw, Outcome
      <3>2. q \in Probes /\ q.at = 11 /\ q.failed = probe.failed /\ q.answered = probe.answered
            /\ q.outcome = "cleanup_failed"
        BY <1>1, <2>2 DEF Probes, ProbeOutcomes
      <3>. HIDE DEF q
      <3>. QED
        BY <2>2, <3>1, <3>2 DEF ObjectStoreInv
    <2>3. CASE probe.at = 10
      <3>. DEFINE q == [[probe EXCEPT !.at = 11, !.try = 1] EXCEPT !.kept = probe.kept + 1]
      <3>1. probe' = q
        BY <2>1, <2>3, StagePlaces DEF Threw, GoToRequest
      <3>2. q \in Probes /\ q.at = 11 /\ q.failed = probe.failed /\ q.answered = probe.answered
            /\ q.outcome = "none"
        <4>1. 11 \in 1..14 /\ 1 \in Nat
          OBVIOUS
        <4>2. [probe EXCEPT !.at = 11, !.try = 1] \in Probes
          BY <1>1, <4>1 DEF Probes
        <4>3. q \in Probes
          BY <1>1, <4>2 DEF Probes
        <4>. QED
          BY <1>1, <4>3 DEF Probes
      <3>. HIDE DEF q
      <3>. QED
        BY <2>3, <3>1, <3>2 DEF ObjectStoreInv
    <2>. QED
      BY <1>4, <2>2, <2>3
  <1>5. CASE probe.at \in {1, 2, 3, 12, 13, 14}
    <2>. DEFINE q == [probe EXCEPT !.outcome = "failed"]
    <2>1. Current.stage \notin {"use", "delete"}
      <3>1. 12 \in 12..13 /\ 13 \in 12..13
        OBVIOUS
      <3>. QED
        BY <1>5, <3>1, PlanPlaces DEF Current
    <2>2. probe' = q
      BY <2>1 DEF Threw, Outcome
    <2>3. q \in Probes /\ q.at = probe.at /\ q.failed = probe.failed
          /\ q.answered = probe.answered /\ q.outcome = "failed"
      BY <1>1 DEF Probes, ProbeOutcomes
    <2>. HIDE DEF q
    <2>. QED
      BY <1>1, <1>5, <2>2, <2>3 DEF ObjectStoreInv, Objects
  <1>. QED
    BY <1>2, <1>3, <1>4, <1>5

\* The next request of the plan.
LEMMA GoToRequestIs ==
  ASSUME probe \in Probes, NEW i \in 1..14
  PROVE  /\ GoToRequest(i) \in Probes /\ GoToRequest(i).at = i
         /\ GoToRequest(i).failed = probe.failed /\ GoToRequest(i).answered = probe.answered
         /\ GoToRequest(i).outcome = probe.outcome
  BY DEF GoToRequest, Probes

\* The probe ends where it is.
LEMMA OutcomeIs ==
  ASSUME probe \in Probes, NEW o \in ProbeOutcomes
  PROVE  /\ Outcome(o) \in Probes /\ Outcome(o).at = probe.at
         /\ Outcome(o).failed = probe.failed /\ Outcome(o).answered = probe.answered
         /\ Outcome(o).outcome = o
  BY DEF Outcome, Probes

\* A request is answered.
LEMMA SucceedsStep ==
  ASSUME ObjectStoreInv, Probing, probe' = Answered2xx, UNCHANGED landedLate,
         \A k \in Objects : k \in stored' => k \in stored \/ probe.at < 10
  PROVE  ObjectStoreInv'
  <1>1. /\ probe \in Probes /\ probe.at \in 1..14 /\ probe.outcome = "none"
        /\ probe.failed \in BOOLEAN /\ probe.answered \in SUBSET Nat
    BY DEF ObjectStoreInv, Probing, Probes
  <1>2. probe.at = 1 \/ probe.at \in 2..11 \/ probe.at \in {12, 13, 14}
    BY <1>1
  <1>3. CASE probe.at = 1
    <2>1. probe' = GoToRequest(3)
      BY <1>3, PlanPlaces, StagePlaces DEF Current, Answered2xx
    <2>2. 3 \in 1..14
      OBVIOUS
    <2>. QED
      BY <1>1, <1>3, <2>1, <2>2, GoToRequestIs DEF ObjectStoreInv
  <1>4. CASE probe.at \in {12, 13, 14}
    <2>1. Current.stage \in {"check", "last"}
      <3>1. 12 \in 12..13 /\ 13 \in 12..13
        OBVIOUS
      <3>. QED
        BY <1>4, <3>1, PlanPlaces DEF Current
    <2>2. probe' = Outcome("left_behind")
      BY <2>1 DEF Answered2xx
    <2>3. "left_behind" \in ProbeOutcomes
      BY DEF ProbeOutcomes
    <2>. QED
      BY <1>1, <1>4, <2>2, <2>3, OutcomeIs DEF ObjectStoreInv, Objects
  <1>5. CASE probe.at \in 2..11
    <2>1. Current.stage \in {"create", "confirm", "use", "delete"}
      <3>1. probe.at = 2 \/ probe.at = 3 \/ probe.at \in 4..9 \/ probe.at \in 10..11
        BY <1>5
      <3>. QED
        BY <3>1, PlanPlaces DEF Current
    <2>2. probe' = [Onwards EXCEPT !.answered = @ \cup {probe.at}]
      BY <2>1 DEF Answered2xx
    <2>3. \/ probe.at = 11 /\ Onwards = Outcome("cleanup_failed")
          \/ Onwards = GoToRequest(probe.at + 1)
      BY <1>5, StagePlaces DEF Onwards
    <2>4. PICK q \in Probes : /\ q = Onwards /\ q.failed = probe.failed
                              /\ q.answered = probe.answered
                              /\ \/ q.at = 11 /\ probe.at = 11 /\ q.outcome = "cleanup_failed"
                                 \/ q.at = probe.at + 1 /\ q.outcome = "none"
      <3>1. "cleanup_failed" \in ProbeOutcomes
        BY DEF ProbeOutcomes
      <3>2. probe.at + 1 \in 1..14
        BY <1>5
      <3>. QED
        BY <1>1, <2>3, <3>1, <3>2, OutcomeIs, GoToRequestIs
    <2>. DEFINE p == [q EXCEPT !.answered = q.answered \cup {probe.at}]
    <2>5. /\ p \in Probes /\ p.at = q.at /\ p.failed = q.failed /\ p.outcome = q.outcome
          /\ p.answered = probe.answered \cup {probe.at} /\ probe' = p
      <3>1. q.answered \cup {probe.at} \in SUBSET Nat
        BY <1>1, <2>4
      <3>2. p \in Probes
        BY <3>1 DEF Probes
      <3>. QED
        BY <2>2, <2>4, <3>2 DEF Probes
    <2>. HIDE DEF p
    <2>6. \A i \in 4..9 : i < p.at /\ ~(i < probe.at) => i = probe.at
      BY <1>5, <2>4, <2>5
    <2>. QED
      BY <1>5, <2>4, <2>5, <2>6 DEF ObjectStoreInv
  <1>. QED
    BY <1>2, <1>3, <1>4, <1>5

\* A request finds nothing: an answer to the checks, and to the last GET.
LEMMA FindsNothingStep ==
  ASSUME ObjectStoreInv, RequestFindsNothing
  PROVE  ObjectStoreInv'
  <1>1. /\ probe \in Probes /\ probe.at \in 1..14 /\ probe.outcome = "none" /\ Probing
        /\ probe.failed \in BOOLEAN /\ stored' = stored /\ landedLate' = landedLate
        /\ Current.key \notin stored
        /\ probe' = CASE Current.stage \in {"find", "check"} -> Onwards
                      [] Current.stage = "last" -> Evidence
                      [] OTHER -> Threw
    BY DEF ObjectStoreInv, Probing, Probes, RequestFindsNothing
  <1>2. probe.at = 1 \/ probe.at \in 2..11 \/ probe.at = 12 \/ probe.at = 13 \/ probe.at = 14
    BY <1>1
  <1>3. CASE probe.at = 1
    <2>1. probe' = GoToRequest(2)
      BY <1>1, <1>3, PlanPlaces, StagePlaces DEF Current, Onwards
    <2>2. 2 \in 1..14
      OBVIOUS
    <2>. QED
      BY <1>1, <1>3, <2>1, <2>2, GoToRequestIs DEF ObjectStoreInv
  <1>4. CASE probe.at \in 2..11
    <2>1. Current.stage \in {"create", "confirm", "use", "delete"}
      <3>1. probe.at = 2 \/ probe.at = 3 \/ probe.at \in 4..9 \/ probe.at \in 10..11
        BY <1>4
      <3>. QED
        BY <3>1, PlanPlaces DEF Current
    <2>2. probe' = Threw
      BY <1>1, <2>1
    <2>. QED
      BY <1>1, <2>2, ThrewStep
  <1>5. CASE probe.at = 12
    <2>1. 12 \in 12..13 /\ 13 \in 1..14
      OBVIOUS
    <2>2. Current.stage = "check" /\ Current.key = "direct"
      BY <1>5, <2>1, PlanPlaces DEF Current
    <2>3. probe' = GoToRequest(13)
      BY <1>1, <1>5, <2>2, StagePlaces DEF Onwards
    <2>. QED
      BY <1>1, <1>5, <2>1, <2>2, <2>3, GoToRequestIs DEF ObjectStoreInv
  <1>6. CASE probe.at = 13
    <2>1. 13 \in 12..13 /\ 14 \in 1..14
      OBVIOUS
    <2>2. Current.stage = "check" /\ Current.key = "presigned"
      BY <1>6, <2>1, PlanPlaces DEF Current
    <2>3. CASE probe.failed
      <3>1. probe' = Outcome("use_failed") /\ "use_failed" \in ProbeOutcomes
        BY <1>1, <1>6, <2>2, <2>3, StagePlaces DEF Onwards, ProbeOutcomes
      <3>. QED
        BY <1>1, <1>6, <2>2, <2>3, <3>1, OutcomeIs DEF ObjectStoreInv
    <2>4. CASE ~probe.failed
      <3>1. probe' = GoToRequest(14)
        BY <1>1, <1>6, <2>2, <2>4, StagePlaces DEF Onwards
      <3>. QED
        BY <1>1, <1>6, <2>1, <2>2, <2>4, <3>1, GoToRequestIs DEF ObjectStoreInv
    <2>. QED
      BY <2>3, <2>4
  <1>7. CASE probe.at = 14
    <2>1. probe' = Outcome("evidence") /\ "evidence" \in ProbeOutcomes
      BY <1>1, <1>7, PlanPlaces DEF Current, Evidence, ProbeOutcomes
    <2>. QED
      BY <1>1, <1>7, <2>1, OutcomeIs DEF ObjectStoreInv
  <1>. QED
    BY <1>2, <1>3, <1>4, <1>5, <1>6, <1>7

\* What a request does to the bucket: only the uses write objects.
LEMMA AppliedAdds ==
  ASSUME ObjectStoreInv
  PROVE  \A k \in Objects : k \in Applied(Current, stored) => k \in stored \/ probe.at < 10
  <1>1. probe.at \in 1..14 /\ (Current.method = "PUT" => probe.at \in {2, 4, 8})
    BY PlanPlaces DEF ObjectStoreInv, Probes, Current
  <1>2. Current.method # "PUT" => Applied(Current, stored) \subseteq stored
    BY DEF Applied
  <1>. QED
    BY <1>1, <1>2

\* However requests are lost, retried and applied late: what is behind the probe
\* was answered, or seen absent (tosConformance.ts executeTosConformance).
THEOREM ObjectStoreInductive == ObjectStoreSpec => []ObjectStoreInv
  <1>1. ObjectStoreInit => ObjectStoreInv
    <2>. SUFFICES ASSUME ObjectStoreInit PROVE ObjectStoreInv
      OBVIOUS
    <2>1. 1 \in 1..14 /\ \A i \in 4..9 : ~(i < 1)
      OBVIOUS
    <2>2. probe \in Probes
      BY <2>1 DEF ObjectStoreInit, Probes, ProbeOutcomes
    <2>. QED
      BY <2>1, <2>2 DEF ObjectStoreInit, ObjectStoreInv
  <1>2. ObjectStoreInv /\ [ObjectStoreNext]_storeVars => ObjectStoreInv'
    <2>. SUFFICES ASSUME ObjectStoreInv, [ObjectStoreNext]_storeVars PROVE ObjectStoreInv'
      OBVIOUS
    <2>1. CASE UNCHANGED storeVars
      BY <2>1 DEF storeVars, ObjectStoreInv
    <2>2. CASE RequestSucceeds
      BY <2>2, AppliedAdds, SucceedsStep DEF RequestSucceeds
    <2>3. CASE RequestFindsNothing
      BY <2>3, FindsNothingStep
    <2>4. CASE RequestIsRefused \/ BodyIsRefused \/ PayloadIsRefused
      <3>1. Probing /\ probe' = Threw /\ stored' = stored /\ UNCHANGED landedLate
        BY <2>4 DEF RequestIsRefused, BodyIsRefused, PayloadIsRefused
      <3>. QED
        BY <3>1, ThrewStep
    <2>5. CASE RequestIsLost
      <3>1. \A k \in Objects : k \in stored' => k \in stored \/ probe.at < 10
        BY <2>5, AppliedAdds DEF RequestIsLost
      <3>2. CASE probe' = Threw
        BY <2>5, <3>1, <3>2, ThrewStep DEF RequestIsLost
      <3>3. CASE probe' = [probe EXCEPT !.try = @ + 1]
        <4>1. probe \in Probes /\ probe.try + 1 \in Nat /\ probe.at \in 1..14
          BY DEF ObjectStoreInv, Probes
        <4>2. /\ probe' \in Probes /\ probe'.at = probe.at /\ probe'.failed = probe.failed
              /\ probe'.answered = probe.answered /\ probe'.outcome = probe.outcome
          BY <3>3, <4>1 DEF Probes
        <4>3. landedLate' = landedLate /\ probe.outcome = "none"
          BY <2>5 DEF RequestIsLost, Probing
        <4>. QED
          BY <3>1, <4>1, <4>2, <4>3 DEF ObjectStoreInv, Objects
      <3>. QED
        BY <2>5, <3>2, <3>3 DEF RequestIsLost
    <2>6. ASSUME NEW r \in abandoned, AbandonedLands(r) PROVE ObjectStoreInv'
      <3>1. /\ probe' = probe /\ stored' \in {stored, Applied(r, stored)}
            /\ landedLate' = (landedLate \/ (r.method = "PUT" /\ SeenAbsent(r.key)))
        BY <2>6 DEF AbandonedLands
      <3>2. \A k \in stored' : k \in stored \/ (r.method = "PUT" /\ r.key = k)
        BY <3>1 DEF Applied
      <3>3. probe.at >= 13 => SeenAbsent("direct")
        <4>1. 12 \in 12..13 /\ (probe.at >= 13 => probe.at > 12)
          BY DEF ObjectStoreInv, Probes
        <4>. QED
          BY <4>1, PlanPlaces, StagePlaces DEF SeenAbsent
      <3>4. probe.at = 14 \/ probe.outcome = "use_failed" => SeenAbsent("presigned")
        <4>1. 13 \in 12..13
          OBVIOUS
        <4>. QED
          BY <4>1, PlanPlaces, StagePlaces DEF SeenAbsent, ObjectStoreInv, Probing
      <3>. QED
        BY <3>1, <3>2, <3>3, <3>4 DEF ObjectStoreInv
    <2>7. ASSUME NEW r \in abandoned, AbandonedIsDropped(r) PROVE ObjectStoreInv'
      BY <2>7 DEF AbandonedIsDropped, ObjectStoreInv
    <2>. QED
      BY <2>1, <2>2, <2>3, <2>4, <2>5, <2>6, <2>7 DEF ObjectStoreNext
  <1>. QED
    BY <1>1, <1>2, PTL DEF ObjectStoreSpec

\* The probe's evidence is true, for any number of tries (tosConformance.ts:320-324).
THEOREM EvidenceHolds == ObjectStoreSpec => []EvidenceIsTrue
  <1>1. ObjectStoreInv => EvidenceIsTrue
    <2>. SUFFICES ASSUME ObjectStoreInv PROVE EvidenceIsTrue
      OBVIOUS
    <2>1. probe.at \in 1..14 /\ \A i \in 4..9 : i < 14
      BY DEF ObjectStoreInv, Probes
    <2>2. probe.outcome = "evidence" => Places("use") \subseteq probe.answered
      BY <2>1, StagePlaces DEF ObjectStoreInv
    <2>3. probe.outcome \in {"evidence", "use_failed"} /\ ~landedLate => stored \cap Objects = {}
      BY <2>1 DEF ObjectStoreInv, Objects
    <2>. QED
      BY <2>2, <2>3 DEF EvidenceIsTrue
  <1>. QED
    BY <1>1, ObjectStoreInductive, PTL
=============================================================================
