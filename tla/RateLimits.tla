----------------------------- MODULE RateLimits -----------------------------
(***************************************************************************)
(* What an API request passes before its handler: the caller's key and     *)
(* tenant, and the tenant's token bucket, which each API node keeps in its *)
(* memory or all share in one row.                                         *)
(*                                                                         *)
(* Time passes in ticks of a second and a token is the unit of a bucket.   *)
(* A bucket without a row or entry is a full one.  MaxTime bounds the      *)
(* model, MaxRequests the requests of one tick.                            *)
(***************************************************************************)
EXTENDS Integers, Sequences, FiniteSets, Functions, FiniteSetsExt

CONSTANTS
  Tenants,
  ApiKeys, KeyTenant,   \* minted keys and their tenants
  OperatorToken,        \* API_AUTH_TOKEN ..
  DefaultTenant,        \* .. and its tenant
  Nodes,                \* API processes
  BucketScopes,         \* RATE_LIMIT_SCOPE: "instance", "global"
  Burst, PerSec,        \* RATE_LIMIT_BURST, RATE_LIMIT_PER_SEC
  MaxTime, MaxRequests

ASSUME RateLimitsAssumption ==
  /\ {Burst, PerSec, MaxTime, MaxRequests} \subseteq Nat \ {0}
  /\ KeyTenant \in [ApiKeys -> Tenants] /\ DefaultTenant \in Tenants
  /\ OperatorToken \notin ApiKeys

VARIABLES
  bucketScope,  \* the deployment's choice
  tenantState,  \* of each row: "none", "active", "suspended"
  keyState,     \* of each row: "none", "active", "revoked"
  bucket,       \* tokens and time of the last refill, per node or shared, and tenant
  clock, asked, \* the second, and the requests made in it
  admitted,     \* requests admitted, per tenant and node
  setBack       \* by how much statements have set the time of each refill back

rateLimitVars ==
  <<bucketScope, tenantState, keyState, bucket, clock, asked, admitted, setBack>>

Callers == ApiKeys \cup {OperatorToken}
BucketOf(n) == IF bucketScope = "global" THEN "row" ELSE n
Buckets == (Nodes \cup {"row"}) \X Tenants
FullBucket == [tokens |-> Burst, last |-> 0]

RateLimitsInit ==
  /\ bucketScope \in BucketScopes
  /\ tenantState = [t \in Tenants |-> IF t = DefaultTenant THEN "active" ELSE "none"]
  /\ keyState = [k \in ApiKeys |-> "none"]
  /\ bucket = [b \in Buckets |-> FullBucket]
  /\ clock = 0 /\ asked = 0
  /\ admitted = [b \in Buckets |-> 0]
  /\ setBack = [b \in Buckets |-> 0]
-----------------------------------------------------------------------------
(* resolveCaller *)

Smaller(a, b) == IF a < b THEN a ELSE b
Larger(a, b) == IF a > b THEN a ELSE b

\* The tenant a token stands for, if any: the operator's always, a minted key's
\* while the key and its tenant are active.
Resolved(k) ==
  IF k = OperatorToken THEN {DefaultTenant}
  ELSE {t \in {KeyTenant[k]} : keyState[k] = "active" /\ tenantState[t] = "active"}
-----------------------------------------------------------------------------
(* The two limiters *)

Refilled(b, at) == Smaller(Burst, b.tokens + (at - b.last) * PerSec)

\* Faulty variant: the time of the refill is not moved.
InstanceCheckForever(b) ==
  LET t == Refilled(b, clock) IN
  IF t < 1 THEN [ok |-> FALSE, bucket |-> [b EXCEPT !.tokens = t]]
  ELSE [ok |-> TRUE, bucket |-> [b EXCEPT !.tokens = t - 1]]

\* A node's own bucket: a denied request costs nothing.
InstanceCheck(b) ==
  LET t == Refilled(b, clock) IN
  IF t < 1 THEN [ok |-> FALSE, bucket |-> [tokens |-> t, last |-> clock]]
  ELSE [ok |-> TRUE, bucket |-> [tokens |-> t - 1, last |-> clock]]

\* The shared row, in one statement: a denied request takes a token as well,
\* down to -1.  now() is the statement's start: one that had to wait for the row
\* reckons from a time before the last refill, and sets it back.
GlobalCheck(b, at) ==
  LET t == Larger(-1, Refilled(b, at) - 1) IN
  [ok |-> t >= 0, bucket |-> [tokens |-> t, last |-> at]]

\* What a check may answer: the shared row's may have been waiting since any time.
Checks(b) ==
  IF bucketScope = "global" THEN {GlobalCheck(b, at) : at \in 0..clock}
  ELSE {InstanceCheck(b)}
-----------------------------------------------------------------------------
(* onRequest *)

\* No or a revoked key (401), or a suspended tenant (403).
Reject(k) ==
  /\ \A t \in Resolved(k) : tenantState[t] # "active"
  /\ UNCHANGED <<bucket, admitted, setBack>>

\* The tenant's bucket decides: the handler, or 429.
Limit(n, k) ==
  \E t \in Resolved(k) :
    LET b == <<BucketOf(n), t>> IN
    /\ tenantState[t] = "active"
    /\ \E v \in Checks(bucket[b]) :
         /\ bucket' = [bucket EXCEPT ![b] = v.bucket]
         /\ admitted' = [admitted EXCEPT ![b] = @ + (IF v.ok THEN 1 ELSE 0)]
         /\ setBack' = [setBack EXCEPT ![b] = @ + Larger(0, bucket[b].last - v.bucket.last)]

Request(n, k) ==
  /\ asked < MaxRequests
  /\ asked' = asked + 1
  /\ Reject(k) \/ Limit(n, k)
  /\ UNCHANGED <<bucketScope, tenantState, keyState, clock>>

\* The operators' command line: createTenant, and createApiKey for a tenant.
CreateTenant(t) ==
  /\ tenantState[t] = "none"
  /\ tenantState' = [tenantState EXCEPT ![t] = "active"]
  /\ UNCHANGED <<bucketScope, keyState, bucket, clock, asked, admitted, setBack>>
CreateApiKey(k) ==
  /\ keyState[k] = "none" /\ tenantState[KeyTenant[k]] # "none"
  /\ keyState' = [keyState EXCEPT ![k] = "active"]
  /\ UNCHANGED <<bucketScope, tenantState, bucket, clock, asked, admitted, setBack>>

\* Operators revoke keys and suspend tenants in the database.
RevokeKey(k) ==
  /\ keyState[k] = "active"
  /\ keyState' = [keyState EXCEPT ![k] = "revoked"]
  /\ UNCHANGED <<bucketScope, tenantState, bucket, clock, asked, admitted, setBack>>
SuspendTenant(t) ==
  /\ tenantState[t] = "active"
  /\ tenantState' = [tenantState EXCEPT ![t] = "suspended"]
  /\ UNCHANGED <<bucketScope, keyState, bucket, clock, asked, admitted, setBack>>

Tick ==
  /\ clock < MaxTime
  /\ clock' = clock + 1 /\ asked' = 0
  /\ UNCHANGED <<bucketScope, tenantState, keyState, bucket, admitted, setBack>>

RateLimitsNext ==
  \/ \E n \in Nodes, k \in Callers : Request(n, k)
  \/ \E k \in ApiKeys : CreateApiKey(k) \/ RevokeKey(k)
  \/ \E t \in Tenants : CreateTenant(t) \/ SuspendTenant(t)
  \/ Tick

RateLimitsSpec == RateLimitsInit /\ [][RateLimitsNext]_rateLimitVars
-----------------------------------------------------------------------------
(* Properties *)

\* The type of the state: a bucket stays between -1 and its burst.
RateLimitsTypeOK ==
  /\ bucketScope \in BucketScopes
  /\ tenantState \in [Tenants -> {"none", "active", "suspended"}]
  /\ keyState \in [ApiKeys -> {"none", "active", "revoked"}]
  /\ \A b \in Buckets : bucket[b].tokens \in -1..Burst /\ bucket[b].last \in 0..clock
  /\ clock \in 0..MaxTime /\ asked \in 0..MaxRequests

\* "RATE_LIMIT_PER_SEC sustained, with a RATE_LIMIT_BURST bucket" (config.ts:22-23):
\* whatever the spacing of its requests, denied ones among them, and across the
\* nodes that share a bucket, no tenant gets more than the burst and the rate allow,
\* if what the statements that waited for the row have set back counts twice.  It must:
\* a late statement finds too little, leaves the row at -1, the floor, with its own
\* time, and the next one is given the time in between again.
RateIsBounded ==
  \A b \in Buckets : admitted[b] <= Burst + PerSec * (clock + setBack[b])
=============================================================================
