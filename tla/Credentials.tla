---------------------------- MODULE Credentials ----------------------------
(***************************************************************************)
(* The release of a stored secret to an execution: credentials, the grants *)
(* that bind them to a run and what it delegates or forks, and the receipt *)
(* of every use.                                                           *)
(*                                                                         *)
(* consumeCredential is one database transaction, but a long one: it takes *)
(* the execution lock of the run and its row, then the rows of grants and  *)
(* credentials one after the other, and it calls the key service before it *)
(* commits.  Time, other executions, revocations and cancellations go on   *)
(* meanwhile, as far as the locks let them.  A logical action is a key;    *)
(* caller, purpose, action and resource belong to the key, and the         *)
(* patterns of the grants of the model match them.  All runs are of one    *)
(* tenant and one agent version.  LeaseLimit bounds the model.             *)
(***************************************************************************)
EXTENDS Naturals, FiniteSets

CONSTANTS
  LineageRuns,    \* runs
  ParentOf,       \* runs.parent_run_id, or 0
  ForkedFrom,     \* runs.forked_from_run_id, or 0
  Secrets,        \* credentials that may be created: 1, 2, ... in this order
  Grants,         \* grants that may be created: 1, 2, ... in this order
  GrantPolicies,  \* what a grant may be created with
  UseLimits,      \* max_uses of a credential or a grant; 0 is unlimited
  Keys,           \* idempotency keys
  Releases,       \* executions that ask for a secret at the same time
  LeaseLimit      \* attempts of a run: a bound of the model

ASSUME CredentialsAssumption ==
  /\ LineageRuns \subseteq Nat \ {0}
  /\ IsFiniteSet(Secrets) /\ Secrets = 1..Cardinality(Secrets)
  /\ ParentOf \in [LineageRuns -> LineageRuns \union {0}]
  /\ ForkedFrom \in [LineageRuns -> LineageRuns \union {0}]
  /\ IsFiniteSet(Grants) /\ Grants = 1..Cardinality(Grants)
  /\ UseLimits \subseteq Nat /\ LeaseLimit \in Nat \ {0}
  /\ Releases \subseteq Nat \ {0}
  /\ GrantPolicies \subseteq
       [run : LineageRuns, credential : Secrets, delegated : BOOLEAN, forks : BOOLEAN,
        approval : BOOLEAN, max : UseLimits]

VARIABLES
  holder,   \* of each run: is it RUNNING, its attempt, does the lease last
  secret,   \* credentials: is it created, active, unexpired, max_uses, uses
  grant,    \* credential_grants: is it created, active, unexpired, policy, uses
  useOf,    \* credential_use_receipts
  rowOf,    \* who locks the row of each grant and each credential, or 0
  release   \* the transactions in progress

credentialVars == <<holder, secret, grant, useOf, rowOf, release>>

Rows == (Grants \X {0}) \union ({0} \X Secrets)
NoRelease == [pc |-> "idle", run |-> 0, attempt |-> 0, key |-> 0, approval |-> 0,
              waiting |-> {}, half |-> 0, candidates |-> {}, chosen |-> 0, again |-> FALSE]
NoPolicy == [run |-> 0, credential |-> 0, delegated |-> FALSE, forks |-> FALSE,
             approval |-> FALSE, max |-> 0]

CredentialsInit ==
  /\ holder = [r \in LineageRuns |-> [running |-> TRUE, attempt |-> 1, lease |-> TRUE]]
  /\ secret = [c \in Secrets |->
       [created |-> FALSE, active |-> TRUE, unexpired |-> TRUE, max |-> 0, uses |-> 0]]
  /\ grant = [g \in Grants |->
       [created |-> FALSE, active |-> TRUE, unexpired |-> TRUE, policy |-> NoPolicy, uses |-> 0]]
  /\ useOf = {}
  /\ rowOf = [row \in Rows |-> 0]
  /\ release = [x \in Releases |-> NoRelease]
-----------------------------------------------------------------------------
(* Administration *)

\* createCredential, with the secret sealed.
CreateCredential(c) ==
  /\ ~secret[c].created /\ \A d \in 1..(c - 1) : secret[d].created
  /\ \E m \in UseLimits :
       secret' = [secret EXCEPT ![c].created = TRUE, ![c].max = m]
  /\ UNCHANGED <<holder, grant, useOf, rowOf, release>>

\* createCredentialGrant, for a run of the credential's tenant.
CreateCredentialGrant(g) ==
  /\ ~grant[g].created /\ \A h \in 1..(g - 1) : grant[h].created
  /\ \E p \in GrantPolicies :
       /\ secret[p.credential].created
       /\ grant' = [grant EXCEPT ![g].created = TRUE, ![g].policy = p]
  /\ UNCHANGED <<holder, secret, useOf, rowOf, release>>

\* Both updates wait for the lock of their row.
RevokeCredentialGrant(g) ==
  /\ grant[g].created /\ grant[g].active /\ rowOf[<<g, 0>>] = 0
  /\ grant' = [grant EXCEPT ![g].active = FALSE]
  /\ UNCHANGED <<holder, secret, useOf, rowOf, release>>

RevokeCredential(c) ==
  /\ secret[c].created /\ secret[c].active /\ rowOf[<<0, c>>] = 0
  /\ secret' = [secret EXCEPT ![c].active = FALSE]
  /\ UNCHANGED <<holder, grant, useOf, rowOf, release>>

GrantExpires(g) ==
  /\ grant[g].created /\ grant[g].unexpired
  /\ grant' = [grant EXCEPT ![g].unexpired = FALSE]
  /\ UNCHANGED <<holder, secret, useOf, rowOf, release>>

CredentialExpires(c) ==
  /\ secret[c].created /\ secret[c].unexpired
  /\ secret' = [secret EXCEPT ![c].unexpired = FALSE]
  /\ UNCHANGED <<holder, grant, useOf, rowOf, release>>
-----------------------------------------------------------------------------
(* The run beside the release *)

\* Faulty variant: consumeCredential takes neither lock.
NotFenced(r) == FALSE

InRelease(r) == \E x \in Releases : release[x].pc # "idle" /\ release[x].run = r

LeaseExpires(r) ==
  /\ holder[r].lease
  /\ holder' = [holder EXCEPT ![r].lease = FALSE]
  /\ UNCHANGED <<secret, grant, useOf, rowOf, release>>

\* The reaper, which honours the execution lock, and the next claim.
Replace(r) ==
  /\ ~InRelease(r)
  /\ holder[r].running /\ ~holder[r].lease /\ holder[r].attempt < LeaseLimit
  /\ holder' = [holder EXCEPT ![r].attempt = @ + 1, ![r].lease = TRUE]
  /\ UNCHANGED <<secret, grant, useOf, rowOf, release>>

\* A cancellation waits for the row of the run.
CancelHolder(r) ==
  /\ ~InRelease(r)
  /\ holder[r].running
  /\ holder' = [holder EXCEPT ![r].running = FALSE]
  /\ UNCHANGED <<secret, grant, useOf, rowOf, release>>
-----------------------------------------------------------------------------
(* consumeCredential *)

\* The lineage of a run: its ancestors, and whether a delegation or a fork is
\* on the way to them.
lineage[r \in LineageRuns, viaDelegation \in BOOLEAN, viaFork \in BOOLEAN] ==
  {<<r, viaDelegation, viaFork>>} \union
    LET d == viaDelegation \/ ParentOf[r] # 0
        f == viaFork \/ ForkedFrom[r] # 0
    IN  CASE ParentOf[r] # 0 -> lineage[ParentOf[r], d, f]
          [] ParentOf[r] = 0 /\ ForkedFrom[r] # 0 -> lineage[ForkedFrom[r], d, f]
          [] OTHER -> {}

Lineage(r) == lineage[r, FALSE, FALSE]

CredentialOf(g) == grant[g].policy.credential

Usable(g) ==
  /\ grant[g].created /\ grant[g].active /\ grant[g].unexpired
  /\ secret[CredentialOf(g)].active /\ secret[CredentialOf(g)].unexpired

\* A grant of the policy p reaches the run r.
BindsTo(p, r) ==
  \E l \in Lineage(r) :
    /\ l[1] = p.run
    /\ l[2] => p.delegated
    /\ l[3] => p.forks

Eligible(g, r) == Usable(g) /\ BindsTo(grant[g].policy, r)

\* ORDER BY g.created_at.
First(g, S) == g \in S /\ \A h \in S : g <= h

Owner(r, n) == holder[r].running /\ holder[r].attempt = n /\ holder[r].lease

\* The execution lock of the run, then its row and that of its attempt.
BeginRelease(x, r, n, k, p) ==
  /\ release[x].pc = "idle" /\ ~InRelease(r) /\ Owner(r, n)
  /\ release' = [release EXCEPT ![x] =
       [NoRelease EXCEPT !.pc = "locking", !.run = r, !.attempt = n, !.key = k,
                         !.approval = p, !.waiting = {g \in Grants : Eligible(g, r)}]]
  /\ UNCHANGED <<holder, secret, grant, useOf, rowOf>>

\* FOR UPDATE OF g, c, grant by grant.  A grant whose rows were revoked before
\* their locks were granted is not selected.
LockGrantRow(x) ==
  LET e == release[x] IN
  /\ e.pc = "locking" /\ e.half = 0
  /\ \E g \in Grants :
       /\ First(g, e.waiting)
       /\ rowOf[<<g, 0>>] \in {0, x}
       /\ rowOf' = [rowOf EXCEPT ![<<g, 0>>] = x]
       /\ release' = [release EXCEPT
            ![x].waiting = @ \ {g}, ![x].half = g,
            ![x].candidates = IF grant[g].active THEN @ \union {g} ELSE @]
  /\ UNCHANGED <<holder, secret, grant, useOf>>

LockCredentialRow(x) ==
  LET c == CredentialOf(release[x].half) IN
  /\ release[x].pc = "locking" /\ release[x].half # 0
  /\ rowOf[<<0, c>>] \in {0, x}
  /\ rowOf' = [rowOf EXCEPT ![<<0, c>>] = x]
  /\ release' = [release EXCEPT
       ![x].half = 0,
       ![x].candidates = {g \in @ : CredentialOf(g) = c => secret[c].active}]
  /\ UNCHANGED <<holder, secret, grant, useOf>>

Unlocked(x) == [row \in Rows |-> IF rowOf[row] = x THEN 0 ELSE rowOf[row]]

\* The transaction ends without a trace: no grant is left, the request is
\* refused, the key service fails, the session is lost, or the database breaks a
\* deadlock of two releases that lock their rows in different orders.
RollBack(x) ==
  /\ release[x].pc # "idle"
  /\ release' = [release EXCEPT ![x] = NoRelease]
  /\ rowOf' = Unlocked(x)
  /\ UNCHANGED <<holder, secret, grant, useOf>>

Approved(x, g) == grant[g].policy.approval => release[x].approval # 0
Prior(x, g) == {u \in useOf : u.grant = g /\ u.run = release[x].run /\ u.key = release[x].key}
Below(n, max) == max = 0 \/ n < max
HasUse(g) ==
  /\ Below(grant[g].uses, grant[g].policy.max)
  /\ Below(secret[CredentialOf(g)].uses, secret[CredentialOf(g)].max)

\* All rows are locked, and the attempt still holds the run.
HasRows(x) ==
  /\ release[x].pc = "locking" /\ release[x].waiting = {} /\ release[x].half = 0
  /\ Owner(release[x].run, release[x].attempt)

Choice(x, g, again) ==
  release' = [release EXCEPT ![x].pc = "opening", ![x].chosen = g, ![x].again = again]

\* Faulty variant: a retry looks at the limits before it looks for its receipt.
SelectFirstUse(x) ==
  /\ HasRows(x)
  /\ \E g \in Grants :
       /\ First(g, {h \in release[x].candidates : Approved(x, h) /\ HasUse(h)})
       /\ Choice(x, g, Prior(x, g) # {})
  /\ UNCHANGED <<holder, secret, grant, useOf, rowOf>>

\* A receipt of the same logical action first, and then a grant with a use left.
SelectGrant(x) ==
  LET approved == {g \in release[x].candidates : Approved(x, g)}
      used == {g \in approved : Prior(x, g) # {}}
      fresh == {g \in approved : HasUse(g)}
  IN  /\ HasRows(x)
      /\ \E g \in Grants :
           \/ First(g, used) /\ Choice(x, g, TRUE)
           \/ used = {} /\ First(g, fresh) /\ Choice(x, g, FALSE)
      /\ UNCHANGED <<holder, secret, grant, useOf, rowOf>>

\* openWhileStillAuthorized: the key service has answered, and everything that
\* may have expired is looked at again.
OpenWhileStillAuthorized(x) ==
  LET e == release[x] IN
  /\ e.pc = "opening"
  /\ Usable(e.chosen) /\ Owner(e.run, e.attempt)
  /\ release' = [release EXCEPT ![x].pc = "opened"]
  /\ UNCHANGED <<holder, secret, grant, useOf, rowOf>>

\* The counters and the receipt, and the commit.  A retry writes a receipt for a
\* new approval and counts no use.
CommitRelease(x) ==
  LET e == release[x]
      g == e.chosen
      c == CredentialOf(g)
  IN  /\ e.pc = "opened"
      /\ useOf' = useOf \union {[grant |-> g, run |-> e.run, key |-> e.key, approval |-> e.approval]}
      /\ IF e.again THEN UNCHANGED <<grant, secret>>
         ELSE /\ grant' = [grant EXCEPT ![g].uses = @ + 1]
              /\ secret' = [secret EXCEPT ![c].uses = @ + 1]
      /\ release' = [release EXCEPT ![x] = NoRelease]
      /\ rowOf' = Unlocked(x)
      /\ UNCHANGED holder
-----------------------------------------------------------------------------
CredentialsNext ==
  \/ \E g \in Grants : CreateCredentialGrant(g) \/ RevokeCredentialGrant(g) \/ GrantExpires(g)
  \/ \E c \in Secrets : CreateCredential(c) \/ RevokeCredential(c) \/ CredentialExpires(c)
  \/ \E r \in LineageRuns : LeaseExpires(r) \/ Replace(r) \/ CancelHolder(r)
  \/ \E x \in Releases :
       \/ \E r \in LineageRuns, n \in 1..LeaseLimit, k \in Keys, p \in {0, 1} :
            BeginRelease(x, r, n, k, p)
       \/ LockGrantRow(x) \/ LockCredentialRow(x) \/ SelectGrant(x) \/ OpenWhileStillAuthorized(x) \/ CommitRelease(x)
       \/ RollBack(x)

CredentialsSpec == CredentialsInit /\ [][CredentialsNext]_credentialVars
-----------------------------------------------------------------------------
(* Properties *)

CredentialsTypeOK ==
  /\ \A r \in LineageRuns : holder[r].attempt \in 1..LeaseLimit
  /\ \A g \in Grants : grant[g].created => grant[g].policy \in GrantPolicies
  /\ \A u \in useOf : u.grant \in Grants /\ u.run \in LineageRuns /\ u.key \in Keys
  /\ rowOf \in [Rows -> Releases \union {0}]
  /\ \A x \in Releases :
       /\ release[x].pc \in {"idle", "locking", "opening", "opened"}
       /\ release[x].waiting \union release[x].candidates \subseteq Grants

\* The uses of a grant, and of a credential, and their limits.
UsesUnder(gs) == {<<u.grant, u.run, u.key>> : u \in {v \in useOf : v.grant \in gs}}
GrantsOn(c) == {g \in Grants : grant[g].created /\ CredentialOf(g) = c}
GrantUses(g) ==
  /\ grant[g].uses = Cardinality(UsesUnder({g}))
  /\ grant[g].policy.max = 0 \/ grant[g].uses <= grant[g].policy.max

SecretUses(c) ==
  /\ secret[c].uses = Cardinality(UsesUnder(GrantsOn(c)))
  /\ secret[c].max = 0 \/ secret[c].uses <= secret[c].max

Spent(g) == ~Usable(g) \/ grant[g].policy.approval

\* The uses of a grant are the logical actions that have a receipt under it,
\* those of a credential the logical actions under all of its grants, and both
\* keep to their limits, whatever runs at the same time and whatever is retried
\* ("use counters and the secret-free receipt commit together", credentials.ts:
\* 217-219).  A logical action is charged to a second grant only when the first
\* can no longer be used, or could not without an approval (credentials.ts:371-425).
UsesAreReceipts ==
  /\ \A g \in Grants : GrantUses(g)
  /\ \A c \in Secrets : SecretUses(c)
  /\ \A u, v \in useOf :
       u.run = v.run /\ u.key = v.key /\ u.grant # v.grant => Spent(u.grant) \/ Spent(v.grant)

\* A release of a secret is committed only for the attempt that holds the run
\* at that moment, and only with a grant and a credential that are not revoked
\* ("cannot race cancellation", credentials.ts:427-428).
Entitled(x) ==
  LET e == release[x] IN
  /\ holder[e.run].running /\ holder[e.run].attempt = e.attempt
  /\ grant[e.chosen].active /\ secret[CredentialOf(e.chosen)].active

ReleasedToTheOwnerOnly ==
  [][\A x \in Releases :
       release[x].pc = "opened" /\ release'[x].pc = "idle" /\ useOf' # useOf =>
         Entitled(x)]_credentialVars
=============================================================================
