----------------------------- MODULE Delegation -----------------------------
(***************************************************************************)
(* The runs of one tenant: admission, delegation to child runs, their      *)
(* replacement and resolution, and the tokens they are given and spend.    *)
(*                                                                         *)
(* STARTING is part of RUNNING and so is VERIFYING; the waits for          *)
(* approvals and signals are left out.  A transaction that holds the row   *)
(* of the tenant is one step.  `delegate' gives a child no grants, so a    *)
(* replacement inherits none.  A budget that is not set is Null.           *)
(* MaxRuns and MaxClaims bound the model.                                  *)
(***************************************************************************)
EXTENDS Integers, Sequences, FiniteSets, FiniteSetsExt, SequencesExt, RunStates

CONSTANTS
  MaxRuns,
  MaxClaims,             \* attempts of a run
  MaxAttempts,           \* cfg.MAX_ATTEMPTS
  Workers,               \* workers resolving parents
  CandidateLimit,        \* LIMIT of wakeReadyParents
  MaxChildReplacements,  \* cfg.MAX_CHILD_REPLACEMENTS
  FanOut,                \* subtasks of a delegation
  MaxConcurrent,         \* tenants.max_concurrent_runs, or Null
  DailyBudget,           \* tenants.daily_token_budget, or Null
  Budgets,               \* body.tokenBudget of POST /runs, when given
  InputCeiling,          \* the prompt's inputTokenCeiling
  OutputCap,             \* cfg.MODEL_MAX_OUTPUT_TOKENS
  LongLedgers            \* runs that may record more events than listEvents reads

Null == -1
None == 0
Runs == 1..MaxRuns
Claims == 1..MaxClaims

ASSUME DelegationAssumption ==
  /\ {MaxRuns, MaxClaims, MaxAttempts, CandidateLimit, FanOut} \subseteq Nat \ {0}
  /\ {MaxChildReplacements, InputCeiling, OutputCap} \subseteq Nat
  /\ {MaxConcurrent, DailyBudget} \subseteq Nat \union {Null}
  /\ Budgets \subseteq Nat \ {0}
  /\ LongLedgers \subseteq Runs

VARIABLES
  run,           \* runs: status, parent, replaces, generation, budget, used, attempt
  admission,     \* run_admissions: state, reserved
  tenantActive,  \* tenants.status
  usedToday,     \* tokens of today's ModelInvocationCompleted events
  call,          \* the provider call that holds the run's lock: its limit
  looked,        \* epochs that found no ChildrenResolved: attempt, tokens used
  resolved,      \* the ChildrenResolved events of a run: the runs selected
  longLedger,    \* runs whose first page of events is full
  unseen,        \* runs whose first ChildrenResolved is not on that page
  deferred,      \* reasons of the ChildReplacementDeferred events of a run
  updated,       \* the waiting parents in the order of updated_at
  resolver       \* wakeReadyParents in each worker

delegationVars == <<run, admission, tenantActive, usedToday, call, looked,
                    resolved, longLedger, unseen, deferred, updated, resolver>>
ledgerVars == <<looked, resolved, longLedger, unseen, deferred>>

NoRun == [status |-> "absent", parent |-> None, replaces |-> None,
          generation |-> 0, budget |-> Null, used |-> 0, attempt |-> 0]
NoAdmission == [state |-> "none", reserved |-> 0]
NoCall == Null
IdleResolver == [pc |-> "idle", todo |-> <<>>]

DelegationInit ==
  /\ run = [r \in Runs |-> NoRun]
  /\ admission = [r \in Runs |-> NoAdmission]
  /\ tenantActive = TRUE
  /\ usedToday = 0
  /\ call = [r \in Runs |-> NoCall]
  /\ looked = [r \in Runs |-> {}]
  /\ resolved = [r \in Runs |-> <<>>]
  /\ longLedger = {}
  /\ unseen = {}
  /\ deferred = [r \in Runs |-> {}]
  /\ updated = <<>>
  /\ resolver = [w \in Workers |-> IdleResolver]

-----------------------------------------------------------------------------
(* The lineage of a run.                                                   *)

Exists(r) == run[r].status \in RunStatus
Ended(r) == Exists(r) /\ isTerminal(run[r].status)
Live(r) == Exists(r) /\ ~isTerminal(run[r].status)
ChildrenOf(p) == {c \in Runs : Exists(c) /\ run[c].parent = p}
Superseded(r) == \E s \in Runs : run[s].replaces = r

\* rootOf: the run that first took a subtask.
rootOf[r \in Runs] ==
  IF run[r].replaces \in 1..(r - 1) THEN rootOf[run[r].replaces] ELSE r

Lineage(r) == {s \in Runs : Exists(s) /\ rootOf[s] = rootOf[r]}

\* The sum of f over the runs of S.
SumOver(S, f) ==
  LET sum[n \in 0..MaxRuns] ==
        IF n = 0 THEN 0 ELSE sum[n - 1] + (IF n \in S THEN f[n] ELSE 0)
  IN sum[MaxRuns]

\* The numbers of S in order, and what a sequence has at those places.
InOrder(S) == [i \in 1..Cardinality(S) |->
                 CHOOSE n \in S : Cardinality({k \in S : k < n}) = i - 1]
Picked(s, places) == [i \in 1..Cardinality(places) |-> s[InOrder(places)[i]]]
Without(s, p) == Picked(s, {i \in DOMAIN s : s[i] # p})

\* childLineageProjection: the outcome of each subtask is its current run's.
Selected(p) == {c \in ChildrenOf(p) : ~Superseded(c)}

-----------------------------------------------------------------------------
(* Admission.  A transaction that creates runs is a function of the rows   *)
(* it finds to the rows it leaves, t; it stops at the first rejection.     *)

NextRun(t) == CHOOSE r \in Runs :
                /\ t.run[r] = NoRun
                /\ \A s \in Runs : t.run[s] = NoRun => r <= s
Room(n) == Cardinality({r \in Runs : run[r] = NoRun}) >= n

Tables == [run |-> run, admission |-> admission, rejected |-> "none"]

\* Active reservations, those of ended runs reconciled.
ActiveIn(t) == {r \in Runs : t.admission[r].state = "active"
                             /\ ~isTerminal(t.run[r].status)}

\* Faulty variant: only what was spent today counts, not what is reserved.
AvailableUnreserved(t) == DailyBudget - usedToday

\* What is left of today's tokens once every active reservation is spent.
Available(t) ==
  DailyBudget - usedToday
  - SumOver(ActiveIn(t),
      [r \in Runs |-> Max({t.admission[r].reserved - t.run[r].used, 0})])

\* The hard budget of a run: what it asked for or all that is available.
Reservation(t, requested) ==
  IF requested = Null /\ DailyBudget # Null THEN Available(t) ELSE requested

\* prepareRunAdmission: why a run is rejected, or "none".
prepareRunAdmission(t, requested) ==
  CASE ~tenantActive -> "tenant_unavailable"
    [] MaxConcurrent # Null /\ Cardinality(ActiveIn(t)) >= MaxConcurrent ->
         "concurrency_exhausted"
    [] requested # Null /\ requested <= 0 -> "token_capacity_exhausted"
    [] DailyBudget # Null /\ Reservation(t, requested) \notin 1..Available(t) ->
         "token_capacity_exhausted"
    [] OTHER -> "none"

\* createRun: the admission, then the run, committed as QUEUED.
createRun(t, new) ==
  LET r == NextRun(t)
      budget == Reservation(t, new.budget)
      reason == prepareRunAdmission(t, new.budget) IN
  IF t.rejected # "none" THEN t
  ELSE IF reason # "none" THEN [t EXCEPT !.rejected = reason]
  ELSE [t EXCEPT
          !.run[r] = [NoRun EXCEPT !.status = "QUEUED", !.parent = new.parent,
                                   !.replaces = new.replaces, !.budget = budget,
                                   !.generation = new.generation],
          !.admission[r] = [state |-> "active",
                            reserved |-> IF budget = Null THEN 0 ELSE budget]]

\* One run after the other.
createRuns(news) ==
  LET t[i \in 0..Len(news)] ==
        IF i = 0 THEN Tables ELSE createRun(t[i - 1], news[i])
  IN t[Len(news)]

Creates(t) == run' = t.run /\ admission' = t.admission

\* POST /runs.
CreateDirectRun(budget) ==
  LET t == createRun(Tables, [parent |-> None, replaces |-> None,
                              generation |-> 0, budget |-> budget]) IN
  /\ Room(1)
  /\ t.rejected = "none"
  /\ Creates(t)
  /\ UNCHANGED <<tenantActive, usedToday, call, ledgerVars, updated, resolver>>

\* POST /fork: a run branched from s, which may have ended, and which gives it
\* its budget unless the body does.
ForkRun(s) ==
  /\ Exists(s)
  /\ \E budget \in Budgets \union {run[s].budget} : CreateDirectRun(budget)

\* The tenant is suspended or reactivated.
TenantChanges ==
  /\ tenantActive' = ~tenantActive
  /\ UNCHANGED <<run, admission, usedToday, call, ledgerVars, updated, resolver>>

\* The UTC day ends: today's usage starts at zero.
Midnight ==
  /\ usedToday > 0
  /\ usedToday' = 0
  /\ UNCHANGED <<run, admission, tenantActive, call, ledgerVars, updated, resolver>>

-----------------------------------------------------------------------------
(* The life of a run.                                                      *)

\* A terminal transition waits for the run's provider call.
MayMove(r, to) == Live(r) /\ (isTerminal(to) => call[r] = NoCall)

\* An ended run releases its reservation in the same transaction.
AdmissionAfter(r, to) ==
  IF isTerminal(to) THEN [admission EXCEPT ![r].state = "released"] ELSE admission

transitionRun(r, from, to) ==
  /\ run[r].status \in from
  /\ MayMove(r, to)
  /\ run' = [run EXCEPT ![r].status = to]
  /\ admission' = AdmissionAfter(r, to)
  /\ updated' = Without(updated, r)

\* A run is claimed: one more attempt.
claimRun(r) ==
  /\ run[r].status = "QUEUED"
  /\ run[r].attempt < MaxClaims
  /\ run' = [run EXCEPT ![r].status = "RUNNING", ![r].attempt = @ + 1]
  /\ UNCHANGED <<admission, tenantActive, usedToday, call, ledgerVars, updated,
                 resolver>>

\* The end an executing run comes to: its result, a definitive failure, or,
\* when no token is left for another call, the budget's.
Finish(r, to) ==
  /\ to \in {"COMPLETED", "FAILED"}
  /\ transitionRun(r, {"RUNNING"}, to)
  /\ UNCHANGED <<tenantActive, usedToday, call, ledgerVars, resolver>>

\* The lease of the attempt expires or its epoch throws.  The reaper skips a
\* run with a provider call in flight and the settlement waits for it.
AttemptFails(r) ==
  /\ call[r] = NoCall
  /\ transitionRun(r, {"RUNNING"},
       IF run[r].attempt >= MaxAttempts THEN "FAILED" ELSE "QUEUED")
  /\ UNCHANGED <<tenantActive, usedToday, call, ledgerVars, resolver>>

\* POST /runs/:runId/cancel
Cancel(r) ==
  /\ transitionRun(r, RunStatus, "CANCELLED")
  /\ UNCHANGED <<tenantActive, usedToday, call, ledgerVars, resolver>>

\* The run records more events than the first page of listEvents holds.
LedgerGrows(r) ==
  /\ r \in LongLedgers \ longLedger
  /\ run[r].status = "RUNNING"
  /\ longLedger' = longLedger \union {r}
  /\ UNCHANGED <<run, admission, tenantActive, usedToday, call, looked, resolved,
                 unseen, deferred, updated, resolver>>

-----------------------------------------------------------------------------
(* Model calls and their tokens.                                           *)

\* limitModelInvocation: the most a call may spend, or Null when the prompt
\* leaves no room for an answer.
limitModelInvocation(r) ==
  LET capacity == run[r].budget - run[r].used - InputCeiling IN
  IF run[r].budget = Null THEN InputCeiling + OutputCap
  ELSE IF capacity <= 0 THEN Null
  ELSE InputCeiling + Min({OutputCap, capacity})

\* The owner of a running run takes its lock and calls the provider.
beginModelInvocation(r) ==
  /\ run[r].status = "RUNNING"
  /\ call[r] = NoCall
  /\ limitModelInvocation(r) # Null
  /\ call' = [call EXCEPT ![r] = limitModelInvocation(r)]
  /\ UNCHANGED <<run, admission, tenantActive, usedToday, ledgerVars, updated,
                 resolver>>

\* The answer's usage is added, whoever owns the run by now.
completeModelInvocation(r, tokens) ==
  /\ call[r] # NoCall
  /\ tokens \in 1..call[r]
  /\ run' = [run EXCEPT ![r].used = @ + tokens]
  /\ usedToday' = usedToday + tokens
  /\ call' = [call EXCEPT ![r] = NoCall]
  /\ UNCHANGED <<admission, tenantActive, ledgerVars, updated, resolver>>

\* The worker or its database session is lost during the call: the lock is
\* free, and what the provider spent is recorded nowhere.
InvocationLost(r) ==
  /\ call[r] # NoCall
  /\ call' = [call EXCEPT ![r] = NoCall]
  /\ UNCHANGED <<run, admission, tenantActive, usedToday, ledgerVars, updated, resolver>>

-----------------------------------------------------------------------------
(* Delegation.                                                             *)

\* delegate: no ChildrenResolved on the first page of the ledger, so the
\* epoch will spawn.  It knows the tokens used at its own last model call.
DelegateLooks(r) ==
  /\ run[r].status = "RUNNING"
  /\ call[r] = NoCall
  /\ resolved[r] = <<>> \/ r \in unseen
  /\ \A l \in looked[r] : l.attempt # run[r].attempt
  /\ looked' = [looked EXCEPT ![r] =
                  @ \union {[attempt |-> run[r].attempt, used |-> run[r].used]}]
  /\ UNCHANGED <<run, admission, tenantActive, usedToday, call, resolved,
                 longLedger, unseen, deferred, updated, resolver>>

\* The share of each of n subtasks, at least one token.
childBudget(r, used, n) ==
  IF run[r].budget = Null THEN Null
  ELSE Max({1, Max({0, run[r].budget - used}) \div n})

Spawned(r, l, n) ==
  createRuns([i \in 1..n |-> [parent |-> r, replaces |-> None, generation |-> 0,
                              budget |-> childBudget(r, l.used, n)]])

\* spawnChildren: the children and the parent's wait, or nothing.  Which
\* attempt owns the run is not asked.
spawnChildren(r, l, n) ==
  LET t == Spawned(r, l, n) IN
  /\ l \in looked[r]
  /\ Room(n)
  /\ run[r].status = "RUNNING"
  /\ t.rejected = "none"
  /\ Creates([t EXCEPT !.run[r].status = "WAITING_CHILDREN"])
  /\ updated' = Append(updated, r)
  /\ looked' = [looked EXCEPT ![r] = @ \ {l}]
  /\ UNCHANGED <<tenantActive, usedToday, call, resolved, longLedger, unseen,
                 deferred, resolver>>

\* The delegation is rejected or refused: the epoch throws.
DelegationThrows(r, l) ==
  /\ l \in looked[r]
  /\ \/ run[r].status # "RUNNING"
     \/ \E n \in 1..FanOut : Room(n) /\ Spawned(r, l, n).rejected # "none"
  /\ looked' = [looked EXCEPT ![r] = @ \ {l}]
  /\ UNCHANGED <<run, admission, tenantActive, usedToday, call, resolved,
                 longLedger, unseen, deferred, updated, resolver>>

-----------------------------------------------------------------------------
(* Resolution, in the loop of each worker.                                 *)

\* A parent that waits for children which have all ended.
Resolvable(p) ==
  run[p].status = "WAITING_CHILDREN" /\ \A c \in ChildrenOf(p) : Ended(c)

\* The first pending parents, read without a lock.
wakeReadyParents(w) ==
  LET ready == Picked(updated, {i \in DOMAIN updated : Resolvable(updated[i])})
      n == Min({CandidateLimit, Len(ready)}) IN
  /\ resolver[w].pc = "idle"
  /\ ready # <<>>
  /\ resolver' = [resolver EXCEPT ![w] = [pc |-> "listed",
                                          todo |-> SubSeq(ready, 1, n)]]
  /\ UNCHANGED <<run, admission, tenantActive, usedToday, call, ledgerVars,
                 updated>>

\* The parent whose transaction the worker is in.
Parent(w) == Head(resolver[w].todo)

\* On to the next candidate, or the end of the pass.
NextCandidate(w) ==
  IF Len(resolver[w].todo) = 1 THEN IdleResolver
  ELSE [pc |-> "listed", todo |-> Tail(resolver[w].todo)]

\* The advisory lock of the candidate, or the next one.
TryParent(w) ==
  LET taken == \E v \in Workers : resolver[v].pc = "locked" /\ Parent(v) = Parent(w) IN
  /\ resolver[w].pc = "listed"
  /\ resolver' = [resolver EXCEPT ![w] =
                    IF taken THEN NextCandidate(w) ELSE [@ EXCEPT !.pc = "locked"]]
  /\ UNCHANGED <<run, admission, tenantActive, usedToday, call, ledgerVars,
                 updated>>

\* Faulty variant: the list is believed.
ClaimedAsListed(p) == run[p].status = "WAITING_CHILDREN"

\* The claim asks again what the list asked.
Claimed(p) == Resolvable(p)

\* Faulty variant: a run that has been replaced counts as a failed subtask.
ReplaceableOfAll(p) ==
  {c \in ChildrenOf(p) :
     /\ run[c].status = "FAILED"
     /\ run[c].generation < MaxChildReplacements
     /\ run[c].budget = Null \/ run[c].budget > run[c].used}

\* Failed subtasks below the cap that have tokens left.
Replaceable(p) ==
  {c \in Selected(p) :
     /\ run[c].status = "FAILED"
     /\ run[c].generation < MaxChildReplacements
     /\ run[c].budget = Null \/ run[c].budget > run[c].used}

\* Faulty variant: the replacement is given the budget of the failed run.
WholeBudget(c) == run[c].budget

\* A replacement is given what the failed run has left.
RemainingBudget(c) ==
  IF run[c].budget = Null THEN Null ELSE run[c].budget - run[c].used

Replacements(p) ==
  createRuns([i \in 1..Cardinality(Replaceable(p)) |->
    LET c == InOrder(Replaceable(p))[i] IN
    [parent |-> p, replaces |-> c, generation |-> run[c].generation + 1,
     budget |-> RemainingBudget(c)]])

\* Any event of a waiting parent moves it behind the others.
Touched(p) == Append(Without(updated, p), p)

\* The claim fails: the parent is another worker's, or no longer waits.
ParentSkipped(w) ==
  /\ resolver[w].pc = "locked"
  /\ ~Claimed(Parent(w))
  /\ resolver' = [resolver EXCEPT ![w] = NextCandidate(w)]
  /\ UNCHANGED <<run, admission, tenantActive, usedToday, call, ledgerVars,
                 updated>>

\* Every failed subtask is replaced and the parent keeps waiting.
ChildrenReplaced(w) ==
  LET p == Parent(w)
      t == Replacements(p) IN
  /\ resolver[w].pc = "locked"
  /\ Claimed(p)
  /\ Replaceable(p) # {}
  /\ Room(Cardinality(Replaceable(p)))
  /\ t.rejected = "none"
  /\ Creates(t)
  /\ updated' = Touched(p)
  /\ resolver' = [resolver EXCEPT ![w] = IdleResolver]
  /\ UNCHANGED <<tenantActive, usedToday, call, ledgerVars>>

\* Faulty variant: a deferral whose reason is on record leaves updated_at.
DeferredWithoutRotation(p, reason) ==
  updated' = IF reason \in deferred[p] THEN updated ELSE Touched(p)

DeferralRotates(p, reason) == updated' = Touched(p)

\* The tenant has no room: the savepoint is rolled back, the reason is
\* recorded once and the parent goes behind the others.
ReplacementDeferred(w) ==
  LET p == Parent(w)
      reason == Replacements(p).rejected IN
  /\ resolver[w].pc = "locked"
  /\ Claimed(p)
  /\ Replaceable(p) # {}
  /\ ~tenantActive \/ Room(Cardinality(Replaceable(p)))
  /\ reason # "none"
  /\ deferred' = [deferred EXCEPT ![p] = @ \union {reason}]
  /\ DeferralRotates(p, reason)
  /\ resolver' = [resolver EXCEPT ![w] = NextCandidate(w)]
  /\ UNCHANGED <<run, admission, tenantActive, usedToday, call, looked, resolved,
                 longLedger, unseen>>

\* No subtask is replaceable: the parent is queued with their outcomes.
ChildrenResolved(w) ==
  LET p == Parent(w) IN
  /\ resolver[w].pc = "locked"
  /\ Claimed(p)
  /\ Replaceable(p) = {}
  /\ transitionRun(p, {"WAITING_CHILDREN"}, "QUEUED")
  /\ resolved' = [resolved EXCEPT ![p] = Append(@, Selected(p))]
  /\ unseen' = IF resolved[p] = <<>> THEN unseen \union ({p} \intersect longLedger)
               ELSE unseen
  /\ resolver' = [resolver EXCEPT ![w] = IdleResolver]
  /\ UNCHANGED <<tenantActive, usedToday, call, looked, longLedger, deferred>>

\* The worker is lost: its transaction is rolled back.
ResolverCrashes(w) ==
  /\ resolver[w].pc # "idle"
  /\ resolver' = [resolver EXCEPT ![w] = IdleResolver]
  /\ UNCHANGED <<run, admission, tenantActive, usedToday, call, ledgerVars,
                 updated>>

Resolve(w) ==
  \/ wakeReadyParents(w) \/ TryParent(w)
  \/ ParentSkipped(w) \/ ChildrenReplaced(w) \/ ReplacementDeferred(w)
  \/ ChildrenResolved(w) \/ ResolverCrashes(w)

RunMoves(r) ==
  \/ claimRun(r) \/ AttemptFails(r) \/ Cancel(r) \/ LedgerGrows(r)
  \/ \E to \in {"COMPLETED", "FAILED"} : Finish(r, to)
  \/ beginModelInvocation(r)
  \/ \E tokens \in 1..call[r] : completeModelInvocation(r, tokens)
  \/ InvocationLost(r)
  \/ DelegateLooks(r)
  \/ \E l \in looked[r] : \/ \E n \in 1..FanOut : spawnChildren(r, l, n)
                          \/ DelegationThrows(r, l)

DelegationNext ==
  \/ \E budget \in Budgets \union {Null} : CreateDirectRun(budget)
  \/ TenantChanges \/ Midnight
  \/ \E r \in Runs : ForkRun(r) \/ RunMoves(r)
  \/ \E w \in Workers : Resolve(w)

DelegationSpec == DelegationInit /\ [][DelegationNext]_delegationVars

-----------------------------------------------------------------------------
(* Properties.                                                             *)

\* Every variable of delegation and admission has its type.
DelegationTypeOK ==
  /\ \A r \in Runs :
       /\ run[r].status \in RunStatus \union {"absent"}
       /\ {run[r].parent, run[r].replaces} \subseteq 0..(r - 1)
       /\ run[r].generation \in 0..MaxChildReplacements
       /\ run[r].budget \in Nat \union {Null} /\ run[r].used \in Nat
       /\ run[r].attempt \in 0..MaxClaims
       /\ admission[r].state \in {"none", "active", "released"}
       /\ admission[r].reserved \in Nat
       /\ call[r] \in Nat \union {NoCall}
       /\ \A l \in looked[r] : l.attempt \in Claims /\ l.used \in Nat
       /\ \A i \in DOMAIN resolved[r] : resolved[r][i] \subseteq Runs
       /\ deferred[r] \subseteq {"tenant_unavailable", "concurrency_exhausted",
                                "token_capacity_exhausted"}
  /\ tenantActive \in BOOLEAN /\ usedToday \in Nat
  /\ longLedger \subseteq LongLedgers /\ unseen \subseteq longLedger
  /\ \A p \in Runs : run[p].status = "WAITING_CHILDREN"
                       <=> p \in ToSet(updated)
  /\ \A w \in Workers : resolver[w].pc \in {"idle", "listed", "locked"}
                         /\ resolver[w].todo \in Seq(Runs)

\* However many workers resolve a parent (wakeReadyParents), a subtask has one
\* current run: a run is replaced once, after it failed, and nothing of its
\* lineage runs beside its replacement.
OneCurrentRunPerSubtask ==
  \A r \in Runs : Exists(r) =>
    /\ Cardinality({s \in Runs : run[s].replaces = r}) <= 1
    /\ Superseded(r) => run[r].status = "FAILED"
    /\ run[r].replaces # None =>
         /\ run[r].generation = run[run[r].replaces].generation + 1
         /\ run[r].parent = run[run[r].replaces].parent

\* ChildrenResolved carries one final outcome of every subtask: the runs it
\* names have ended, no two of them are of one subtask, none is replaced
\* afterwards, and a parent that is not waiting has them all.
OutcomesAreFinal ==
  \A p \in Runs :
    /\ \A i \in DOMAIN resolved[p] : \A c \in resolved[p][i] :
         /\ Ended(c) /\ ~Superseded(c)
         /\ \A d \in resolved[p][i] : rootOf[c] = rootOf[d] => c = d
    /\ run[p].status \in {"QUEUED", "RUNNING"} /\ ChildrenOf(p) # {} =>
         resolved[p] # <<>> /\ Last(resolved[p]) = Selected(p)

\* Whatever is retried and replaced, the runs of one subtask together record
\* no more tokens than the subtask was given (limitModelInvocation, the
\* budgets of replacements), if the provider keeps to its limits.
SubtaskWithinBudget ==
  \A r \in Runs : Exists(r) /\ run[rootOf[r]].budget # Null =>
    SumOver(Lineage(r), [s \in Runs |-> run[s].used]) <= run[rootOf[r]].budget

\* Creation, forks, delegation and replacement share one count: exactly the
\* live runs hold a reservation, there are no more of them than the tenant may
\* have, and what was recorded today and what they may still spend fits the
\* daily budget, through failures, replacements and midnight
\* (prepareRunAdmission, releaseRunAdmission).
AdmittedWithinLimits ==
  LET live == {r \in Runs : Live(r)}
      left == [r \in Runs |-> Max({run[r].budget - run[r].used, 0})]
  IN /\ {r \in Runs : admission[r].state = "active"} = live
     /\ MaxConcurrent # Null => Cardinality(live) <= MaxConcurrent
     /\ DailyBudget # Null => usedToday + SumOver(live, left) <= DailyBudget

\* The delegate tool spawns once; after the children have ended it returns
\* their outcomes: "On resume - after all children are terminal - returns
\* their outcomes" (toolRouter.ts:622-623).
DelegatesOnce ==
  \A p \in Runs : resolved[p] # <<>> => run[p].status # "WAITING_CHILDREN"
=============================================================================
