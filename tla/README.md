# A TLA+ model of the managed-agents runtime

The runtime executes agent runs durably: every authoritative fact is a row in
Postgres, workers are disposable, and a run survives the loss of its worker, of its
sandbox, of a database session or of the answer of an external system. The modules
of this directory model the parts of it whose correctness depends on *who does what
in which order*, check them with TLC on small instances, and prove the most
important facts with TLAPS for every instance.

Paths are relative to the repository; `src/` is its TypeScript source.

## 1. Inventory

| Component | State | Operations | Why it is hard | What makes it correct |
| --- | --- | --- | --- | --- |
| Run state machine (`core/stateMachine.ts`, `core/transition.ts`) | `runs.status`, the event ledger, the outbox | `transitionRun`, `appendEvent` | every process of the system calls it; a terminal transition must wait for the provider call of the run | only legal edges, terminal means terminal, nothing finishes under a call in flight |
| Scheduler (`scheduler/claim.ts`, `scheduler/reaper.ts`, `store/attempts.ts`) | `run_attempts`, leases | claim, heartbeat, reap | a lease expires while its worker is alive, slow, or in a provider call | an executing run always has one newest ACTIVE attempt, and it can be recovered |
| Worker (`harness/worker.ts`) | the epoch in memory | `executeClaimed`, heartbeat timer, `settleAttempt` | it may die at every `await`; the settlement may be refused | the run leaves its execution status and its attempt is released |
| Epoch (`harness/epoch.ts`) | transcript, step, abort signal, the model invocation lock | model call, tool calls, verification, suspension | runs for hours beside its own replacement | one provider call per run at a time, and only by the owner |
| Governed actions (`harness/governedAction.ts`, `store/{receipts,approvals,grants}.ts`) | receipts, approvals, grants, a session lock per key | `executeGovernedAction` | crash, timeout or session loss between request and receipt; recovery by another attempt or another run | at most one effect per action, a durable record before it, an approval of the run's own |
| Run API (`api/routes/runs.ts`) | — | create, fork, cancel, decide, signal | reads the run without a lock, then acts | a decision is never lost, a cancellation fences the worker |
| Managed sessions (`store/{sessions,sessionEvents}.ts`) | session row, inbound events | create, receive, dispatch, cancel | repeated and concurrent events; workers that skip locked rows; two lock orders | an event is accepted once and dispatched once, in order; one top-level run |
| Signals and resumption (`harness/toolRouter.ts`, `store/checkpoints.ts`) | the awaited signal, checkpoints with a pending call | `waitForSignal`, delivery, `saveCheckpoint` | the check, the transition and the checkpoint are three transactions | a delivered signal is neither lost nor answered twice |
| Delegation and admission (`scheduler/children.ts`, `store/{runs,admissions}.ts`) | child runs, tenant capacity, budgets | `spawnChildren`, `wakeReadyParents`, `createRun` | several workers resolve one parent; budgets split and inherited | every subtask ends with one outcome, capacity is counted once |
| Budgets and supervisor (`harness/{limits,supervisor,supervision}.ts`, `store/modelUsage.ts`) | tokens used, windows of actions and progress | limit, record, detect, escalate | usage of stale calls; windows restored from old checkpoints | no call beyond the budget; a loop is ended |
| Workspaces, artifacts (`harness/{workspace,artifacts}.ts`, `store/{workspaces,artifacts}.ts`) | head revision, artifact rows, objects | snapshot, restore, stage, create | three stores are written one after the other; a stale worker writes too | the head holds the work of the checkpoint; artifacts are those of the completion |
| Event ledger, outbox and relay (`store/{events,outbox}.ts`, `bin/relay.ts`) | `run_events`, unpublished rows | append, drain, poll, stream | crash between publish and commit; readers that resume by number | at least once; readers get every event, in order |
| Credentials (`store/credentials.ts`) | credentials, grants, uses | create, grant, revoke, consume | one long transaction that waits for row locks while leases, grants and runs end | a use per logical action, within its limits, for the owner only |
| Rate limit, authentication (`api/{auth,rateLimit,server}.ts`, `store/tenants.ts`) | tenants, keys, token buckets | authenticate, admit | several nodes, one row; elapsed time | what is admitted is bounded by burst and rate |
| Tool connectors (`harness/{toolRouter,mcp}.ts`, `net/safeHttp.ts`) | — | validate, resolve, connect, redirect | names that resolve elsewhere at the next look; redirects | each hop goes where it was checked to go |
| Providers (`providers/`) | sandboxes, functions, files, objects of external systems | create, kill, write, delete, retry | answers are lost after the request was applied; listings lag | nothing foreign is deleted, a file is whole, evidence is true |
| Scripted epoch (`harness/scriptedEpoch.ts`) | program counter in the checkpoint | gates, checkpoints | crash between a gate and its checkpoint | no completion past an open gate |
| Knowledge bindings (`store/knowledgeBindings.ts`, `bin/knowledgeAdmin.ts`) | coordinates, revision, verification | bind, disable, verify, search | a verification takes a provider call | a search goes to verified coordinates |
| Export (`export/runBundle.ts`) | — | export, import | many statements, no transaction, a live run | what is exported holds together |
| Agents, contracts, release and operations tools | — | registries, checks | data, not control | out of scope, see section 7 |

How they interact: the API and the workers share nothing but Postgres. A worker
polls (reap, resolve parents, dispatch session events, claim) and then executes one
epoch; the epoch calls the model under a session lock of the run and connectors
under a session lock of the action's key, and writes the run's suspensions itself;
the worker settles the attempt afterwards. Approvals, signals, children and session
events put a waiting run back into the queue. Heartbeats abort an epoch whose
attempt is no longer ACTIVE; nothing else reaches into an epoch.

## 2. Modules

| Module | Role |
| --- | --- |
| `RunStates` | the transition table of `stateMachine.ts`, shared |
| `DurableRun` | abstract: what the kernel promises of one run |
| `RunLifecycle` | one run, its attempts, and every process that moves it |
| `ExternalEffect` | abstract: what the kernel promises of one external action |
| `GovernedAction` | one action key, executed by the attempts of a replacement lineage |
| `Suspension` | waiting for a signal, its delivery, and resumption from a checkpoint |
| `Checkpoints` | what an epoch leaves for the next one: transcript, workspace head, checkpoint, artifacts |
| `Supervisor` | the semantic supervisor over crashing and restored workers |
| `Credentials` | the release of a secret, lock by lock |
| `ScriptedEpoch` | the epoch that interprets a script |
| `Sessions` | managed sessions: receipt, dispatch and cancellation as transactions with row locks |
| `Delegation` | a tenant's runs: admission, delegation, replacement, budgets |
| `Outbox` | the ledger's ways out: relays, polls and streams |
| `FencePool` | the connections of a worker and the permits in front of them |
| `RateLimits` | authentication and the token buckets |
| `Sandboxes`, `PrivateShell`, `Provisioning`, `ObjectStore` | the adapters whose requests have ambiguous failures |
| `Egress` | one request of the HTTP connector through all its hops |
| `KnowledgeBindings` | one binding, its verifications and searches |
| `RunExport` | the export of a live run |
| `MCRunLifecycle`, `MCGovernedAction`, `MCSuspension`, `MCSessions`, `MCDelegation`, `MCEpoch`, `MCPlatform` | the instances TLC checks |
| `RunLifecycle_proofs`, `GovernedAction_proofs`, `Sessions_proofs`, `Delegation_proofs` | theorems about the module of that name |
| `Epoch_proofs` | theorems about `Suspension`, `Checkpoints`, `ScriptedEpoch`, `Supervisor`, `Credentials` |
| `Database_proofs` | theorems about `Outbox`, `FencePool`, `RunExport` |
| `Services_proofs` | theorems about `KnowledgeBindings`, `RateLimits`, `Sandboxes`, `Provisioning`, `Egress`, `PrivateShell`, `ObjectStore` |
| `FiniteFacts` | lemmas about finite sets of numbers that several of these need |

The module of a component states its type invariant (`TypeOK`, or `<Module>TypeOK`).
They belong to the proofs (section 4); apart from that the runs check what could be
wrong in the code.

Definitions that begin with the comment "Faulty variant" are plausible bugs of the
definition that follows them. They belong to no specification; replacing the
definition by its variant makes a named property fail.

### How the modules are composed

Components that share state are one module: `Sessions` contains the transitions of
the runs it meets, `Delegation` the epochs that spend tokens, `GovernedAction` the
attempts, the approvals and the provider, `Checkpoints` the attempts and the three
stores. Components that share none are checked beside each other: `MCEpoch` and
`MCPlatform` extend several modules, and a behaviour belongs to one of them, its
`scope`; the variables of the others stay at their initial values. One run then has
the sum of the state spaces and not their product, and no behaviour is lost but
those that the bounds in section 3 name. The same run, claim, requeue and transition
appear in several modules, each time cut down to what that component can tell apart;
`RunLifecycle` is the one that has them in full.

### RunLifecycle

State: `status`, `currentAttempt` (the run's row); `lastAttempt`, `attemptState`,
`expired` (its attempts); `epoch`, `aborted` (where each worker is, and its abort
signal); `modelLock` (the session lock MODEL_INVOCATION); `cancelRead` (the row a
cancellation has read). An attempt is named by its `attempt_no`; an epoch is
identified with its attempt, so the fleet is unbounded and any number of stale
epochs run beside the current one.

Every database transaction is one action; what a process read before it is
remembered in `epoch` or `cancelRead` and may be stale. `epoch[a]` names the `await`
the worker is at (the comment in the module lists them). The actions follow the
code: `claimRun`, `reapExpiredLeases` (with `ReapTransition`), `heartbeatAttempt`;
`StartEpoch`, `EpochThrows`, `Crash`, `Shutdown`, `settleAttempt` (with
`SettleTransition`, `SettleRefused`) of `worker.ts`; `beginModelInvocation`,
`completeModelInvocation`, `ModelCallThrows`, `LockSessionLost` for the provider
call; the suspensions, `GiveUp` and the three steps of `finishRun`; `WakeRun`,
`CancelReads`/`CancelCommits` and `fenceManagedSessionRuns` for the API.

Abstractions worth knowing. A tool call that leaves the run alone is one step,
`ToolReturns`. The budget is a choice (`OutOfBudget`), not a number. The three
`suspended_*` reasons, `completed` and `failed` are one reason, `left`, because
`settleAttempt` treats them alike. Saving the final checkpoint and removing the
sandbox are one step, `EpochReturns`, which `EpochThrows` may replace. `EpochThrows`
is enabled at every await of a live epoch, which covers each refused transition as
well as failing infrastructure. `claimRun`'s insertion and its transition are one
transaction and one step. Creation starts the model in QUEUED because `createRun`
commits CREATED to QUEUED at once. SLEEPING, SUSPENDED and RETRY_PENDING have edges
in the table but no writer in the code, so no action leads there.

### GovernedAction

State: what a connector declares (`recovery`, `requiresApproval`, `requireGrant`,
whether the action is a `mutation`, whether its URL is of a `privateHost`), the
matching `grant` (usable, used up or expired), the lineage's newest run, its
status and newest attempt, the rows of the key (`approvals`, `receipt`), the session
lock of the key (`lock`), each execution's place and locals (`pc`, `found`,
`undispatched`, `granted`), and the external world (`call`, `applied`). `pc` has one
value for each point of `executeGovernedActionFenced` between two awaits others can
run in; `At(a, p)` says that the execution is there *and* that its connection is
alive, because every database step goes through the connection that holds the lock.
Only the request itself does not: `dispatch` may happen after the session is lost.

A provider may apply a request at any time after it was sent, whether or not the
sender still waits, unless it dropped it. One that honours the idempotency key
(`retry`) applies a key once. One with a lookup (`reconcile`) answers `committed`
truthfully and a terminal `not_found` only as a certificate that no earlier request
will commit (`docs/GUIDE.md`, "Provider recovery"); it may always be unsure.

A grant is looked at when the execution begins, charged (`authorizeAndConsume`) with
the insertion of the receipt, and looked at again at the dispatch. Between these the
calls of other actions may use it up and its time may end (`GrantEnds`). An HTTP GET
goes on without a grant, and then without an approval. The connector's validation
fails where the code's does: for a private host whose origin no usable grant names
(`checkUrlPolicy`). A URL that is refused whatever the grants are never has a receipt.

`Cancel` is `POST /runs/:id/cancel` and `fenceManagedSessionRuns`: it takes the run
out of any status that is not terminal and leaves a PENDING approval behind.

Left out: the patterns of grants, so that there is one matching grant;
`approvals.expires_at`, which no code writes, so an approval never becomes EXPIRED.

### Suspension

State: the run's `status` and `awaited` signal, its newest `attempt`, its `ledger`
of SignalReceived events, its latest `checkpoint`, each epoch's place (`pc`),
`transcript` and `pending` call, and the deliveries in progress (`request`).
`LookForSignal`, `WaitForSignal` and `SavePending` are the three transactions of
`waitForSignal` and the suspension in `epoch.ts`; `Restore` and the guard
`pending[a] \in {NoName, n}` are the replay of the suspended call.
`SignalReads`/`SignalCommits` are `POST /signals`, which reads without a lock;
`receiveManagedSessionEvent` is one step because it holds the session's row, which a
transition out of the wait needs too (`projectTopLevelRunStateToSession`), and
because a run that left WAITING_SIGNAL all the same makes it roll back.

STARTING and VERIFYING are folded into RUNNING and the terminal statuses into DONE.
The marker event `{waiting_for: ...}` has no name and is not kept. A wait of the
model has neither correlation id nor schema, so a session event matches by name. A
checkpoint is saved in one step: one whose `event_seq` has been overtaken before it
is inserted is never the latest, and behaves as if its worker had been lost.

### Checkpoints

`runRow` is the run, `object` the transcripts by key, `latest` the newest
checkpoint, `head` the head revision of the workspace, `output` and `artifacts` what
a completion publishes, `epoch[a]` the memory of a worker. A workspace is the set of
the calls whose work it holds; a transcript is its calls and their answers.
`SaveTranscript`, `SaveWorkspace` and `InsertCheckpoint` are the three writes of
`saveCheckpoint`, between which the worker may die or be replaced. `ReplayPending`
is the resumed call. `late` notes that an epoch saved after its run had been claimed
again; such a save may become the head.

### Supervisor

`watch[a]` is a worker's memory: its transcript, its copy of the supervisor's state,
its step. `saved` is the latest checkpoint row and `stored` the transcript under the
key it names. `saveCheckpoint` puts the transcript (`PutTranscript`), over the one an
earlier checkpoint of the same attempt and step has put there, and inserts the row
later (`InsertCheckpointRow`); a worker may be lost or replaced between the two, and
then the successor restores a longer transcript than the row's window has seen. A
call may suspend the run in the middle of a step (`CallSuspends`), the successor
dispatches it again (`pc = "resume"`), and only then is the step counted up.
`evaluate` is modelled with its detectors (loop, stagnation, context loss, low
budget), their order, the ladder and the resets. A lost worker is one that does
nothing any more while the next attempt is claimed.

### Credentials

One action per lock that `consumeCredential` waits for: the execution lock and the
row of the run, the rows that its join locks, one after the other and for each pair
the grant before the credential, the key service, the commit.
Other releases, revocations, expiries, cancellations and the reaper go on in between
as far as the locks let them.

### ScriptedEpoch

`script` with its gates (approval, signal, delegation), `savedStep`, and workers
that read the gate, ask and suspend in one transaction, or crash; a fork starts at
any step.

### Sessions

Every transaction is the sequence of row locks it waits for (`receiver`,
`canceller`, `dispatcher`, `worker`, `lock`); what it writes takes effect at the
commit. A cycle of waits is broken by the database (`RolledBack`), and the route
runs the transaction again. Time is relative to now: an event's `after` is its
distance to the moment from which it may be dispatched. The lists that the code
takes in the order of a query (the runs to fence, the candidates of a pass) are
sets, of which the next element in that order is taken (`NextToFence`, `Oldest`).
`MaxRuns` is large enough for every run that can come to be, so it is no bound.

### Delegation

`run` and `admission` are the rows, `resolver[w]` what a worker has listed and
locked, `updated` the order by `updated_at` in which the candidate window is taken,
`call` and `looked` the provider calls under way and the budgets computed before
them. `prepareRunAdmission`, `limitModelInvocation`, `wakeReadyParents`,
`ReplacementDeferred` and `ForkRun` carry the arithmetic: a replacement gets what
its predecessor has left, a reservation is returned with the end of a run, the daily
usage is reset at midnight. A transaction that holds the tenant's row is one step;
one that creates several runs (`createRuns`) applies `createRun` once for each of
the runs asked for and ends at the first rejection, so that a step of the model goes
through tables that no state has. Selections from a sequence, sums and `createRuns`
are written as functions of sets and numbers and not with the folds of the library,
so that the proofs can unfold them.

### Outbox, FencePool, RateLimits

`Outbox`: a transaction takes the run's row, draws the next number and commits; a
relay locks a batch (`LockBatch`), publishes, marks, and may crash after each; a
client polls or streams and reconnects with the last number it saw. `FencePool`:
actions queue for a permit, take a connection and the lock of their key, and need a
second connection for each transaction; sessions are lost. `RateLimits`: keys and
tenants are created, revoked and suspended; buckets are in each node or in one row,
time passes in ticks. The time of a check of the shared row is the begin of its
statement, `now()`, and statements that wait for the row are applied in any order, so
a check may bring any time that has been (`Checks`). `setBack` sums up by how much
such late statements have set the row's time back; no program variable holds it.

### Sandboxes, PrivateShell, Provisioning, ObjectStore

Each models an adapter together with the external system it talks to. A request is
applied, refused, or its answer is lost, in which case it may have been applied, may
be applied later or never. `Sandboxes` has creation, readiness, the cleanup of an
ambiguous creation by listing, and termination by worker or reaper. `PrivateShell`
has the tries of a command, the truncation and chunks of `writeFile`, and
`readFile`. `Provisioning` has reuse, creation, release and the removal of a
half-made function, over an inventory of functions by id, with their name, managed
tags and attempt tag, some of which others have made; what a provisioner lists it
filters as the code does. `madeFor` and `deletedBy` record, beside the program,
whose request made a function and who asked to delete it. `ObjectStore` has the
request loop with its retries under the conformance probe, the only caller that
asserts something about the store afterwards.

### Egress, KnowledgeBindings, RunExport

`Egress` follows one request from the policy check through name resolution, proxy
and redirects; the name service may answer differently at each look.
`KnowledgeBindings` has the three looks of a verification with its provider call,
rebinding and disabling between them, and searches. `RunExport` reads the tables one
statement at a time while the run commits.

## 3. Runs

| Run | Instance | Question | Result |
| --- | --- | --- | --- |
| `RunLifecycle_liveness` | 2 claims, MaxAttempts 2, with fairness | `DeadWorkerIsReplaced`, `IdleRunReleasesCompute` | holds |
| `RunLifecycle_stale_commit` | 2 claims, MaxAttempts 2 | `StaleWorkerCannotCommit` | violated, see section 6 |
| `GovernedAction_safety` | 3 attempts, 2 runs, 2 approvals, a cancellation | `OneReceiptPerLineage`, `PendingApprovalIsAwaited`, `ApprovedBeforeDispatch`, `ImplementsExternalEffect` | holds, about 760,000 states |
| `GovernedAction_denied` | 2 attempts, 1 run, 2 approvals | `DeniedIsCertain` | violated |
| `Suspension_payload` | 2 names, 3 claims, 2 deliveries, 2 waits | `DeliveredPayloadIsReturned` | violated |
| `Sessions_safety` | 2 sessions, 2 events, 2 workers, a cancellation, a child | `CancelledSessionIsQuiet`, `EventStartsOneRun`, `SessionShowsItsRun`, `WaitsEnd`, `OrderedByOneWorker` | holds, about 530,000 states |
| `Sessions_overtaken` | 1 session, 2 workers | `NewerEventsDoNotOvertake` | violated |
| `Delegation_safety` | 4 runs, 2 workers, 1 replacement, a capacity of 3 runs and 10 tokens | `OneCurrentRunPerSubtask`, `OutcomesAreFinal`, `SubtaskWithinBudget`, `AdmittedWithinLimits`, `DeferralsLetOthersPass` | holds, about 260,000 states |
| `Delegation_again` | 4 runs, 2 workers | `DelegatesOnce` | violated |
| `Epoch_safety` | `MCEpoch`: signals, checkpoints, supervisor, secrets, scripts | ten properties, below | holds, about 1,080,000 states |
| `Platform_safety` | `MCPlatform`: a run and eleven services around it | fourteen properties, below | holds, about 1,540,000 states |
| `Platform_order` | `MCPlatform`, two relays | `PartitionsStayOrdered` | violated |

What the properties say:

Of the run (`Platform_safety`, `RunLifecycle_liveness`):

- `ExecutingRunIsRecoverable`: a run in STARTING, RUNNING or VERIFYING has its
  newest attempt as current attempt, and that attempt is ACTIVE. The reaper finds
  work only through ACTIVE attempts, so this is what stands between the system and a
  run that is stuck for ever. It survives even the stale workers of section 6.
- `CallInFlightIsFenced`: as long as the lock MODEL_INVOCATION is held, its holder
  is ACTIVE and the run is not terminal, so usage is recorded before the run's
  capacity is released.
- `ImplementsDurableRun`: the refinement mapping projects the status to a phase
  (queued, executing, waiting, done), counts attempts, and names the holder.
- `DeadWorkerIsReplaced`, `IdleRunReleasesCompute`: the reaper repairs what workers
  leave behind, including the ACTIVE attempt of a refused settlement.

Of an external action (`GovernedAction_safety`):

- `OneReceiptPerLineage`, `ImplementsExternalEffect`: a PENDING receipt exists
  before the effect, there is at most one effect, COMMITTED implies the effect, and
  FAILED implies that there is none and will be none.
- `PendingApprovalIsAwaited`: an approval request and the wait for it cannot come
  apart but by the cancellation of the run, which leaves the request PENDING; a run
  that waits has a PENDING request of its own.
- `ApprovedBeforeDispatch`: an execution that relies on a grant with approval
  dispatches under an approval given to its own run.

Of an epoch (`Epoch_safety`):

- `WaitsAreAnsweredByEvents`: no epoch gets past a wait without an event of the
  ledger, whatever checkpoint it was restored from.
- `PendingWaitIsAnsweredOrAwaited`, `OwnerSuspendsForAMissingSignal`: for a
  session's run the order of suspension, checkpoint and delivery is safe; a
  suspended call is replayed only when its signal is there or the run still waits,
  and an epoch that owns the run does not suspend it for a signal that has come.
  Both fail for a run without a session, whose deliveries race (section 6), and the
  second for a stale epoch, for the reason given there first.
- `CallsAreAnsweredOnce`: no transcript, in memory or saved, answers a call twice or
  one that was not asked.
- `HeadHoldsTheCheckpoint`: the workspace that is restored holds the work the
  checkpoint counts as done, unless a replaced worker saved late. It is about the
  crash between the three writes of a checkpoint; the late save does break it and is
  exempted (section 6).
- `ArtifactsAreOfTheCompletion`: artifacts exist exactly for a completed run, all of
  one attempt, with their content in the store.
- `SpinningEnds`: no transcript repeats an action more often in a row than the
  detector, the ladder and the attempts allow, and a worker that has seen that many
  gives the run up. An attempt may add one, since the transcript of a suspension may
  outlive its row.
- `UsesAreReceipts`, `ReleasedToTheOwnerOnly`: the uses of a grant are its receipts,
  those of a credential the logical actions under all its grants, and both keep to
  their limits; a release commits only for the current holder, with what is not
  revoked.
- `CompletedPastEveryGate`: a scripted run completes past decided gates only (those
  up to the first `complete` of its script; what follows is never reached).

Of sessions and delegation: `CancelledSessionIsQuiet` (nothing of a cancelled
session goes on, a child run delegated meanwhile included), `EventStartsOneRun`,
`SessionShowsItsRun` (two rows, one truth), `WaitsEnd` (no waiting transaction
without somebody who can move), `OrderedByOneWorker` (the promised order holds with
one worker, in spite of deferrals), `OneCurrentRunPerSubtask`, `OutcomesAreFinal`,
`SubtaskWithinBudget` (over all replacements), `AdmittedWithinLimits` (reservations,
concurrency and the daily budget agree with the live runs),
`DeferralsLetOthersPass`.

Of the services (`Platform_safety`): `ReadersSeeWholeStreams`,
`MarkedRowsArePublished`, `PoolIsNeverWedged` (some user of the pool can always go
on), `RateIsBounded` (burst and rate, what late statements have set back counted
twice), `OnlyOwnRunIsKilled`, `WrittenFileIsWhole`, `OnlyOwnFunctionIsDeleted` (a
provisioner deletes none but the function made for it, though after a lost answer it
knows the name and the tag only), `EveryHopIsAuthorized`, `SearchesAreLiveVerified`,
`ExportsHoldTogether` (a bundle of a live run passes the importer's check and refers
to nothing it lacks), `EvidenceIsTrue`.

### Bounds

`ClaimLimit` (how often the run is claimed) is a bound of the model, `MaxAttempts`
is the configuration's limit. Two claims are enough for a stale epoch beside a
current one, for a requeue (attempt 1) and for the exhausted limit (attempt 2); a
third adds a second stale epoch, and stale epochs do not interact except through the
run.

In `GovernedAction`, three attempts give the sequence that matters: one that
dispatched, one that recovers, and one that finds what the recovery left; two runs
give a replacement; two approvals a request of each run. `MaxAttempts`, `MaxRuns`
and `MaxApprovals` are bounds of that model.

In `Suspension` three claims give an epoch that suspends the run, one that is stale,
and one that resumes; two deliveries race; two names let a delivery miss the wait;
two answered waits let an epoch wait again. `ClaimLimit`, `MaxDeliveries` and
`MaxWaits` are its bounds. `MCEpoch` also restricts behaviours in ways that lose no
distinct case (`InOrder`: deliveries and names are alike, so the first is used
first; a run that is DONE takes no further step; nor does a supervised run that has
LEFT) and in four that bound the instance: a run without a session is claimed
`LooseClaims` times, since only properties of a session's run look further; an epoch
after the first makes `SuccessorCalls` model calls (`ShortSuccessors`); of the calls
of one completion the odd ones change the workspace (`OddCallsChange`); the
completed items of a supervised run's ledger only grow (`WatchedRunGoesOn`).

In `Checkpoints` an epoch and its successor, two steps, a checkpoint after each, up
to two calls in a completion: a crash falls between any two of the writes, and a
call is suspended before, between and after others. In `Supervisor` a threshold
of two repetitions, a window of three and one escalation reach every rung within the
four steps of the run; a checkpoint after every second step and at each suspension
is older than the loss of its worker by up to two steps, or half written. In
`Credentials` two runs, a parent and its subtask, two secrets and up to three grants
(`Plans`: with a limit, with an approval, and in each other's way), two releases at
a time and up to three changes besides the grants of the plan taken together. In
`ScriptedEpoch` three scripts hold every gate behind and in front of a checkpoint.

In `Sessions` `MaxRuns`, `MaxChildren`, `MaxAge` and `RetryDelay` bound the model; a
behaviour leaves out one pair of participants (`Absences`), so that cancellation
with delegation, two workers, and two sessions with each other's events are each
explored in full. In `Delegation` a behaviour keeps to one of four scopes: two
workers and one parent of two; a subtask and its replacement with model calls;
direct runs that share the capacity; two parents in a window of one.

In `MCPlatform`: two relays with batches of two over three events of one run; a pool
of three with four actions, two of them on one key, two model calls and a
transaction; a burst of two at one per second over two seconds; two attempts of one
run, or of two runs, that create a sandbox; two versions of a file in two chunks
with three tries; two provisioners, whose functions get their ids in order, and a
function of somebody else, released or none; three origins, two redirects and
one change of the name service; two coordinates, three revisions, two operators; six
events of the exported run; two tries of an object-store request.

Deadlock is not checked: a finished run with no worker left, a lineage with no
attempt left, or a component that has reached its bounds, rightly takes no further
step.

### Fairness

`FairSpec` of `RunLifecycle` assumes that a live worker takes its next step (its
awaits are settled: provider, sandbox and connector calls carry timeouts), that an
ACTIVE attempt nobody renews expires, and that some worker keeps polling, so expired
attempts are reaped and queued runs claimed (`worker.ts`, `main`, catches every
error and loops). The heartbeat is not fair, a lost worker has no fairness, and
neither users nor external systems owe anything: no property assumes that an
approval is decided. All of it is weak fairness; the reaper's action is disabled
while a call holds the lock, and a fair call ends.

## 4. Proofs

TLAPS checks the theorems below for every value of the constants that satisfies the
named assumption of the module. Every safety property the runs check is proved,
with the exceptions at the end of this section. The argument is the same each time:
an inductive invariant that contains the property or implies it, one step per action,
and a temporal step; a property over steps follows from the invariant in the state
before the step. What differs is the invariant, and why the property does not
carry itself:

| Theorems (module) | The inductive invariant | What it adds, and why |
| --- | --- | --- |
| `TypeCorrect`, `Inductive`, `Recoverable`, `CallsAreFenced`, `Implements` (`RunLifecycle_proofs`) | `IndInv` | A claim must find its attempt number unused (`UnclaimedAttemptsAreBlank`), and a settlement must know that the attempt it exits does not hold an executing run (`LeftRunIsReleased`): that makes an exit with reason `left` harmless, although the exit does not look at the run. `Implements` refines `DurableRun`; only because the holder of an executing run is its newest attempt is a claim a `Dispatch`. |
| `Inductive`, `OneReceipt`, `Awaited`, `ApprovedFirst`, `Implements` (`GovernedAction_proofs`) | `IndInv` | Under the key's lock the receipt in hand stays PENDING, and without one there is none in the lineage (`LockKeepsTheReceipt`), so the lock and not the unique index orders the insertions; a PENDING receipt is there before any request (`ReceiptBeforeRequest`); where a repetition is not safe a request is alone (`SenderIsAlone`, `OneRequest`), and a closed receipt is true (`ClosedReceiptIsTrue`). A decision and the wake, like an approval and the wait, are one step; only `Cancel` leaves a PENDING approval. `Implements` refines `ExternalEffect`, step by step. |
| `SuspensionInductive`, `WaitsAreAnswered`, `PendingIsAnswered`, `OwnerSuspends` (`Epoch_proofs`) | `SuspensionInv` | Every memory and the checkpoint hold records of the ledger only; in a session's run a pending wait is answered or awaited at each place of an epoch, and what the owner has missed is not there while the run is its own. |
| `CheckpointsInductive`, `AnsweredOnceOnly`, `HeadHolds`, `ArtifactsOfCompletion` (`Epoch_proofs`) | `CheckpointsInv` | Call identifiers begin with the attempt, so those of an attempt that has not begun are nowhere (`FreshInv`); a checkpoint names a transcript in the store, with the pending call open in it (`StoredInv`); until a replaced worker saves, the owner's workspace has grown from the checkpoint's (`HeadInv`). |
| `ScriptedInductive`, `GatesArePassed` (`Epoch_proofs`) | `ScriptedInv` | Whoever is at a step, or resumes there, is past the gates in front of it, and what was asked for is decided once the run goes on. |
| `SupervisorInductive`, `RunsDoNotSpin` (`Epoch_proofs`) | `SupervisorInv` | But for k completions the window of a supervisor that has not given up shows the repeats of the transcript, and each repeat beyond the threshold has cost a rung: repeats + 1 <= threshold + recoveries + k, and recoveries <= level + 1 (`FollowsUpTo`). Attempt a misses at most k = a - 1: the transcript it may put over the one its checkpoint names has one completion more than the row, since it has the same step (`KeyInv`), so a successor misses one more than its predecessor. |
| `CredentialsInductive`, `UsesAreCounted`, `OwnerGetsTheSecret` (`Epoch_proofs`) | `CredentialsInv` | A release has its run to itself, its candidates are locked and not revoked, every usable grant with a receipt of the run is among them, and its choice has a use left only where all other receipts of the action are of spent grants. |
| `SessionsInductive`, `SessionStaysQuiet`, `SessionAlwaysShowsItsRun`, `EventNeverStartsTwoRuns`, `EveryWaitEnds` (`Sessions_proofs`) | `SessionsInv` | Who holds which row at which step (`HolderInv`), and what each transaction has read under its rows and still relies on (`ReceiverInv`, `CancellerInv`, `DispatcherInv`, `WorkerInv`): a cancellation at work has the rows of its session and of every live run of it, or will lock them next; an admission has the row of an idle session and of a pending event; a step of a run is one the run may still take. |
| `QueueInductive`, `SessionsTyped`, `OneWorkerKeepsOrder` (`Sessions_proofs`) | `NumbersInv`, `TimesInv`, `OrderInv` | A session's counter counts its events, whose numbers differ. Where one worker serves one session its pass has the session's next event in sight, due for the pass and unlocked, until it selects it or the session is cancelled (`PassInv`). |
| `DelegationInductive`, `DelegationTyped`, `SubtasksHaveOneRun`, `ParentsGetFinalOutcomes`, `SubtasksStayWithinBudget`, `TenantsStayWithinLimits` (`Delegation_proofs`) | `DelegationIndInv` | `LineageInv`: of two runs of one subtask the older is replaced. `BudgetInv`: what the runs of a subtask have used and what the current one may use adds up to what the subtask was given. `AdmissionInv`: exactly the live runs hold a reservation, of their budget. `CallInv`: a call under way fits what its run has left. `ResolvedInv`: an outcome a parent was given can no longer be replaced, which is why a stale list of candidates is harmless. |
| `DeferralsPass` (`Delegation_proofs`, of `MCDelegation`) | `DelegationIndInv`, `DeferInv` | A pass lists each parent once and in the order of `updated`, so the deferral of the one parent while the other only waits leaves an empty pass and the other first in line (`IsNext`); from there only its resolution, its end or a new failed subtask takes it, and each of them ends the count. |
| `OutboxInductive`, `StreamsAreWhole`, `MarkedIsPublished` (`Database_proofs`) | `OutboxInv` | A run's events are numbered without gaps and the one open transaction of a run has the next number; what is marked, or about to be, is on the topic. |
| `PoolIsCounted`, `NeverWedged` (`Database_proofs`) | `PoolInv` | The connections and permits that are out are those the users' states imply; with at most `PermitLimit` of them a connection is left for some inner transaction. |
| `RunExportInductive`, `ExportsHold` (`Database_proofs`) | `SourceInv`, `BundleInv` | An event names a row that exists when it is committed, and the events are read before the tables they refer to: what the statements so far name, the statements to come will find. |
| `KnowledgeInductive`, `SearchesOfProbedOnly`; `RateInductive`, `RateBounded`; `SandboxesInductive`, `OwnRunIsKilled`; `ProvisioningInductive`, `OwnFunctionIsDeleted`; `EgressInductive`, `HopsAreAuthorized` (`Services_proofs`) | `KnowledgeInv`, `RateInv`, `SandboxesInv`, `ProvisioningInv`, `EgressInv` | A revision is of one pair of coordinates, so a verification that marks its revision marks what it probed; admitted and remaining tokens together are covered by burst and refill up to the row's time, and once more by what has been set back, so a late statement loses nothing; what a cleanup is about to kill is its own; a function's attempt tag names whom it was made for (`FunctionsInv`), so name and tag, like an id the provider has answered with, aim at the provisioner's own (`WellAimed`); what a request still carries has been carried to one origin with one method. |
| `ShellInductive`, `FilesAreWhole`; `ObjectStoreInductive`, `EvidenceHolds` (`Services_proofs`) | `ShellInv`, `ObjectStoreInv` | As long as no abandoned command has run late the file is exactly as far as the worker, and an abandoned command is one the worker has passed or is trying again; the probe's checks stay true until an abandoned PUT lands. |

The assumptions are types and signs of the parameters, but for these. `FencePool`
assumes that the locks of actions and of model calls differ (their keys are hashed
with seeds of their own, `core/locks.ts:2-5`) and that its users are finitely many;
`Credentials` that grants and credentials are, `Sessions` that sessions and events
are, and with `OneWorkerKeepsOrder` the workers, as `DeferralsPass` does; `Sessions`
also that a transaction is of one kind (`ActorsAssumption`) and that `MaxRuns`
leaves a row for one run of each session, one of each event and the children;
`Supervisor` that the window holds a loop; `Delegation` that a tenant's limits and
the budgets asked for are not negative. Bounds of the models are constants, so the
theorems hold for each of them.

In `Sessions` a step of one transaction among many must leave all others what they
rely on. `Respects(p)` says that what p writes lies in rows that no other
transaction holds, and `OthersStay(p)` that p moves nobody but itself;
`OthersKeepTheirs` shows once that the part of the invariant about every other
transaction then survives, so that each action is left with its own rows and its own
place. `RunLeft` counts: each session has begun at most one run by itself, each event
at most one, the rest are children, hence a run can always be created. `EveryWaitEnds`
follows the holders. A transition of a run waits for its session's row, which a
receipt, a cancellation or an admission holds; a receipt or a cancellation waits for a
run of that session, and what holds that run either closes the circle or waits for
nobody; an admission waits for the tenant's row, and so the chain goes through a
delegation to one of the former. No chain is longer than three.

Two techniques recur. The provers cannot use an induction theorem of the library,
which takes an operator as its parameter. A finite set of numbers that is not empty
has a smallest element, though (`SmallestExists` of `FiniteFacts`, from the theorem
that inclusion of finite sets is well-founded), and a least counterexample refutes
itself; in this way `FiniteFacts` counts, and `Delegation_proofs` shows that the
recursive functions `SumOver`, `rootOf` and `createRuns` exist and what they
preserve. And operators of the model are cited through one lemma each
(`StatusTable`, `InOrderLists`, `PickedFrom`, `WithoutOne`, `SumAfterMove`,
`RootsAgree`, `CreateTrace`), after which they stay folded.

What is only model-checked:

- `DeadWorkerIsReplaced` and `IdleRunReleasesCompute`, which are liveness under
  fairness and need ENABLED;
- the findings of section 6, which are violated.

## 5. Plan

1. *Done.* `RunStates`, `DurableRun`, `RunLifecycle` and its proofs.
2. *Done.* `ExternalEffect`, `GovernedAction`, `Suspension`, `Sessions`,
   `Delegation`.
3. *Done.* What an epoch does and the services around it: `Checkpoints`,
   `Supervisor`, `Credentials`, `ScriptedEpoch`; `Outbox`, `FencePool`,
   `RateLimits`, `Sandboxes`, `PrivateShell`, `Provisioning`, `ObjectStore`,
   `Egress`, `KnowledgeBindings`, `RunExport`.
4. *Done.* The proofs of section 4.
5. *Done.* The proofs of `Sessions`.

## 6. What the code does that its words do not say

With a run that ends in a violation (`PROJECT.json`, "findings", quotes the lines):

- *Stale workers can commit* (`RunLifecycle_stale_commit`). Transitions written by
  an epoch check the status of the run and not whose run it is, so an orphaned
  worker can suspend, fail or complete its successor's run. The safety properties
  above hold all the same, because the successor then fails its own transitions and
  both attempts are cleaned up.
- *"Denied" may be uncertain* (`GovernedAction_denied`). A recovered action that is
  refused for a reason other than the missing grant leaves its receipt PENDING and
  tells the model that the action was denied: the run shows a mutation of a private
  host whose grant for the origin has expired; a denied approval and a grant that
  lapses before the dispatch end alike.
- *A woken run reads the payload null* (`Suspension_payload`). The wake appends a
  second event of the same name, without the payload, and the newest event of the
  name is the one read.
- *A newer session event can overtake a deferred one* (`Sessions_overtaken`). The
  deferral is a statement of its own after the rejected transaction, and the
  selection takes the first event that is due, not the first.
- *A resumed delegation may delegate again* (`Delegation_again`). Whether the
  children were resolved is looked up in the first 500 events of the run.
- *Two relays publish out of order* (`Platform_order`). Each takes the lowest rows
  the other has not locked.

Without a run of their own; the models contain them, and properties that they would
break are stated around them:

- The reaper tests the status of the run it requeues and not whose it is. A
  cancellation may fence an attempt that is no longer the newest
  (`routes/runs.ts:385`). A signal delivered between the look at the ledger and the
  transition is recorded and wakes nobody, and a run may be woken by the delivery of
  another signal (`routes/runs.ts:348`).
- The usage of a call whose worker dies before it is recorded is not counted, though
  GUIDE.md:297-298 reads otherwise.
- The second `delegate` call of a run returns the results of the first.
  `childBudget` gives each child at least one token, however little is left, and a
  tree may spend more than its root's budget (README.md:90, against
  GUIDE.md:284-285).
- A transcript's key is `<attempt>-<step>` (`epoch.ts:234`): a later save of the
  same step overwrites what an earlier checkpoint names, and a retried PUT may land
  after a newer one.
- A stale worker's snapshot becomes the head (`workspace.ts:139`); a suspension is
  committed before its checkpoint is validated, and when that is refused the next
  epoch starts from an older one; of the calls of a completion those behind a
  suspended one are never answered. The truncated tail of a transcript may begin
  with the answer of a call that was cut off (`contextCompiler.ts:83-92`).
- A statement that was begun earlier and reaches the shared bucket's row later sets
  the row's time back, and what it takes off the tokens for that is cut off at -1
  (`rateLimit.ts:75-80`). The time in between is refilled a second time, and a burst
  of 2 with 2 per second admits five requests within a second, where
  `config.ts:22-23` allows four. `RateIsBounded` counts what was set back.
- A retry after the time a shared bucket names may still be refused
  (`rateLimit.ts:61-62`).
- The cleanup of an ambiguous creation kills every sandbox of the run, a successor's
  included (`vefaasSandbox.ts:216`); a sandbox whose worker dies between its
  creation and its row is left to its own timeout (`epoch.ts:147-165`).
- Two provisioners may each create a function of the same name, and one created with
  an invalid identifier is left behind (`sandboxApplication.ts:180-181`).
- `exportedAtSeq` may be behind the exported events (`runBundle.ts:16`).
- The object-store evidence "objects deleted" is untrue when an abandoned PUT is
  applied late; a retried creation of a bucket meets its own first try and fails.
- A fork of a scripted run may resume behind a gate of its source.
- An HTTP answer of 4xx or 5xx commits the receipt as COMMITTED. An HTTP GET whose
  grant with approval is used up or expired runs without an approval, since only
  mutations require a grant (`toolRouter.ts:764`).

## 7. Not modelled

- Prompts, skills, recalled memories, the selection of context, schemas of tools and
  of signal payloads: data that no control depends on beyond what the modules choose
  freely.
- Adapters that are one request and its translation (model gateways, memory,
  knowledge search), and the bytes of the others.
- Registries of immutable rows (agents, contracts, toolsets), configuration,
  migrations, release and dependency checks, the importer of a bundle beyond its
  check, and the command-line tools other than those named above.
- Sealing and opening of secrets, token generation, hashing.
- User messages (`POST /messages`): an event that only the prompt reads.
- Prices and usage reports (`core/costs.ts`): read-only.
