--------------------------- MODULE GovernedAction ---------------------------
(***************************************************************************)
(* One governed connector action (governedAction.ts): one idempotency key, *)
(* executed by the attempts of a run and of the runs that replace it.      *)
(*                                                                         *)
(* An execution takes the session lock of the key, reads the receipt of    *)
(* the run's replacement lineage, resolves an uncertain earlier outcome,   *)
(* asks for grant and approval, writes a PENDING receipt, dispatches, and  *)
(* commits the receipt.  Every database step goes through the connection   *)
(* that holds the lock, so it fails once that connection is lost; the      *)
(* request that is already leaving the process does not.                   *)
(*                                                                         *)
(* The run is kept to what assertCurrentActionOwner and the transition to  *)
(* WAITING_APPROVAL look at, and to its cancellation; RunLifecycle models  *)
(* it in full.  A grant is kept to whether it can be used: the calls other *)
(* actions take from it come from outside.  No approval is ever given an   *)
(* expires_at.  The bounds are not of the program.                         *)
(***************************************************************************)
EXTENDS Naturals, Sequences, FiniteSets

CONSTANTS
  MaxAttempts,   \* attempts claimed over the lineage
  MaxRuns,       \* runs in the replacement lineage
  MaxApprovals   \* approvals requested

ASSUME BoundsAssumption ==
  MaxAttempts \in Nat \ {0} /\ MaxRuns \in Nat \ {0} /\ MaxApprovals \in Nat

Attempts == 1..MaxAttempts
Runs == 1..MaxRuns
None == 0

\* The HTTP connector, and the policies a provider may state for an MCP tool
\* (validateExecutionPolicy); a tool it says nothing about is "manual" unless it
\* is annotated as read-only.
Connectors == {"http", "read", "idempotent", "reconcile", "manual"}

\* What recovery may do with a PENDING receipt: "retry" is
\* retry_with_idempotency, "reconcile" is recovery 'reconcile' with a provider
\* lookup, "manual" is recovery 'reconcile' without one.
RecoveryOf(connector) ==
  IF connector \in {"http", "read", "idempotent"} THEN "retry" ELSE connector

Recoveries == {RecoveryOf(c) : c \in Connectors}

VARIABLES
  recovery,           \* spec.recovery and spec.reconcile of the connector
  requiresApproval,   \* requires_approval of the matching grant
  requireGrant,       \* spec.requireGrant: not for an HTTP GET
  mutation,           \* spec.classification is 'mutation', not 'read'
  privateHost,        \* spec.validate needs the exact-origin grant: an HTTP
                      \* request to a private host
  grant,              \* the matching grant: "usable", its calls "exhausted" or
                      \* "expired"; a replacement has what its predecessor left
  run,                \* the newest run of the lineage
  status,             \* its status
  attempt,            \* the newest attempt, current while the run is RUNNING
  lapsed,             \* ... and its lease has expired
  runOf,              \* the run of each attempt
  approvals,          \* the approval rows of the key, oldest first
  receipt,            \* the tool_receipts row of each run for the key
  lock,               \* the attempt whose session holds the key's lock
  pc,                 \* where each attempt is in executeGovernedAction
  found,              \* the run whose receipt the execution works on
  undispatched,       \* executions with receiptCreatedNow or
                      \* priorOutcomeKnownAbsent
  granted,            \* executions with a usableGrant
  call,               \* what became of the request of each attempt
  applied             \* how often the provider has applied the action

runVars == <<run, status, attempt, lapsed, runOf>>
specVars == <<recovery, requiresApproval, requireGrant, mutation, privateHost>>
dbVars == <<approvals, receipt>>
workVars == <<found, undispatched, granted>>
localVars == <<lock, pc, workVars>>
remoteVars == <<call, applied>>
vars == <<recovery, requiresApproval, requireGrant, mutation, privateHost, grant,
          run, status, attempt, lapsed, runOf, approvals, receipt, lock, pc, found, undispatched,
          granted, call, applied>>

\* What executeGovernedAction returns.  "over" ends the epoch: an exception, a
\* suspension for approval, or the loss of the worker process.
Results == {"completed", "denied", "reconciliation_required", "over"}
\* The steps of an execution, each ending at an await the others can run in.
Steps == {"escalating", "reconciling", "closing", "policy", "refusing",
          "requesting", "inserting", "credentials", "receipting", "checking",
          "owned", "sending", "sent", "committing", "failing"}

\* The governed connectors: dispatchHttp's requests, of which a GET needs no
\* grant and is the only read, and an MCP tool, which always needs one and has
\* no validation of its own.
SpecTypes ==
  /\ recovery \in Recoveries
  /\ requiresApproval \in BOOLEAN /\ requireGrant \in BOOLEAN
  /\ mutation \in BOOLEAN /\ privateHost \in BOOLEAN
  /\ mutation => requireGrant
  /\ recovery # "retry" => mutation
  /\ privateHost => recovery = "retry" /\ mutation = requireGrant

NoReceipt == [status |-> "NONE", approval |-> None]

Init ==
  /\ SpecTypes
  /\ grant = "usable"
  /\ run = 1
  /\ status = "QUEUED"
  /\ attempt = None
  /\ lapsed = FALSE
  /\ runOf = [a \in Attempts |-> None]
  /\ approvals = <<>>
  /\ receipt = [r \in Runs |-> NoReceipt]
  /\ lock = None
  /\ pc = [a \in Attempts |-> "none"]
  /\ found = [a \in Attempts |-> None]
  /\ undispatched = {}
  /\ granted = {}
  /\ call = [a \in Attempts |-> "none"]
  /\ applied = 0

-----------------------------------------------------------------------------
(* The run, as far as the execution depends on it.                         *)

\* claimRun.
Claim ==
  /\ status = "QUEUED"
  /\ attempt < MaxAttempts
  /\ status' = "RUNNING"
  /\ attempt' = attempt + 1
  /\ lapsed' = FALSE
  /\ runOf' = [runOf EXCEPT ![attempt + 1] = run]
  /\ pc' = [pc EXCEPT ![attempt + 1] = "idle"]
  /\ UNCHANGED <<specVars, grant, run, dbVars, lock, workVars, remoteVars>>

\* The lease of the current attempt expires, or its heartbeat renews it.
LeaseMoves ==
  /\ status = "RUNNING"
  /\ lapsed' = ~lapsed
  /\ UNCHANGED <<specVars, grant, run, status, attempt, runOf, dbVars,
                 localVars, remoteVars>>

\* The reaper requeues the run of an expired attempt.
Reap ==
  /\ status = "RUNNING"
  /\ lapsed
  /\ status' = "QUEUED"
  /\ lapsed' = FALSE
  /\ UNCHANGED <<specVars, grant, run, attempt, runOf, dbVars, localVars,
                 remoteVars>>

\* The reaper fails the run for good and its parent replaces it.
Replace ==
  /\ status = "RUNNING"
  /\ lapsed
  /\ run < MaxRuns
  /\ run' = run + 1
  /\ status' = "QUEUED"
  /\ lapsed' = FALSE
  /\ UNCHANGED <<specVars, grant, attempt, runOf, dbVars,
                 localVars, remoteVars>>

\* POST /runs/:id/cancel and fenceManagedSessionRuns take the run out of any
\* status that is not terminal.  Its approvals stay as they are, and a cancelled
\* child is not replaced.
Cancel ==
  /\ status # "CANCELLED"
  /\ status' = "CANCELLED"
  /\ lapsed' = FALSE
  /\ UNCHANGED <<specVars, grant, run, attempt, runOf, dbVars, localVars,
                 remoteVars>>

\* insertApproval and decideApproval write the row.
insertApproval(r) ==
  approvals' = Append(approvals, [run |-> r, status |-> "PENDING"])

decideApproval(i, decision) ==
  /\ approvals[i].status = "PENDING"
  /\ approvals' = [approvals EXCEPT ![i].status = decision]

\* POST /approvals/:id decides a PENDING approval and wakes its waiting run.
DecideAndWake(i, decision) ==
  /\ decideApproval(i, decision)
  /\ status' = IF status = "WAITING_APPROVAL" /\ approvals[i].run = run
               THEN "QUEUED" ELSE status
  /\ UNCHANGED <<specVars, grant, run, attempt, lapsed, runOf, receipt,
                 localVars, remoteVars>>

\* Other actions of the run use up the calls of the grant, or its time is over.
GrantEnds ==
  /\ \/ grant = "usable" /\ grant' = "exhausted"
     \/ grant # "expired" /\ grant' = "expired"
  /\ UNCHANGED <<specVars, runVars, dbVars, localVars, remoteVars>>

-----------------------------------------------------------------------------
(* Helpers of an execution.                                                *)

\* assertCurrentActionOwner.
IsCurrentActionOwner(a) ==
  /\ status = "RUNNING"
  /\ attempt = a
  /\ ~lapsed

\* Faulty variant: findReceiptByKey, the run's own receipt only.
findReceiptByKey(r) == IF receipt[r].status = "NONE" THEN None ELSE r

\* The receipt findReceiptByLineageKey prefers among those of the lineage of
\* run r: COMMITTED, then PENDING, then any.  None when there is none.
findReceiptByLineageKey(r) ==
  LET With(states) == {x \in 1..r : receipt[x].status \in states}
      Latest(S) == CHOOSE x \in S : \A y \in S : y <= x IN
  CASE With({"COMMITTED"}) # {} -> Latest(With({"COMMITTED"}))
    [] With({"COMMITTED"}) = {} /\ With({"PENDING"}) # {} ->
         Latest(With({"PENDING"}))
    [] With({"COMMITTED", "PENDING"}) = {}
         /\ With({"FAILED", "NEEDS_RECONCILIATION"}) # {} ->
         Latest(With({"FAILED", "NEEDS_RECONCILIATION"}))
    [] OTHER -> None

\* The execution of a goes on to step p, still holding the lock.
Enter(a, p) ==
  /\ pc' = [pc EXCEPT ![a] = p]
  /\ UNCHANGED lock
Goto(a, p) == Enter(a, p) /\ UNCHANGED workVars

\* The execution of a returns: finally releases the lock.
Return(a, result) ==
  /\ pc' = [pc EXCEPT ![a] = result]
  /\ lock' = IF lock = a THEN None ELSE lock
  /\ found' = [found EXCEPT ![a] = None]
  /\ undispatched' = undispatched \ {a}
  /\ granted' = granted \ {a}

\* a is at step p and its database connection, hence the lock, is alive.
At(a, p) == pc[a] = p /\ lock = a

\* The execution of a resumes an action whose receipt was PENDING.
pendingRecovery(a) == found[a] # None

\* commitReceipt and failReceipt, which touch a PENDING receipt only.
CloseReceipt(r, state) ==
  receipt' = IF receipt[r].status = "PENDING"
             THEN [receipt EXCEPT ![r].status = state] ELSE receipt

\* The tool calls of an epoch that is still running: the model may repeat one.
Callable == {"idle", "completed", "denied", "reconciliation_required"}

\* commitReceipt succeeds: a owns the run and the receipt is still PENDING.
CanCommit(a) ==
  IsCurrentActionOwner(a) /\ receipt[found[a]].status = "PENDING"

\* Faulty variant: a recovered receipt is failed as well.
DenyAndFail(a) ==
  IF pendingRecovery(a) THEN Goto(a, "refusing") ELSE Return(a, "denied")

\* A denial: a receipt that certainly was not dispatched is failed first.
Deny(a) ==
  IF a \in undispatched THEN Goto(a, "refusing") ELSE Return(a, "denied")

\* The approval an execution of a relies on: the receipt's, or the newest one
\* of its run; None if there is neither.
ApprovalOf(a) ==
  LET own == {i \in DOMAIN approvals : approvals[i].run = runOf[a]} IN
  IF found[a] # None /\ receipt[found[a]].approval # None
  THEN receipt[found[a]].approval
  ELSE IF own = {} THEN None ELSE CHOOSE i \in own : \A j \in own : j <= i

-----------------------------------------------------------------------------
(* The execution.                                                          *)

\* Take the lock of the key, check ownership and read the lineage's receipt.
executeGovernedAction(a) ==
  LET r == findReceiptByLineageKey(runOf[a])
      state == IF r = None THEN "NONE" ELSE receipt[r].status IN
  /\ pc[a] \in Callable
  /\ lock = None
  /\ \/ /\ ~IsCurrentActionOwner(a)
        /\ Return(a, "over")
     \/ /\ IsCurrentActionOwner(a)
        /\ state = "COMMITTED"
        /\ Return(a, "completed")
     \/ /\ IsCurrentActionOwner(a)
        /\ state \in {"FAILED", "NEEDS_RECONCILIATION"}
        /\ Return(a, "reconciliation_required")
     \/ /\ IsCurrentActionOwner(a)
        /\ state \in {"NONE", "PENDING"}
        /\ lock' = a
        /\ found' = [found EXCEPT ![a] = IF state = "PENDING" THEN r ELSE None]
        /\ UNCHANGED <<undispatched, granted>>
        /\ pc' = [pc EXCEPT ![a] =
                    IF state = "NONE" \/ recovery = "retry" THEN "policy"
                    ELSE IF recovery = "manual" THEN "escalating"
                    ELSE "reconciling"]
  /\ UNCHANGED <<specVars, grant, runVars, dbVars, remoteVars>>

\* markReconciliationRequired: leave the uncertain outcome to an operator.  An
\* execution that came here from a failed dispatch throws afterwards.
markReconciliationRequired(a) ==
  /\ At(a, "escalating") \/ At(a, "failing")
  /\ \/ /\ IsCurrentActionOwner(a)
        /\ CloseReceipt(found[a], "NEEDS_RECONCILIATION")
        /\ Return(a, IF pc[a] = "failing" THEN "over"
                     ELSE "reconciliation_required")
     \/ /\ ~IsCurrentActionOwner(a)
        /\ Return(a, "over")
        /\ UNCHANGED receipt
  /\ UNCHANGED <<specVars, grant, runVars, approvals, remoteVars>>

\* spec.reconcile: ask the provider what became of the key.  A terminal
\* not_found is the provider's certificate that the key has no commit and will
\* have none from an earlier request.
reconcile(a) ==
  /\ At(a, "reconciling")
  /\ \/ /\ applied > 0
        /\ Goto(a, "closing")
     \/ /\ applied = 0
        /\ \A b \in Attempts : call[b] # "open" /\ pc[b] # "sending"
        /\ Enter(a, "policy")
        /\ undispatched' = undispatched \cup {a}
        /\ UNCHANGED <<found, granted>>
     \/ Goto(a, "escalating")
  /\ UNCHANGED <<specVars, grant, runVars, dbVars, remoteVars>>

\* The provider knows the commit: close the receipt as COMMITTED.
CommitReconciled(a) ==
  /\ At(a, "closing")
  /\ \/ /\ CanCommit(a)
        /\ CloseReceipt(found[a], "COMMITTED")
        /\ Return(a, "completed")
     \/ /\ ~CanCommit(a)
        /\ Return(a, "over")
        /\ UNCHANGED receipt
  /\ UNCHANGED <<specVars, grant, runVars, approvals, remoteVars>>

\* usableGrant: a recovery was charged for when its receipt was written.
Usable(a) == grant = "usable" \/ (pendingRecovery(a) /\ grant = "exhausted")

\* The connector's own validation (checkUrlPolicy) rejects a private host whose
\* origin no usable grant names; an URL it rejects whatever the grants are never
\* gets as far as a receipt.
ValidationFails(a) ==
  /\ At(a, "policy")
  /\ privateHost /\ ~Usable(a)
  /\ Deny(a)
  /\ UNCHANGED <<specVars, grant, runVars, dbVars, remoteVars>>

\* No grant allows the action any more; an HTTP GET does without.
NoUsableGrant(a) ==
  /\ At(a, "policy")
  /\ ~privateHost /\ ~Usable(a)
  /\ \/ ~requireGrant /\ Goto(a, "credentials")
     \/ /\ requireGrant
        /\ IF pendingRecovery(a) /\ a \notin undispatched
           THEN Goto(a, "escalating") ELSE Deny(a)
  /\ UNCHANGED <<specVars, grant, runVars, dbVars, remoteVars>>

\* Faulty variant: the run of the approval is not compared.
LockAnyApproval(a) == approvals[ApprovalOf(a)].status

\* The locked approval, if it is one of the executing run.
lockApprovalForExecution(a) ==
  LET approval == approvals[ApprovalOf(a)] IN
  IF approval.run = runOf[a] THEN approval.status ELSE "none"

\* The grant is there; an approval it requires is looked up and locked.
LookUpApproval(a) ==
  LET approval == IF ApprovalOf(a) = None THEN "none"
                  ELSE lockApprovalForExecution(a) IN
  /\ At(a, "policy")
  /\ Usable(a)
  /\ \/ /\ ~requiresApproval \/ approval = "APPROVED"
        /\ Enter(a, "credentials")
        /\ granted' = granted \cup {a}
        /\ UNCHANGED <<found, undispatched>>
     \/ /\ requiresApproval /\ approval = "none"
        /\ Goto(a, "requesting")
     \/ /\ requiresApproval /\ approval = "DENIED"
        /\ Deny(a)
     \/ /\ requiresApproval /\ approval = "PENDING"
        /\ Return(a, "denied")
  /\ UNCHANGED <<specVars, grant, runVars, dbVars, remoteVars>>

\* failUndispatchedReceiptAndDeny.
failUndispatchedReceiptAndDeny(a) ==
  /\ At(a, "refusing")
  /\ \/ /\ IsCurrentActionOwner(a)
        /\ CloseReceipt(found[a], "FAILED")
        /\ Return(a, "denied")
     \/ /\ ~IsCurrentActionOwner(a)
        /\ Return(a, "over")
        /\ UNCHANGED receipt
  /\ UNCHANGED <<specVars, grant, runVars, approvals, remoteVars>>

\* requestFreshApproval reads the ownership without a lock ...
requestFreshApproval(a) ==
  /\ At(a, "requesting")
  /\ IF IsCurrentActionOwner(a) THEN Goto(a, "inserting") ELSE Return(a, "over")
  /\ UNCHANGED <<specVars, grant, runVars, dbVars, remoteVars>>

\* Faulty variant: the approval stays although the run could not be suspended.
InsertApprovalFirst(a) ==
  /\ At(a, "inserting")
  /\ Len(approvals) < MaxApprovals
  /\ insertApproval(runOf[a])
  /\ status' = IF status = "RUNNING" /\ run = runOf[a]
               THEN "WAITING_APPROVAL" ELSE status
  /\ lapsed' = (lapsed /\ status' = "RUNNING")
  /\ Return(a, "over")
  /\ UNCHANGED <<specVars, grant, run, attempt, runOf, receipt,
                 remoteVars>>

\* ... then inserts the approval and suspends the run, if it is still RUNNING.
SuspendForApproval(a) ==
  /\ At(a, "inserting")
  /\ Len(approvals) < MaxApprovals
  /\ \/ /\ status = "RUNNING" /\ run = runOf[a]
        /\ insertApproval(run)
        /\ status' = "WAITING_APPROVAL"
        /\ lapsed' = FALSE
        /\ receipt' = IF pendingRecovery(a)
                      THEN [receipt EXCEPT ![found[a]].approval = Len(approvals')]
                      ELSE receipt
        /\ Return(a, "over")
     \/ /\ status # "RUNNING" \/ run # runOf[a]
        /\ Return(a, "over")
        /\ UNCHANGED <<approvals, status, lapsed, receipt>>
  /\ UNCHANGED <<specVars, grant, run, attempt, runOf, remoteVars>>

\* The credential broker answers or fails; the approval is looked at again.
resolveCredential(a) ==
  /\ At(a, "credentials")
  /\ Goto(a, "receipting") \/ Return(a, "over")
  /\ UNCHANGED <<specVars, grant, runVars, dbVars, remoteVars>>

\* authorizeAndConsume: a call of the grant is charged, perhaps its last one.
authorizeAndConsume(a) ==
  IF a \in granted
  THEN grant = "usable" /\ grant' \in {"usable", "exhausted"}
  ELSE UNCHANGED grant

\* authorizeAndConsume and insertPendingReceipt, in one transaction; a receipt
\* that is being recovered is kept.
insertPendingReceipt(a) ==
  /\ At(a, "receipting")
  /\ \/ /\ pendingRecovery(a)
        /\ Goto(a, "checking")
        /\ UNCHANGED <<receipt, grant>>
     \/ /\ ~pendingRecovery(a)
        /\ authorizeAndConsume(a)
        /\ receipt' = [receipt EXCEPT ![runOf[a]] =
             [status |-> "PENDING",
              approval |-> IF requiresApproval /\ a \in granted
                           THEN ApprovalOf(a) ELSE None]]
        /\ Enter(a, "checking")
        /\ found' = [found EXCEPT ![a] = runOf[a]]
        /\ undispatched' = undispatched \cup {a}
        /\ UNCHANGED granted
     \/ /\ ~pendingRecovery(a)
        /\ a \in granted /\ grant # "usable"
        /\ Return(a, "over")
        /\ UNCHANGED <<receipt, grant>>
  /\ UNCHANGED <<specVars, runVars, approvals, remoteVars>>

\* The grant the action was charged to is still there; its calls do not matter.
revalidateGrantForDispatch(a) == a \in granted => grant # "expired"

\* Ownership, beforeDispatch, the grant and the approval once more.
revalidateForDispatch(a) ==
  /\ At(a, "checking")
  /\ \/ ~IsCurrentActionOwner(a) /\ Return(a, "over")
     \/ /\ IsCurrentActionOwner(a)
        /\ IF revalidateGrantForDispatch(a) THEN Goto(a, "owned") ELSE Deny(a)
  /\ UNCHANGED <<specVars, grant, runVars, dbVars, remoteVars>>

\* The last ownership check before the request.
assertCurrentActionOwner(a) ==
  /\ At(a, "owned")
  /\ IF IsCurrentActionOwner(a) THEN Goto(a, "sending") ELSE Return(a, "over")
  /\ UNCHANGED <<specVars, grant, runVars, dbVars, remoteVars>>

\* spec.dispatch sends the request: with the lock, or without it when the
\* session has just been lost.
dispatch(a) ==
  /\ pc[a] = "sending"
  /\ call' = [call EXCEPT ![a] = "open"]
  /\ Goto(a, "sent")
  /\ UNCHANGED <<specVars, grant, runVars, dbVars, found, undispatched,
                 granted,
                 applied>>

\* The provider carries a request out, whether or not its sender still waits.
\* One that honours the key does so once per key.  An HTTP answer with an error
\* status is an answer like any other: it too is committed to the receipt.
ProviderApplies(a) ==
  /\ call[a] = "open"
  /\ call' = [call EXCEPT ![a] = "applied"]
  /\ applied' = IF recovery = "retry" THEN 1 ELSE applied + 1
  /\ UNCHANGED <<specVars, grant, runVars, dbVars, localVars>>

\* The provider drops a request for good.
ProviderRejects(a) ==
  /\ call[a] = "open"
  /\ call' = [call EXCEPT ![a] = "rejected"]
  /\ UNCHANGED <<specVars, grant, runVars, dbVars, localVars, applied>>

\* The answer to an applied request reaches the execution ...
DispatchReturns(a) ==
  /\ At(a, "sent")
  /\ call[a] = "applied"
  /\ Goto(a, "committing")
  /\ UNCHANGED <<specVars, grant, runVars, dbVars, remoteVars>>

\* An exception after the dispatch: escalate where nothing can be looked up or
\* repeated, otherwise leave the receipt PENDING.
FailDispatched(a) ==
  IF recovery = "manual" THEN Goto(a, "failing") ELSE Return(a, "over")

\* ... or the call's deadline or its abort wins the race against the answer ...
CallAborted(a) ==
  /\ At(a, "sent")
  /\ FailDispatched(a)
  /\ UNCHANGED <<specVars, grant, runVars, dbVars, remoteVars>>

\* ... or the answer of an applied request is refused: malformed, too large, or
\* with the credential in it ...
ResponseRefused(a) ==
  /\ At(a, "sent")
  /\ call[a] = "applied"
  /\ FailDispatched(a)
  /\ UNCHANGED <<specVars, grant, runVars, dbVars, remoteVars>>

\* ... or the provider throws.
CallRejected(a) ==
  /\ At(a, "sent")
  /\ call[a] = "rejected"
  /\ FailDispatched(a)
  /\ UNCHANGED <<specVars, grant, runVars, dbVars, remoteVars>>

\* Commit the receipt, in one transaction with the ownership check.
commitReceipt(a) ==
  /\ At(a, "committing")
  /\ \/ /\ CanCommit(a)
        /\ CloseReceipt(found[a], "COMMITTED")
        /\ Return(a, "completed")
     \/ /\ ~CanCommit(a)
        /\ FailDispatched(a)
        /\ UNCHANGED receipt
  /\ UNCHANGED <<specVars, grant, runVars, approvals, remoteVars>>

-----------------------------------------------------------------------------
(* Failures.                                                               *)

\* The connection that holds the lock is lost: the lock is free at once, and
\* the execution throws at its next use of it or is aborted.  To the others
\* that is as if its worker were lost, unless its request is just leaving.
LockSessionLost(a) ==
  /\ At(a, "sending")
  /\ lock' = None
  /\ UNCHANGED <<specVars, grant, runVars, dbVars, pc, workVars, remoteVars>>

SessionLossNoticed(a) ==
  /\ pc[a] \in {"sending", "sent"}
  /\ lock # a
  /\ Return(a, "over")
  /\ UNCHANGED <<specVars, grant, runVars, dbVars, remoteVars>>

\* The worker process, or the connection that holds the lock, is lost.
Crash(a) ==
  /\ pc[a] \in Steps
  /\ Return(a, "over")
  /\ UNCHANGED <<specVars, grant, runVars, dbVars, remoteVars>>

-----------------------------------------------------------------------------
Execution(a) ==
  \/ executeGovernedAction(a) \/ markReconciliationRequired(a)
  \/ reconcile(a) \/ CommitReconciled(a)
  \/ ValidationFails(a) \/ NoUsableGrant(a) \/ LookUpApproval(a)
  \/ failUndispatchedReceiptAndDeny(a)
  \/ requestFreshApproval(a) \/ SuspendForApproval(a)
  \/ resolveCredential(a) \/ insertPendingReceipt(a)
  \/ revalidateForDispatch(a) \/ assertCurrentActionOwner(a)
  \/ dispatch(a) \/ DispatchReturns(a)
  \/ CallAborted(a) \/ ResponseRefused(a) \/ CallRejected(a)
  \/ commitReceipt(a)

Next ==
  \/ Claim \/ LeaseMoves \/ Reap \/ Replace \/ Cancel \/ GrantEnds
  \/ \E i \in DOMAIN approvals, decision \in {"APPROVED", "DENIED"} :
       DecideAndWake(i, decision)
  \/ \E a \in Attempts :
       \/ Execution(a)
       \/ ProviderApplies(a) \/ ProviderRejects(a)
       \/ LockSessionLost(a) \/ SessionLossNoticed(a) \/ Crash(a)

Spec == Init /\ [][Next]_vars

-----------------------------------------------------------------------------
(* Properties.                                                             *)

PolicyTypes ==
  /\ SpecTypes
  /\ grant \in {"usable", "exhausted", "expired"}

RunTypes ==
  /\ run \in Runs
  /\ status \in {"QUEUED", "RUNNING", "WAITING_APPROVAL", "CANCELLED"}
  /\ attempt \in Attempts \cup {None} /\ lapsed \in BOOLEAN
  /\ runOf \in [Attempts -> Runs \cup {None}]

ReceiptRows ==
  [Runs -> [status : {"NONE", "PENDING", "COMMITTED", "FAILED",
                      "NEEDS_RECONCILIATION"},
            approval : 0..MaxApprovals]]

RowTypes ==
  /\ approvals \in Seq([run : Runs, status : {"PENDING", "APPROVED", "DENIED"}])
  /\ Len(approvals) <= MaxApprovals
  /\ receipt \in ReceiptRows

LocalTypes ==
  /\ lock \in Attempts \cup {None}
  /\ pc \in [Attempts -> {"none", "idle"} \cup Results \cup Steps]
  /\ found \in [Attempts -> Runs \cup {None}]
  /\ undispatched \subseteq Attempts /\ granted \subseteq Attempts

RemoteTypes ==
  /\ call \in [Attempts -> {"none", "open", "applied", "rejected"}]
  /\ applied \in Nat

\* Every column and every local variable holds what it is declared to hold
\* (tool_receipts, approvals, executeGovernedActionFenced's locals).
TypeOK == PolicyTypes /\ RunTypes /\ RowTypes /\ LocalTypes /\ RemoteTypes

\* An action has one receipt over a whole replacement lineage: a replacement
\* run recovers its predecessor's receipt and never opens a second one
\* (findReceiptByLineageKey under the lock of the lineage's key).
OneReceiptPerLineage ==
  \A r, s \in Runs :
    receipt[r].status # "NONE" /\ receipt[s].status # "NONE" => r = s

\* No run is stranded behind an approval nobody waits for, or waits for one that
\* is decided: an approval is PENDING only while its run, the newest of the
\* lineage, waits for it or after that run was cancelled; and a run waits only
\* while an approval of its own is PENDING (requestFreshApproval, POST
\* /approvals, POST /cancel).
PendingApprovalIsAwaited ==
  /\ \A i \in DOMAIN approvals :
       approvals[i].status = "PENDING"
         => status \in {"WAITING_APPROVAL", "CANCELLED"} /\ approvals[i].run = run
  /\ status = "WAITING_APPROVAL"
       => \E i \in DOMAIN approvals :
            approvals[i].status = "PENDING" /\ approvals[i].run = run

\* Where the grant requires an approval, no attempt's request leaves before a
\* human approved the action for that attempt's own run: not on the strength
\* of a predecessor's approval (lockApprovalForExecution).
ApprovedBeforeDispatch ==
  \A a \in Attempts :
    (requiresApproval /\ a \in granted /\ call[a] # "none")
      => \E i \in DOMAIN approvals :
           approvals[i].status = "APPROVED" /\ approvals[i].run = runOf[a]

\* The receipt of the lineage, as an operator reads it.
lineageRecord ==
  LET r == findReceiptByLineageKey(run)
      state == IF r = None THEN "NONE" ELSE receipt[r].status IN
  CASE state = "NONE" -> "none"
    [] state = "PENDING" -> "open"
    [] state = "COMMITTED" -> "done"
    [] state = "FAILED" -> "failed"
    [] state = "NEEDS_RECONCILIATION" -> "escalated"

Effect == INSTANCE ExternalEffect WITH
  record <- lineageRecord, effects <- applied

\* The receipts implement ExternalEffect: nothing is applied before a durable
\* PENDING receipt, twice, or under a FAILED one, and COMMITTED means applied
\* (executeGovernedActionFenced; the GUIDE's provider recovery policies).
ImplementsExternalEffect == Effect!Spec

\* "Uncertain external mutations MUST enter reconciliation": an execution that
\* answers "denied" to a mutation leaves no applied one behind an open receipt.
DeniedIsCertain ==
  [][\A a \in Attempts :
       (mutation /\ pc[a] # "denied" /\ pc'[a] = "denied" /\ found[a] # None)
         => ~(receipt'[found[a]].status = "PENDING" /\ applied > 0)]_vars
=============================================================================
