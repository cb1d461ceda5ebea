---------------------------- MODULE RunLifecycle ----------------------------
(***************************************************************************)
(* One run and the fleet of workers that execute it.                       *)
(*                                                                         *)
(* A worker claims the queued run and gets a new attempt with a lease; it  *)
(* moves the run to RUNNING, executes an epoch, and settles the attempt    *)
(* with the reason the epoch returned.  A reaper orphans ACTIVE attempts   *)
(* whose lease has expired.  A worker may be paused or killed at any       *)
(* point, so several epochs of one run may be alive at once.  Every        *)
(* Postgres transaction is one step; what a process read before it is not. *)
(*                                                                         *)
(* Attempts are named by their attempt_no.  The fleet is not bounded: an   *)
(* epoch is identified with its attempt.  ClaimLimit bounds the number of  *)
(* claims a behaviour contains and is not part of the program.             *)
(***************************************************************************)
EXTENDS Naturals, RunStates

CONSTANTS
  MaxAttempts,   \* cfg.MAX_ATTEMPTS
  ClaimLimit     \* how many times the run is claimed (bound of the model)

ASSUME MaxAttemptsAssumption == MaxAttempts \in Nat \ {0}
ASSUME ClaimLimitAssumption == ClaimLimit \in Nat \ {0}

Attempts == 1..ClaimLimit
None == 0        \* the NULL attempt

VARIABLES
  status,          \* runs.status
  currentAttempt,  \* runs.current_attempt_id
  lastAttempt,     \* MAX(run_attempts.attempt_no), 0 before the first claim
  attemptState,    \* run_attempts.state of each attempt
  expired,         \* the ACTIVE attempts with lease_expires_at < now()
  epoch,           \* where the worker executing each attempt is
  aborted,         \* the epochs whose AbortSignal has fired
  modelLock,       \* holder of the session lock MODEL_INVOCATION of the run
  cancelRead       \* the row a cancel request has read and not yet acted on

runVars == <<status, currentAttempt>>
attemptVars == <<lastAttempt, attemptState, expired>>
workerVars == <<epoch, aborted, modelLock>>
vars == <<status, currentAttempt, lastAttempt, attemptState, expired,
          epoch, aborted, modelLock, cancelRead>>

(***************************************************************************)
(* The worker's place in executeClaimed, realEpoch and settleAttempt:      *)
(*   claimed     claimRun has committed                                    *)
(*   loop        at the top of the epoch's main loop                       *)
(*   calling     in the provider call of beginModelInvocation              *)
(*   acting      dispatching the tool calls of a model turn                *)
(*   requesting  owns the run, about to write an approval request          *)
(*   verifying   has moved the run to VERIFYING                            *)
(*   leaving     has written the epoch's last transition; the checkpoint   *)
(*               and the sandbox clean-up are still to come                *)
(*   an exit reason: runEpoch is over, settleAttempt is not.  "left"       *)
(*               stands for completed, failed and the three suspended_*    *)
(*   gone        settled, or the process was lost                          *)
(***************************************************************************)
ExitReasons == {"left", "budget_exhausted", "error", "lease_lost"}
Alive == {"claimed", "loop", "calling", "acting", "requesting", "verifying",
          "leaving"}
Phases == {"none", "gone"} \cup Alive \cup ExitReasons

NoCancel == [status |-> "NONE", attempt |-> None]

Init ==
  /\ status = "QUEUED"             \* createRun commits CREATED..QUEUED at once
  /\ currentAttempt = None
  /\ lastAttempt = 0
  /\ attemptState = [a \in Attempts |-> "NONE"]
  /\ expired = {}
  /\ epoch = [a \in Attempts |-> "none"]
  /\ aborted = {}
  /\ modelLock = None
  /\ cancelRead = NoCancel

-----------------------------------------------------------------------------
(* Helpers shared by the transactions.                                     *)

\* A transaction may take the advisory lock of the run: no session holds it.
AdvisoryLockFree == modelLock = None

\* Faulty variant: a terminal transition does not wait for the provider call.
transitionRunUnfenced(expectFrom, to) ==
  /\ status \in expectFrom
  /\ isTransitionAllowed(status, to)
  /\ status' = to

\* transitionRun: the run is in one of expectFrom, the edge is legal, and a
\* terminal transition waits for the provider call in flight.
transitionRun(expectFrom, to) ==
  /\ status \in expectFrom
  /\ isTransitionAllowed(status, to)
  /\ isTerminal(to) => AdvisoryLockFree
  /\ status' = to

\* The run is RUNNING under attempt a, and a is ACTIVE.
OwnsRun(a) ==
  /\ status = "RUNNING"
  /\ currentAttempt = a
  /\ attemptState[a] = "ACTIVE"

\* The epoch of a moves on to p.
Goto(a, p) == epoch' = [epoch EXCEPT ![a] = p]

\* What executeClaimed makes of an exception: a lost lease or an error.
ThrowReason(a) == IF a \in aborted THEN "lease_lost" ELSE "error"

-----------------------------------------------------------------------------
(* The scheduler.                                                          *)

\* Faulty variant: an orphaned attempt is taken over under its own number.
claimRunReusing ==
  LET a == IF lastAttempt # 0 /\ attemptState[lastAttempt] = "ORPHANED"
           THEN lastAttempt ELSE lastAttempt + 1 IN
  /\ a <= ClaimLimit
  /\ transitionRun({"QUEUED"}, "STARTING")
  /\ currentAttempt' = a
  /\ lastAttempt' = a
  /\ attemptState' = [attemptState EXCEPT ![a] = "ACTIVE"]
  /\ Goto(a, "claimed")
  /\ UNCHANGED <<expired, aborted, modelLock, cancelRead>>

\* claimRun: insert an ACTIVE attempt numbered MAX(attempt_no) + 1 with a
\* fresh lease, and move the run to STARTING under it.
claimRun ==
  LET a == lastAttempt + 1 IN
  /\ lastAttempt < ClaimLimit
  /\ transitionRun({"QUEUED"}, "STARTING")
  /\ currentAttempt' = a
  /\ lastAttempt' = a
  /\ attemptState' = [attemptState EXCEPT ![a] = "ACTIVE"]
  /\ Goto(a, "claimed")
  /\ UNCHANGED <<expired, aborted, modelLock, cancelRead>>

\* The clock passes lease_expires_at.
LeaseExpires(a) ==
  /\ attemptState[a] = "ACTIVE"
  /\ a \notin expired
  /\ expired' = expired \cup {a}
  /\ UNCHANGED <<runVars, lastAttempt, attemptState, workerVars, cancelRead>>

\* Faulty variant: STARTING is not counted as an execution status.
ReapTransitionRunning(a) ==
  \/ /\ status \notin {"RUNNING", "VERIFYING"}
     /\ UNCHANGED runVars
  \/ /\ a >= MaxAttempts
     /\ transitionRun({"RUNNING", "VERIFYING"}, "FAILED")
     /\ UNCHANGED currentAttempt
  \/ /\ a < MaxAttempts
     /\ transitionRun({"RUNNING", "VERIFYING"}, "QUEUED")
     /\ currentAttempt' = None

\* Faulty variant: requeue through RETRY_PENDING, which VERIFYING cannot reach.
ReapTransitionRetryPending(a) ==
  \/ /\ status \notin Executing
     /\ UNCHANGED runVars
  \/ /\ a >= MaxAttempts
     /\ transitionRun(Executing, "FAILED")
     /\ UNCHANGED currentAttempt
  \/ /\ a < MaxAttempts
     /\ transitionRun(Executing, "RETRY_PENDING")
     /\ currentAttempt' = None

\* The transition of a reaped attempt's run, or none when the run is not in an
\* execution status.  Whose execution it is, is not looked at.
ReapTransition(a) ==
  \/ /\ status \notin Executing
     /\ UNCHANGED runVars
  \/ /\ a >= MaxAttempts
     /\ transitionRun(Executing, "FAILED")
     /\ UNCHANGED currentAttempt
  \/ /\ a < MaxAttempts
     /\ transitionRun(Executing, "QUEUED")
     /\ currentAttempt' = None

\* Faulty variant: only the attempts of executing runs are looked at.
reapExecutingRuns(a) ==
  /\ attemptState[a] = "ACTIVE"
  /\ a \in expired
  /\ status \in Executing
  /\ AdvisoryLockFree
  /\ attemptState' = [attemptState EXCEPT ![a] = "ORPHANED"]
  /\ expired' = expired \ {a}
  /\ ReapTransition(a)
  /\ UNCHANGED <<lastAttempt, workerVars, cancelRead>>

\* reapExpiredLeases, one turn of its loop: orphan an ACTIVE attempt whose
\* lease has expired, unless a provider call of the run is in flight.
reapExpiredLeases(a) ==
  /\ attemptState[a] = "ACTIVE"
  /\ a \in expired
  /\ AdvisoryLockFree
  /\ attemptState' = [attemptState EXCEPT ![a] = "ORPHANED"]
  /\ expired' = expired \ {a}
  /\ ReapTransition(a)
  /\ UNCHANGED <<lastAttempt, workerVars, cancelRead>>

-----------------------------------------------------------------------------
(* The worker around the epoch.                                            *)

\* The heartbeat timer, which runs until the epoch returns: renew the lease
\* of an attempt that is still ACTIVE, or abort its epoch.
heartbeatAttempt(a) ==
  /\ epoch[a] \in Alive
  /\ \/ /\ attemptState[a] = "ACTIVE"
        /\ expired' = expired \ {a}
        /\ UNCHANGED aborted
     \/ /\ attemptState[a] # "ACTIVE"
        /\ aborted' = aborted \cup {a}
        /\ UNCHANGED expired
  /\ UNCHANGED <<runVars, lastAttempt, attemptState, epoch, modelLock,
                 cancelRead>>

\* handle.stop(): a worker that shuts down aborts its epoch.
Shutdown(a) ==
  /\ epoch[a] \in Alive
  /\ aborted' = aborted \cup {a}
  /\ UNCHANGED <<runVars, attemptVars, epoch, modelLock, cancelRead>>

\* executeClaimed: STARTING -> RUNNING, then the epoch restores its state and
\* dispatches the tool call that an earlier epoch left pending, if any.
StartEpoch(a) ==
  /\ epoch[a] = "claimed"
  /\ transitionRun({"STARTING"}, "RUNNING")
  /\ Goto(a, "acting")
  /\ UNCHANGED <<currentAttempt, attemptVars, aborted, modelLock, cancelRead>>

\* A step of the epoch throws: the transition it tried was refused, or the
\* database, the sandbox, the model or the object store failed.
EpochThrows(a) ==
  /\ epoch[a] \in Alive \ {"calling"}
  /\ Goto(a, ThrowReason(a))
  /\ UNCHANGED <<runVars, attemptVars, aborted, modelLock, cancelRead>>

\* The worker process is lost, and with it the session that holds the lock.
Crash(a) ==
  /\ epoch[a] \in Alive \cup ExitReasons
  /\ Goto(a, "gone")
  /\ aborted' = aborted \ {a}
  /\ modelLock' = IF modelLock = a THEN None ELSE modelLock
  /\ UNCHANGED <<runVars, attemptVars, cancelRead>>

\* What settleAttempt does to the run of an attempt it still owned.
SettleTransition(a) ==
  \/ /\ epoch[a] = "left"
     /\ UNCHANGED runVars
  \/ /\ epoch[a] = "budget_exhausted"
     /\ transitionRun({"RUNNING"}, "FAILED")
     /\ UNCHANGED currentAttempt
  \/ /\ epoch[a] = "error"
     /\ a >= MaxAttempts
     /\ transitionRun(Executing, "FAILED")
     /\ UNCHANGED currentAttempt
  \/ /\ epoch[a] = "error"
     /\ a < MaxAttempts
     /\ transitionRun(Executing, "QUEUED")
     /\ currentAttempt' = None

\* settleAttempt refuses: the run is not where the transition expects it, the
\* transaction rolls back and the attempt stays ACTIVE until it is reaped.
SettleRefused(a) ==
  \/ epoch[a] = "budget_exhausted" /\ status # "RUNNING"
  \/ epoch[a] = "error" /\ status \notin Executing

\* settleAttempt.  A lost lease leaves everything to the reaper; otherwise the
\* advisory lock comes first and only an attempt that is still ACTIVE settles.
settleAttempt(a) ==
  /\ \/ /\ epoch[a] = "lease_lost"
        /\ UNCHANGED <<runVars, attemptState, expired>>
     \/ /\ epoch[a] \in ExitReasons \ {"lease_lost"}
        /\ AdvisoryLockFree
        /\ \/ /\ attemptState[a] # "ACTIVE" \/ SettleRefused(a)
              /\ UNCHANGED <<runVars, attemptState, expired>>
           \/ /\ attemptState[a] = "ACTIVE"
              /\ attemptState' = [attemptState EXCEPT ![a] = "EXITED"]
              /\ expired' = expired \ {a}
              /\ SettleTransition(a)
  /\ Goto(a, "gone")
  /\ aborted' = aborted \ {a}
  /\ UNCHANGED <<lastAttempt, modelLock, cancelRead>>

-----------------------------------------------------------------------------
(* The epoch: the model loop.                                              *)

\* The signal check at the top of the loop and before each tool call.
SeeAbort(a) ==
  /\ epoch[a] \in {"loop", "acting"}
  /\ a \in aborted
  /\ Goto(a, "lease_lost")
  /\ UNCHANGED <<runVars, attemptVars, aborted, modelLock, cancelRead>>

\* The step or token budget of the run is used up.
OutOfBudget(a) ==
  /\ epoch[a] = "loop"
  /\ Goto(a, "budget_exhausted")
  /\ UNCHANGED <<runVars, attemptVars, aborted, modelLock, cancelRead>>

\* Take the session lock, then beginModelInvocation: call the provider if the
\* epoch is not aborted and owns the run; release the lock and stop otherwise.
beginModelInvocation(a) ==
  /\ epoch[a] = "loop"
  /\ AdvisoryLockFree
  /\ \/ /\ a \notin aborted /\ OwnsRun(a)
        /\ modelLock' = a
        /\ Goto(a, "calling")
     \/ /\ a \in aborted \/ ~OwnsRun(a)
        /\ Goto(a, "lease_lost")
        /\ UNCHANGED modelLock
  /\ UNCHANGED <<runVars, attemptVars, aborted, cancelRead>>

\* completeModelInvocation and the unlock: go on only while the run is still
\* owned, and stop when the provider overran the budget.
completeModelInvocation(a) ==
  /\ epoch[a] = "calling"
  /\ modelLock = a
  /\ modelLock' = None
  /\ \/ OwnsRun(a) /\ Goto(a, "acting")
     \/ OwnsRun(a) /\ Goto(a, "budget_exhausted")
     \/ ~OwnsRun(a) /\ Goto(a, "lease_lost")
  /\ UNCHANGED <<runVars, attemptVars, aborted, cancelRead>>

\* The provider call fails or is aborted; finally releases the lock.
ModelCallThrows(a) ==
  /\ epoch[a] = "calling"
  /\ Goto(a, ThrowReason(a))
  /\ modelLock' = IF modelLock = a THEN None ELSE modelLock
  /\ UNCHANGED <<runVars, attemptVars, aborted, cancelRead>>

\* The database session that holds the lock dies: the lock is free at once,
\* and invocationAbortFence makes the call throw when the client notices.
LockSessionLost(a) ==
  /\ modelLock = a
  /\ modelLock' = None
  /\ UNCHANGED <<runVars, attemptVars, epoch, aborted, cancelRead>>

-----------------------------------------------------------------------------
(* The epoch: what a tool call does to the run.                            *)

\* A tool call that leaves the run's status alone; the loop goes round.
ToolReturns(a) ==
  /\ epoch[a] = "acting"
  /\ Goto(a, "loop")
  /\ UNCHANGED <<runVars, attemptVars, aborted, modelLock, cancelRead>>

\* assertCurrentActionOwner, read before the approval request is written.
assertCurrentActionOwner(a) ==
  /\ epoch[a] = "acting"
  /\ OwnsRun(a)
  /\ a \notin expired
  /\ Goto(a, "requesting")
  /\ UNCHANGED <<runVars, attemptVars, aborted, modelLock, cancelRead>>

\* The transition of requestFreshApproval.
requestFreshApproval(a) ==
  /\ epoch[a] = "requesting"
  /\ transitionRun({"RUNNING"}, "WAITING_APPROVAL")
  /\ Goto(a, "leaving")
  /\ UNCHANGED <<currentAttempt, attemptVars, aborted, modelLock, cancelRead>>

\* The transition of waitForSignal.
waitForSignal(a) ==
  /\ epoch[a] = "acting"
  /\ transitionRun({"RUNNING"}, "WAITING_SIGNAL")
  /\ Goto(a, "leaving")
  /\ UNCHANGED <<currentAttempt, attemptVars, aborted, modelLock, cancelRead>>

\* The transition of spawnChildren.
spawnChildren(a) ==
  /\ epoch[a] = "acting"
  /\ transitionRun({"RUNNING"}, "WAITING_CHILDREN")
  /\ currentAttempt' = None
  /\ Goto(a, "leaving")
  /\ UNCHANGED <<attemptVars, aborted, modelLock, cancelRead>>

\* The supervisor terminates the run, or verification has failed too often.
GiveUp(a) ==
  /\ epoch[a] = "acting"
  /\ transitionRun({"RUNNING"}, "FAILED")
  /\ Goto(a, "leaving")
  /\ UNCHANGED <<currentAttempt, attemptVars, aborted, modelLock, cancelRead>>

\* finishRun: verify, then complete the run or return it to the loop.
StartVerification(a) ==
  /\ epoch[a] = "acting"
  /\ transitionRun({"RUNNING"}, "VERIFYING")
  /\ Goto(a, "verifying")
  /\ UNCHANGED <<currentAttempt, attemptVars, aborted, modelLock, cancelRead>>

VerificationFails(a) ==
  /\ epoch[a] = "verifying"
  /\ transitionRun({"VERIFYING"}, "RUNNING")
  /\ Goto(a, "acting")
  /\ UNCHANGED <<currentAttempt, attemptVars, aborted, modelLock, cancelRead>>

VerificationPasses(a) ==
  /\ epoch[a] = "verifying"
  /\ transitionRun({"VERIFYING"}, "COMPLETED")
  /\ Goto(a, "leaving")
  /\ UNCHANGED <<currentAttempt, attemptVars, aborted, modelLock, cancelRead>>

\* The checkpoint and the sandbox clean-up after the last transition.
EpochReturns(a) ==
  /\ epoch[a] = "leaving"
  /\ Goto(a, "left")
  /\ UNCHANGED <<runVars, attemptVars, aborted, modelLock, cancelRead>>

-----------------------------------------------------------------------------
(* The API.                                                                *)

\* A wait is over: an approval is decided, the signal arrives, or the children
\* are resolved.  Each requeues the run and clears its attempt.
WakeRun ==
  /\ transitionRun(Waiting, "QUEUED")
  /\ currentAttempt' = None
  /\ UNCHANGED <<attemptVars, workerVars, cancelRead>>

\* Faulty variant: the attempt is given the state of its run.
ExitAttemptCancelled(x) ==
  /\ attemptState' = [a \in Attempts |->
                        IF a = x /\ attemptState[a] = "ACTIVE"
                        THEN "CANCELLED" ELSE attemptState[a]]
  /\ expired' = expired \ {x}

\* Fence out the attempt a cancellation found on the run, if it is ACTIVE.
ExitAttempt(x) ==
  /\ attemptState' = [a \in Attempts |->
                        IF a = x /\ attemptState[a] = "ACTIVE"
                        THEN "EXITED" ELSE attemptState[a]]
  /\ expired' = expired \ {x}

\* POST /cancel reads the run without a lock ...
CancelReads ==
  /\ cancelRead = NoCancel
  /\ ~isTerminal(status)
  /\ cancelRead' = [status |-> status, attempt |-> currentAttempt]
  /\ UNCHANGED <<runVars, attemptVars, workerVars>>

\* ... and cancels it if its status is still the one it read, fencing out the
\* attempt it read.
CancelCommits ==
  /\ cancelRead # NoCancel
  /\ cancelRead' = NoCancel
  /\ \/ /\ transitionRun({cancelRead.status}, "CANCELLED")
        /\ ExitAttempt(cancelRead.attempt)
     \/ /\ status # cancelRead.status
        /\ UNCHANGED <<status, attemptState, expired>>
  /\ UNCHANGED <<currentAttempt, lastAttempt, workerVars>>

\* Cancelling the run's session cancels the run as its locked row says it is.
fenceManagedSessionRuns ==
  /\ transitionRun(RunStatus, "CANCELLED")
  /\ ExitAttempt(currentAttempt)
  /\ UNCHANGED <<currentAttempt, lastAttempt, workerVars, cancelRead>>

-----------------------------------------------------------------------------
\* The steps of the worker of attempt a that its process takes by itself.
EpochStep(a) ==
  \/ StartEpoch(a) \/ EpochThrows(a) \/ settleAttempt(a)
  \/ SeeAbort(a) \/ OutOfBudget(a)
  \/ beginModelInvocation(a) \/ completeModelInvocation(a)
  \/ ModelCallThrows(a)
  \/ ToolReturns(a) \/ assertCurrentActionOwner(a) \/ requestFreshApproval(a)
  \/ waitForSignal(a) \/ spawnChildren(a) \/ GiveUp(a)
  \/ StartVerification(a) \/ VerificationFails(a) \/ VerificationPasses(a)
  \/ EpochReturns(a)

Next ==
  \/ claimRun
  \/ WakeRun \/ CancelReads \/ CancelCommits \/ fenceManagedSessionRuns
  \/ \E a \in Attempts :
       \/ EpochStep(a)
       \/ heartbeatAttempt(a) \/ Shutdown(a) \/ Crash(a) \/ LockSessionLost(a)
       \/ LeaseExpires(a) \/ reapExpiredLeases(a)

Spec == Init /\ [][Next]_vars

(***************************************************************************)
(* Fairness.  A live worker process takes its next step (its promises are  *)
(* settled: provider and sandbox calls carry timeouts); the clock passes   *)
(* the lease of an attempt nobody renews; and some worker of the fleet     *)
(* keeps polling, so expired leases are reaped and queued runs claimed.    *)
(* Users owe nothing: wake-ups and cancellations have no fairness.         *)
(***************************************************************************)
Fairness ==
  /\ WF_vars(claimRun)
  /\ \A a \in Attempts :
       /\ WF_vars(EpochStep(a))
       /\ WF_vars(epoch[a] \notin Alive /\ LeaseExpires(a))
       /\ WF_vars(reapExpiredLeases(a))

FairSpec == Spec /\ Fairness

-----------------------------------------------------------------------------
(* Properties.                                                             *)

\* The columns and the workers' variables hold what they are declared to hold
\* (runs.status, run_attempts.state and the epoch's local state).
TypeOK ==
  /\ status \in RunStatus
  /\ currentAttempt \in Attempts \cup {None}
  /\ lastAttempt \in 0..ClaimLimit
  /\ attemptState \in [Attempts -> {"NONE", "ACTIVE", "EXITED", "ORPHANED"}]
  /\ expired \subseteq Attempts
  /\ epoch \in [Attempts -> Phases]
  /\ aborted \subseteq Attempts
  /\ modelLock \in Attempts \cup {None}
  /\ cancelRead \in [status : RunStatus \cup {"NONE"},
                     attempt : Attempts \cup {None}]

\* A run in an execution status always has its newest attempt as current
\* attempt, and that attempt is ACTIVE.  The reaper only looks at ACTIVE
\* attempts, so an executing run without one would be lost for ever: whatever
\* stale workers, settlements, reaps and wake-ups do to each other
\* (worker.ts settleAttempt, reaper.ts), the run stays recoverable.
ExecutingRunIsRecoverable ==
  status \in Executing =>
    /\ currentAttempt # None
    /\ currentAttempt = lastAttempt
    /\ attemptState[currentAttempt] = "ACTIVE"

\* While a provider call holds the MODEL_INVOCATION lock, its attempt is not
\* orphaned or exited and the run does not finish, so its usage is recorded
\* before the admission is released (transition.ts transitionRun, the reaper's
\* "never orphan an attempt while its provider call is still in flight").
CallInFlightIsFenced ==
  modelLock # None =>
    /\ epoch[modelLock] = "calling"
    /\ attemptState[modelLock] = "ACTIVE"
    /\ ~isTerminal(status)

\* The run as its readers see it: the phases of the kernel's promise.
runPhase ==
  CASE status \in Executing -> "executing"
    [] status \in Waiting -> "waiting"
    [] status = "QUEUED" -> "queued"
    [] OTHER -> "done"

Promise == INSTANCE DurableRun WITH
  phase <- runPhase,
  generation <- lastAttempt,
  holder <- IF status \in Executing THEN currentAttempt ELSE None

\* The lifecycle implements DurableRun: execution is handed over only through
\* the queue and to a newer attempt, and a finished run stays finished
\* (claimRun, transitionRun and every caller of it).
ImplementsDurableRun == Promise!Spec

\* A run whose executing worker is gone does not stay in an execution status:
\* the lease expires and the reaper requeues or fails it (reaper.ts), or the
\* run is moved by someone else.
DeadWorkerIsReplaced ==
  (status \in Executing /\ epoch[currentAttempt] = "gone")
    ~> (status \notin Executing)

\* A run that waits or is finished ends up with no ACTIVE attempt for as long
\* as it stays there: "waiting holds zero compute" (settleAttempt, the reaper
\* for the attempts whose settlement was refused or never happened).
IdleRunReleasesCompute ==
  \A s \in Waiting \cup {"COMPLETED", "FAILED", "CANCELLED"} :
    (status = s) ~> (status # s \/ \A a \in Attempts : attemptState[a] # "ACTIVE")

\* "[Attempts] MUST be fenced so stale workers cannot commit state after lease
\* loss": an epoch whose attempt was orphaned changes nothing about the run.
StaleWorkerCannotCommit ==
  [][\A a \in Attempts :
       (attemptState[a] = "ORPHANED" /\ epoch'[a] # epoch[a])
         => UNCHANGED runVars]_vars
=============================================================================
