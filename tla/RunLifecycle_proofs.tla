------------------------- MODULE RunLifecycle_proofs -------------------------
(***************************************************************************)
(* Proofs about RunLifecycle, for every MaxAttempts and ClaimLimit: the    *)
(* types, the two safety invariants, and that the lifecycle implements     *)
(* DurableRun.                                                             *)
(***************************************************************************)
EXTENDS RunLifecycle, TLAPS

\* Attempts that were not claimed yet have no row and no worker.
UnclaimedAttemptsAreBlank ==
  \A a \in Attempts :
    a > lastAttempt => attemptState[a] = "NONE" /\ epoch[a] = "none"

\* An epoch that has written its last transition left the run behind: settling
\* its attempt as "left" cannot take the attempt of an executing run away.
LeftRunIsReleased ==
  \A a \in Attempts :
    (epoch[a] \in {"leaving", "left"} /\ currentAttempt = a)
      => status \notin Executing

\* The inductive invariant.
IndInv ==
  /\ TypeOK
  /\ UnclaimedAttemptsAreBlank
  /\ LeftRunIsReleased
  /\ ExecutingRunIsRecoverable
  /\ CallInFlightIsFenced
-----------------------------------------------------------------------------
(* The transition table.                                                   *)

\* The statuses are the fifteen of the table, and exactly three of them have
\* no way out (stateMachine.ts TRANSITIONS, isTerminal).
LEMMA StatusTable ==
  /\ RunStatus = {"CREATED", "RESOLVING", "QUEUED", "STARTING", "RUNNING",
                  "WAITING_APPROVAL", "WAITING_SIGNAL", "WAITING_CHILDREN",
                  "SLEEPING", "SUSPENDED", "RETRY_PENDING", "VERIFYING",
                  "COMPLETED", "FAILED", "CANCELLED"}
  /\ \A s \in RunStatus :
       isTerminal(s) <=> s \in {"COMPLETED", "FAILED", "CANCELLED"}
  BY DEF RunStatus, isTerminal, TRANSITIONS

-----------------------------------------------------------------------------
(* Types.                                                                  *)

\* No step takes a variable out of its type.
LEMMA TypeStep == TypeOK /\ [Next]_vars => TypeOK'
  <1>1. SUFFICES ASSUME TypeOK, [Next]_vars PROVE TypeOK'
    OBVIOUS
  <1>. USE <1>1, StatusTable, ClaimLimitAssumption
       DEF TypeOK, Attempts, None, Phases, Alive, ExitReasons
  <1>2. CASE claimRun
    BY <1>2 DEF claimRun, AdvisoryLockFree, transitionRun, Goto
  <1>3. ASSUME NEW a \in Attempts, LeaseExpires(a) PROVE TypeOK'
    BY <1>3 DEF LeaseExpires, runVars, workerVars
  <1>4. ASSUME NEW a \in Attempts, reapExpiredLeases(a) PROVE TypeOK'
    BY <1>4 DEF reapExpiredLeases, AdvisoryLockFree, transitionRun,
        ReapTransition, runVars, workerVars, Executing
  <1>5. ASSUME NEW a \in Attempts, heartbeatAttempt(a) PROVE TypeOK'
    BY <1>5 DEF heartbeatAttempt, runVars
  <1>6. ASSUME NEW a \in Attempts, Shutdown(a) PROVE TypeOK'
    BY <1>6 DEF Shutdown, runVars, attemptVars
  <1>7. ASSUME NEW a \in Attempts, StartEpoch(a) PROVE TypeOK'
    BY <1>7 DEF StartEpoch, AdvisoryLockFree, transitionRun, Goto, attemptVars
  <1>8. ASSUME NEW a \in Attempts, EpochThrows(a) PROVE TypeOK'
    BY <1>8 DEF EpochThrows, Goto, ThrowReason, runVars, attemptVars
  <1>9. ASSUME NEW a \in Attempts, Crash(a) PROVE TypeOK'
    BY <1>9 DEF Crash, Goto, runVars, attemptVars
  <1>10. ASSUME NEW a \in Attempts, settleAttempt(a) PROVE TypeOK'
    BY <1>10 DEF settleAttempt, AdvisoryLockFree, transitionRun, Goto,
        SettleTransition, SettleRefused, runVars, Executing
  <1>11. ASSUME NEW a \in Attempts, SeeAbort(a) PROVE TypeOK'
    BY <1>11 DEF SeeAbort, Goto, runVars, attemptVars
  <1>12. ASSUME NEW a \in Attempts, OutOfBudget(a) PROVE TypeOK'
    BY <1>12 DEF OutOfBudget, Goto, runVars, attemptVars
  <1>13. ASSUME NEW a \in Attempts, beginModelInvocation(a) PROVE TypeOK'
    BY <1>13 DEF beginModelInvocation, AdvisoryLockFree, OwnsRun, Goto,
        runVars, attemptVars
  <1>14. ASSUME NEW a \in Attempts, completeModelInvocation(a) PROVE TypeOK'
    BY <1>14 DEF completeModelInvocation, OwnsRun, Goto, runVars, attemptVars
  <1>15. ASSUME NEW a \in Attempts, ModelCallThrows(a) PROVE TypeOK'
    BY <1>15 DEF ModelCallThrows, Goto, ThrowReason, runVars, attemptVars
  <1>16. ASSUME NEW a \in Attempts, LockSessionLost(a) PROVE TypeOK'
    BY <1>16 DEF LockSessionLost, runVars, attemptVars
  <1>17. ASSUME NEW a \in Attempts, ToolReturns(a) PROVE TypeOK'
    BY <1>17 DEF ToolReturns, Goto, runVars, attemptVars
  <1>18. ASSUME NEW a \in Attempts, assertCurrentActionOwner(a) PROVE TypeOK'
    BY <1>18 DEF assertCurrentActionOwner, OwnsRun, Goto, runVars, attemptVars
  <1>19. ASSUME NEW a \in Attempts, requestFreshApproval(a) PROVE TypeOK'
    BY <1>19 DEF requestFreshApproval, AdvisoryLockFree, transitionRun, Goto,
        attemptVars
  <1>20. ASSUME NEW a \in Attempts, waitForSignal(a) PROVE TypeOK'
    BY <1>20 DEF waitForSignal, AdvisoryLockFree, transitionRun, Goto,
        attemptVars
  <1>21. ASSUME NEW a \in Attempts, spawnChildren(a) PROVE TypeOK'
    BY <1>21 DEF spawnChildren, AdvisoryLockFree, transitionRun, Goto,
        attemptVars
  <1>22. ASSUME NEW a \in Attempts, GiveUp(a) PROVE TypeOK'
    BY <1>22 DEF GiveUp, AdvisoryLockFree, transitionRun, Goto, attemptVars
  <1>23. ASSUME NEW a \in Attempts, StartVerification(a) PROVE TypeOK'
    BY <1>23 DEF StartVerification, AdvisoryLockFree, transitionRun, Goto,
        attemptVars
  <1>24. ASSUME NEW a \in Attempts, VerificationFails(a) PROVE TypeOK'
    BY <1>24 DEF VerificationFails, AdvisoryLockFree, transitionRun, Goto,
        attemptVars
  <1>25. ASSUME NEW a \in Attempts, VerificationPasses(a) PROVE TypeOK'
    BY <1>25 DEF VerificationPasses, AdvisoryLockFree, transitionRun, Goto,
        attemptVars
  <1>26. ASSUME NEW a \in Attempts, EpochReturns(a) PROVE TypeOK'
    BY <1>26 DEF EpochReturns, Goto, runVars, attemptVars
  <1>27. CASE WakeRun
    BY <1>27 DEF WakeRun, AdvisoryLockFree, transitionRun, attemptVars,
        workerVars, Waiting
  <1>28. CASE CancelReads
    BY <1>28 DEF CancelReads, NoCancel, runVars, attemptVars, workerVars
  <1>29. CASE CancelCommits
    BY <1>29 DEF CancelCommits, AdvisoryLockFree, transitionRun, ExitAttempt,
        NoCancel, workerVars
  <1>30. CASE fenceManagedSessionRuns
    BY <1>30 DEF fenceManagedSessionRuns, AdvisoryLockFree, transitionRun,
        ExitAttempt, workerVars
  <1>31. CASE UNCHANGED vars
    BY <1>31 DEF vars
  <1>. QED
    BY <1>2, <1>3, <1>4, <1>5, <1>6, <1>7, <1>8, <1>9, <1>10, <1>11, <1>12,
       <1>13, <1>14, <1>15, <1>16, <1>17, <1>18, <1>19, <1>20, <1>21, <1>22,
       <1>23, <1>24, <1>25, <1>26, <1>27, <1>28, <1>29, <1>30, <1>31 DEF Next, EpochStep

\* The columns and the workers' variables hold what they are declared to hold,
\* for any number of attempts (runs.status, run_attempts.state).
THEOREM TypeCorrect == Spec => []TypeOK
  <1>1. Init => TypeOK
    BY StatusTable, ClaimLimitAssumption
    DEF Init, TypeOK, Attempts, None, Phases, NoCancel
  <1>. QED
    BY <1>1, TypeStep, PTL DEF Spec

-----------------------------------------------------------------------------
(* Safety.                                                                 *)

\* No step breaks the rest of the inductive invariant.
LEMMA SafetyStep == IndInv /\ [Next]_vars => IndInv'
  <1>1. SUFFICES ASSUME IndInv, [Next]_vars PROVE IndInv'
    OBVIOUS
  <1>. DEFINE Safe == /\ UnclaimedAttemptsAreBlank
                      /\ LeftRunIsReleased
                      /\ ExecutingRunIsRecoverable
                      /\ CallInFlightIsFenced
  <1>2. TypeOK /\ TypeOK'
    BY <1>1, TypeStep DEF IndInv
  <1>. USE <1>1, <1>2, StatusTable, ClaimLimitAssumption
       DEF IndInv, TypeOK, UnclaimedAttemptsAreBlank, LeftRunIsReleased,
           ExecutingRunIsRecoverable, CallInFlightIsFenced, Attempts, None,
           Executing, Alive, ExitReasons
  <1>3. CASE claimRun
    BY <1>3 DEF claimRun, AdvisoryLockFree, transitionRun, Goto
  <1>4. ASSUME NEW a \in Attempts, LeaseExpires(a) PROVE Safe'
    BY <1>4 DEF LeaseExpires, runVars, workerVars
  <1>5. ASSUME NEW a \in Attempts, reapExpiredLeases(a) PROVE Safe'
    BY <1>5 DEF reapExpiredLeases, AdvisoryLockFree, transitionRun,
        ReapTransition, runVars, workerVars, Executing
  <1>6. ASSUME NEW a \in Attempts, heartbeatAttempt(a) PROVE Safe'
    BY <1>6 DEF heartbeatAttempt, runVars
  <1>7. ASSUME NEW a \in Attempts, Shutdown(a) PROVE Safe'
    BY <1>7 DEF Shutdown, runVars, attemptVars
  <1>8. ASSUME NEW a \in Attempts, StartEpoch(a) PROVE Safe'
    BY <1>8 DEF StartEpoch, AdvisoryLockFree, transitionRun, Goto, attemptVars
  <1>9. ASSUME NEW a \in Attempts, EpochThrows(a) PROVE Safe'
    BY <1>9 DEF EpochThrows, Goto, ThrowReason, runVars, attemptVars
  <1>10. ASSUME NEW a \in Attempts, Crash(a) PROVE Safe'
    BY <1>10 DEF Crash, Goto, runVars, attemptVars
  <1>11. ASSUME NEW a \in Attempts, settleAttempt(a) PROVE Safe'
    BY <1>11 DEF settleAttempt, AdvisoryLockFree, transitionRun, Goto,
        SettleTransition, SettleRefused, runVars, Executing
  <1>12. ASSUME NEW a \in Attempts, SeeAbort(a) PROVE Safe'
    BY <1>12 DEF SeeAbort, Goto, runVars, attemptVars
  <1>13. ASSUME NEW a \in Attempts, OutOfBudget(a) PROVE Safe'
    BY <1>13 DEF OutOfBudget, Goto, runVars, attemptVars
  <1>14. ASSUME NEW a \in Attempts, beginModelInvocation(a) PROVE Safe'
    BY <1>14 DEF beginModelInvocation, AdvisoryLockFree, OwnsRun, Goto,
        runVars, attemptVars
  <1>15. ASSUME NEW a \in Attempts, completeModelInvocation(a) PROVE Safe'
    BY <1>15 DEF completeModelInvocation, OwnsRun, Goto, runVars, attemptVars
  <1>16. ASSUME NEW a \in Attempts, ModelCallThrows(a) PROVE Safe'
    BY <1>16 DEF ModelCallThrows, Goto, ThrowReason, runVars, attemptVars
  <1>17. ASSUME NEW a \in Attempts, LockSessionLost(a) PROVE Safe'
    BY <1>17 DEF LockSessionLost, runVars, attemptVars
  <1>18. ASSUME NEW a \in Attempts, ToolReturns(a) PROVE Safe'
    BY <1>18 DEF ToolReturns, Goto, runVars, attemptVars
  <1>19. ASSUME NEW a \in Attempts, assertCurrentActionOwner(a) PROVE Safe'
    BY <1>19 DEF assertCurrentActionOwner, OwnsRun, Goto, runVars, attemptVars
  <1>20. ASSUME NEW a \in Attempts, requestFreshApproval(a) PROVE Safe'
    BY <1>20 DEF requestFreshApproval, AdvisoryLockFree, transitionRun, Goto,
        attemptVars
  <1>21. ASSUME NEW a \in Attempts, waitForSignal(a) PROVE Safe'
    BY <1>21 DEF waitForSignal, AdvisoryLockFree, transitionRun, Goto,
        attemptVars
  <1>22. ASSUME NEW a \in Attempts, spawnChildren(a) PROVE Safe'
    BY <1>22 DEF spawnChildren, AdvisoryLockFree, transitionRun, Goto,
        attemptVars
  <1>23. ASSUME NEW a \in Attempts, GiveUp(a) PROVE Safe'
    BY <1>23 DEF GiveUp, AdvisoryLockFree, transitionRun, Goto, attemptVars
  <1>24. ASSUME NEW a \in Attempts, StartVerification(a) PROVE Safe'
    BY <1>24 DEF StartVerification, AdvisoryLockFree, transitionRun, Goto,
        attemptVars
  <1>25. ASSUME NEW a \in Attempts, VerificationFails(a) PROVE Safe'
    BY <1>25 DEF VerificationFails, AdvisoryLockFree, transitionRun, Goto,
        attemptVars
  <1>26. ASSUME NEW a \in Attempts, VerificationPasses(a) PROVE Safe'
    BY <1>26 DEF VerificationPasses, AdvisoryLockFree, transitionRun, Goto,
        attemptVars
  <1>27. ASSUME NEW a \in Attempts, EpochReturns(a) PROVE Safe'
    BY <1>27 DEF EpochReturns, Goto, runVars, attemptVars
  <1>28. CASE WakeRun
    BY <1>28 DEF WakeRun, AdvisoryLockFree, transitionRun, attemptVars,
        workerVars, Waiting
  <1>29. CASE CancelReads
    BY <1>29 DEF CancelReads, NoCancel, runVars, attemptVars, workerVars
  <1>30. CASE CancelCommits
    BY <1>30 DEF CancelCommits, AdvisoryLockFree, transitionRun, ExitAttempt,
        NoCancel, workerVars
  <1>31. CASE fenceManagedSessionRuns
    BY <1>31 DEF fenceManagedSessionRuns, AdvisoryLockFree, transitionRun,
        ExitAttempt, workerVars
  <1>32. CASE UNCHANGED vars
    BY <1>32 DEF vars
  <1>33. Safe'
    BY <1>3, <1>4, <1>5, <1>6, <1>7, <1>8, <1>9, <1>10, <1>11, <1>12, <1>13,
       <1>14, <1>15, <1>16, <1>17, <1>18, <1>19, <1>20, <1>21, <1>22, <1>23,
       <1>24, <1>25, <1>26, <1>27, <1>28, <1>29, <1>30, <1>31, <1>32 DEF Next, EpochStep
  <1>. QED
    BY <1>2, <1>33 DEF IndInv

\* IndInv is an invariant of the lifecycle.
THEOREM Inductive == Spec => []IndInv
  <1>1. Init => IndInv
    BY TypeCorrect, StatusTable, ClaimLimitAssumption
    DEF Init, IndInv, TypeOK, UnclaimedAttemptsAreBlank, LeftRunIsReleased,
        ExecutingRunIsRecoverable, CallInFlightIsFenced, Attempts, None,
        Phases, NoCancel, Executing
  <1>. QED
    BY <1>1, SafetyStep, PTL DEF Spec

\* An executing run always has its newest attempt, ACTIVE, as current attempt,
\* so the reaper can recover it (worker.ts settleAttempt, reaper.ts).
THEOREM Recoverable == Spec => []ExecutingRunIsRecoverable
  BY Inductive, PTL DEF IndInv

\* While a provider call holds the lock its attempt stays ACTIVE and its run
\* unfinished (transition.ts transitionRun, reaper.ts, attempts.ts).
THEOREM CallsAreFenced == Spec => []CallInFlightIsFenced
  BY Inductive, PTL DEF IndInv

-----------------------------------------------------------------------------
(* Refinement.                                                             *)

\* Every step of the lifecycle is a step of DurableRun or leaves it alone.
LEMMA PromiseStep ==
  IndInv /\ [Next]_vars => [Promise!Next]_(Promise!vars)
  <1>1. SUFFICES ASSUME IndInv, [Next]_vars
                 PROVE [Promise!Next]_(Promise!vars)
    OBVIOUS
  <1>. USE <1>1, StatusTable, ClaimLimitAssumption
       DEF IndInv, TypeOK, ExecutingRunIsRecoverable, Attempts, None,
           Executing, Waiting, runPhase, Promise!vars, Promise!Next,
           Promise!Dispatch, Promise!Suspend, Promise!Requeue, Promise!Finish
  <1>2. CASE claimRun
    BY <1>2 DEF claimRun, AdvisoryLockFree, transitionRun, Goto
  <1>3. ASSUME NEW a \in Attempts, LeaseExpires(a)
        PROVE [Promise!Next]_(Promise!vars)
    BY <1>3 DEF LeaseExpires, runVars, workerVars
  <1>4. ASSUME NEW a \in Attempts, reapExpiredLeases(a)
        PROVE [Promise!Next]_(Promise!vars)
    BY <1>4 DEF reapExpiredLeases, AdvisoryLockFree, transitionRun,
        ReapTransition, runVars, workerVars
  <1>5. ASSUME NEW a \in Attempts, heartbeatAttempt(a)
        PROVE [Promise!Next]_(Promise!vars)
    BY <1>5 DEF heartbeatAttempt, runVars, Alive
  <1>6. ASSUME NEW a \in Attempts, Shutdown(a)
        PROVE [Promise!Next]_(Promise!vars)
    BY <1>6 DEF Shutdown, runVars, attemptVars, Alive
  <1>7. ASSUME NEW a \in Attempts, StartEpoch(a)
        PROVE [Promise!Next]_(Promise!vars)
    BY <1>7 DEF StartEpoch, AdvisoryLockFree, transitionRun, Goto, attemptVars
  <1>8. ASSUME NEW a \in Attempts, EpochThrows(a)
        PROVE [Promise!Next]_(Promise!vars)
    BY <1>8 DEF EpochThrows, Goto, ThrowReason, runVars, attemptVars, Alive
  <1>9. ASSUME NEW a \in Attempts, Crash(a)
        PROVE [Promise!Next]_(Promise!vars)
    BY <1>9 DEF Crash, Goto, runVars, attemptVars, Alive, ExitReasons
  <1>10. ASSUME NEW a \in Attempts, settleAttempt(a)
        PROVE [Promise!Next]_(Promise!vars)
    BY <1>10 DEF settleAttempt, AdvisoryLockFree, transitionRun, Goto,
        SettleTransition, SettleRefused, runVars, ExitReasons
  <1>11. ASSUME NEW a \in Attempts, SeeAbort(a)
        PROVE [Promise!Next]_(Promise!vars)
    BY <1>11 DEF SeeAbort, Goto, runVars, attemptVars
  <1>12. ASSUME NEW a \in Attempts, OutOfBudget(a)
        PROVE [Promise!Next]_(Promise!vars)
    BY <1>12 DEF OutOfBudget, Goto, runVars, attemptVars
  <1>13. ASSUME NEW a \in Attempts, beginModelInvocation(a)
        PROVE [Promise!Next]_(Promise!vars)
    BY <1>13 DEF beginModelInvocation, AdvisoryLockFree, OwnsRun, Goto,
        runVars, attemptVars
  <1>14. ASSUME NEW a \in Attempts, completeModelInvocation(a)
        PROVE [Promise!Next]_(Promise!vars)
    BY <1>14 DEF completeModelInvocation, OwnsRun, Goto, runVars, attemptVars
  <1>15. ASSUME NEW a \in Attempts, ModelCallThrows(a)
        PROVE [Promise!Next]_(Promise!vars)
    BY <1>15 DEF ModelCallThrows, Goto, ThrowReason, runVars, attemptVars
  <1>16. ASSUME NEW a \in Attempts, LockSessionLost(a)
        PROVE [Promise!Next]_(Promise!vars)
    BY <1>16 DEF LockSessionLost, runVars, attemptVars
  <1>17. ASSUME NEW a \in Attempts, ToolReturns(a)
        PROVE [Promise!Next]_(Promise!vars)
    BY <1>17 DEF ToolReturns, Goto, runVars, attemptVars
  <1>18. ASSUME NEW a \in Attempts, assertCurrentActionOwner(a)
        PROVE [Promise!Next]_(Promise!vars)
    BY <1>18 DEF assertCurrentActionOwner, OwnsRun, Goto, runVars, attemptVars
  <1>19. ASSUME NEW a \in Attempts, requestFreshApproval(a)
        PROVE [Promise!Next]_(Promise!vars)
    BY <1>19 DEF requestFreshApproval, AdvisoryLockFree, transitionRun, Goto,
        attemptVars
  <1>20. ASSUME NEW a \in Attempts, waitForSignal(a)
        PROVE [Promise!Next]_(Promise!vars)
    BY <1>20 DEF waitForSignal, AdvisoryLockFree, transitionRun, Goto,
        attemptVars
  <1>21. ASSUME NEW a \in Attempts, spawnChildren(a)
        PROVE [Promise!Next]_(Promise!vars)
    BY <1>21 DEF spawnChildren, AdvisoryLockFree, transitionRun, Goto,
        attemptVars
  <1>22. ASSUME NEW a \in Attempts, GiveUp(a)
        PROVE [Promise!Next]_(Promise!vars)
    BY <1>22 DEF GiveUp, AdvisoryLockFree, transitionRun, Goto, attemptVars
  <1>23. ASSUME NEW a \in Attempts, StartVerification(a)
        PROVE [Promise!Next]_(Promise!vars)
    BY <1>23 DEF StartVerification, AdvisoryLockFree, transitionRun, Goto,
        attemptVars
  <1>24. ASSUME NEW a \in Attempts, VerificationFails(a)
        PROVE [Promise!Next]_(Promise!vars)
    BY <1>24 DEF VerificationFails, AdvisoryLockFree, transitionRun, Goto,
        attemptVars
  <1>25. ASSUME NEW a \in Attempts, VerificationPasses(a)
        PROVE [Promise!Next]_(Promise!vars)
    BY <1>25 DEF VerificationPasses, AdvisoryLockFree, transitionRun, Goto,
        attemptVars
  <1>26. ASSUME NEW a \in Attempts, EpochReturns(a)
        PROVE [Promise!Next]_(Promise!vars)
    BY <1>26 DEF EpochReturns, Goto, runVars, attemptVars
  <1>27. CASE WakeRun
    BY <1>27 DEF WakeRun, AdvisoryLockFree, transitionRun, attemptVars,
        workerVars
  <1>28. CASE CancelReads
    BY <1>28 DEF CancelReads, NoCancel, runVars, attemptVars, workerVars
  <1>29. CASE CancelCommits
    BY <1>29 DEF CancelCommits, AdvisoryLockFree, transitionRun, ExitAttempt,
        NoCancel, workerVars
  <1>30. CASE fenceManagedSessionRuns
    BY <1>30 DEF fenceManagedSessionRuns, AdvisoryLockFree, transitionRun,
        ExitAttempt, workerVars
  <1>31. CASE UNCHANGED vars
    BY <1>31 DEF vars
  <1>. QED
    BY <1>2, <1>3, <1>4, <1>5, <1>6, <1>7, <1>8, <1>9, <1>10, <1>11, <1>12,
       <1>13, <1>14, <1>15, <1>16, <1>17, <1>18, <1>19, <1>20, <1>21, <1>22,
       <1>23, <1>24, <1>25, <1>26, <1>27, <1>28, <1>29, <1>30, <1>31 DEF Next, EpochStep

\* The lifecycle implements DurableRun: execution is handed over only through
\* the queue and always to a newer attempt, and a finished run stays finished
\* (claimRun, transitionRun and every caller of it).
THEOREM Implements == Spec => ImplementsDurableRun
  <1>1. Init => Promise!Init
    BY DEF Init, Promise!Init, runPhase, Executing, Waiting, None
  <1>. QED
    BY <1>1, PromiseStep, Inductive, PTL
    DEF Spec, ImplementsDurableRun, Promise!Spec
=============================================================================
