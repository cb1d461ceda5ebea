----------------------- MODULE GovernedAction_proofs -----------------------
(***************************************************************************)
(* Proofs about GovernedAction, for any number of attempts, of runs in the *)
(* replacement lineage and of approvals: one receipt per lineage, pending  *)
(* approvals are awaited, no dispatch without the approval of its own run, *)
(* and that the receipts implement ExternalEffect.                         *)
(***************************************************************************)
EXTENDS GovernedAction, FiniteFacts, SequenceTheorems, TLAPS

\* Nothing has been applied, and no request is on its way or about to leave.
Quiet ==
  /\ applied = 0
  /\ \A b \in Attempts : call[b] # "open" /\ pc[b] # "sending"

\* The steps at which an execution works on a receipt it has found or written.
Holding == {"escalating", "reconciling", "closing", "refusing", "checking",
            "owned", "sending", "sent", "committing", "failing"}

\* The steps that may still lead to a request of the execution.
BeforeRequest == {"policy", "credentials", "receipting", "checking", "owned"}

\* A RUNNING run has its newest attempt; no attempt is of a later run.
NewestAttemptRuns ==
  /\ status = "RUNNING" => attempt # None /\ runOf[attempt] = run
  /\ \A a \in Attempts : runOf[a] <= run /\ (pc[a] # "none" => runOf[a] # None)
  /\ \A a \in Attempts : a > attempt => pc[a] = "none" /\ call[a] = "none"

\* Outside an execution nothing is left of its locals, and the holder of the
\* lock is inside one.
LocalsAreOfTheExecution ==
  /\ \A a \in Attempts :
       pc[a] \notin Steps
         => found[a] = None /\ a \notin undispatched /\ a \notin granted
  /\ lock # None => pc[lock] \in Steps

\* What an execution has in hand at a step.
ReceiptInHand ==
  \A a \in Attempts :
    /\ pc[a] \in Holding => found[a] # None
    /\ a \in undispatched => found[a] # None
    /\ pc[a] = "refusing" => a \in undispatched

\* Under the lock the receipt in hand stays PENDING; without one there is none
\* in the whole lineage.
LockKeepsTheReceipt ==
  lock # None =>
    IF found[lock] = None
    THEN \A r \in Runs : receipt[r].status = "NONE"
    ELSE receipt[found[lock]].status = "PENDING"

\* Receipts are of runs that have begun, and name approvals that exist.
ReceiptsAreOfBegunRuns ==
  \A r \in Runs :
    /\ receipt[r].status # "NONE" => r <= run
    /\ receipt[r].approval <= Len(approvals)

\* At most one approval waits for its decision.
OnePendingApproval ==
  \A i, j \in DOMAIN approvals :
    approvals[i].status = "PENDING" /\ approvals[j].status = "PENDING" => i = j

\* A grant in use that requires an approval has it, for the attempt's run.
GrantedIsApproved ==
  requiresApproval =>
    \A a \in granted :
      \E i \in DOMAIN approvals :
        approvals[i].status = "APPROVED" /\ approvals[i].run = runOf[a]

\* Nothing leaves before there is a receipt.
ReceiptBeforeRequest ==
  (\A r \in Runs : receipt[r].status = "NONE")
    => applied = 0 /\ \A a \in Attempts : call[a] = "none" /\ pc[a] # "sending"

\* What a closed receipt says is so.
ClosedReceiptIsTrue ==
  \A r \in Runs :
    /\ receipt[r].status = "COMMITTED" => applied = 1
    /\ receipt[r].status = "FAILED" => Quiet

\* An execution that knows of no dispatch is right, until its own request leaves.
UndispatchedIsQuiet ==
  lock \in undispatched /\ pc[lock] \in BeforeRequest \cup {"refusing"} => Quiet

\* Where a repetition is not safe, an execution that may still send a request
\* is alone ...
SenderIsAlone ==
  recovery # "retry" /\ lock # None =>
    (pc[lock] \in BeforeRequest => Quiet)

\* ... and so is the request that is leaving or under way.
OneRequest ==
  recovery # "retry" =>
    \A a \in Attempts :
      pc[a] = "sending" \/ call[a] = "open" =>
        /\ applied = 0
        /\ pc[a] = "sending" => call[a] # "open"
        /\ \A b \in Attempts \ {a} : call[b] # "open" /\ pc[b] # "sending"

\* The action was applied at most once, and who relies on an application has one.
AppliedOnce ==
  /\ applied \in {0, 1}
  /\ \A a \in Attempts :
       call[a] = "applied" \/ pc[a] \in {"closing", "committing"} => applied = 1

\* The inductive invariant.
IndInv ==
  /\ TypeOK
  /\ NewestAttemptRuns
  /\ LocalsAreOfTheExecution
  /\ ReceiptInHand
  /\ LockKeepsTheReceipt
  /\ ReceiptsAreOfBegunRuns
  /\ OneReceiptPerLineage
  /\ OnePendingApproval
  /\ PendingApprovalIsAwaited
  /\ GrantedIsApproved
  /\ ReceiptBeforeRequest
  /\ ClosedReceiptIsTrue
  /\ UndispatchedIsQuiet
  /\ SenderIsAlone
  /\ OneRequest
  /\ AppliedOnce
-----------------------------------------------------------------------------
(* What the look-ups find.                                                 *)

\* With one receipt in the lineage, findReceiptByLineageKey finds it from every
\* run that is not older, and nothing when there is none.
LEMMA LineageReceipt ==
  TypeOK /\ OneReceiptPerLineage =>
    \A n \in Runs :
      /\ \A r \in 1..n : receipt[r].status # "NONE"
                           => findReceiptByLineageKey(n) = r
      /\ (\A r \in 1..n : receipt[r].status = "NONE")
           => findReceiptByLineageKey(n) = None
  <1>1. SUFFICES ASSUME TypeOK, OneReceiptPerLineage, NEW n \in Runs
                 PROVE  /\ \A r \in 1..n : receipt[r].status # "NONE"
                                             => findReceiptByLineageKey(n) = r
                        /\ (\A r \in 1..n : receipt[r].status = "NONE")
                             => findReceiptByLineageKey(n) = None
    OBVIOUS
  <1>. DEFINE With(states) == {x \in 1..n : receipt[x].status \in states}
              Latest(S) == CHOOSE x \in S : \A y \in S : y <= x
  <1>2. 1..n \subseteq Runs /\ Runs \subseteq Nat
    BY BoundsAssumption DEF Runs
  <1>3. ASSUME NEW r \in 1..n, receipt[r].status # "NONE"
        PROVE  findReceiptByLineageKey(n) = r
    <2>1. \A states : receipt[r].status \in states /\ "NONE" \notin states
                        => With(states) = {r}
      BY <1>1, <1>2, <1>3 DEF OneReceiptPerLineage
    <2>2. \A states : receipt[r].status \notin states /\ "NONE" \notin states
                        => With(states) = {}
      BY <1>1, <1>2, <1>3 DEF OneReceiptPerLineage
    <2>3. Latest({r}) = r
      BY <1>2
    <2>4. receipt[r].status \in {"PENDING", "COMMITTED", "FAILED",
                                 "NEEDS_RECONCILIATION"}
      BY <1>1, <1>2, <1>3 DEF TypeOK, RowTypes, ReceiptRows
    <2>. HIDE DEF With, Latest
    <2>5. findReceiptByLineageKey(n) =
            CASE With({"COMMITTED"}) # {} -> Latest(With({"COMMITTED"}))
              [] With({"COMMITTED"}) = {} /\ With({"PENDING"}) # {} ->
                   Latest(With({"PENDING"}))
              [] With({"COMMITTED", "PENDING"}) = {}
                   /\ With({"FAILED", "NEEDS_RECONCILIATION"}) # {} ->
                   Latest(With({"FAILED", "NEEDS_RECONCILIATION"}))
              [] OTHER -> None
      BY DEF findReceiptByLineageKey, With, Latest
    <2>. QED
      BY <2>1, <2>2, <2>3, <2>4, <2>5
  <1>4. ASSUME \A r \in 1..n : receipt[r].status = "NONE"
        PROVE  findReceiptByLineageKey(n) = None
    BY <1>4 DEF findReceiptByLineageKey
  <1>. QED
    BY <1>3, <1>4

\* The approval an execution relies on is a row, or there is none.
LEMMA ApprovalIsARow ==
  TypeOK /\ ReceiptsAreOfBegunRuns =>
    \A a \in Attempts : ApprovalOf(a) \in {None} \cup DOMAIN approvals
  <1>1. SUFFICES ASSUME TypeOK, ReceiptsAreOfBegunRuns, NEW a \in Attempts
                 PROVE  ApprovalOf(a) \in {None} \cup DOMAIN approvals
    OBVIOUS
  <1>. DEFINE own == {i \in DOMAIN approvals : approvals[i].run = runOf[a]}
              newest == CHOOSE i \in own : \A j \in own : j <= i
  <1>2. Len(approvals) \in Nat /\ DOMAIN approvals = 1..Len(approvals)
    BY <1>1 DEF TypeOK, RowTypes
  <1>3. own # {} => newest \in own
    <2>1. own \in SUBSET (0..Len(approvals))
      BY <1>2
    <2>. HIDE DEF own
    <2>. QED
      BY <1>2, <2>1, LargestExists
  <1>4. found[a] # None => found[a] \in Runs
                           /\ receipt[found[a]].approval \in 0..Len(approvals)
    BY <1>1 DEF TypeOK, RowTypes, ReceiptRows, LocalTypes, ReceiptsAreOfBegunRuns
  <1>. QED
    BY <1>2, <1>3, <1>4 DEF ApprovalOf, None
-----------------------------------------------------------------------------
(* Kinds of steps of an execution.                                         *)

\* What the bounds are, for every step below.
LEMMA Bounds ==
  /\ Attempts \subseteq Nat \ {0} /\ Runs \subseteq Nat \ {0}
  /\ MaxApprovals \in Nat /\ None = 0 /\ 1 \in Runs
  BY BoundsAssumption DEF Attempts, Runs, None

\* An execution that returns, and changes nothing but its locals, breaks nothing.
LEMMA ReturnStep ==
  ASSUME IndInv, NEW a \in Attempts, NEW result \in Results,
         pc[a] # "none", Return(a, result),
         PolicyTypes', UNCHANGED <<recovery, requiresApproval>>,
         UNCHANGED <<runVars, dbVars, remoteVars>>
  PROVE  IndInv'
  <1>. USE Bounds DEF IndInv, runVars, dbVars, remoteVars, Return, Results, Steps
  <1>1. TypeOK'
    BY DEF TypeOK, RunTypes, RowTypes, LocalTypes, RemoteTypes
  <1>2. /\ pc' = [pc EXCEPT ![a] = result]
        /\ pc'[a] = result /\ \A b \in Attempts \ {a} : pc'[b] = pc[b]
        /\ found'[a] = None /\ \A b \in Attempts \ {a} : found'[b] = found[b]
        /\ lock' # a /\ (lock' # None => lock' = lock)
        /\ lock \in Attempts \cup {None}
    BY DEF TypeOK, LocalTypes
  <1>3. NewestAttemptRuns' /\ LocalsAreOfTheExecution' /\ ReceiptInHand'
    BY <1>1, <1>2 DEF NewestAttemptRuns, LocalsAreOfTheExecution, ReceiptInHand, Holding
  <1>4. LockKeepsTheReceipt'
    BY <1>2 DEF LockKeepsTheReceipt
  <1>5. ReceiptsAreOfBegunRuns' /\ OneReceiptPerLineage' /\ OnePendingApproval'
        /\ PendingApprovalIsAwaited'
    BY DEF ReceiptsAreOfBegunRuns, OneReceiptPerLineage, OnePendingApproval,
           PendingApprovalIsAwaited
  <1>6. GrantedIsApproved'
    BY DEF GrantedIsApproved
  <1>7. Quiet => Quiet'
    BY <1>2 DEF Quiet
  <1>8. ReceiptBeforeRequest' /\ ClosedReceiptIsTrue'
    BY <1>2, <1>7 DEF ReceiptBeforeRequest, ClosedReceiptIsTrue
  <1>9. UndispatchedIsQuiet' /\ SenderIsAlone'
    BY <1>2, <1>7 DEF UndispatchedIsQuiet, SenderIsAlone, BeforeRequest, TypeOK, LocalTypes
  <1>10. OneRequest' /\ AppliedOnce'
    BY <1>2 DEF OneRequest, AppliedOnce
  <1>. QED
    BY <1>1, <1>3, <1>4, <1>5, <1>6, <1>8, <1>9, <1>10

\* So does one that goes on to a step at which it sends nothing, if what has to
\* hold at that step holds.
LEMMA GotoStep ==
  ASSUME IndInv, NEW a \in Attempts, NEW p \in Steps \ {"sending", "sent"},
         pc[a] \in Steps, lock = a, Goto(a, p),
         p \in Holding => found[a] # None,
         p = "refusing" => a \in undispatched,
         p \in BeforeRequest \cup {"refusing"} => pc[a] \in BeforeRequest,
         p \in {"closing", "committing"} => applied = 1,
         PolicyTypes', UNCHANGED <<recovery, requiresApproval>>,
         UNCHANGED <<runVars, dbVars, remoteVars>>
  PROVE  IndInv'
  <1>. USE Bounds DEF IndInv, runVars, dbVars, remoteVars, Goto, Enter, workVars, Results, Steps
  <1>1. TypeOK'
    BY DEF TypeOK, RunTypes, RowTypes, LocalTypes, RemoteTypes
  <1>2. /\ pc'[a] = p /\ \A b \in Attempts \ {a} : pc'[b] = pc[b]
    BY DEF TypeOK, LocalTypes
  <1>3. NewestAttemptRuns' /\ LocalsAreOfTheExecution' /\ ReceiptInHand'
    BY <1>1, <1>2 DEF NewestAttemptRuns, LocalsAreOfTheExecution, ReceiptInHand, Holding
  <1>4. LockKeepsTheReceipt'
    BY <1>2 DEF LockKeepsTheReceipt
  <1>5. ReceiptsAreOfBegunRuns' /\ OneReceiptPerLineage' /\ OnePendingApproval'
        /\ PendingApprovalIsAwaited'
    BY DEF ReceiptsAreOfBegunRuns, OneReceiptPerLineage, OnePendingApproval,
           PendingApprovalIsAwaited
  <1>6. GrantedIsApproved'
    BY DEF GrantedIsApproved
  <1>7. Quiet => Quiet'
    BY <1>2 DEF Quiet
  <1>8. ReceiptBeforeRequest' /\ ClosedReceiptIsTrue'
    BY <1>2, <1>7 DEF ReceiptBeforeRequest, ClosedReceiptIsTrue
  <1>9. UndispatchedIsQuiet' /\ SenderIsAlone'
    BY <1>2, <1>7 DEF UndispatchedIsQuiet, SenderIsAlone, BeforeRequest
  <1>10. OneRequest' /\ AppliedOnce'
    BY <1>2 DEF OneRequest, AppliedOnce
  <1>. QED
    BY <1>1, <1>3, <1>4, <1>5, <1>6, <1>8, <1>9, <1>10

\* And one that closes the receipt it has in hand as what is so, and returns.
LEMMA CloseStep ==
  ASSUME IndInv, NEW a \in Attempts, NEW result \in Results,
         NEW state \in {"COMMITTED", "FAILED", "NEEDS_RECONCILIATION"},
         pc[a] \in Steps, lock = a, found[a] # None,
         CloseReceipt(found[a], state), Return(a, result),
         state = "COMMITTED" => applied = 1,
         state = "FAILED" => Quiet,
         UNCHANGED <<specVars, grant, runVars, approvals, remoteVars>>
  PROVE  IndInv'
  <1>. USE Bounds DEF IndInv, specVars, runVars, remoteVars, Return, Results, Steps
  <1>1. /\ found[a] \in Runs /\ receipt[found[a]].status = "PENDING"
        /\ receipt' = [receipt EXCEPT ![found[a]].status = state]
    BY DEF TypeOK, LocalTypes, LockKeepsTheReceipt, CloseReceipt
  <1>2. /\ receipt'[found[a]].status = state
        /\ \A r \in Runs \ {found[a]} : receipt'[r] = receipt[r]
        /\ \A r \in Runs : receipt'[r].approval = receipt[r].approval
        /\ receipt' \in ReceiptRows
    BY <1>1 DEF TypeOK, RowTypes, ReceiptRows
  <1>3. \A r \in Runs \ {found[a]} : receipt[r].status = "NONE"
    BY <1>1 DEF OneReceiptPerLineage
  <1>4. TypeOK'
    BY <1>2 DEF TypeOK, PolicyTypes, SpecTypes, RunTypes, RowTypes, LocalTypes, RemoteTypes
  <1>5. /\ pc'[a] = result /\ \A b \in Attempts \ {a} : pc'[b] = pc[b]
        /\ found'[a] = None /\ \A b \in Attempts \ {a} : found'[b] = found[b]
        /\ lock' = None
    BY DEF TypeOK, LocalTypes
  <1>6. NewestAttemptRuns' /\ LocalsAreOfTheExecution' /\ ReceiptInHand'
    BY <1>4, <1>5 DEF NewestAttemptRuns, LocalsAreOfTheExecution, ReceiptInHand, Holding
  <1>7. LockKeepsTheReceipt' /\ UndispatchedIsQuiet' /\ SenderIsAlone'
    BY <1>4, <1>5 DEF LockKeepsTheReceipt, UndispatchedIsQuiet, SenderIsAlone, TypeOK, LocalTypes
  <1>8. ReceiptsAreOfBegunRuns' /\ OneReceiptPerLineage'
    BY <1>1, <1>2, <1>3 DEF ReceiptsAreOfBegunRuns, OneReceiptPerLineage
  <1>9. OnePendingApproval' /\ PendingApprovalIsAwaited' /\ GrantedIsApproved'
    BY DEF OnePendingApproval, PendingApprovalIsAwaited, GrantedIsApproved
  <1>10. Quiet => Quiet'
    BY <1>5 DEF Quiet
  <1>11. ReceiptBeforeRequest' /\ ClosedReceiptIsTrue'
    BY <1>1, <1>2, <1>3, <1>10 DEF ReceiptBeforeRequest, ClosedReceiptIsTrue
  <1>12. OneRequest' /\ AppliedOnce'
    BY <1>5 DEF OneRequest, AppliedOnce
  <1>. QED
    BY <1>4, <1>6, <1>7, <1>8, <1>9, <1>11, <1>12

-----------------------------------------------------------------------------
(* The steps that are none of these.                                       *)

\* A new attempt starts idle, of the newest run.
LEMMA ClaimStep == IndInv /\ Claim => IndInv'
  <1>1. SUFFICES ASSUME IndInv, Claim PROVE IndInv'
    OBVIOUS
  <1>. DEFINE new == attempt + 1
  <1>. USE <1>1, Bounds DEF IndInv, specVars, dbVars, workVars, remoteVars
  <1>2. /\ new \in Attempts /\ attempt' = new /\ status' = "RUNNING" /\ lapsed' = FALSE
        /\ runOf' = [runOf EXCEPT ![new] = run]
        /\ pc' = [pc EXCEPT ![new] = "idle"]
        /\ UNCHANGED <<specVars, grant, run, dbVars, lock, workVars, remoteVars>>
    BY BoundsAssumption DEF Claim, TypeOK, RunTypes, Attempts
  <1>3. new > attempt /\ \A a \in Attempts : a > new => a > attempt
    BY DEF TypeOK, RunTypes
  <1>4. /\ pc[new] = "none" /\ found[new] = None
        /\ new \notin undispatched /\ new \notin granted /\ lock # new
    BY <1>2, <1>3 DEF NewestAttemptRuns, LocalsAreOfTheExecution, TypeOK, Steps
  <1>. HIDE DEF new
  <1>5. TypeOK'
    BY <1>2 DEF TypeOK, PolicyTypes, SpecTypes, RunTypes, RowTypes, LocalTypes, RemoteTypes
  <1>6. /\ runOf'[new] = run /\ pc'[new] = "idle"
        /\ \A a \in Attempts \ {new} : runOf'[a] = runOf[a] /\ pc'[a] = pc[a]
    BY <1>2 DEF TypeOK, RunTypes, LocalTypes
  <1>7. NewestAttemptRuns'
    BY <1>2, <1>3, <1>6 DEF NewestAttemptRuns, TypeOK, RunTypes
  <1>8. LocalsAreOfTheExecution' /\ ReceiptInHand'
    BY <1>2, <1>4, <1>6 DEF LocalsAreOfTheExecution, ReceiptInHand, Holding, TypeOK, LocalTypes
  <1>9. LockKeepsTheReceipt' /\ ReceiptsAreOfBegunRuns' /\ OneReceiptPerLineage'
        /\ OnePendingApproval' /\ PendingApprovalIsAwaited'
    BY <1>1, <1>2 DEF LockKeepsTheReceipt, ReceiptsAreOfBegunRuns, OneReceiptPerLineage,
        OnePendingApproval, PendingApprovalIsAwaited, Claim
  <1>10. GrantedIsApproved'
    BY <1>2, <1>4, <1>6 DEF GrantedIsApproved, TypeOK, LocalTypes
  <1>11. Quiet => Quiet'
    BY <1>2, <1>6 DEF Quiet
  <1>12. ReceiptBeforeRequest' /\ ClosedReceiptIsTrue' /\ UndispatchedIsQuiet' /\ SenderIsAlone'
    BY <1>2, <1>4, <1>6, <1>11 DEF ReceiptBeforeRequest, ClosedReceiptIsTrue, UndispatchedIsQuiet,
        SenderIsAlone, BeforeRequest, TypeOK, LocalTypes
  <1>13. OneRequest' /\ AppliedOnce'
    BY <1>2, <1>4, <1>6 DEF OneRequest, AppliedOnce
  <1>. QED
    BY <1>5, <1>7, <1>8, <1>9, <1>10, <1>12, <1>13

\* What an execution relies on does not depend on the lease, on the status of a
\* run without a pending approval, or on there being a newer run.
LEMMA LapseStep == IndInv /\ (LeaseMoves \/ Reap \/ Replace) => IndInv'
  <1>1. SUFFICES ASSUME IndInv, LeaseMoves \/ Reap \/ Replace
                 PROVE  IndInv'
    OBVIOUS
  <1>. USE <1>1, Bounds DEF IndInv, specVars, dbVars, workVars, localVars, remoteVars
  <1>2. /\ UNCHANGED <<specVars, grant, attempt, runOf, dbVars, localVars, remoteVars>>
        /\ run' \in Runs /\ run <= run'
        /\ status = "RUNNING" /\ status' \in {"QUEUED", "RUNNING"}
        /\ status' = "RUNNING" => run' = run
    <2>1. run \in Nat
      BY DEF TypeOK, RunTypes
    <2>2. CASE LeaseMoves \/ Reap
      BY <2>1, <2>2 DEF LeaseMoves, Reap, TypeOK, RunTypes
    <2>3. CASE Replace
      BY <2>1, <2>3, BoundsAssumption DEF Replace, TypeOK, RunTypes, Runs
    <2>. QED
      BY <2>2, <2>3
  <1>14. lapsed' \in BOOLEAN
    BY DEF LeaseMoves, Reap, Replace
  <1>3. TypeOK'
    BY <1>2, <1>14 DEF TypeOK, PolicyTypes, SpecTypes, RunTypes, RowTypes, LocalTypes, RemoteTypes
  <1>4. NewestAttemptRuns' /\ ReceiptsAreOfBegunRuns'
    <2>1. \A n \in Runs \cup {None} : n <= run => n <= run'
      BY <1>2 DEF TypeOK, RunTypes
    <2>. QED
      BY <1>2, <2>1 DEF NewestAttemptRuns, ReceiptsAreOfBegunRuns, TypeOK, RunTypes
  <1>5. OnePendingApproval' /\ PendingApprovalIsAwaited' /\ GrantedIsApproved'
    BY <1>2 DEF OnePendingApproval, PendingApprovalIsAwaited, GrantedIsApproved
  <1>6. LocalsAreOfTheExecution' /\ ReceiptInHand' /\ LockKeepsTheReceipt' /\ OneReceiptPerLineage'
    BY <1>2 DEF LocalsAreOfTheExecution, ReceiptInHand, LockKeepsTheReceipt, OneReceiptPerLineage
  <1>7. Quiet => Quiet'
    BY <1>2 DEF Quiet
  <1>8. ReceiptBeforeRequest' /\ ClosedReceiptIsTrue' /\ UndispatchedIsQuiet' /\ SenderIsAlone'
        /\ OneRequest' /\ AppliedOnce'
    BY <1>2, <1>7 DEF ReceiptBeforeRequest, ClosedReceiptIsTrue, UndispatchedIsQuiet, SenderIsAlone,
        OneRequest, AppliedOnce
  <1>. QED
    BY <1>3, <1>4, <1>5, <1>6, <1>8

\* Cancellation takes the run away from its attempt and from its approval.
LEMMA CancelStep == IndInv /\ Cancel => IndInv'
  <1>1. SUFFICES ASSUME IndInv, Cancel PROVE IndInv'
    OBVIOUS
  <1>. USE <1>1, Bounds DEF IndInv, Cancel, specVars, dbVars, workVars, localVars, remoteVars
  <1>2. TypeOK'
    BY DEF TypeOK, PolicyTypes, SpecTypes, RunTypes, RowTypes, LocalTypes, RemoteTypes
  <1>3. NewestAttemptRuns' /\ ReceiptsAreOfBegunRuns' /\ LocalsAreOfTheExecution'
        /\ ReceiptInHand' /\ LockKeepsTheReceipt' /\ OneReceiptPerLineage'
    BY DEF NewestAttemptRuns, ReceiptsAreOfBegunRuns, LocalsAreOfTheExecution, ReceiptInHand,
        LockKeepsTheReceipt, OneReceiptPerLineage
  <1>4. OnePendingApproval' /\ PendingApprovalIsAwaited' /\ GrantedIsApproved'
    BY DEF OnePendingApproval, PendingApprovalIsAwaited, GrantedIsApproved
  <1>5. Quiet => Quiet'
    BY DEF Quiet
  <1>6. ReceiptBeforeRequest' /\ ClosedReceiptIsTrue' /\ UndispatchedIsQuiet' /\ SenderIsAlone'
        /\ OneRequest' /\ AppliedOnce'
    BY <1>5 DEF ReceiptBeforeRequest, ClosedReceiptIsTrue, UndispatchedIsQuiet, SenderIsAlone,
        OneRequest, AppliedOnce
  <1>. QED
    BY <1>2, <1>3, <1>4, <1>6

\* A decision takes away the one pending approval, and its run stops waiting.
LEMMA DecisionStep ==
  ASSUME IndInv, NEW i \in DOMAIN approvals, NEW decision \in {"APPROVED", "DENIED"},
         DecideAndWake(i, decision)
  PROVE  IndInv'
  <1>. USE Bounds DEF IndInv, specVars, workVars, localVars, remoteVars
  <1>1. /\ approvals' = [approvals EXCEPT ![i].status = decision]
        /\ approvals[i].status = "PENDING"
        /\ UNCHANGED <<specVars, grant, run, attempt, lapsed, runOf, receipt, localVars, remoteVars>>
    BY DEF DecideAndWake, decideApproval
  <1>2. /\ approvals[i].run = run
        /\ \/ status = "WAITING_APPROVAL" /\ status' = "QUEUED"
           \/ status = "CANCELLED" /\ status' = "CANCELLED"
    BY <1>1 DEF PendingApprovalIsAwaited, DecideAndWake
  <1>3. /\ DOMAIN approvals = 1..Len(approvals) /\ Len(approvals) \in Nat
        /\ approvals \in Seq([run : Runs, status : {"PENDING", "APPROVED", "DENIED"}])
    BY DEF TypeOK, RowTypes
  <1>4. /\ approvals' \in Seq([run : Runs, status : {"PENDING", "APPROVED", "DENIED"}])
        /\ Len(approvals') = Len(approvals) /\ DOMAIN approvals' = DOMAIN approvals
    <2>1. [approvals[i] EXCEPT !.status = decision]
            \in [run : Runs, status : {"PENDING", "APPROVED", "DENIED"}]
      <3>1. approvals[i] \in [run : Runs, status : {"PENDING", "APPROVED", "DENIED"}]
        BY <1>3, ElementOfSeq
      <3>. QED
        BY <3>1
    <2>2. approvals' = [approvals EXCEPT ![i] = [approvals[i] EXCEPT !.status = decision]]
      BY <1>1
    <2>. QED
      BY <1>3, <2>1, <2>2, ExceptSeq
  <1>5. /\ \A j \in DOMAIN approvals : approvals'[j].run = approvals[j].run
        /\ \A j \in DOMAIN approvals \ {i} : approvals'[j] = approvals[j]
        /\ approvals'[i].status = decision
    BY <1>1, <1>3
  <1>6. TypeOK'
    BY <1>1, <1>2, <1>4 DEF TypeOK, PolicyTypes, SpecTypes, RunTypes, RowTypes, LocalTypes, RemoteTypes
  <1>7. NewestAttemptRuns' /\ ReceiptsAreOfBegunRuns'
    BY <1>1, <1>2, <1>4 DEF NewestAttemptRuns, ReceiptsAreOfBegunRuns
  <1>8. \A j \in DOMAIN approvals' : approvals'[j].status # "PENDING"
    BY <1>1, <1>3, <1>4, <1>5 DEF OnePendingApproval
  <1>9. OnePendingApproval' /\ PendingApprovalIsAwaited'
    BY <1>2, <1>8 DEF OnePendingApproval, PendingApprovalIsAwaited
  <1>10. GrantedIsApproved'
    BY <1>1, <1>4, <1>5 DEF GrantedIsApproved
  <1>11. LocalsAreOfTheExecution' /\ ReceiptInHand' /\ LockKeepsTheReceipt' /\ OneReceiptPerLineage'
    BY <1>1 DEF LocalsAreOfTheExecution, ReceiptInHand, LockKeepsTheReceipt, OneReceiptPerLineage
  <1>12. Quiet => Quiet'
    BY <1>1 DEF Quiet
  <1>13. ReceiptBeforeRequest' /\ ClosedReceiptIsTrue' /\ UndispatchedIsQuiet' /\ SenderIsAlone'
         /\ OneRequest' /\ AppliedOnce'
    BY <1>1, <1>12 DEF ReceiptBeforeRequest, ClosedReceiptIsTrue, UndispatchedIsQuiet, SenderIsAlone,
        OneRequest, AppliedOnce
  <1>. QED
    BY <1>6, <1>7, <1>9, <1>10, <1>11, <1>13

\* Taking the lock: the receipt of the lineage is in hand, or there is none.
LEMMA TakeLockStep ==
  ASSUME IndInv, NEW a \in Attempts, executeGovernedAction(a)
  PROVE  IndInv'
  <1>. USE Bounds DEF IndInv, specVars, runVars, dbVars, remoteVars
  <1>. DEFINE r == findReceiptByLineageKey(runOf[a])
              state == IF r = None THEN "NONE" ELSE receipt[r].status
  <1>1. pc[a] \in Callable /\ lock = None /\ pc[a] # "none" /\ pc[a] \notin Steps
    BY DEF executeGovernedAction, Callable, Steps
  <1>2. UNCHANGED <<specVars, grant, runVars, dbVars, remoteVars>>
    BY DEF executeGovernedAction
  <1>3. CASE \E result \in Results : Return(a, result)
    BY <1>1, <1>2, <1>3, ReturnStep DEF TypeOK, PolicyTypes, SpecTypes
  <1>4. CASE /\ IsCurrentActionOwner(a) /\ state \in {"NONE", "PENDING"}
             /\ lock' = a
             /\ found' = [found EXCEPT ![a] = IF state = "PENDING" THEN r ELSE None]
             /\ UNCHANGED <<undispatched, granted>>
             /\ pc' = [pc EXCEPT ![a] =
                    IF state = "NONE" \/ recovery = "retry" THEN "policy"
                    ELSE IF recovery = "manual" THEN "escalating"
                    ELSE "reconciling"]
    <2>1. runOf[a] = run /\ run \in Runs /\ a <= attempt
      BY <1>4 DEF IsCurrentActionOwner, NewestAttemptRuns, TypeOK, RunTypes
    <2>2. \/ /\ r = None /\ state = "NONE" /\ \A x \in Runs : receipt[x].status = "NONE"
          \/ /\ r \in Runs /\ state = receipt[r].status /\ state # "NONE"
      <3>1. TypeOK /\ OneReceiptPerLineage
        OBVIOUS
      <3>2. \A x \in Runs : receipt[x].status # "NONE" => x \in 1..run
        BY <2>1 DEF ReceiptsAreOfBegunRuns, Runs
      <3>3. CASE \E x \in Runs : receipt[x].status # "NONE"
        BY <2>1, <3>1, <3>2, <3>3, LineageReceipt
      <3>4. CASE \A x \in Runs : receipt[x].status = "NONE"
        <4>1. 1..run \subseteq Runs
          BY <2>1, BoundsAssumption DEF Runs
        <4>2. r = None
          BY <2>1, <3>1, <3>4, <4>1, LineageReceipt
        <4>. QED
          BY <3>4, <4>2
      <3>. QED
        BY <3>3, <3>4
    <2>. HIDE DEF r, state
    <2>3. /\ pc'[a] \in {"policy", "escalating", "reconciling"}
          /\ pc'[a] = "policy" <=> state = "NONE" \/ recovery = "retry"
          /\ \A b \in Attempts \ {a} : pc'[b] = pc[b] /\ found'[b] = found[b]
          /\ found'[a] = IF state = "PENDING" THEN r ELSE None
          /\ pc' \in [Attempts -> {"none", "idle"} \cup Results \cup Steps]
          /\ found' \in [Attempts -> Runs \cup {None}]
      BY <1>4, <2>2 DEF TypeOK, LocalTypes, Steps
    <2>4. TypeOK'
      BY <1>2, <1>4, <2>3 DEF TypeOK, PolicyTypes, SpecTypes, RunTypes, RowTypes, LocalTypes, RemoteTypes
    <2>5. NewestAttemptRuns' /\ LocalsAreOfTheExecution'
      BY <1>2, <1>4, <2>1, <2>3 DEF NewestAttemptRuns, LocalsAreOfTheExecution, Steps, TypeOK, RunTypes
    <2>6. ReceiptInHand' /\ LockKeepsTheReceipt'
      BY <1>1, <1>2, <1>4, <2>2, <2>3 DEF ReceiptInHand, LockKeepsTheReceipt, Holding,
          LocalsAreOfTheExecution
    <2>7. ReceiptsAreOfBegunRuns' /\ OneReceiptPerLineage' /\ OnePendingApproval'
          /\ PendingApprovalIsAwaited' /\ GrantedIsApproved'
      BY <1>2, <1>4 DEF ReceiptsAreOfBegunRuns, OneReceiptPerLineage, OnePendingApproval,
          PendingApprovalIsAwaited, GrantedIsApproved
    <2>8. Quiet => Quiet'
      BY <1>2, <2>3 DEF Quiet
    <2>9. ReceiptBeforeRequest' /\ ClosedReceiptIsTrue' /\ UndispatchedIsQuiet'
      BY <1>1, <1>2, <1>4, <2>3, <2>8 DEF ReceiptBeforeRequest, ClosedReceiptIsTrue,
          UndispatchedIsQuiet, LocalsAreOfTheExecution
    <2>10. SenderIsAlone'
      <3>1. state = "NONE" => Quiet
        BY <2>2 DEF ReceiptBeforeRequest, Quiet
      <3>. QED
        BY <1>2, <1>4, <2>3, <2>8, <3>1 DEF SenderIsAlone, BeforeRequest
    <2>11. OneRequest' /\ AppliedOnce'
      BY <1>2, <2>3 DEF OneRequest, AppliedOnce
    <2>. QED
      BY <2>4, <2>5, <2>6, <2>7, <2>9, <2>10, <2>11
  <1>. QED
    BY <1>3, <1>4 DEF executeGovernedAction, Results

\* The provider's certificate that the key has no commit and will have none.
LEMMA CertificateStep ==
  ASSUME IndInv, NEW a \in Attempts, At(a, "reconciling"),
         applied = 0, \A b \in Attempts : call[b] # "open" /\ pc[b] # "sending",
         Enter(a, "policy"), undispatched' = undispatched \cup {a},
         UNCHANGED <<found, granted>>,
         UNCHANGED <<specVars, grant, runVars, dbVars, remoteVars>>
  PROVE  IndInv'
  <1>. USE Bounds DEF IndInv, specVars, runVars, dbVars, remoteVars, Enter, At
  <1>1. /\ pc'[a] = "policy" /\ \A b \in Attempts \ {a} : pc'[b] = pc[b]
        /\ pc' \in [Attempts -> {"none", "idle"} \cup Results \cup Steps]
        /\ undispatched' \subseteq Attempts /\ lock' = a
    BY DEF TypeOK, LocalTypes, Steps
  <1>2. TypeOK'
    BY <1>1 DEF TypeOK, PolicyTypes, SpecTypes, RunTypes, RowTypes, LocalTypes, RemoteTypes
  <1>3. NewestAttemptRuns' /\ LocalsAreOfTheExecution'
    BY <1>1 DEF NewestAttemptRuns, LocalsAreOfTheExecution, Steps
  <1>4. found[a] # None
    BY DEF ReceiptInHand, Holding
  <1>5. ReceiptInHand' /\ LockKeepsTheReceipt'
    BY <1>1, <1>4 DEF ReceiptInHand, LockKeepsTheReceipt, Holding
  <1>6. ReceiptsAreOfBegunRuns' /\ OneReceiptPerLineage' /\ OnePendingApproval'
        /\ PendingApprovalIsAwaited' /\ GrantedIsApproved'
    BY DEF ReceiptsAreOfBegunRuns, OneReceiptPerLineage, OnePendingApproval,
           PendingApprovalIsAwaited, GrantedIsApproved
  <1>7. Quiet'
    BY <1>1 DEF Quiet
  <1>8. ReceiptBeforeRequest' /\ ClosedReceiptIsTrue' /\ UndispatchedIsQuiet' /\ SenderIsAlone'
    BY <1>1, <1>7 DEF ReceiptBeforeRequest, ClosedReceiptIsTrue, UndispatchedIsQuiet, SenderIsAlone
  <1>9. OneRequest' /\ AppliedOnce'
    BY <1>1 DEF OneRequest, AppliedOnce
  <1>. QED
    BY <1>2, <1>3, <1>5, <1>6, <1>8, <1>9

\* A usable grant, with the approval of the attempt's own run where it needs one.
LEMMA GrantStep ==
  ASSUME IndInv, NEW a \in Attempts, At(a, "policy"),
         ~requiresApproval \/ (ApprovalOf(a) # None /\ lockApprovalForExecution(a) = "APPROVED"),
         Enter(a, "credentials"), granted' = granted \cup {a},
         UNCHANGED <<found, undispatched>>,
         UNCHANGED <<specVars, grant, runVars, dbVars, remoteVars>>
  PROVE  IndInv'
  <1>. USE Bounds DEF IndInv, specVars, runVars, dbVars, remoteVars, Enter, At
  <1>1. /\ pc'[a] = "credentials" /\ \A b \in Attempts \ {a} : pc'[b] = pc[b]
        /\ pc' \in [Attempts -> {"none", "idle"} \cup Results \cup Steps]
        /\ granted' \subseteq Attempts /\ lock' = a
    BY DEF TypeOK, LocalTypes, Steps
  <1>2. TypeOK'
    BY <1>1 DEF TypeOK, PolicyTypes, SpecTypes, RunTypes, RowTypes, LocalTypes, RemoteTypes
  <1>3. NewestAttemptRuns' /\ LocalsAreOfTheExecution'
    BY <1>1 DEF NewestAttemptRuns, LocalsAreOfTheExecution, Steps
  <1>4. ReceiptInHand' /\ LockKeepsTheReceipt'
    BY <1>1 DEF ReceiptInHand, LockKeepsTheReceipt, Holding
  <1>5. ReceiptsAreOfBegunRuns' /\ OneReceiptPerLineage' /\ OnePendingApproval'
        /\ PendingApprovalIsAwaited'
    BY DEF ReceiptsAreOfBegunRuns, OneReceiptPerLineage, OnePendingApproval,
           PendingApprovalIsAwaited
  <1>6. requiresApproval => \E i \in DOMAIN approvals :
                              approvals[i].status = "APPROVED" /\ approvals[i].run = runOf[a]
    BY ApprovalIsARow DEF lockApprovalForExecution
  <1>7. GrantedIsApproved'
    BY <1>6 DEF GrantedIsApproved
  <1>8. Quiet => Quiet'
    BY <1>1 DEF Quiet
  <1>9. ReceiptBeforeRequest' /\ ClosedReceiptIsTrue' /\ UndispatchedIsQuiet' /\ SenderIsAlone'
    BY <1>1, <1>8 DEF ReceiptBeforeRequest, ClosedReceiptIsTrue, UndispatchedIsQuiet, SenderIsAlone,
        BeforeRequest
  <1>10. OneRequest' /\ AppliedOnce'
    BY <1>1 DEF OneRequest, AppliedOnce
  <1>. QED
    BY <1>2, <1>3, <1>4, <1>5, <1>7, <1>9, <1>10

\* A fresh approval is requested only while none is pending, and its run waits.
LEMMA SuspendStep ==
  ASSUME IndInv, NEW a \in Attempts, SuspendForApproval(a)
  PROVE  IndInv'
  <1>. USE Bounds DEF IndInv, specVars, runVars, dbVars, remoteVars, At
  <1>1. CASE status # "RUNNING" \/ run # runOf[a]
    <2>1. Return(a, "over") /\ UNCHANGED <<runVars, dbVars, remoteVars, specVars, grant>>
      BY <1>1 DEF SuspendForApproval
    <2>. QED
      BY <2>1, ReturnStep DEF SuspendForApproval, TypeOK, PolicyTypes, SpecTypes, Results
  <1>2. CASE status = "RUNNING" /\ run = runOf[a]
    <2>. DEFINE row == [run |-> run, status |-> "PENDING"]
    <2>1. /\ pc[a] = "inserting" /\ lock = a /\ Len(approvals) < MaxApprovals
          /\ approvals' = Append(approvals, row) /\ status' = "WAITING_APPROVAL"
          /\ lapsed' = FALSE /\ Return(a, "over")
          /\ receipt' = IF pendingRecovery(a)
                        THEN [receipt EXCEPT ![found[a]].approval = Len(approvals')]
                        ELSE receipt
          /\ UNCHANGED <<specVars, grant, run, attempt, runOf, remoteVars>>
      BY <1>2 DEF SuspendForApproval, insertApproval
    <2>2. /\ row \in [run : Runs, status : {"PENDING", "APPROVED", "DENIED"}]
          /\ approvals \in Seq([run : Runs, status : {"PENDING", "APPROVED", "DENIED"}])
          /\ Len(approvals) \in Nat
      BY DEF TypeOK, RowTypes, RunTypes
    <2>. HIDE DEF row
    <2>3. /\ approvals' \in Seq([run : Runs, status : {"PENDING", "APPROVED", "DENIED"}])
          /\ Len(approvals') = Len(approvals) + 1 /\ Len(approvals') \in 0..MaxApprovals
          /\ DOMAIN approvals = 1..Len(approvals) /\ DOMAIN approvals' = 1..Len(approvals')
          /\ approvals'[Len(approvals')] = row
          /\ \A i \in DOMAIN approvals : approvals'[i] = approvals[i]
      BY <2>1, <2>2
    <2>4. /\ receipt' \in ReceiptRows
          /\ \A r \in Runs : receipt'[r].status = receipt[r].status
          /\ \A r \in Runs : receipt'[r].approval <= Len(approvals')
      <3>1. /\ receipt \in ReceiptRows
            /\ \A r \in Runs : receipt[r].approval <= Len(approvals')
        BY <2>2, <2>3 DEF TypeOK, RowTypes, ReceiptRows, ReceiptsAreOfBegunRuns
      <3>2. CASE ~pendingRecovery(a)
        BY <2>1, <3>1, <3>2
      <3>3. CASE pendingRecovery(a)
        <4>1. found[a] \in Runs
          BY <3>3 DEF pendingRecovery, TypeOK, LocalTypes
        <4>2. /\ \A r \in Runs \ {found[a]} : receipt'[r] = receipt[r]
              /\ receipt'[found[a]] = [receipt[found[a]] EXCEPT !.approval = Len(approvals')]
              /\ receipt' \in ReceiptRows
          BY <2>1, <2>3, <3>1, <3>3, <4>1 DEF ReceiptRows
        <4>3. receipt[found[a]] \in [status : {"NONE", "PENDING", "COMMITTED", "FAILED",
                                               "NEEDS_RECONCILIATION"},
                                     approval : 0..MaxApprovals]
          BY <3>1, <4>1 DEF ReceiptRows
        <4>4. /\ receipt'[found[a]].status = receipt[found[a]].status
              /\ receipt'[found[a]].approval = Len(approvals')
          BY <4>2, <4>3
        <4>5. Len(approvals') <= Len(approvals')
          BY <2>3
        <4>. QED
          BY <3>1, <4>2, <4>4, <4>5
      <3>. QED
        BY <3>2, <3>3
    <2>5. /\ pc'[a] = "over" /\ \A b \in Attempts \ {a} : pc'[b] = pc[b]
          /\ found'[a] = None /\ \A b \in Attempts \ {a} : found'[b] = found[b]
          /\ undispatched' \subseteq undispatched /\ granted' \subseteq granted
          /\ a \notin undispatched' /\ a \notin granted' /\ undispatched' = undispatched \ {a}
          /\ lock' = None /\ LocalTypes'
      BY <2>1 DEF Return, TypeOK, LocalTypes, Results
    <2>6. TypeOK'
      <3>1. PolicyTypes' /\ RunTypes' /\ RemoteTypes'
        BY <2>1 DEF TypeOK, PolicyTypes, SpecTypes, RunTypes, RemoteTypes
      <3>2. RowTypes'
        BY <2>3, <2>4 DEF RowTypes
      <3>. QED
        BY <2>5, <3>1, <3>2 DEF TypeOK
    <2>7. NewestAttemptRuns' /\ LocalsAreOfTheExecution' /\ ReceiptInHand'
      BY <2>1, <2>5 DEF NewestAttemptRuns, LocalsAreOfTheExecution, ReceiptInHand, Holding, Steps
    <2>8. LockKeepsTheReceipt' /\ UndispatchedIsQuiet' /\ SenderIsAlone'
      BY <2>5, <2>6 DEF LockKeepsTheReceipt, UndispatchedIsQuiet, SenderIsAlone, TypeOK, LocalTypes
    <2>9. ReceiptsAreOfBegunRuns' /\ OneReceiptPerLineage'
      BY <2>1, <2>4 DEF ReceiptsAreOfBegunRuns, OneReceiptPerLineage
    <2>10. \A i \in DOMAIN approvals : approvals[i].status # "PENDING"
      BY <1>2 DEF PendingApprovalIsAwaited
    <2>11. OnePendingApproval' /\ PendingApprovalIsAwaited'
      BY <2>1, <2>3, <2>10 DEF OnePendingApproval, PendingApprovalIsAwaited, row
    <2>12. GrantedIsApproved'
      BY <2>1, <2>3, <2>5 DEF GrantedIsApproved
    <2>13. Quiet => Quiet'
      BY <2>1, <2>5 DEF Quiet
    <2>14. ReceiptBeforeRequest' /\ ClosedReceiptIsTrue' /\ OneRequest' /\ AppliedOnce'
      BY <2>1, <2>4, <2>5, <2>13 DEF ReceiptBeforeRequest, ClosedReceiptIsTrue, OneRequest, AppliedOnce
    <2>. QED
      BY <2>6, <2>7, <2>8, <2>9, <2>11, <2>12, <2>14
  <1>. QED
    BY <1>1, <1>2

\* The receipt that an execution inserts is the only one of the lineage, and
\* nothing was sent before it.
LEMMA InsertStep ==
  ASSUME IndInv, NEW a \in Attempts, At(a, "receipting"), found[a] = None,
         authorizeAndConsume(a),
         receipt' = [receipt EXCEPT ![runOf[a]] =
             [status |-> "PENDING",
              approval |-> IF requiresApproval /\ a \in granted
                           THEN ApprovalOf(a) ELSE None]],
         Enter(a, "checking"), found' = [found EXCEPT ![a] = runOf[a]],
         undispatched' = undispatched \cup {a}, UNCHANGED granted,
         UNCHANGED <<specVars, runVars, approvals, remoteVars>>
  PROVE  IndInv'
  <1>. USE Bounds DEF IndInv, specVars, runVars, remoteVars, Enter, At
  <1>1. runOf[a] \in Runs /\ runOf[a] <= run
    BY DEF NewestAttemptRuns, TypeOK, RunTypes, LocalTypes
  <1>2. \A r \in Runs : receipt[r].status = "NONE"
    BY DEF LockKeepsTheReceipt
  <1>3. ApprovalOf(a) \in 0..Len(approvals) /\ Len(approvals) \in Nat
        /\ Len(approvals) <= MaxApprovals
    BY ApprovalIsARow DEF TypeOK, RowTypes
  <1>4. /\ receipt'[runOf[a]].status = "PENDING"
        /\ \A r \in Runs \ {runOf[a]} : receipt'[r] = receipt[r]
        /\ \A r \in Runs : receipt'[r].approval <= Len(approvals)
        /\ receipt' \in ReceiptRows
    BY <1>1, <1>3 DEF TypeOK, RowTypes, ReceiptRows, ReceiptsAreOfBegunRuns
  <1>5. /\ pc'[a] = "checking" /\ \A b \in Attempts \ {a} : pc'[b] = pc[b]
        /\ found'[a] = runOf[a] /\ \A b \in Attempts \ {a} : found'[b] = found[b]
        /\ undispatched' \subseteq Attempts /\ lock' = a /\ LocalTypes'
    BY <1>1 DEF TypeOK, LocalTypes, Steps
  <1>6. grant' \in {"usable", "exhausted", "expired"}
    BY DEF authorizeAndConsume, TypeOK, PolicyTypes, SpecTypes
  <1>7. TypeOK'
    BY <1>4, <1>5, <1>6 DEF TypeOK, PolicyTypes, SpecTypes, RunTypes, RowTypes, RemoteTypes
  <1>8. NewestAttemptRuns' /\ LocalsAreOfTheExecution'
    BY <1>1, <1>5 DEF NewestAttemptRuns, LocalsAreOfTheExecution, Steps
  <1>9. ReceiptInHand' /\ LockKeepsTheReceipt'
    BY <1>1, <1>4, <1>5 DEF ReceiptInHand, LockKeepsTheReceipt, Holding
  <1>10. ReceiptsAreOfBegunRuns' /\ OneReceiptPerLineage'
    BY <1>1, <1>2, <1>4 DEF ReceiptsAreOfBegunRuns, OneReceiptPerLineage
  <1>11. OnePendingApproval' /\ PendingApprovalIsAwaited' /\ GrantedIsApproved'
    BY DEF OnePendingApproval, PendingApprovalIsAwaited, GrantedIsApproved
  <1>12. Quiet /\ Quiet'
    BY <1>2, <1>5 DEF Quiet, ReceiptBeforeRequest
  <1>13. ReceiptBeforeRequest' /\ ClosedReceiptIsTrue' /\ UndispatchedIsQuiet' /\ SenderIsAlone'
    BY <1>1, <1>2, <1>4, <1>5, <1>12 DEF ReceiptBeforeRequest, ClosedReceiptIsTrue,
        UndispatchedIsQuiet, SenderIsAlone
  <1>14. OneRequest' /\ AppliedOnce'
    BY <1>5 DEF OneRequest, AppliedOnce
  <1>. QED
    BY <1>7, <1>8, <1>9, <1>10, <1>11, <1>13, <1>14

\* The execution that is about to send is alone with its receipt.
LEMMA SendingStep ==
  ASSUME IndInv, NEW a \in Attempts, At(a, "owned"), Goto(a, "sending"),
         UNCHANGED <<specVars, grant, runVars, dbVars, remoteVars>>
  PROVE  IndInv'
  <1>. USE Bounds DEF IndInv, specVars, runVars, dbVars, remoteVars, Goto, Enter, At, workVars
  <1>1. /\ pc'[a] = "sending" /\ \A b \in Attempts \ {a} : pc'[b] = pc[b]
        /\ lock' = a /\ LocalTypes'
    BY DEF TypeOK, LocalTypes, Steps
  <1>2. TypeOK'
    BY <1>1 DEF TypeOK, PolicyTypes, SpecTypes, RunTypes, RowTypes, RemoteTypes
  <1>3. NewestAttemptRuns' /\ LocalsAreOfTheExecution' /\ ReceiptInHand' /\ LockKeepsTheReceipt'
    BY <1>1 DEF NewestAttemptRuns, LocalsAreOfTheExecution, ReceiptInHand, LockKeepsTheReceipt,
        Steps, Holding
  <1>4. ReceiptsAreOfBegunRuns' /\ OneReceiptPerLineage' /\ OnePendingApproval'
        /\ PendingApprovalIsAwaited' /\ GrantedIsApproved'
    BY DEF ReceiptsAreOfBegunRuns, OneReceiptPerLineage, OnePendingApproval,
        PendingApprovalIsAwaited, GrantedIsApproved
  <1>5. /\ found[a] \in Runs /\ receipt[found[a]].status = "PENDING"
        /\ \A r \in Runs : receipt[r].status \in {"NONE", "PENDING"}
    BY DEF ReceiptInHand, Holding, LockKeepsTheReceipt, OneReceiptPerLineage, TypeOK, LocalTypes,
        RowTypes, ReceiptRows
  <1>6. ReceiptBeforeRequest' /\ ClosedReceiptIsTrue'
    BY <1>5 DEF ReceiptBeforeRequest, ClosedReceiptIsTrue
  <1>7. UndispatchedIsQuiet' /\ SenderIsAlone'
    BY <1>1 DEF UndispatchedIsQuiet, SenderIsAlone, BeforeRequest
  <1>8. OneRequest' /\ AppliedOnce'
    BY <1>1 DEF OneRequest, AppliedOnce, SenderIsAlone, BeforeRequest, Quiet
  <1>. QED
    BY <1>2, <1>3, <1>4, <1>6, <1>7, <1>8

\* The request leaves, with the lock or without it.
LEMMA DispatchStep ==
  ASSUME IndInv, NEW a \in Attempts, dispatch(a)
  PROVE  IndInv'
  <1>. USE Bounds DEF IndInv, dispatch, specVars, runVars, dbVars, Goto, Enter, workVars
  <1>1. /\ pc[a] = "sending" /\ pc'[a] = "sent" /\ \A b \in Attempts \ {a} : pc'[b] = pc[b]
        /\ call'[a] = "open" /\ \A b \in Attempts \ {a} : call'[b] = call[b]
        /\ lock' = lock /\ LocalTypes' /\ RemoteTypes'
    BY DEF TypeOK, LocalTypes, RemoteTypes, Steps
  <1>2. TypeOK'
    BY <1>1 DEF TypeOK, PolicyTypes, SpecTypes, RunTypes, RowTypes
  <1>3. NewestAttemptRuns' /\ LocalsAreOfTheExecution' /\ ReceiptInHand' /\ LockKeepsTheReceipt'
    BY <1>1 DEF NewestAttemptRuns, LocalsAreOfTheExecution, ReceiptInHand, LockKeepsTheReceipt,
        Steps, Holding, TypeOK, LocalTypes
  <1>4. ReceiptsAreOfBegunRuns' /\ OneReceiptPerLineage' /\ OnePendingApproval'
        /\ PendingApprovalIsAwaited' /\ GrantedIsApproved'
    BY DEF ReceiptsAreOfBegunRuns, OneReceiptPerLineage, OnePendingApproval,
        PendingApprovalIsAwaited, GrantedIsApproved
  <1>5. ReceiptBeforeRequest' /\ ClosedReceiptIsTrue'
    BY <1>1 DEF ReceiptBeforeRequest, ClosedReceiptIsTrue, Quiet
  <1>6. UndispatchedIsQuiet' /\ SenderIsAlone'
    BY <1>1 DEF UndispatchedIsQuiet, SenderIsAlone, BeforeRequest, Quiet, TypeOK, LocalTypes
  <1>7. OneRequest' /\ AppliedOnce'
    BY <1>1 DEF OneRequest, AppliedOnce
  <1>. QED
    BY <1>2, <1>3, <1>4, <1>5, <1>6, <1>7

\* The provider applies a request, or drops it.
LEMMA ProviderStep ==
  ASSUME IndInv, NEW a \in Attempts, ProviderApplies(a) \/ ProviderRejects(a)
  PROVE  IndInv'
  <1>. USE Bounds DEF IndInv, specVars, runVars, dbVars, localVars, workVars
  <1>1. /\ call[a] = "open" /\ \A b \in Attempts \ {a} : call'[b] = call[b]
        /\ \/ call'[a] = "applied" /\ applied' = 1
           \/ call'[a] = "rejected" /\ applied' = applied
        /\ RemoteTypes' /\ UNCHANGED <<specVars, grant, runVars, dbVars, localVars>>
    BY DEF ProviderApplies, ProviderRejects, TypeOK, RemoteTypes, OneRequest
  <1>2. TypeOK'
    BY <1>1 DEF TypeOK, PolicyTypes, SpecTypes, RunTypes, RowTypes, LocalTypes
  <1>3. NewestAttemptRuns' /\ LocalsAreOfTheExecution' /\ ReceiptInHand' /\ LockKeepsTheReceipt'
    BY <1>1 DEF NewestAttemptRuns, LocalsAreOfTheExecution, ReceiptInHand, LockKeepsTheReceipt
  <1>4. ReceiptsAreOfBegunRuns' /\ OneReceiptPerLineage' /\ OnePendingApproval'
        /\ PendingApprovalIsAwaited' /\ GrantedIsApproved'
    BY <1>1 DEF ReceiptsAreOfBegunRuns, OneReceiptPerLineage, OnePendingApproval,
        PendingApprovalIsAwaited, GrantedIsApproved
  <1>5. ~Quiet
    BY <1>1 DEF Quiet
  <1>6. ReceiptBeforeRequest' /\ ClosedReceiptIsTrue' /\ UndispatchedIsQuiet' /\ SenderIsAlone'
    BY <1>1, <1>5 DEF ReceiptBeforeRequest, ClosedReceiptIsTrue, UndispatchedIsQuiet, SenderIsAlone
  <1>7. OneRequest' /\ AppliedOnce'
    BY <1>1 DEF OneRequest, AppliedOnce
  <1>. QED
    BY <1>2, <1>3, <1>4, <1>6, <1>7

\* The lock is gone while the request is leaving.
LEMMA LockLossStep ==
  ASSUME IndInv, NEW a \in Attempts, LockSessionLost(a)
  PROVE  IndInv'
  <1>. USE Bounds DEF IndInv, LockSessionLost, specVars, runVars, dbVars, workVars, remoteVars
  <1>1. TypeOK' /\ lock' = None
    BY DEF TypeOK, PolicyTypes, SpecTypes, RunTypes, RowTypes, LocalTypes, RemoteTypes
  <1>2. NewestAttemptRuns' /\ LocalsAreOfTheExecution' /\ ReceiptInHand' /\ LockKeepsTheReceipt'
    BY <1>1 DEF NewestAttemptRuns, LocalsAreOfTheExecution, ReceiptInHand, LockKeepsTheReceipt
  <1>3. ReceiptsAreOfBegunRuns' /\ OneReceiptPerLineage' /\ OnePendingApproval'
        /\ PendingApprovalIsAwaited' /\ GrantedIsApproved'
    BY DEF ReceiptsAreOfBegunRuns, OneReceiptPerLineage, OnePendingApproval,
        PendingApprovalIsAwaited, GrantedIsApproved
  <1>4. Quiet => Quiet'
    BY DEF Quiet
  <1>5. UndispatchedIsQuiet' /\ SenderIsAlone'
    BY <1>1 DEF UndispatchedIsQuiet, SenderIsAlone, TypeOK, LocalTypes
  <1>6. ReceiptBeforeRequest' /\ ClosedReceiptIsTrue' /\ OneRequest' /\ AppliedOnce'
    BY <1>4 DEF ReceiptBeforeRequest, ClosedReceiptIsTrue, OneRequest, AppliedOnce
  <1>. QED
    BY <1>1, <1>2, <1>3, <1>5, <1>6

-----------------------------------------------------------------------------
(* Every step.                                                             *)

\* No step of an execution breaks the inductive invariant.
LEMMA ExecutionStep ==
  ASSUME IndInv, NEW a \in Attempts, Execution(a)
  PROVE  IndInv'
  <1>. USE DEF At, pendingRecovery, specVars
  <1>1. \A result \in Results : pc[a] \in Steps /\ Return(a, result)
            /\ UNCHANGED <<specVars, grant, runVars, dbVars, remoteVars>> => IndInv'
    BY ReturnStep DEF IndInv, TypeOK, PolicyTypes, SpecTypes, Steps
  <1>2. ASSUME NEW p \in Steps \ {"sending", "sent"},
               pc[a] \in Steps, lock = a, Goto(a, p),
               p \in Holding => found[a] # None,
               p = "refusing" => a \in undispatched,
               p \in BeforeRequest \cup {"refusing"} => pc[a] \in BeforeRequest,
               p \in {"closing", "committing"} => applied = 1,
               UNCHANGED <<specVars, grant, runVars, dbVars, remoteVars>>
        PROVE  IndInv'
    <2>1. /\ PolicyTypes' /\ UNCHANGED <<recovery, requiresApproval>>
          /\ UNCHANGED <<runVars, dbVars, remoteVars>>
      BY <1>2 DEF IndInv, TypeOK, PolicyTypes, SpecTypes
    <2>. QED
      BY <1>2, <2>1, GotoStep
  <1>3. /\ pc[a] \in Holding => found[a] # None
        /\ a \in undispatched => found[a] # None
        /\ pc[a] = "refusing" => a \in undispatched
        /\ pc[a] \in {"closing", "committing"} \/ call[a] = "applied" \/ applied > 0 => applied = 1
    BY DEF IndInv, ReceiptInHand, AppliedOnce
  <1>4. CASE executeGovernedAction(a)
    BY <1>4, TakeLockStep
  <1>5. CASE markReconciliationRequired(a) \/ CommitReconciled(a)
             \/ failUndispatchedReceiptAndDeny(a) \/ commitReceipt(a)
    <2>1. pc[a] = "refusing" /\ lock = a => Quiet
      BY <1>3 DEF IndInv, UndispatchedIsQuiet
    <2>. QED
      BY <1>1, <1>2, <1>3, <1>5, <2>1, CloseStep DEF markReconciliationRequired, CommitReconciled,
        failUndispatchedReceiptAndDeny, commitReceipt, CanCommit, FailDispatched, Results, Steps,
        Holding, BeforeRequest, dbVars
  <1>6. CASE reconcile(a)
    BY <1>2, <1>3, <1>6, CertificateStep DEF reconcile, Steps, Holding, BeforeRequest
  <1>7. CASE ValidationFails(a) \/ NoUsableGrant(a)
    BY <1>1, <1>2, <1>3, <1>7 DEF ValidationFails, NoUsableGrant, Deny, Results, Steps, Holding,
        BeforeRequest
  <1>8. CASE LookUpApproval(a)
    BY <1>1, <1>2, <1>3, <1>8, GrantStep DEF LookUpApproval, Deny, Results, Steps, Holding,
        BeforeRequest
  <1>9. CASE requestFreshApproval(a) \/ resolveCredential(a)
    BY <1>1, <1>2, <1>9 DEF requestFreshApproval, resolveCredential, Results, Steps, Holding,
        BeforeRequest
  <1>10. CASE SuspendForApproval(a)
    BY <1>10, SuspendStep
  <1>11. CASE insertPendingReceipt(a)
    BY <1>1, <1>2, <1>11, InsertStep DEF insertPendingReceipt, Results, Steps, Holding,
        BeforeRequest, dbVars
  <1>12. CASE revalidateForDispatch(a)
    BY <1>1, <1>2, <1>3, <1>12 DEF revalidateForDispatch, Deny, Results, Steps, Holding, BeforeRequest
  <1>13. CASE assertCurrentActionOwner(a)
    BY <1>1, <1>13, SendingStep DEF assertCurrentActionOwner, Results, Steps
  <1>14. CASE dispatch(a)
    BY <1>14, DispatchStep
  <1>15. CASE DispatchReturns(a)
    BY <1>2, <1>3, <1>15 DEF DispatchReturns, Steps, Holding, BeforeRequest
  <1>16. CASE CallAborted(a) \/ ResponseRefused(a) \/ CallRejected(a)
    BY <1>1, <1>2, <1>3, <1>16 DEF CallAborted, ResponseRefused, CallRejected, FailDispatched,
        Results, Steps, Holding, BeforeRequest
  <1>. QED
    BY <1>4, <1>5, <1>6, <1>7, <1>8, <1>9, <1>10, <1>11, <1>12, <1>13, <1>14, <1>15, <1>16
    DEF Execution

\* No step breaks the inductive invariant.
LEMMA IndStep == IndInv /\ [Next]_vars => IndInv'
  <1>1. SUFFICES ASSUME IndInv, [Next]_vars PROVE IndInv'
    OBVIOUS
  <1>2. CASE Claim \/ LeaseMoves \/ Reap \/ Replace \/ Cancel
    BY <1>1, <1>2, ClaimStep, LapseStep, CancelStep
  <1>3. CASE GrantEnds
    <2>. USE <1>1, <1>3 DEF GrantEnds, specVars, runVars, dbVars, workVars, localVars, remoteVars
    <2>1. TypeOK'
      BY DEF IndInv, TypeOK, PolicyTypes, SpecTypes, RunTypes, RowTypes, LocalTypes, RemoteTypes
    <2>. QED
      BY <2>1 DEF IndInv, NewestAttemptRuns, LocalsAreOfTheExecution, ReceiptInHand,
        LockKeepsTheReceipt, ReceiptsAreOfBegunRuns, OneReceiptPerLineage, OnePendingApproval,
        PendingApprovalIsAwaited, GrantedIsApproved, ReceiptBeforeRequest, ClosedReceiptIsTrue,
        UndispatchedIsQuiet, SenderIsAlone, OneRequest, AppliedOnce, Quiet
  <1>4. ASSUME NEW i \in DOMAIN approvals, NEW decision \in {"APPROVED", "DENIED"},
               DecideAndWake(i, decision)
        PROVE  IndInv'
    BY <1>1, <1>4, DecisionStep
  <1>5. ASSUME NEW a \in Attempts, Execution(a)
        PROVE  IndInv'
    BY <1>1, <1>5, ExecutionStep
  <1>6. ASSUME NEW a \in Attempts, ProviderApplies(a) \/ ProviderRejects(a)
        PROVE  IndInv'
    BY <1>1, <1>6, ProviderStep
  <1>7. ASSUME NEW a \in Attempts, LockSessionLost(a)
        PROVE  IndInv'
    BY <1>1, <1>7, LockLossStep
  <1>8. ASSUME NEW a \in Attempts, SessionLossNoticed(a) \/ Crash(a)
        PROVE  IndInv'
    BY <1>1, <1>8, ReturnStep DEF SessionLossNoticed, Crash, IndInv, TypeOK, PolicyTypes, SpecTypes, Results,
        Steps, specVars
  <1>9. CASE UNCHANGED vars
    <2>. USE <1>1, <1>9 DEF vars
    <2>1. TypeOK'
      BY DEF IndInv, TypeOK, PolicyTypes, SpecTypes, RunTypes, RowTypes, LocalTypes, RemoteTypes
    <2>. QED
      BY <2>1 DEF IndInv, NewestAttemptRuns, LocalsAreOfTheExecution, ReceiptInHand,
        LockKeepsTheReceipt, ReceiptsAreOfBegunRuns, OneReceiptPerLineage, OnePendingApproval,
        PendingApprovalIsAwaited, GrantedIsApproved, ReceiptBeforeRequest, ClosedReceiptIsTrue,
        UndispatchedIsQuiet, SenderIsAlone, OneRequest, AppliedOnce, Quiet
  <1>. QED
    BY <1>1, <1>2, <1>3, <1>4, <1>5, <1>6, <1>7, <1>8, <1>9 DEF Next

\* The initial state satisfies it.
LEMMA IndInit == Init => IndInv
  <1>1. SUFFICES ASSUME Init PROVE IndInv
    OBVIOUS
  <1>. USE <1>1, Bounds DEF Init
  <1>2. TypeOK
    <2>1. PolicyTypes /\ RunTypes
      BY DEF PolicyTypes, SpecTypes, RunTypes
    <2>2. RowTypes
      BY DEF RowTypes, ReceiptRows, NoReceipt
    <2>3. LocalTypes /\ RemoteTypes
      BY DEF LocalTypes, RemoteTypes
    <2>. QED
      BY <2>1, <2>2, <2>3 DEF TypeOK
  <1>3. Quiet /\ \A r \in Runs : receipt[r] = NoReceipt
    BY DEF Quiet
  <1>4. ReceiptBeforeRequest /\ ClosedReceiptIsTrue /\ ReceiptsAreOfBegunRuns /\ OneReceiptPerLineage
    BY <1>3 DEF ReceiptBeforeRequest, ClosedReceiptIsTrue, ReceiptsAreOfBegunRuns,
        OneReceiptPerLineage, NoReceipt
  <1>. QED
    BY <1>2, <1>3, <1>4 DEF IndInv, NewestAttemptRuns, LocalsAreOfTheExecution, ReceiptInHand,
        LockKeepsTheReceipt, OnePendingApproval, PendingApprovalIsAwaited, GrantedIsApproved,
        UndispatchedIsQuiet, SenderIsAlone, OneRequest, AppliedOnce, Holding, Steps

\* The inductive invariant holds in every reachable state.
THEOREM Inductive == Spec => []IndInv
  BY IndInit, IndStep, PTL DEF Spec

\* One receipt over the whole replacement lineage, however many attempts of
\* however many runs race for the key (findReceiptByLineageKey).
THEOREM OneReceipt == Spec => []OneReceiptPerLineage
  BY Inductive, PTL DEF IndInv

\* A run waits exactly while an approval of its own is PENDING, unless it was
\* cancelled meanwhile: no PENDING approval is of another run, and none is left
\* by a run that goes on (requestFreshApproval, POST /approvals, POST /cancel).
THEOREM Awaited == Spec => []PendingApprovalIsAwaited
  BY Inductive, PTL DEF IndInv

\* No request leaves on the strength of an approval that was not given for the
\* run that sends it (lockApprovalForExecution).
THEOREM ApprovedFirst == Spec => []ApprovedBeforeDispatch
  <1>1. IndInv => ApprovedBeforeDispatch
    BY DEF IndInv, GrantedIsApproved, ApprovedBeforeDispatch
  <1>. QED
    BY <1>1, Inductive, PTL

-----------------------------------------------------------------------------
(* The receipts implement ExternalEffect.                                  *)

\* What a receipt says to an operator.
RecordOf(state) ==
  CASE state = "NONE" -> "none"
    [] state = "PENDING" -> "open"
    [] state = "COMMITTED" -> "done"
    [] state = "FAILED" -> "failed"
    [] state = "NEEDS_RECONCILIATION" -> "escalated"

\* The record of the lineage is what its one receipt says, and "none" if there
\* is no receipt in the lineage.
RecordIsTheReceipt ==
  /\ \A r \in Runs : receipt[r].status # "NONE"
                       => lineageRecord = RecordOf(receipt[r].status)
  /\ (\A r \in Runs : receipt[r].status = "NONE") => lineageRecord = "none"

\* It is so in every state of the inductive invariant.
LEMMA RecordShows == IndInv => RecordIsTheReceipt
  <1>1. SUFFICES ASSUME IndInv PROVE RecordIsTheReceipt
    OBVIOUS
  <1>2. run \in Runs /\ 1..run \subseteq Runs /\ None \notin Runs
    <2>1. run \in Runs
      BY <1>1 DEF IndInv, TypeOK, RunTypes
    <2>. QED
      BY <2>1, BoundsAssumption DEF Runs, None
  <1>3. /\ \A r \in 1..run : receipt[r].status # "NONE"
                               => findReceiptByLineageKey(run) = r
        /\ (\A r \in 1..run : receipt[r].status = "NONE")
             => findReceiptByLineageKey(run) = None
    BY <1>1, <1>2, LineageReceipt DEF IndInv
  <1>4. \A r \in Runs : receipt[r].status # "NONE" => r \in 1..run
    BY <1>1, <1>2, Bounds DEF IndInv, ReceiptsAreOfBegunRuns, Runs
  <1>. QED
    BY <1>2, <1>3, <1>4 DEF RecordIsTheReceipt, lineageRecord, RecordOf

\* The same of the next state.
LEMMA RecordShowsNext == IndInv' => RecordIsTheReceipt'
  BY RecordShows, PTL

\* A step that leaves the receipts alone leaves the record alone.
LEMMA SameReceipts ==
  ASSUME IndInv, IndInv', receipt' = receipt
  PROVE  lineageRecord' = lineageRecord
  <1>1. CASE \A r \in Runs : receipt[r].status = "NONE"
    BY <1>1, RecordShows, RecordShowsNext DEF RecordIsTheReceipt
  <1>2. CASE \E r \in Runs : receipt[r].status # "NONE"
    BY <1>2, RecordShows, RecordShowsNext DEF RecordIsTheReceipt
  <1>. QED
    BY <1>1, <1>2

\* Closing the receipt in hand confirms, abandons or escalates the record.
LEMMA CloseMaps ==
  ASSUME IndInv, IndInv', NEW r \in Runs,
         NEW state \in {"COMMITTED", "FAILED", "NEEDS_RECONCILIATION"},
         receipt[r].status = "PENDING", CloseReceipt(r, state),
         state = "COMMITTED" => applied = 1,
         state = "FAILED" => applied = 0,
         applied' = applied
  PROVE  Effect!Next
  <1>1. receipt'[r].status = state
    BY DEF CloseReceipt, IndInv, TypeOK, RowTypes, ReceiptRows
  <1>2. lineageRecord = "open" /\ lineageRecord' = RecordOf(state)
    BY <1>1, RecordShows, RecordShowsNext DEF RecordIsTheReceipt, RecordOf
  <1>. QED
    BY <1>2 DEF RecordOf, Effect!Next, Effect!Confirm, Effect!Abandon, Effect!Escalate

\* A step of an execution maps to a step of ExternalEffect or to a stutter.
LEMMA ExecutionMaps ==
  ASSUME IndInv, IndInv', NEW a \in Attempts, Execution(a)
  PROVE  Effect!Next \/ UNCHANGED Effect!vars
  <1>. USE DEF At, specVars, dbVars, remoteVars, pendingRecovery
  <1>1. CASE UNCHANGED <<receipt, applied>>
    BY <1>1, SameReceipts DEF Effect!vars
  <1>2. /\ pc[a] \in Holding /\ lock = a
             => found[a] \in Runs /\ receipt[found[a]].status = "PENDING"
        /\ pc[a] \in {"closing", "committing"} => applied = 1
        /\ pc[a] = "refusing" /\ lock = a => applied = 0
    BY Bounds DEF IndInv, ReceiptInHand, LockKeepsTheReceipt, AppliedOnce, UndispatchedIsQuiet, Quiet,
        TypeOK, LocalTypes
  <1>3. CASE markReconciliationRequired(a)
    BY <1>1, <1>2, <1>3, CloseMaps DEF markReconciliationRequired, Holding
  <1>4. CASE CommitReconciled(a) \/ commitReceipt(a)
    BY <1>1, <1>2, <1>4, CloseMaps DEF CommitReconciled, commitReceipt, Holding
  <1>5. CASE failUndispatchedReceiptAndDeny(a)
    BY <1>1, <1>2, <1>5, CloseMaps DEF failUndispatchedReceiptAndDeny, Holding
  <1>6. CASE SuspendForApproval(a)
    <2>1. applied' = applied
      BY <1>6 DEF SuspendForApproval
    <2>2. \A r \in Runs : receipt'[r].status = receipt[r].status
      <3>1. receipt \in ReceiptRows
        BY DEF IndInv, TypeOK, RowTypes
      <3>2. \/ receipt' = receipt
            \/ receipt' = [receipt EXCEPT ![found[a]].approval = Len(approvals')]
        BY <1>6 DEF SuspendForApproval
      <3>. QED
        BY <3>1, <3>2 DEF ReceiptRows
    <2>3. CASE \A r \in Runs : receipt[r].status = "NONE"
      BY <2>1, <2>2, <2>3, RecordShows, RecordShowsNext DEF RecordIsTheReceipt, Effect!vars
    <2>4. CASE \E r \in Runs : receipt[r].status # "NONE"
      BY <2>1, <2>2, <2>4, RecordShows, RecordShowsNext DEF RecordIsTheReceipt, Effect!vars
    <2>. QED
      BY <2>3, <2>4
  <1>7. CASE insertPendingReceipt(a)
    <2>1. CASE receipt' = receipt
      BY <1>1, <1>7, <2>1 DEF insertPendingReceipt
    <2>2. CASE receipt' # receipt
      <3>1. /\ lock = a /\ found[a] = None /\ applied' = applied
            /\ receipt' = [receipt EXCEPT ![runOf[a]] =
                 [status |-> "PENDING",
                  approval |-> IF requiresApproval /\ a \in granted
                               THEN ApprovalOf(a) ELSE None]]
        BY <1>7, <2>2 DEF insertPendingReceipt
      <3>2. runOf[a] \in Runs
        BY <1>7, <3>1 DEF insertPendingReceipt, IndInv, NewestAttemptRuns, TypeOK, RunTypes
      <3>3. \A r \in Runs : receipt[r].status = "NONE"
        BY <3>1, Bounds DEF IndInv, LockKeepsTheReceipt
      <3>4. receipt'[runOf[a]].status = "PENDING"
        BY <3>1, <3>2 DEF IndInv, TypeOK, RowTypes, ReceiptRows
      <3>5. lineageRecord = "none" /\ lineageRecord' = "open"
        BY <3>2, <3>3, <3>4, RecordShows, RecordShowsNext DEF RecordIsTheReceipt, RecordOf
      <3>. QED
        BY <3>1, <3>5 DEF Effect!Next, Effect!Open
    <2>. QED
      BY <2>1, <2>2
  <1>. QED
    BY <1>1, <1>3, <1>4, <1>5, <1>6, <1>7
    DEF Execution, executeGovernedAction, reconcile, ValidationFails, NoUsableGrant,
        LookUpApproval, requestFreshApproval, resolveCredential, revalidateForDispatch,
        assertCurrentActionOwner, dispatch, DispatchReturns, CallAborted, ResponseRefused,
        CallRejected

\* A request the provider carries out finds the record open or escalated, and
\* is the first one or is known to the provider already.
LEMMA ProviderMaps ==
  ASSUME IndInv, IndInv', NEW a \in Attempts, ProviderApplies(a)
  PROVE  Effect!Next \/ UNCHANGED Effect!vars
  <1>. USE DEF ProviderApplies, localVars, dbVars
  <1>1. lineageRecord' = lineageRecord
    BY SameReceipts
  <1>2. applied' = 1 /\ applied \in {0, 1}
    BY DEF IndInv, AppliedOnce
  <1>3. CASE applied = 1
    BY <1>1, <1>2, <1>3 DEF Effect!vars
  <1>4. CASE applied = 0
    <2>1. PICK r \in Runs : receipt[r].status # "NONE"
      BY DEF IndInv, ReceiptBeforeRequest
    <2>2. receipt[r].status \in {"PENDING", "NEEDS_RECONCILIATION"}
      BY <1>4, <2>1 DEF IndInv, ClosedReceiptIsTrue, Quiet, TypeOK, RowTypes, ReceiptRows
    <2>3. lineageRecord \in {"open", "escalated"}
      BY <2>1, <2>2, RecordShows DEF RecordIsTheReceipt, RecordOf
    <2>. QED
      BY <1>1, <1>2, <1>4, <2>3 DEF Effect!Next, Effect!TakeEffect
  <1>. QED
    BY <1>2, <1>3, <1>4

\* Every step maps to a step of ExternalEffect or to a stutter.
LEMMA StepMaps ==
  IndInv /\ IndInv' /\ [Next]_vars => [Effect!Next]_(Effect!vars)
  <1>1. SUFFICES ASSUME IndInv, IndInv', [Next]_vars
                 PROVE  Effect!Next \/ UNCHANGED Effect!vars
    OBVIOUS
  <1>2. CASE UNCHANGED <<receipt, applied>>
    BY <1>1, <1>2, SameReceipts DEF Effect!vars
  <1>3. ASSUME NEW a \in Attempts, Execution(a)
        PROVE  Effect!Next \/ UNCHANGED Effect!vars
    BY <1>1, <1>3, ExecutionMaps
  <1>4. ASSUME NEW a \in Attempts, ProviderApplies(a)
        PROVE  Effect!Next \/ UNCHANGED Effect!vars
    BY <1>1, <1>4, ProviderMaps
  <1>. QED
    BY <1>1, <1>2, <1>3, <1>4
    DEF Next, vars, dbVars, remoteVars, Claim, LeaseMoves, Reap, Replace, Cancel, GrantEnds, DecideAndWake,
        ProviderRejects, LockSessionLost, SessionLossNoticed, Crash

\* The receipts implement ExternalEffect: whatever the interleaving of attempts,
\* crashes, lost lock sessions and late answers, the action is applied at most
\* once, under a durable receipt, and a closed receipt says what happened
\* (executeGovernedActionFenced).
THEOREM Implements == Spec => ImplementsExternalEffect
  <1>1. Init => Effect!Init
    <2>1. SUFFICES ASSUME Init PROVE Effect!Init
      OBVIOUS
    <2>2. IndInv /\ \A r \in Runs : receipt[r].status = "NONE"
      BY <2>1, IndInit DEF Init, NoReceipt
    <2>. QED
      BY <2>1, <2>2, RecordShows DEF RecordIsTheReceipt, Init, Effect!Init
  <1>. QED
    BY <1>1, Inductive, StepMaps, PTL DEF Spec, ImplementsExternalEffect, Effect!Spec

=============================================================================
