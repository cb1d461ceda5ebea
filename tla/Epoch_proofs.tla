---------------------------- MODULE Epoch_proofs ----------------------------
(***************************************************************************)
(* Proofs about what an epoch does: Suspension, Checkpoints,               *)
(* ScriptedEpoch, Supervisor, and Credentials for the calls it makes.  The *)
(* components share no state; each has an inductive invariant of its own.  *)
(***************************************************************************)
EXTENDS Suspension, Checkpoints, ScriptedEpoch, Supervisor, Credentials, FiniteFacts,
        TLAPS

-----------------------------------------------------------------------------
(* Suspension.                                                             *)

Records == AnswersOf(Deliveries \cup {None})
EpochPcs == {"none", "claimed", "running", "suspending", "saving", "gone"}
RequestStates == {"idle", "wakes", "appends", "answered"}

\* Every record of the sequence is an event of the ledger.
Delivered(s) == \A i \in DOMAIN s : \E e \in DOMAIN ledger : ledger[e] = s[i]

\* The run's row.
RowInv ==
  /\ status \in {"QUEUED", "RUNNING", "WAITING_SIGNAL", "DONE"}
  /\ attempt \in 0..ClaimLimit

\* What the epochs and the checkpoint hold came from the ledger.
AnswersInv ==
  /\ ledger \in Seq(Records)
  /\ checkpoint.answers \in Seq(Records)
  /\ transcript \in [Attempts -> Seq(Records)]
  /\ Delivered(checkpoint.answers)
  /\ \A a \in Attempts : Delivered(transcript[a])

PlacesInv ==
  /\ pc \in [Attempts -> EpochPcs]
  /\ pending \in [Attempts -> Names \cup {NoName}]
  /\ checkpoint.call \in Names \cup {NoName}

\* The signals of a session's run are session events.
RequestsInv ==
  /\ request \in [Deliveries -> [name : Names \cup {NoName}, state : RequestStates]]
  /\ \A d \in Deliveries : request[d].state \in {"wakes", "appends"} => request[d].name \in Names
  /\ managed => \A d \in Deliveries : request[d].state \in {"idle", "answered"}

AnsweredOrAwaited(n) ==
  \/ Received(n) # {}
  \/ status = "WAITING_SIGNAL" /\ awaited = n
  \/ status = "DONE"

\* A call that is saved as pending, will be, or was restored as such is
\* answered, or the run waits for it.
PendingInv ==
  managed =>
    /\ checkpoint.call \in Names => AnsweredOrAwaited(checkpoint.call)
    /\ \A a \in Attempts :
         pc[a] \in {"running", "saving"} /\ pending[a] \in Names => AnsweredOrAwaited(pending[a])

\* What the owner has not found is not there while the run is its own.
OwnerMissesNothing ==
  \A a \in Attempts :
    managed /\ a = attempt /\ status = "RUNNING" /\ pc[a] = "suspending" =>
      Received(pending[a]) = {}

SuspensionInv ==
  /\ RowInv /\ AnswersInv /\ PlacesInv /\ RequestsInv /\ PendingInv
  /\ OwnerMissesNothing

\* The ledger only grows, by events with a name and a payload.
Grows == \E s \in Seq(Records) : ledger' = ledger \o s

\* What was received or delivered stays so.
LEMMA GrowthKeeps ==
  ASSUME ledger \in Seq(Records), Grows
  PROVE  /\ ledger' \in Seq(Records)
         /\ \A s : Delivered(s) => Delivered(s)'
         /\ \A n : Received(n) # {} => Received(n)' # {}
  <1>1. PICK s \in Seq(Records) : ledger' = ledger \o s
    BY DEF Grows
  <1>2. ledger' \in Seq(Records)
    BY <1>1
  <1>3. \A e \in DOMAIN ledger : e \in DOMAIN ledger' /\ ledger'[e] = ledger[e]
    BY <1>1
  <1>. QED
    BY <1>2, <1>3 DEF Delivered, Received

\* The newest event of a name is a record of the ledger.
LEMMA PayloadIsOfAnEvent ==
  ASSUME AnswersInv, NEW n \in Names, Received(n) # {}
  PROVE  \E e \in DOMAIN ledger : ledger[e] = Event(n, LatestPayload(n))
  <1>. DEFINE R == Received(n)
  <1>1. R \in SUBSET (0..Len(ledger)) /\ R # {}
    BY DEF AnswersInv, Received
  <1>2. \E i \in R : \A j \in R : j <= i
    <2>1. Len(ledger) \in Nat
      BY DEF AnswersInv
    <2>. QED
      BY <1>1, <2>1, LargestExists
  <1>3. PICK e \in R : e = CHOOSE i \in R : \A j \in R : j <= i
    BY <1>2
  <1>4. e \in DOMAIN ledger /\ ledger[e].name = n /\ ledger[e] \in Records
    BY <1>3 DEF Received, AnswersInv
  <1>5. ledger[e] = Event(n, ledger[e].payload)
    BY <1>4 DEF Records, AnswersOf, Event
  <1>6. LatestPayload(n) = ledger[e].payload
    BY <1>3 DEF LatestPayload
  <1>. QED
    BY <1>4, <1>5, <1>6

\* A step that leaves the epochs and the checkpoint alone, lets the ledger grow
\* and does not take a run out of its wait without the event it waited for.
LEMMA RunStep ==
  ASSUME SuspensionInv, RowInv', RequestsInv', Grows,
         UNCHANGED <<managed, attempt, checkpoint, epochVars>>,
         \A n \in Names :
           managed /\ status = "WAITING_SIGNAL" /\ awaited = n =>
             \/ status' = "WAITING_SIGNAL" /\ awaited' = n
             \/ status' = "DONE"
             \/ Received(n)' # {},
         status = "DONE" => status' = "DONE",
         managed /\ status' = "RUNNING" => status = "RUNNING" /\ ledger' = ledger
  PROVE  SuspensionInv'
  <1>1. ledger \in Seq(Records)
    BY DEF SuspensionInv, AnswersInv
  <1>2. ledger' \in Seq(Records) /\ (\A s : Delivered(s) => Delivered(s)')
          /\ \A n : Received(n) # {} => Received(n)' # {}
    BY <1>1, GrowthKeeps
  <1>3. AnswersInv'
    BY <1>2 DEF SuspensionInv, AnswersInv, epochVars
  <1>4. PlacesInv'
    BY DEF SuspensionInv, PlacesInv, epochVars
  <1>5. managed => \A n \in Names : AnsweredOrAwaited(n) => AnsweredOrAwaited(n)'
    BY <1>2 DEF AnsweredOrAwaited
  <1>6. PendingInv'
    BY <1>5 DEF SuspensionInv, PendingInv, epochVars
  <1>7. OwnerMissesNothing'
    BY DEF SuspensionInv, OwnerMissesNothing, Received, epochVars
  <1>. QED
    BY <1>3, <1>4, <1>6, <1>7 DEF SuspensionInv

\* A claim: a new epoch that has read nothing yet.
LEMMA ClaimStep == ASSUME SuspensionInv, claimRun PROVE SuspensionInv'
  <1>1. attempt + 1 \in Attempts /\ attempt \in Nat
    BY LimitsAssumption DEF SuspensionInv, RowInv, claimRun, Attempts
  <1>2. RowInv' /\ RequestsInv'
    BY <1>1, LimitsAssumption DEF SuspensionInv, RowInv, RequestsInv, claimRun, Attempts
  <1>3. AnswersInv'
    BY DEF SuspensionInv, AnswersInv, Delivered, claimRun
  <1>4. PlacesInv'
    BY <1>1 DEF SuspensionInv, PlacesInv, EpochPcs, claimRun, Goto
  <1>5. \A n : AnsweredOrAwaited(n) => AnsweredOrAwaited(n)'
    BY DEF AnsweredOrAwaited, Received, claimRun
  <1>6. \A a \in Attempts : pc'[a] # "claimed" => pc'[a] = pc[a] /\ a # attempt'
    BY <1>1 DEF SuspensionInv, PlacesInv, claimRun, Goto
  <1>7. PendingInv' /\ OwnerMissesNothing'
    BY <1>5, <1>6 DEF SuspensionInv, PendingInv, OwnerMissesNothing, claimRun
  <1>. QED
    BY <1>2, <1>3, <1>4, <1>7 DEF SuspensionInv

\* A ledger that stays has grown by nothing.
LEMMA LedgerStays == ASSUME ledger \in Seq(Records), UNCHANGED ledger PROVE Grows
  <1>1. <<>> \in Seq(Records) /\ ledger' = ledger \o <<>>
    OBVIOUS
  <1>. QED
    BY <1>1 DEF Grows

\* One event more.
LEMMA AppendedEvent ==
  ASSUME ledger \in Seq(Records), NEW e \in Records, ledger' = Append(ledger, e)
  PROVE  ledger' = ledger \o <<e>>
  OBVIOUS

\* The run ends or is queued without an answer.
LEMMA RunSteps ==
  ASSUME SuspensionInv,
         \/ Cancel
         \/ \E a \in Attempts : Requeue(a)
         \/ \E d \in Deliveries : Deliver(d)
  PROVE  SuspensionInv'
  <1>. USE DEF epochVars, runVars
  <1>0. ledger \in Seq(Records) /\ RowInv /\ RequestsInv
    BY DEF SuspensionInv, AnswersInv
  <1>1. CASE Cancel
    <2>1. Grows
      BY <1>0, <1>1, LedgerStays DEF Cancel
    <2>2. RowInv' /\ RequestsInv'
      BY <1>0, <1>1 DEF RowInv, RequestsInv, Cancel
    <2>. QED
      BY <1>1, <2>1, <2>2, RunStep DEF Cancel
  <1>2. ASSUME NEW a \in Attempts, Requeue(a) PROVE SuspensionInv'
    <2>1. Grows
      BY <1>0, <1>2, LedgerStays DEF Requeue
    <2>2. RowInv' /\ RequestsInv'
      BY <1>0, <1>2 DEF RowInv, RequestsInv, Requeue
    <2>. QED
      BY <1>2, <2>1, <2>2, RunStep DEF Requeue
  <1>3. ASSUME NEW d \in Deliveries, NEW n \in Names, SignalReads(d, n)
        PROVE  SuspensionInv'
    <2>1. Grows
      BY <1>0, <1>3, LedgerStays DEF SignalReads
    <2>2. RowInv' /\ RequestsInv'
      BY <1>0, <1>3 DEF RowInv, RequestsInv, RequestStates, SignalReads
    <2>. QED
      BY <1>3, <2>1, <2>2, RunStep DEF SignalReads
  <1>4. ASSUME NEW d \in Deliveries, SignalCommits(d) PROVE SuspensionInv'
    <2>1. ~managed
      BY <1>0, <1>4 DEF RequestsInv, SignalCommits
    <2>2. RowInv' /\ RequestsInv'
      BY <1>0, <1>4, <2>1 DEF RowInv, RequestsInv, RequestStates, SignalCommits, Answered
    <2>. DEFINE e == Event(request[d].name, d)
                w == Event(request[d].name, None)
    <2>3. request[d].name \in Names
      BY <1>0, <1>4 DEF RequestsInv, SignalCommits
    <2>4. e \in Records /\ w \in Records
      BY <2>3 DEF Event, Records, AnswersOf
    <2>5. <<e>> \in Seq(Records) /\ <<e, w>> \in Seq(Records)
      BY <2>4
    <2>6. ledger' = ledger \o <<e>> \/ ledger' = ledger \o <<e, w>> \/ ledger' = ledger
      BY <1>0, <1>4, <2>4, AppendedEvent DEF SignalCommits
    <2>7. Grows
      BY <1>0, <2>5, <2>6, LedgerStays DEF Grows
    <2>8. status = "DONE" => status' = "DONE"
      BY <1>4 DEF SignalCommits
    <2>. QED
      BY <1>4, <2>1, <2>2, <2>7, <2>8, RunStep DEF SignalCommits
  <1>5. ASSUME NEW d \in Deliveries, NEW n \in Names, receiveManagedSessionEvent(d, n)
        PROVE  SuspensionInv'
    <2>2. RowInv' /\ RequestsInv'
      BY <1>0, <1>5 DEF RowInv, RequestsInv, RequestStates, receiveManagedSessionEvent, Answered
    <2>. DEFINE e == Event(n, d)
    <2>3. e \in Records /\ <<e>> \in Seq(Records)
      BY DEF Event, Records, AnswersOf
    <2>4. ledger' = ledger \o <<e>> \/ ledger' = ledger
      BY <1>0, <1>5, <2>3, AppendedEvent DEF receiveManagedSessionEvent
    <2>5. Grows
      BY <1>0, <2>3, <2>4, LedgerStays DEF Grows
    <2>6. ASSUME status = "WAITING_SIGNAL", awaited = n PROVE Received(n)' # {}
      <3>1. ledger' = Append(ledger, e)
        BY <1>5, <2>6 DEF receiveManagedSessionEvent
      <3>2. Len(ledger) + 1 \in DOMAIN ledger' /\ ledger'[Len(ledger) + 1] = e
        BY <1>0, <2>3, <3>1
      <3>. QED
        BY <3>2 DEF Received, Event
    <2>7. CASE status = "WAITING_SIGNAL" /\ awaited = n
      BY <1>5, <2>2, <2>5, <2>6, <2>7, RunStep DEF receiveManagedSessionEvent
    <2>8. CASE ~(status = "WAITING_SIGNAL" /\ awaited = n)
      BY <1>5, <2>2, <2>5, <2>8, RunStep DEF receiveManagedSessionEvent
    <2>. QED
      BY <2>7, <2>8
  <1>. QED
    BY <1>1, <1>2, <1>3, <1>4, <1>5 DEF Deliver

\* A step of an epoch that leaves the run, the ledger and the checkpoint alone.
LEMMA QuietStep ==
  ASSUME SuspensionInv, AnswersInv', PlacesInv',
         UNCHANGED <<managed, runVars, attempt, ledger, checkpoint, request>>,
         \A a \in Attempts :
           /\ pc'[a] \in {"running", "saving"} /\ pending'[a] \in Names =>
                \/ pc[a] \in {"running", "saving"} /\ pending[a] = pending'[a]
                \/ checkpoint.call = pending'[a]
           /\ pc'[a] = "suspending" =>
                \/ pc[a] = "suspending" /\ pending[a] = pending'[a]
                \/ Received(pending'[a]) = {}
  PROVE  SuspensionInv'
  <1>. USE DEF runVars
  <1>1. RowInv' /\ RequestsInv'
    BY DEF SuspensionInv, RowInv, RequestsInv
  <1>2. \A n : /\ AnsweredOrAwaited(n)' <=> AnsweredOrAwaited(n)
               /\ Received(n)' = Received(n)
    BY DEF AnsweredOrAwaited, Received
  <1>3. PendingInv'
    BY <1>2 DEF SuspensionInv, PendingInv
  <1>4. OwnerMissesNothing'
    BY <1>2 DEF SuspensionInv, OwnerMissesNothing
  <1>. QED
    BY <1>1, <1>3, <1>4 DEF SuspensionInv

\* What an epoch does on its own: restore, look for the signal, wait, save, end.
LEMMA EpochSteps ==
  ASSUME SuspensionInv, NEW a \in Attempts, Epoch(a)
  PROVE  SuspensionInv'
  <1>. USE DEF epochVars, runVars
  <1>0. AnswersInv /\ PlacesInv /\ RowInv /\ RequestsInv /\ PendingInv /\ OwnerMissesNothing
    BY DEF SuspensionInv
  <1>1. CASE Restore(a)
    <2>1. AnswersInv'
      BY <1>0, <1>1 DEF AnswersInv, Delivered, Restore
    <2>2. PlacesInv'
      BY <1>0, <1>1 DEF PlacesInv, EpochPcs, Restore, Goto
    <2>3. \A b \in Attempts : pc'[b] # "running" \/ pc'[b] = pc[b] \/ checkpoint.call = pending'[b]
      BY <1>0, <1>1 DEF PlacesInv, Restore, Goto
    <2>. QED
      BY <1>0, <1>1, <2>1, <2>2, QuietStep DEF PlacesInv, Restore, Goto
  <1>2. ASSUME NEW n \in Names, LookForSignal(a, n) PROVE SuspensionInv'
    <2>1. CASE Received(n) # {}
      <3>1. PICK e \in DOMAIN ledger : ledger[e] = Event(n, LatestPayload(n))
        BY <1>0, <2>1, PayloadIsOfAnEvent
      <3>. DEFINE s == transcript[a]
                  t == Append(s, ledger[e])
      <3>2. s \in Seq(Records) /\ ledger[e] \in Records /\ Delivered(s)
        BY <1>0 DEF AnswersInv
      <3>3. t \in Seq(Records) /\ Delivered(t)
        BY <3>2 DEF Delivered
      <3>. HIDE DEF t
      <3>4. transcript' = [transcript EXCEPT ![a] = t] /\ ledger' = ledger
        BY <1>2, <2>1, <3>1 DEF LookForSignal, t
      <3>5. AnswersInv'
        BY <1>0, <1>2, <3>3, <3>4 DEF AnswersInv, Delivered, LookForSignal
      <3>6. PlacesInv'
        BY <1>0, <1>2, <2>1 DEF PlacesInv, LookForSignal
      <3>. QED
        BY <1>0, <1>2, <2>1, <3>5, <3>6, NamesAssumption, QuietStep
        DEF PlacesInv, LookForSignal, NoName
    <2>2. CASE Received(n) = {}
      <3>1. AnswersInv'
        BY <1>0, <1>2, <2>2 DEF AnswersInv, Delivered, LookForSignal
      <3>2. PlacesInv'
        BY <1>0, <1>2, <2>2 DEF PlacesInv, EpochPcs, LookForSignal, Goto
      <3>. QED
        BY <1>0, <1>2, <2>2, <3>1, <3>2, QuietStep DEF PlacesInv, LookForSignal, Goto
    <2>. QED
      BY <2>1, <2>2
  <1>3. CASE Crash(a)
    <2>1. AnswersInv' /\ PlacesInv'
      BY <1>0, <1>3 DEF AnswersInv, Delivered, PlacesInv, EpochPcs, Crash, Goto
    <2>. QED
      BY <1>0, <1>3, <2>1, QuietStep DEF PlacesInv, Crash, Goto
  <1>4. CASE WaitForSignal(a)
    <2>0. AnswersInv'
      BY <1>0, <1>4 DEF AnswersInv, Delivered, WaitForSignal
    <2>1. AnswersInv' /\ PlacesInv' /\ RowInv' /\ RequestsInv'
      BY <1>0, <1>4, <2>0 DEF PlacesInv, EpochPcs, RowInv, RequestsInv, WaitForSignal, Goto
    <2>2. CASE status = "RUNNING"
      <3>1. \A n : AnsweredOrAwaited(n) => AnsweredOrAwaited(n)'
        BY <1>4, <2>2 DEF AnsweredOrAwaited, Received, WaitForSignal
      <3>2. AnsweredOrAwaited(pending[a])'
        BY <1>4, <2>2 DEF AnsweredOrAwaited, Received, WaitForSignal
      <3>3. PendingInv'
        BY <1>0, <1>4, <2>2, <3>1, <3>2 DEF PendingInv, PlacesInv, WaitForSignal, Goto
      <3>4. OwnerMissesNothing'
        BY <1>4, <2>2 DEF OwnerMissesNothing, WaitForSignal
      <3>. QED
        BY <2>1, <3>3, <3>4 DEF SuspensionInv
    <2>3. CASE status # "RUNNING"
      BY <1>0, <1>4, <2>1, <2>3, QuietStep DEF PlacesInv, WaitForSignal, Goto
    <2>. QED
      BY <2>2, <2>3
  <1>5. CASE SavePending(a) \/ SavePeriodic(a)
    <2>1. PICK c \in Names \cup {NoName} :
            /\ checkpoint' = [answers |-> transcript[a], call |-> c]
            /\ (pc[a] = "saving" /\ c = pending[a]) \/ c = NoName
      BY <1>0, <1>5 DEF PlacesInv, SavePending, SavePeriodic
    <2>2. UNCHANGED <<managed, runVars, attempt, ledger, transcript, pending, request>>
      BY <1>5 DEF SavePending, SavePeriodic
    <2>3. AnswersInv' /\ RowInv' /\ RequestsInv'
      BY <1>0, <2>1, <2>2 DEF AnswersInv, Delivered, RowInv, RequestsInv
    <2>4. PlacesInv' /\ \A b \in Attempts : pc'[b] = "gone" \/ pc'[b] = pc[b]
      BY <1>0, <1>5, <2>1, <2>2 DEF PlacesInv, EpochPcs, SavePending, SavePeriodic, Goto
    <2>5. \A n : AnsweredOrAwaited(n)' <=> AnsweredOrAwaited(n)
      BY <2>2 DEF AnsweredOrAwaited, Received
    <2>6. PendingInv'
      BY <1>0, <2>1, <2>2, <2>4, <2>5, NamesAssumption DEF PendingInv, NoName
    <2>7. OwnerMissesNothing'
      BY <1>0, <2>2, <2>4 DEF OwnerMissesNothing, Received
    <2>. QED
      BY <2>3, <2>4, <2>6, <2>7 DEF SuspensionInv
  <1>6. CASE Finish(a)
    <2>1. AnswersInv' /\ PlacesInv' /\ RowInv' /\ RequestsInv'
      BY <1>0, <1>6 DEF AnswersInv, Delivered, PlacesInv, EpochPcs, RowInv, RequestsInv, Finish,
                        Goto
    <2>2. \A n : AnsweredOrAwaited(n) => AnsweredOrAwaited(n)'
      BY <1>6 DEF AnsweredOrAwaited, Received, Finish
    <2>3. \A b \in Attempts : pc'[b] = "gone" \/ pc'[b] = pc[b]
      BY <1>0, <1>6 DEF PlacesInv, Finish, Goto
    <2>4. PendingInv' /\ OwnerMissesNothing'
      BY <1>0, <1>6, <2>2, <2>3 DEF PendingInv, OwnerMissesNothing, Received, Finish
    <2>. QED
      BY <2>1, <2>4 DEF SuspensionInv
  <1>. QED
    BY <1>1, <1>2, <1>3, <1>4, <1>5, <1>6 DEF Epoch

\* The invariant of the suspension of a run for a signal, its delivery and its
\* resumption (toolRouter.ts waitForSignal, routes/runs.ts, store/sessionEvents.ts).
THEOREM SuspensionInductive == Spec => []SuspensionInv
  <1>1. Init => SuspensionInv
    <2>. SUFFICES ASSUME Init PROVE SuspensionInv
      OBVIOUS
    <2>1. RowInv /\ PlacesInv /\ RequestsInv
      BY LimitsAssumption DEF Init, RowInv, PlacesInv, RequestsInv, EpochPcs, RequestStates, Idle, None
    <2>2. AnswersInv
      BY DEF Init, AnswersInv, Delivered
    <2>3. PendingInv /\ OwnerMissesNothing
      BY NamesAssumption DEF Init, PendingInv, OwnerMissesNothing, NoName
    <2>. QED
      BY <2>1, <2>2, <2>3 DEF SuspensionInv
  <1>2. ASSUME SuspensionInv, [Next]_vars PROVE SuspensionInv'
    <2>1. CASE UNCHANGED vars
      BY <1>2, <2>1 DEF vars, SuspensionInv, RowInv, AnswersInv, Delivered, PlacesInv, RequestsInv,
         PendingInv, AnsweredOrAwaited, Received, OwnerMissesNothing
    <2>. QED
      BY <1>2, <2>1, ClaimStep, RunSteps, EpochSteps DEF Next
  <1>. QED
    BY <1>1, <1>2, PTL DEF Spec

\* No epoch gets past a wait without an event of the ledger, however many epochs,
\* stale ones included, save and restore checkpoints (waitForSignal, saveCheckpoint).
THEOREM WaitsAreAnswered == Spec => []WaitsAreAnsweredByEvents
  <1>1. SuspensionInv => WaitsAreAnsweredByEvents
    BY DEF SuspensionInv, AnswersInv, Delivered, WaitsAreAnsweredByEvents
  <1>. QED
    BY <1>1, SuspensionInductive, PTL

\* In a session's run a suspended call is replayed only when its signal is there
\* or the run still waits (saveCheckpoint, receiveManagedSessionEvent).
THEOREM PendingIsAnswered == Spec => []PendingWaitIsAnsweredOrAwaited
  <1>1. SuspensionInv => PendingWaitIsAnsweredOrAwaited
    BY DEF SuspensionInv, PendingInv, AnsweredOrAwaited, PendingWaitIsAnsweredOrAwaited
  <1>. QED
    BY <1>1, SuspensionInductive, PTL

\* The owner of a session's run does not suspend it for a signal that has come
\* (waitForSignal against receiveManagedSessionEvent).
THEOREM OwnerSuspends == Spec => OwnerSuspendsForAMissingSignal
  <1>. DEFINE Step ==
         \A a \in Attempts :
           managed /\ a = attempt /\ pc[a] = "suspending" /\ pc'[a] = "saving"
             => Received(pending[a]) = {}
  <1>1. ASSUME SuspensionInv, [Next]_vars PROVE [Step]_vars
    <2>1. ASSUME NEW a \in Attempts, Next,
                 managed, a = attempt, pc[a] = "suspending", pc'[a] = "saving"
          PROVE  status = "RUNNING"
      <3>1. pc \in [Attempts -> EpochPcs]
        BY <1>1 DEF SuspensionInv, PlacesInv
      <3>2. WaitForSignal(a)
        <4>1. CASE claimRun
          BY <2>1, <3>1, <4>1 DEF claimRun, Goto
        <4>2. CASE Cancel \/ \E b \in Attempts : Requeue(b)
          BY <2>1, <4>2 DEF Cancel, Requeue, epochVars
        <4>3. CASE \E d \in Deliveries : Deliver(d)
          BY <2>1, <4>3 DEF Deliver, SignalReads, SignalCommits, receiveManagedSessionEvent,
                            epochVars
        <4>4. ASSUME NEW b \in Attempts, Epoch(b) PROVE WaitForSignal(a)
          BY <2>1, <3>1, <4>4 DEF Epoch, Restore, LookForSignal, WaitForSignal, SavePending,
             SavePeriodic, Finish, Crash, Goto, epochVars
        <4>. QED
          BY <2>1, <4>1, <4>2, <4>3, <4>4 DEF Next
      <3>. QED
        BY <2>1, <3>1, <3>2 DEF WaitForSignal, Goto
    <2>. QED
      BY <1>1, <2>1 DEF SuspensionInv, OwnerMissesNothing
  <1>. QED
    BY <1>1, SuspensionInductive, PTL DEF Spec, OwnerSuspendsForAMissingSignal
-----------------------------------------------------------------------------
(* Checkpoints.                                                            *)

Ids == Nat \X Nat
Turns == [kind : {"ask", "tool"}, call : Ids]
RunRows == [status : {"QUEUED", "RUNNING", "VERIFYING", "WAITING", "COMPLETED", "FAILED"},
            attempt : 0..MaxClaims]
CheckpointRows == [key : Ids, step : Nat, pending : Ids, work : SUBSET Ids,
                   schema : {"known", "newer"}]
Memories == [pc : Places, step : Nat, said : Seq(Turns), work : SUBSET Ids, todo : Seq(Ids),
             pending : Ids, turns : Nat, retries : Nat, calls : Nat, leaves : BOOLEAN]

\* The turns of a transcript, a call that waits for its answer, and a transcript
\* without a call of the attempt a.
Heard(s) == {s[i] : i \in DOMAIN s}
Open(s, c) == Ask(c) \in Heard(s) /\ Tool(c) \notin Heard(s)
Without(s, a) == \A m \in Heard(s) : m.call[1] # a

StoreTypes ==
  /\ runRow \in RunRows
  /\ latest \in CheckpointRows
  /\ DOMAIN object \subseteq Ids
  /\ \A k \in DOMAIN object : object[k] \in Seq(Turns)
  /\ head.work \in SUBSET Ids

Begun == {"read", "restored", "loop", "tools", "put", "snapshot", "insert",
          "verifying", "failing", "staged", "final"}

\* The memory of an epoch: its own calls are numbered; the calls that are still
\* to be made are open; a pending call is an open one that was restored, or that
\* is being saved by an epoch that leaves.
MemoryOK(a, e) ==
  /\ AnsweredOnce(e.said)
  /\ e.pc \in Begun =>
       \A m \in Heard(e.said) : m.call[1] = a => m.call[2] <= e.calls * FanOut
  /\ e.pc \in {"tools", "verifying"} =>
       \A i \in DOMAIN e.todo :
         /\ Open(e.said, e.todo[i])
         /\ \A j \in DOMAIN e.todo : e.todo[i] = e.todo[j] => i = j
  /\ e.pc = "verifying" => e.todo # <<>>
  /\ e.pending # NoCall =>
       /\ Open(e.said, e.pending)
       /\ \/ e.pc \in {"read", "restored"}
          \/ e.pc \in {"put", "snapshot", "insert"} /\ e.leaves

MemoriesInv ==
  /\ epoch \in [Epochs -> Memories]
  /\ \A a \in Epochs : MemoryOK(a, epoch[a])
  /\ \A a \in Epochs : a > runRow.attempt => epoch[a].pc = "none"

\* Calls of an attempt that has not begun are nowhere.
FreshInv ==
  \A a \in Epochs :
    epoch[a].pc \in {"none", "started"} =>
      /\ \A b \in Epochs : Without(epoch[b].said, a)
      /\ \A k \in DOMAIN object : Without(object[k], a)

\* What is stored: transcripts, the one of a save in progress, and the latest
\* checkpoint, whose pending call only an epoch that is gone has saved.
StoredInv ==
  /\ \A k \in DOMAIN object : AnsweredOnce(object[k])
  /\ \A a \in Epochs : epoch[a].pc \in {"snapshot", "insert"} =>
       TranscriptKey(a) \in DOMAIN object /\ object[TranscriptKey(a)] = epoch[a].said
  /\ latest.key \in DOMAIN object
  /\ latest.pending # NoCall =>
       /\ Open(object[latest.key], latest.pending)
       /\ \A a \in Epochs : latest.key[1] = a => epoch[a].pc = "gone"

Restored == Begun \ {"read"}

\* While no replaced worker has saved, the owner's workspace has grown from a head
\* that holds the checkpoint's, and its snapshot stays the head until it is pinned.
HeadInv ==
  ~late =>
    /\ latest.work \subseteq head.work
    /\ \A a \in Epochs : a = runRow.attempt =>
         /\ epoch[a].pc \in Restored => latest.work \subseteq epoch[a].work
         /\ epoch[a].pc = "insert" => head.work = epoch[a].work

ArtifactsInv ==
  /\ artifacts # {} <=> runRow.status = "COMPLETED"
  /\ \A x, y \in artifacts : x = y /\ x.work \in output
  /\ \A a \in Epochs : epoch[a].pc \in {"staged", "final"} => epoch[a].work \in output

CheckpointsInv ==
  /\ StoreTypes /\ MemoriesInv /\ FreshInv /\ StoredInv /\ HeadInv /\ ArtifactsInv

\* The identifiers that stand for no call.
LEMMA CallIds == NoCall \in Ids /\ SourceCall \in Ids
  BY DEF NoCall, SourceCall, Ids

\* An answer to an open call keeps a transcript in order.
LEMMA AnswerStep ==
  ASSUME NEW s \in Seq(Turns), NEW c \in Ids, AnsweredOnce(s), Open(s, c)
  PROVE  /\ Append(s, Tool(c)) \in Seq(Turns)
         /\ AnsweredOnce(Append(s, Tool(c)))
         /\ Heard(Append(s, Tool(c))) = Heard(s) \union {Tool(c)}
  <1>. DEFINE t == Append(s, Tool(c))
  <1>1. Tool(c) \in Turns /\ Tool(c).call = c
    BY DEF Tool, Turns
  <1>2. t \in Seq(Turns) /\ Len(t) = Len(s) + 1 /\ Len(s) \in Nat /\ DOMAIN t = 1..Len(s) + 1
    BY <1>1
  <1>3. DOMAIN s = 1..Len(s) /\ (\A i \in 1..Len(s) : t[i] = s[i]) /\ t[Len(s) + 1] = Tool(c)
    BY <1>1
  <1>. HIDE DEF t
  <1>4. Heard(t) = Heard(s) \union {Tool(c)}
    BY <1>2, <1>3 DEF Heard
  <1>5. ASSUME NEW i \in DOMAIN t, t[i].kind = "tool"
        PROVE  /\ \E j \in 1..(i - 1) : t[j] = Ask(t[i].call)
               /\ \A j \in 1..(i - 1) : t[j] # t[i]
    <2>1. CASE i \in 1..Len(s)
      <3>1. \A j \in 1..(i - 1) : j \in 1..Len(s) /\ t[j] = s[j]
        BY <1>2, <1>3, <2>1
      <3>. QED
        BY <1>3, <1>5, <2>1, <3>1 DEF AnsweredOnce
    <2>2. CASE i = Len(s) + 1
      <3>1. \A j \in 1..(i - 1) : j \in DOMAIN s /\ t[j] = s[j]
        BY <1>2, <1>3, <2>2
      <3>2. PICK j \in DOMAIN s : s[j] = Ask(c)
        BY DEF Open, Heard
      <3>3. j \in 1..(i - 1)
        BY <1>2, <1>3, <2>2, <3>2
      <3>. QED
        BY <1>1, <1>3, <2>2, <3>1, <3>2, <3>3 DEF Open, Heard
    <2>. QED
      BY <1>2, <1>5, <2>1, <2>2
  <1>6. AnsweredOnce(t)
    BY <1>5 DEF AnsweredOnce
  <1>. QED
    BY <1>2, <1>4, <1>6 DEF t

\* New questions keep a transcript in order.
LEMMA AskStep ==
  ASSUME NEW s \in Seq(Turns), NEW n \in Nat, NEW cs \in [1..n -> Ids], AnsweredOnce(s)
  PROVE  /\ s \o [i \in 1..n |-> Ask(cs[i])] \in Seq(Turns)
         /\ AnsweredOnce(s \o [i \in 1..n |-> Ask(cs[i])])
         /\ Heard(s \o [i \in 1..n |-> Ask(cs[i])])
              = Heard(s) \union {Ask(cs[i]) : i \in 1..n}
  <1>. DEFINE q == [i \in 1..n |-> Ask(cs[i])]
              t == s \o q
  <1>1. \A i \in 1..n : Ask(cs[i]) \in Turns /\ Ask(cs[i]).kind = "ask"
    BY DEF Ask, Turns
  <1>2. q \in Seq(Turns) /\ Len(q) = n
    BY <1>1
  <1>3. t \in Seq(Turns) /\ Len(t) = Len(s) + n /\ Len(s) \in Nat
    BY <1>2
  <1>4. /\ DOMAIN s = 1..Len(s) /\ DOMAIN t = 1..Len(s) + n
        /\ \A i \in 1..Len(s) : t[i] = s[i]
        /\ \A i \in 1..n : t[Len(s) + i] = Ask(cs[i])
    BY <1>2, <1>3
  <1>. HIDE DEF t, q
  <1>5. Heard(t) = Heard(s) \union {Ask(cs[i]) : i \in 1..n}
    <2>1. \A i \in DOMAIN t : i \in 1..Len(s) \/ (i - Len(s) \in 1..n /\ i = Len(s) + (i - Len(s)))
      BY <1>3, <1>4
    <2>2. Heard(t) \subseteq Heard(s) \union {Ask(cs[i]) : i \in 1..n}
      BY <1>4, <2>1 DEF Heard
    <2>3. \A i \in 1..n : Len(s) + i \in DOMAIN t
      BY <1>3, <1>4
    <2>4. \A i \in DOMAIN s : i \in DOMAIN t
      BY <1>3, <1>4
    <2>. QED
      BY <1>4, <2>2, <2>3, <2>4 DEF Heard
  <1>6. ASSUME NEW i \in DOMAIN t, t[i].kind = "tool"
        PROVE  /\ \E j \in 1..(i - 1) : t[j] = Ask(t[i].call)
               /\ \A j \in 1..(i - 1) : t[j] # t[i]
    <2>1. i \in 1..Len(s)
      <3>1. SUFFICES ASSUME i \notin 1..Len(s) PROVE FALSE
        OBVIOUS
      <3>2. i - Len(s) \in 1..n /\ i = Len(s) + (i - Len(s))
        BY <1>3, <1>4, <3>1
      <3>. QED
        BY <1>1, <1>4, <1>6, <3>2
    <2>2. \A j \in 1..(i - 1) : j \in 1..Len(s) /\ t[j] = s[j]
      BY <1>3, <1>4, <2>1
    <2>. QED
      BY <1>4, <1>6, <2>1, <2>2 DEF AnsweredOnce
  <1>7. AnsweredOnce(t)
    BY <1>6 DEF AnsweredOnce
  <1>. QED
    BY <1>3, <1>5, <1>7 DEF t, q

StoreVars == <<object, latest, head, output, artifacts, late>>

\* A step of one epoch that saves nothing and does not complete the run.
LEMMA MemoryStep ==
  ASSUME CheckpointsInv, NEW a \in Epochs, NEW q \in Memories,
         epoch' = [epoch EXCEPT ![a] = q], UNCHANGED StoreVars,
         runRow' \in RunRows, runRow'.attempt = runRow.attempt,
         runRow'.status = "COMPLETED" <=> runRow.status = "COMPLETED",
         epoch[a].pc \notin {"none", "gone"},
         q.pc \notin {"none", "started", "snapshot", "insert", "staged", "final"},
         MemoryOK(a, q),
         \A b \in Epochs : epoch[b].pc \in {"none", "started"} /\ b # a => Without(q.said, b),
         q.pc \in Restored =>
           \/ q.work = head.work
           \/ epoch[a].pc \in Restored /\ epoch[a].work \subseteq q.work
  PROVE  CheckpointsInv'
  <1>. USE DEF StoreVars
  <1>0. StoreTypes /\ MemoriesInv /\ FreshInv /\ StoredInv /\ HeadInv /\ ArtifactsInv
    BY DEF CheckpointsInv
  <1>1. /\ epoch' \in [Epochs -> Memories]
        /\ epoch'[a] = q
        /\ \A b \in Epochs \ {a} : epoch'[b] = epoch[b]
    BY <1>0 DEF MemoriesInv
  <1>2. StoreTypes'
    BY <1>0 DEF StoreTypes
  <1>3. MemoriesInv'
    BY <1>0, <1>1 DEF MemoriesInv
  <1>4. FreshInv'
    <2>1. ASSUME NEW b \in Epochs, epoch'[b].pc \in {"none", "started"}
          PROVE  b # a /\ epoch[b].pc \in {"none", "started"}
      BY <1>1, <2>1
    <2>. QED
      BY <1>0, <1>1, <2>1 DEF FreshInv
  <1>5. StoredInv'
    <2>1. \A b \in Epochs \ {a} : TranscriptKey(b)' = TranscriptKey(b)
      BY <1>1 DEF TranscriptKey
    <2>2. latest.pending # NoCall => latest.key[1] # a
      BY <1>0 DEF StoredInv
    <2>. QED
      BY <1>0, <1>1, <2>1, <2>2 DEF StoredInv
  <1>6. HeadInv'
    BY <1>0, <1>1 DEF HeadInv
  <1>7. ArtifactsInv'
    BY <1>0, <1>1 DEF ArtifactsInv
  <1>. QED
    BY <1>2, <1>3, <1>4, <1>5, <1>6, <1>7 DEF CheckpointsInv

\* The same for a step that leaves the run alone, or moves it.
Keeps == UNCHANGED <<runRow, StoredVars>>

\* A step that leaves the run and the stores alone.
LEMMA RowStays ==
  ASSUME CheckpointsInv, Keeps
  PROVE  /\ UNCHANGED StoreVars
         /\ runRow' \in RunRows /\ runRow'.attempt = runRow.attempt
         /\ runRow'.status = "COMPLETED" <=> runRow.status = "COMPLETED"
  BY DEF CheckpointsInv, StoreTypes, Keeps, StoredVars, StoreVars

\* A transition of the run that does not complete it.
LEMMA RowMoves ==
  ASSUME CheckpointsInv, NEW from, NEW to, Moves(from, to), from # "COMPLETED",
         to \in {"QUEUED", "RUNNING", "VERIFYING", "WAITING", "FAILED"}
  PROVE  /\ runRow' \in RunRows /\ runRow'.attempt = runRow.attempt
         /\ runRow'.status = "COMPLETED" <=> runRow.status = "COMPLETED"
  BY DEF CheckpointsInv, StoreTypes, RunRows, Moves

\* What the transcript of an epoch that has not forgotten is without.
LEMMA SaidIsWithout ==
  ASSUME CheckpointsInv, NEW a \in Epochs, NEW b \in Epochs,
         epoch[b].pc \in {"none", "started"}
  PROVE  Without(epoch[a].said, b)
  BY DEF CheckpointsInv, FreshInv

\* An epoch that only goes on, with what it knows.
LEMMA GoStep ==
  ASSUME CheckpointsInv, NEW a \in Epochs, NEW p \in Begun \union {"gone"}, GoOn(a, p),
         UNCHANGED StoreVars,
         runRow' \in RunRows, runRow'.attempt = runRow.attempt,
         runRow'.status = "COMPLETED" <=> runRow.status = "COMPLETED",
         epoch[a].pc \in Restored,
         p \notin {"read", "restored", "snapshot", "insert", "staged", "final", "gone"},
         p = "tools" => epoch[a].pc \in {"tools", "verifying"},
         p = "verifying" => epoch[a].pc = "tools" /\ epoch[a].todo # <<>>,
         epoch[a].pending = NoCall
  PROVE  CheckpointsInv'
  <1>. DEFINE q == [epoch[a] EXCEPT !.pc = p]
  <1>1. epoch[a] \in Memories /\ MemoryOK(a, epoch[a])
    BY DEF CheckpointsInv, MemoriesInv
  <1>2. /\ q \in Memories /\ q.pc = p /\ q.said = epoch[a].said /\ q.work = epoch[a].work
        /\ q.todo = epoch[a].todo /\ q.pending = epoch[a].pending /\ q.calls = epoch[a].calls
    BY <1>1 DEF Memories, Begun, Places
  <1>3. epoch' = [epoch EXCEPT ![a] = q]
    BY DEF GoOn
  <1>. HIDE DEF q
  <1>4. MemoryOK(a, q)
    BY <1>1, <1>2 DEF MemoryOK, Begun, Restored
  <1>. QED
    BY <1>2, <1>3, <1>4, MemoryStep, SaidIsWithout DEF Begun, Restored

\* An epoch that is gone has forgotten everything.
LEMMA Forgotten ==
  /\ [EpochIdle EXCEPT !.pc = "gone"] \in Memories
  /\ [EpochIdle EXCEPT !.pc = "gone"].pc = "gone"
  /\ [EpochIdle EXCEPT !.pc = "gone"].said = <<>>
  /\ [EpochIdle EXCEPT !.pc = "gone"].pending = NoCall
  /\ \A a : MemoryOK(a, [EpochIdle EXCEPT !.pc = "gone"])
  /\ \A b : Without(<<>>, b)
  <1>1. <<>> \in Seq(Turns) /\ <<>> \in Seq(Ids) /\ DOMAIN <<>> = {}
    OBVIOUS
  <1>. DEFINE q == [EpochIdle EXCEPT !.pc = "gone"]
  <1>2. q \in Memories /\ q.pc = "gone" /\ q.said = <<>> /\ q.pending = NoCall
    BY <1>1, CallIds DEF EpochIdle, Memories, Places
  <1>3. AnsweredOnce(<<>>) /\ Heard(<<>>) = {}
    BY <1>1 DEF AnsweredOnce, Heard
  <1>. HIDE DEF q
  <1>4. \A a : MemoryOK(a, q)
    BY <1>2, <1>3 DEF MemoryOK, Begun
  <1>. QED
    BY <1>2, <1>3, <1>4 DEF q, Without

\* An epoch that ends forgets its transcript.
LEMMA GoneStep ==
  ASSUME CheckpointsInv, NEW a \in Epochs, Gone(a), UNCHANGED StoreVars,
         runRow' \in RunRows, runRow'.attempt = runRow.attempt,
         runRow'.status = "COMPLETED" <=> runRow.status = "COMPLETED",
         epoch[a].pc \notin {"none", "gone"}
  PROVE  CheckpointsInv'
  <1>1. PICK q \in Memories : /\ epoch' = [epoch EXCEPT ![a] = q]
                              /\ q.pc = "gone" /\ MemoryOK(a, q)
                              /\ \A b : Without(q.said, b)
    BY Forgotten DEF Gone
  <1>. QED
    BY <1>1, MemoryStep DEF Restored, Begun

\* An epoch that is lost or refused, and a verification that gives up.
LEMMA LeaveSteps ==
  ASSUME CheckpointsInv, NEW a \in Epochs,
         Leave(a) \/ EnvelopeRefused(a) \/ VerificationExhausted(a)
  PROVE  CheckpointsInv'
  <1>1. CASE Leave(a) \/ EnvelopeRefused(a)
    <2>1. Keeps /\ Gone(a) /\ epoch[a].pc \notin {"none", "gone"}
      BY <1>1 DEF Leave, EnvelopeRefused, At, Keeps
    <2>. QED
      BY <2>1, RowStays, GoneStep
  <1>2. CASE VerificationExhausted(a)
    BY <1>2, RowMoves, GoneStep DEF VerificationExhausted, At, StoredVars, StoreVars
  <1>. QED
    BY <1>1, <1>2

\* The checkpoint an epoch reads is the latest one.
LEMMA ReadStep == ASSUME CheckpointsInv, NEW a \in Epochs, ReadCheckpoint(a)
                  PROVE  CheckpointsInv'
  <1>. DEFINE q == [epoch[a] EXCEPT !.pc = "read", !.step = latest.step,
                                    !.said = object[latest.key], !.pending = latest.pending]
  <1>1. epoch[a] \in Memories /\ epoch[a].pc = "started"
    BY DEF CheckpointsInv, MemoriesInv, ReadCheckpoint, At
  <1>2. /\ latest.key \in DOMAIN object /\ latest \in CheckpointRows
        /\ object[latest.key] \in Seq(Turns) /\ AnsweredOnce(object[latest.key])
        /\ latest.pending # NoCall => Open(object[latest.key], latest.pending)
    BY DEF CheckpointsInv, StoredInv, StoreTypes
  <1>3. /\ q \in Memories /\ q.pc = "read" /\ q.said = object[latest.key]
        /\ q.pending = latest.pending
    BY <1>1, <1>2 DEF Memories, CheckpointRows, Places
  <1>4. epoch' = [epoch EXCEPT ![a] = q]
    BY DEF ReadCheckpoint
  <1>5. \A b \in Epochs : epoch[b].pc \in {"none", "started"} => Without(object[latest.key], b)
    BY <1>2 DEF CheckpointsInv, FreshInv
  <1>. HIDE DEF q
  <1>6. MemoryOK(a, q)
    BY <1>1, <1>2, <1>3, <1>5 DEF MemoryOK, Without
  <1>7. Keeps
    BY DEF ReadCheckpoint, Keeps
  <1>. QED
    BY <1>1, <1>3, <1>4, <1>5, <1>6, <1>7, RowStays, MemoryStep DEF Restored, Begun

\* A workspace is restored with the transcript of the same checkpoint.
LEMMA RestoreStep == ASSUME CheckpointsInv, NEW a \in Epochs, RestoreWorkspace(a)
                     PROVE  CheckpointsInv'
  <1>. DEFINE q == [epoch[a] EXCEPT !.pc = "restored", !.work = head.work]
  <1>1. epoch[a] \in Memories /\ epoch[a].pc = "read" /\ MemoryOK(a, epoch[a])
    BY DEF CheckpointsInv, MemoriesInv, RestoreWorkspace, At
  <1>2. head.work \in SUBSET Ids
    BY DEF CheckpointsInv, StoreTypes
  <1>3. /\ q \in Memories /\ q.pc = "restored" /\ q.work = head.work
        /\ q.said = epoch[a].said /\ q.pending = epoch[a].pending /\ q.calls = epoch[a].calls
    BY <1>1, <1>2 DEF Memories, Places
  <1>4. epoch' = [epoch EXCEPT ![a] = q]
    BY DEF RestoreWorkspace
  <1>. HIDE DEF q
  <1>5. MemoryOK(a, q)
    BY <1>1, <1>3 DEF MemoryOK, Begun
  <1>6. Keeps
    BY DEF RestoreWorkspace, Keeps
  <1>. QED
    BY <1>1, <1>3, <1>4, <1>5, <1>6, RowStays, MemoryStep, SaidIsWithout DEF Restored, Begun

\* An epoch that answers one of its open calls and then has none pending.
LEMMA AnswerSteps ==
  ASSUME CheckpointsInv, NEW a \in Epochs, NEW c \in Ids, NEW q \in Memories,
         epoch' = [epoch EXCEPT ![a] = q], UNCHANGED StoreVars,
         runRow' \in RunRows, runRow'.attempt = runRow.attempt,
         runRow'.status = "COMPLETED" <=> runRow.status = "COMPLETED",
         epoch[a].pc \in Restored,
         q.pc \in {"loop", "tools"}, q.pending = NoCall,
         Open(epoch[a].said, c), q.said = Append(epoch[a].said, Tool(c)),
         q.calls = epoch[a].calls, epoch[a].work \subseteq q.work,
         q.pc = "tools" =>
           \A i \in DOMAIN q.todo :
             /\ Open(epoch[a].said, q.todo[i]) /\ q.todo[i] # c
             /\ \A j \in DOMAIN q.todo : q.todo[i] = q.todo[j] => i = j
  PROVE  CheckpointsInv'
  <1>1. epoch[a] \in Memories /\ MemoryOK(a, epoch[a])
    BY DEF CheckpointsInv, MemoriesInv
  <1>2. epoch[a].said \in Seq(Turns) /\ AnsweredOnce(epoch[a].said)
    BY <1>1 DEF Memories, MemoryOK
  <1>3. AnsweredOnce(q.said) /\ Heard(q.said) = Heard(epoch[a].said) \union {Tool(c)}
    BY <1>2, AnswerStep
  <1>4. Ask(c) \in Heard(epoch[a].said) /\ Ask(c).call = c /\ Tool(c).call = c
    BY DEF Open, Ask, Tool
  <1>5. \A b \in Epochs : Without(epoch[a].said, b) => Without(q.said, b)
    BY <1>3, <1>4 DEF Without
  <1>6. \A i \in DOMAIN q.todo : q.pc = "tools" => Open(q.said, q.todo[i])
    BY <1>3 DEF Open, Tool, Ask
  <1>7. \A m \in Heard(q.said) : m.call[1] = a => m.call[2] <= q.calls * FanOut
    BY <1>1, <1>3, <1>4 DEF MemoryOK, Restored
  <1>8. MemoryOK(a, q)
    BY <1>3, <1>6, <1>7 DEF MemoryOK
  <1>. QED
    BY <1>5, <1>8, MemoryStep, SaidIsWithout DEF Restored, Begun

\* What the answer of a tool adds to the memory of an epoch.
LEMMA CallAnsweredIs ==
  ASSUME NEW e \in Memories, NEW c \in Ids, Append(e.said, Tool(c)) \in Seq(Turns)
  PROVE  /\ CallAnswered(e, c) \in Memories
         /\ CallAnswered(e, c).said = Append(e.said, Tool(c))
         /\ CallAnswered(e, c).pc = e.pc /\ CallAnswered(e, c).step = e.step
         /\ CallAnswered(e, c).work = e.work /\ CallAnswered(e, c).todo = e.todo
         /\ CallAnswered(e, c).pending = e.pending /\ CallAnswered(e, c).calls = e.calls
         /\ CallAnswered(e, c).retries = e.retries
  BY DEF Memories, CallAnswered

\* The pending call of the checkpoint is answered once, by the epoch that resumes.
LEMMA ReplayStep == ASSUME CheckpointsInv, NEW a \in Epochs, ReplayPending(a)
                    PROVE  CheckpointsInv'
  <1>. DEFINE e == epoch[a]
              c == e.pending
              q == [CallAnswered(e, c) EXCEPT !.pc = "loop", !.step = @ + 1,
                                              !.pending = NoCall]
  <1>1. e \in Memories /\ MemoryOK(a, e) /\ e.pc = "restored" /\ c # NoCall
    BY DEF CheckpointsInv, MemoriesInv, ReplayPending, At
  <1>2. c \in Ids /\ Open(e.said, c) /\ e.said \in Seq(Turns) /\ AnsweredOnce(e.said)
    BY <1>1 DEF MemoryOK, Memories
  <1>3. Append(e.said, Tool(c)) \in Seq(Turns)
    BY <1>2, AnswerStep
  <1>4. /\ q \in Memories /\ q.pc = "loop" /\ q.pending = NoCall
        /\ q.said = Append(e.said, Tool(c)) /\ q.calls = e.calls /\ q.work = e.work
    <2>1. PICK r \in Memories :
            /\ r = CallAnswered(e, c) /\ r.said = Append(e.said, Tool(c))
            /\ r.calls = e.calls /\ r.work = e.work
      BY <1>1, <1>2, <1>3, CallAnsweredIs
    <2>2. q = [r EXCEPT !.pc = "loop", !.step = r.step + 1, !.pending = NoCall]
      BY <2>1
    <2>. HIDE DEF q, c
    <2>3. r.step + 1 \in Nat /\ "loop" \in Places
      BY <2>1 DEF Memories, Places
    <2>4. q \in Memories
      BY <2>2, <2>3, CallIds DEF Memories
    <2>. QED
      BY <2>1, <2>2, <2>4 DEF Memories
  <1>5. epoch' = [epoch EXCEPT ![a] = q] /\ Keeps
    BY DEF ReplayPending, Keeps
  <1>. HIDE DEF q
  <1>. QED
    BY <1>1, <1>2, <1>4, <1>5, RowStays, AnswerSteps DEF Restored, Begun

\* The first of the calls that are still to be made, and the others.
LEMMA NextOfCalls ==
  ASSUME CheckpointsInv, NEW a \in Epochs, epoch[a].pc \in {"tools", "verifying"},
         epoch[a].todo # <<>>
  PROVE  /\ NextCall(a) \in Ids /\ Open(epoch[a].said, NextCall(a))
         /\ Tail(epoch[a].todo) \in Seq(Ids)
         /\ \A i \in DOMAIN Tail(epoch[a].todo) :
              /\ Open(epoch[a].said, Tail(epoch[a].todo)[i])
              /\ Tail(epoch[a].todo)[i] # NextCall(a)
              /\ \A j \in DOMAIN Tail(epoch[a].todo) :
                   Tail(epoch[a].todo)[i] = Tail(epoch[a].todo)[j] => i = j
  <1>. DEFINE s == epoch[a].todo
  <1>1. epoch[a] \in Memories /\ MemoryOK(a, epoch[a])
    BY DEF CheckpointsInv, MemoriesInv
  <1>2. s \in Seq(Ids) /\ s # <<>>
    BY <1>1 DEF Memories
  <1>3. \A i \in DOMAIN s :
          /\ Open(epoch[a].said, s[i])
          /\ \A j \in DOMAIN s : s[i] = s[j] => i = j
    BY <1>1 DEF MemoryOK
  <1>. HIDE DEF s
  <1>4. 1 \in DOMAIN s /\ Head(s) = s[1] /\ s[1] \in Ids
    BY <1>2
  <1>5. Tail(s) \in Seq(Ids)
    BY <1>2
  <1>6. \A i \in DOMAIN Tail(s) : i + 1 \in DOMAIN s /\ Tail(s)[i] = s[i + 1] /\ i \in Nat /\ i # 0
    BY <1>2
  <1>7. \A i \in DOMAIN Tail(s) :
          /\ Open(epoch[a].said, Tail(s)[i])
          /\ Tail(s)[i] # s[1]
    BY <1>3, <1>4, <1>6
  <1>8. \A i, j \in DOMAIN Tail(s) : Tail(s)[i] = Tail(s)[j] => i = j
    BY <1>3, <1>6
  <1>. QED
    BY <1>3, <1>4, <1>5, <1>7, <1>8 DEF s, NextCall

\* A tool answers the next call of the completion.
LEMMA ToolStep == ASSUME CheckpointsInv, NEW a \in Epochs, ToolReturns(a)
                  PROVE  CheckpointsInv'
  <1>. DEFINE e == epoch[a]
              c == NextCall(a)
  <1>1. e \in Memories /\ MemoryOK(a, e) /\ e.pc = "tools" /\ e.todo # <<>> /\ e.pending = NoCall
    BY DEF CheckpointsInv, MemoriesInv, MemoryOK, ToolReturns, HasCall, At
  <1>2. PICK changed \in {{}, {c}} :
          epoch' = [epoch EXCEPT ![a] =
            [CallAnswered(e, c) EXCEPT !.todo = Tail(@), !.work = @ \union changed]]
    BY DEF ToolReturns
  <1>. DEFINE q == [CallAnswered(e, c) EXCEPT !.todo = Tail(@), !.work = @ \union changed]
  <1>3. /\ c \in Ids /\ Open(e.said, c) /\ Tail(e.todo) \in Seq(Ids)
        /\ \A i \in DOMAIN Tail(e.todo) :
             /\ Open(e.said, Tail(e.todo)[i])
             /\ Tail(e.todo)[i] # c
             /\ \A j \in DOMAIN Tail(e.todo) : Tail(e.todo)[i] = Tail(e.todo)[j] => i = j
    BY <1>1, NextOfCalls
  <1>4. Append(e.said, Tool(c)) \in Seq(Turns)
    BY <1>1, <1>3, AnswerStep DEF Memories, MemoryOK
  <1>5. /\ q \in Memories /\ q.pc = "tools" /\ q.pending = NoCall /\ q.todo = Tail(e.todo)
        /\ q.said = Append(e.said, Tool(c)) /\ q.calls = e.calls /\ e.work \subseteq q.work
    <2>1. PICK r \in Memories :
            /\ r = CallAnswered(e, c) /\ r.said = Append(e.said, Tool(c))
            /\ r.calls = e.calls /\ r.work = e.work /\ r.todo = e.todo /\ r.pc = e.pc
            /\ r.pending = e.pending
      BY <1>1, <1>3, <1>4, CallAnsweredIs
    <2>2. q = [r EXCEPT !.todo = Tail(r.todo), !.work = r.work \union changed]
      BY <2>1
    <2>3. e.work \union changed \in SUBSET Ids
      BY <1>1, <1>3 DEF Memories
    <2>. QED
      BY <1>1, <1>3, <2>1, <2>2, <2>3 DEF Memories
  <1>6. epoch' = [epoch EXCEPT ![a] = q] /\ Keeps
    BY <1>2 DEF ToolReturns, Keeps
  <1>. HIDE DEF q, c
  <1>7. \A i \in DOMAIN q.todo :
          /\ Open(e.said, q.todo[i]) /\ q.todo[i] # c
          /\ \A j \in DOMAIN q.todo : q.todo[i] = q.todo[j] => i = j
    BY <1>3, <1>5
  <1>. QED
    BY <1>1, <1>3, <1>5, <1>6, <1>7, RowStays, AnswerSteps DEF Restored, Begun

\* A failed verification is put to the model as a turn of its own.
LEMMA VerifyStep == ASSUME CheckpointsInv, NEW a \in Epochs, VerificationFails(a)
                    PROVE  CheckpointsInv'
  <1>. DEFINE e == epoch[a]
              c == NextCall(a)
  <1>1. /\ e \in Memories /\ MemoryOK(a, e) /\ e.pc = "verifying" /\ e.todo # <<>>
        /\ e.pending = NoCall
    BY DEF CheckpointsInv, MemoriesInv, MemoryOK, VerificationFails, At
  <1>2. /\ UNCHANGED StoreVars
        /\ runRow' \in RunRows /\ runRow'.attempt = runRow.attempt
        /\ runRow'.status = "COMPLETED" <=> runRow.status = "COMPLETED"
    BY RowMoves DEF VerificationFails, StoredVars, StoreVars
  <1>3. CASE e.retries + 1 > MaxVerifyRetries
    BY <1>1, <1>2, <1>3, GoStep DEF VerificationFails, GoOn, Begun, Restored
  <1>4. CASE ~(e.retries + 1 > MaxVerifyRetries)
    <2>. DEFINE q == [CallAnswered(e, c) EXCEPT !.pc = "tools", !.retries = @ + 1,
                                                !.todo = Tail(@)]
    <2>3. /\ c \in Ids /\ Open(e.said, c) /\ Tail(e.todo) \in Seq(Ids)
          /\ \A i \in DOMAIN Tail(e.todo) :
               /\ Open(e.said, Tail(e.todo)[i])
               /\ Tail(e.todo)[i] # c
               /\ \A j \in DOMAIN Tail(e.todo) : Tail(e.todo)[i] = Tail(e.todo)[j] => i = j
      BY <1>1, NextOfCalls
    <2>4. Append(e.said, Tool(c)) \in Seq(Turns)
      BY <1>1, <2>3, AnswerStep DEF Memories, MemoryOK
    <2>5. /\ q \in Memories /\ q.pc = "tools" /\ q.pending = NoCall /\ q.todo = Tail(e.todo)
          /\ q.said = Append(e.said, Tool(c)) /\ q.calls = e.calls /\ e.work \subseteq q.work
      <3>1. PICK r \in Memories :
              /\ r = CallAnswered(e, c) /\ r.said = Append(e.said, Tool(c))
              /\ r.calls = e.calls /\ r.work = e.work /\ r.todo = e.todo
              /\ r.pending = e.pending
        BY <1>1, <2>3, <2>4, CallAnsweredIs
      <3>2. q = [r EXCEPT !.pc = "tools", !.retries = r.retries + 1, !.todo = Tail(r.todo)]
        BY <3>1
      <3>. HIDE DEF q, c
      <3>3. r.retries + 1 \in Nat /\ "tools" \in Places /\ Tail(r.todo) \in Seq(Ids)
        BY <2>3, <3>1 DEF Memories, Places
      <3>4. q \in Memories
        BY <3>2, <3>3 DEF Memories
      <3>. QED
        BY <1>1, <2>3, <3>1, <3>2, <3>4 DEF Memories
    <2>6. epoch' = [epoch EXCEPT ![a] = q]
      BY <1>4 DEF VerificationFails
    <2>. HIDE DEF q, c
    <2>7. \A i \in DOMAIN q.todo :
            /\ Open(e.said, q.todo[i]) /\ q.todo[i] # c
            /\ \A j \in DOMAIN q.todo : q.todo[i] = q.todo[j] => i = j
      BY <2>3, <2>5
    <2>. QED
      BY <1>1, <1>2, <2>3, <2>5, <2>6, <2>7, AnswerSteps DEF Restored, Begun
  <1>. QED
    BY <1>3, <1>4

\* An epoch that begins to save, or goes on with the loop.
LEMMA PutStep ==
  ASSUME CheckpointsInv, NEW a \in Epochs, NEW q \in Memories,
         epoch' = [epoch EXCEPT ![a] = q], UNCHANGED StoreVars,
         runRow' \in RunRows, runRow'.attempt = runRow.attempt,
         runRow'.status = "COMPLETED" <=> runRow.status = "COMPLETED",
         epoch[a].pc \in Restored,
         q.pc \in {"put", "loop"}, q.said = epoch[a].said, q.work = epoch[a].work,
         q.calls \in Nat, epoch[a].calls <= q.calls,
         q.pending # NoCall => q.pc = "put" /\ q.leaves /\ Open(q.said, q.pending)
  PROVE  CheckpointsInv'
  <1>1. epoch[a] \in Memories /\ MemoryOK(a, epoch[a])
    BY DEF CheckpointsInv, MemoriesInv
  <1>2. \A m \in Heard(q.said) : m.call[1] = a => m.call[2] <= q.calls * FanOut
    <2>1. epoch[a].calls * FanOut <= q.calls * FanOut
      <3>1. epoch[a].calls \in Nat /\ FanOut \in Nat
        BY <1>1, CheckpointsAssumption DEF Memories
      <3>. QED
        BY <3>1
    <2>2. \A m \in Heard(q.said) : m.call \in Ids
      <3>1. epoch[a].said \in Seq(Turns)
        BY <1>1 DEF Memories
      <3>2. \A i \in DOMAIN q.said : q.said[i] \in Turns
        BY <3>1
      <3>. QED
        BY <3>2 DEF Heard, Turns
    <2>3. \A m \in Heard(q.said) : m.call[2] \in Nat
      BY <2>2 DEF Ids
    <2>4. epoch[a].calls * FanOut \in Nat /\ q.calls * FanOut \in Nat
      <3>1. epoch[a].calls \in Nat /\ FanOut \in Nat
        BY <1>1, CheckpointsAssumption DEF Memories
      <3>. QED
        BY <3>1
    <2>5. \A m \in Heard(q.said) : m.call[1] = a => m.call[2] <= epoch[a].calls * FanOut
      BY <1>1 DEF MemoryOK, Restored
    <2>. QED
      BY <2>1, <2>3, <2>4, <2>5
  <1>3. MemoryOK(a, q)
    BY <1>1, <1>2 DEF MemoryOK
  <1>. QED
    BY <1>3, MemoryStep, SaidIsWithout DEF Restored, Begun

\* An epoch that will leave once its checkpoint is saved.
LEMMA SaveAndLeaveIs ==
  ASSUME CheckpointsInv, NEW a \in Epochs, SaveAndLeave(a), UNCHANGED StoreVars,
         runRow' \in RunRows, runRow'.attempt = runRow.attempt,
         runRow'.status = "COMPLETED" <=> runRow.status = "COMPLETED",
         epoch[a].pc \in {"restored", "loop", "tools"}
  PROVE  CheckpointsInv'
  <1>. DEFINE e == epoch[a]
              p == [e EXCEPT !.pc = "put"]
              q == [p EXCEPT !.leaves = TRUE]
  <1>1. e \in Memories /\ MemoryOK(a, e)
    BY DEF CheckpointsInv, MemoriesInv
  <1>2. epoch' = [epoch EXCEPT ![a] = q]
    BY DEF SaveAndLeave
  <1>3. /\ q \in Memories /\ q.pc = "put" /\ q.leaves = TRUE /\ q.said = e.said
        /\ q.work = e.work /\ q.calls = e.calls /\ q.pending = e.pending
    BY <1>1 DEF Memories, Places
  <1>. HIDE DEF q
  <1>4. q.pending # NoCall => Open(q.said, q.pending)
    BY <1>1, <1>3 DEF MemoryOK
  <1>5. e.calls \in Nat /\ e.calls <= e.calls
    BY <1>1 DEF Memories
  <1>. QED
    BY <1>2, <1>3, <1>4, <1>5, PutStep DEF Restored, Begun

\* The ends of the loop that save before they leave.
LEMMA LeaveLoopSteps ==
  ASSUME CheckpointsInv, NEW a \in Epochs,
         BudgetExhausted(a) \/ SupervisorTerminates(a) \/ PendingSuspendsAgain(a)
  PROVE  CheckpointsInv'
  <1>1. CASE BudgetExhausted(a)
    BY <1>1, RowStays, SaveAndLeaveIs DEF BudgetExhausted, Keeps, At
  <1>2. CASE SupervisorTerminates(a)
    BY <1>2, RowMoves, SaveAndLeaveIs DEF SupervisorTerminates, At, StoredVars, StoreVars
  <1>3. CASE PendingSuspendsAgain(a)
    BY <1>3, RowMoves, SaveAndLeaveIs
    DEF PendingSuspendsAgain, At, StoredVars, StoreVars, SaveAndLeave
  <1>. QED
    BY <1>1, <1>2, <1>3

\* Steps that only go on.
LEMMA GoSteps ==
  ASSUME CheckpointsInv, NEW a \in Epochs, NothingPending(a) \/ BeginVerification(a)
  PROVE  CheckpointsInv'
  <1>1. CASE NothingPending(a)
    BY <1>1, RowStays, GoStep DEF NothingPending, At, Keeps, Restored, Begun
  <1>2. CASE BeginVerification(a)
    <2>1. epoch[a].pending = NoCall /\ epoch[a].pc = "tools" /\ epoch[a].todo # <<>>
      BY <1>2 DEF CheckpointsInv, MemoriesInv, MemoryOK, BeginVerification, HasCall, At
    <2>. QED
      BY <1>2, <2>1, RowMoves, GoStep
      DEF BeginVerification, StoredVars, StoreVars, Restored, Begun
  <1>. QED
    BY <1>1, <1>2

\* A tool that suspends leaves its call pending in the checkpoint.
LEMMA SuspendStep == ASSUME CheckpointsInv, NEW a \in Epochs, ToolSuspends(a)
                     PROVE  CheckpointsInv'
  <1>. DEFINE e == epoch[a]
              c == NextCall(a)
              q == [e EXCEPT !.pc = "put", !.leaves = TRUE, !.pending = c, !.todo = <<>>]
  <1>1. e \in Memories /\ MemoryOK(a, e) /\ e.pc = "tools" /\ e.todo # <<>>
    BY DEF CheckpointsInv, MemoriesInv, ToolSuspends, HasCall, At
  <1>2. epoch' = [epoch EXCEPT ![a] = q]
    BY DEF ToolSuspends
  <1>3. c \in Ids /\ Open(e.said, c)
    BY <1>1, NextOfCalls
  <1>. HIDE DEF c
  <1>4. /\ q \in Memories /\ q.pc = "put" /\ q.leaves = TRUE /\ q.said = e.said
        /\ q.work = e.work /\ q.calls = e.calls /\ q.pending = c
    <2>1. <<>> \in Seq(Ids) /\ "put" \in Places
      BY DEF Places
    <2>. QED
      BY <1>1, <1>3, <2>1 DEF Memories
  <1>5. e.calls \in Nat /\ e.calls <= e.calls
    BY <1>1 DEF Memories
  <1>. HIDE DEF q
  <1>. QED
    BY <1>1, <1>2, <1>3, <1>4, <1>5, RowMoves, PutStep
    DEF ToolSuspends, StoredVars, StoreVars, Restored, Begun

\* A model step ends, with a checkpoint when one is due.
LEMMA EndStep == ASSUME CheckpointsInv, NEW a \in Epochs, StepEnds(a)
                 PROVE  CheckpointsInv'
  <1>. DEFINE e == epoch[a]
  <1>1. e \in Memories /\ MemoryOK(a, e) /\ e.pc = "tools" /\ e.pending = NoCall
    BY DEF CheckpointsInv, MemoriesInv, MemoryOK, StepEnds, At
  <1>2. PICK p \in {"put", "loop"} :
          epoch' = [epoch EXCEPT ![a].step = e.step + 1, ![a].pc = p]
    BY DEF StepEnds
  <1>. DEFINE r == [e EXCEPT !.step = e.step + 1]
              q == [r EXCEPT !.pc = p]
  <1>3. epoch' = [epoch EXCEPT ![a] = q]
    BY <1>2
  <1>4. /\ q \in Memories /\ q.pc = p /\ q.said = e.said /\ q.work = e.work
        /\ q.calls = e.calls /\ q.pending = e.pending
    <2>1. r \in Memories /\ r.said = e.said /\ r.work = e.work
            /\ r.calls = e.calls /\ r.pending = e.pending
      <3>1. e.step + 1 \in Nat
        BY <1>1 DEF Memories
      <3>. QED
        BY <1>1, <3>1 DEF Memories
    <2>2. p \in Places
      BY DEF Places
    <2>. HIDE DEF r
    <2>. QED
      BY <2>1, <2>2 DEF Memories
  <1>5. e.calls \in Nat /\ e.calls <= e.calls
    BY <1>1 DEF Memories
  <1>6. Keeps
    BY DEF StepEnds, Keeps
  <1>. HIDE DEF q
  <1>. QED
    BY <1>1, <1>3, <1>4, <1>5, <1>6, RowStays, PutStep DEF Restored, Begun

\* A completion without a call.
LEMMA NudgeStep == ASSUME CheckpointsInv, NEW a \in Epochs, InvokeWithoutTools(a)
                   PROVE  CheckpointsInv'
  <1>. DEFINE e == epoch[a]
              r == [e EXCEPT !.turns = e.turns + 1]
              q == [r EXCEPT !.calls = r.calls + 1]
  <1>1. e \in Memories /\ MemoryOK(a, e) /\ e.pc = "loop" /\ e.pending = NoCall
    BY DEF CheckpointsInv, MemoriesInv, MemoryOK, InvokeWithoutTools, At
  <1>2. Keeps
    BY DEF InvokeWithoutTools, Keeps
  <1>3. CASE Gone(a)
    BY <1>1, <1>2, <1>3, RowStays, GoneStep
  <1>4. CASE ~Gone(a)
    <2>1. epoch' = [epoch EXCEPT ![a].turns = @ + 1, ![a].calls = @ + 1]
      BY <1>4 DEF InvokeWithoutTools
    <2>2. epoch' = [epoch EXCEPT ![a] = q]
      BY <2>1
    <2>3. r \in Memories /\ r.calls = e.calls /\ r.pc = e.pc /\ r.said = e.said
            /\ r.work = e.work /\ r.pending = e.pending
      BY <1>1 DEF Memories
    <2>. HIDE DEF r
    <2>4. /\ q \in Memories /\ q.pc = "loop" /\ q.said = e.said /\ q.work = e.work
          /\ q.calls = e.calls + 1 /\ q.pending = NoCall
      <3>1. r.calls + 1 \in Nat
        BY <2>3 DEF Memories
      <3>. QED
        BY <1>1, <2>3, <3>1 DEF Memories
    <2>5. e.calls + 1 \in Nat /\ e.calls <= e.calls + 1
      BY <1>1 DEF Memories
    <2>. HIDE DEF q
    <2>. QED
      BY <1>1, <1>2, <2>2, <2>4, <2>5, RowStays, PutStep DEF Restored, Begun
  <1>. QED
    BY <1>3, <1>4

\* A completion asks for calls that nobody has answered before.
LEMMA InvokeStep == ASSUME CheckpointsInv, NEW a \in Epochs, InvokeModel(a)
                    PROVE  CheckpointsInv'
  <1>. DEFINE e == epoch[a]
              x == e.calls * FanOut
  <1>1. e \in Memories /\ MemoryOK(a, e) /\ e.pc = "loop" /\ e.pending = NoCall
    BY DEF CheckpointsInv, MemoriesInv, MemoryOK, InvokeModel, At
  <1>2. PICK n \in 1..FanOut :
          epoch' = [epoch EXCEPT ![a] =
            [e EXCEPT !.pc = "tools", !.todo = NewCalls(a, n), !.turns = 0,
                      !.calls = e.calls + 1,
                      !.said = e.said \o [i \in 1..n |-> Ask(NewCalls(a, n)[i])]]]
    BY DEF InvokeModel
  <1>3. /\ e.calls \in Nat /\ FanOut \in Nat /\ x \in Nat /\ n \in Nat /\ a \in Nat
        /\ e.said \in Seq(Turns) /\ AnsweredOnce(e.said)
    <2>1. e.calls \in Nat /\ FanOut \in Nat /\ MaxClaims \in Nat
      BY <1>1, CheckpointsAssumption DEF Memories
    <2>2. x \in Nat
      BY <2>1
    <2>. QED
      BY <1>1, <2>1, <2>2 DEF Memories, MemoryOK, Epochs
  <1>4. (e.calls + 1) * FanOut = x + FanOut
    BY <1>3
  <1>. DEFINE cs == NewCalls(a, n)
  <1>5. cs = [i \in 1..n |-> <<a, x + i>>]
    BY DEF NewCalls
  <1>. HIDE DEF x
  <1>6. cs \in [1..n -> Ids] /\ \A i \in 1..n : cs[i] = <<a, x + i>>
    BY <1>3, <1>5 DEF Ids
  <1>7. cs \in Seq(Ids) /\ DOMAIN cs = 1..n
    BY <1>3, <1>6
  <1>. HIDE DEF cs
  <1>. DEFINE said == e.said \o [i \in 1..n |-> Ask(cs[i])]
  <1>8. /\ said \in Seq(Turns) /\ AnsweredOnce(said)
        /\ Heard(said) = Heard(e.said) \union {Ask(cs[i]) : i \in 1..n}
    BY <1>3, <1>6, AskStep
  <1>. DEFINE q == [e EXCEPT !.pc = "tools", !.todo = cs, !.turns = 0,
                             !.calls = e.calls + 1, !.said = said]
  <1>9. epoch' = [epoch EXCEPT ![a] = q]
    BY <1>2 DEF cs
  <1>. HIDE DEF said
  <1>10. /\ q \in Memories /\ q.pc = "tools" /\ q.todo = cs /\ q.said = said
         /\ q.work = e.work /\ q.calls = e.calls + 1 /\ q.pending = NoCall
    <2>1. e.calls + 1 \in Nat /\ "tools" \in Places
      BY <1>3 DEF Places
    <2>. QED
      BY <1>1, <1>7, <1>8, <2>1 DEF Memories
  <1>. HIDE DEF q
  <1>11. \A m \in Heard(e.said) : m.call[1] = a => m.call[2] <= x
    BY <1>1 DEF MemoryOK, Begun, x
  <1>12. \A i \in 1..n : Ask(cs[i]).call = cs[i] /\ cs[i][1] = a /\ cs[i][2] = x + i
    BY <1>6 DEF Ask
  <1>13. \A i \in 1..n : Open(said, cs[i])
    <2>1. ASSUME NEW i \in 1..n PROVE Tool(cs[i]) \notin Heard(e.said)
      <3>1. Tool(cs[i]).call[1] = a /\ Tool(cs[i]).call[2] = x + i /\ ~(x + i <= x)
        BY <1>3, <1>12 DEF Tool
      <3>. QED
        BY <1>11, <3>1
    <2>2. \A i, j \in 1..n : Tool(cs[i]) # Ask(cs[j])
      BY DEF Tool, Ask
    <2>. QED
      BY <1>8, <2>1, <2>2 DEF Open
  <1>14. \A m \in Heard(said) : m.call[1] = a => m.call[2] <= q.calls * FanOut
    <2>1. \A i \in 1..n : x + i <= x + FanOut
      BY <1>3
    <2>2. \A m \in Heard(e.said) : m.call[2] \in Nat
      <3>1. \A i \in DOMAIN e.said : e.said[i] \in Turns
        BY <1>3
      <3>. QED
        BY <3>1 DEF Heard, Turns, Ids
    <2>3. \A m \in Heard(e.said) : m.call[1] = a => m.call[2] <= x + FanOut
      BY <1>3, <1>11, <2>2
    <2>4. q.calls * FanOut = x + FanOut
      BY <1>4, <1>10
    <2>. QED
      BY <1>8, <1>12, <2>1, <2>3, <2>4
  <1>15. \A i, j \in 1..n : cs[i] = cs[j] => i = j
    <2>1. ASSUME NEW i \in 1..n, NEW j \in 1..n, cs[i] = cs[j] PROVE i = j
      <3>1. x + i = x + j
        BY <1>12, <2>1
      <3>. QED
        BY <1>3, <3>1
    <2>. QED
      BY <2>1
  <1>16. MemoryOK(a, q)
    BY <1>7, <1>8, <1>10, <1>13, <1>14, <1>15 DEF MemoryOK
  <1>17. \A b \in Epochs : b # a /\ Without(e.said, b) => Without(q.said, b)
    BY <1>8, <1>10, <1>12 DEF Without
  <1>18. Keeps
    BY DEF InvokeModel, Keeps
  <1>. QED
    BY <1>1, <1>9, <1>10, <1>16, <1>17, <1>18, RowStays, MemoryStep, SaidIsWithout
    DEF Restored, Begun

\* The identifiers of a new attempt occur nowhere yet.
LEMMA ClaimEpochStep == ASSUME CheckpointsInv, NEW a \in Epochs, Claim(a)
                        PROVE  CheckpointsInv'
  <1>. DEFINE q == [epoch[a] EXCEPT !.pc = "started"]
  <1>0. StoreTypes /\ MemoriesInv /\ FreshInv /\ StoredInv /\ HeadInv /\ ArtifactsInv
    BY DEF CheckpointsInv
  <1>1. /\ runRow.status = "QUEUED" /\ a = runRow.attempt + 1 /\ runRow.attempt \in Nat
        /\ runRow' = [status |-> "RUNNING", attempt |-> a] /\ UNCHANGED StoreVars
        /\ runRow' \in RunRows
    BY <1>0, CheckpointsAssumption DEF Claim, StoreTypes, RunRows, Epochs, StoredVars, StoreVars
  <1>2. epoch[a] \in Memories /\ epoch[a].pc = "none" /\ MemoryOK(a, epoch[a])
    BY <1>0, <1>1 DEF MemoriesInv, Epochs
  <1>3. /\ q \in Memories /\ q.pc = "started" /\ q.said = epoch[a].said
        /\ q.pending = epoch[a].pending
    BY <1>2 DEF Memories, Places
  <1>4. epoch' = [epoch EXCEPT ![a] = q]
    BY DEF Claim, GoOn
  <1>. HIDE DEF q
  <1>5. epoch' \in [Epochs -> Memories] /\ epoch'[a] = q
          /\ \A b \in Epochs \ {a} : epoch'[b] = epoch[b]
    BY <1>0, <1>3, <1>4 DEF MemoriesInv
  <1>. USE DEF StoreVars
  <1>6. MemoriesInv'
    <2>1. MemoryOK(a, q)
      BY <1>2, <1>3 DEF MemoryOK, Begun
    <2>2. \A b \in Epochs : b > a => b # a /\ b > runRow.attempt
      BY <1>1 DEF Epochs
    <2>. QED
      BY <1>0, <1>1, <1>5, <2>1, <2>2 DEF MemoriesInv
  <1>7. FreshInv'
    <2>1. \A b \in Epochs : epoch'[b].pc \in {"none", "started"} =>
                              epoch[b].pc \in {"none", "started"}
      BY <1>2, <1>5
    <2>2. \A b \in Epochs : epoch'[b].said = epoch[b].said
      BY <1>3, <1>5
    <2>. QED
      BY <1>0, <1>1, <2>1, <2>2 DEF FreshInv
  <1>8. StoredInv'
    <2>1. \A b \in Epochs \ {a} : TranscriptKey(b)' = TranscriptKey(b)
      BY <1>5 DEF TranscriptKey
    <2>2. latest.pending # NoCall => latest.key[1] # a
      BY <1>0, <1>2 DEF StoredInv
    <2>. QED
      BY <1>0, <1>1, <1>3, <1>5, <2>1, <2>2 DEF StoredInv
  <1>9. HeadInv'
    BY <1>0, <1>1, <1>3, <1>5 DEF HeadInv, Restored, Begun
  <1>10. ArtifactsInv' /\ StoreTypes'
    BY <1>0, <1>1, <1>3, <1>5 DEF ArtifactsInv, StoreTypes
  <1>. QED
    BY <1>6, <1>7, <1>8, <1>9, <1>10 DEF CheckpointsInv

\* The run is queued again.
LEMMA RequeueSteps == ASSUME CheckpointsInv, RequeueEpoch \/ Wake PROVE CheckpointsInv'
  <1>1. /\ UNCHANGED <<StoreVars, epoch>>
        /\ runRow' \in RunRows /\ runRow'.attempt = runRow.attempt
        /\ runRow'.status = "COMPLETED" <=> runRow.status = "COMPLETED"
    BY DEF RequeueEpoch, Wake, Moves, Executing, StoredVars, StoreVars, CheckpointsInv,
           StoreTypes, RunRows
  <1>. QED
    BY <1>1 DEF CheckpointsInv, StoreTypes, MemoriesInv, FreshInv, StoredInv, HeadInv,
       ArtifactsInv, StoreVars, TranscriptKey

\* An epoch that writes one of the stores, and goes on.  Replaced epochs make the
\* step late.
LEMMA SavingMemory ==
  ASSUME CheckpointsInv, NEW a \in Epochs, NEW p \in Begun, GoOn(a, p),
         epoch[a].pc \in {"put", "snapshot", "insert", "verifying", "staged"},
         p \in {"snapshot", "insert", "staged", "final", "loop"},
         p = "loop" => epoch[a].pending = NoCall,
         p \in {"staged", "final"} => epoch[a].pc \in {"verifying", "staged"},
         p \in {"snapshot", "insert"} => epoch[a].pc \in {"put", "snapshot"},
         UNCHANGED runRow
  PROVE  /\ MemoriesInv'
         /\ epoch'[a].pc = p
         /\ epoch'[a].said = epoch[a].said /\ epoch'[a].work = epoch[a].work
         /\ epoch'[a].step = epoch[a].step
         /\ \A b \in Epochs \ {a} : epoch'[b] = epoch[b]
  <1>. DEFINE q == [epoch[a] EXCEPT !.pc = p]
  <1>0. MemoriesInv
    BY DEF CheckpointsInv
  <1>1. epoch[a] \in Memories /\ MemoryOK(a, epoch[a])
    BY <1>0 DEF MemoriesInv
  <1>2. /\ q \in Memories /\ q.pc = p /\ q.said = epoch[a].said /\ q.work = epoch[a].work
        /\ q.todo = epoch[a].todo /\ q.pending = epoch[a].pending /\ q.calls = epoch[a].calls
        /\ q.step = epoch[a].step /\ q.leaves = epoch[a].leaves
    BY <1>1 DEF Memories, Begun, Places
  <1>3. epoch' = [epoch EXCEPT ![a] = q]
    BY DEF GoOn
  <1>. HIDE DEF q
  <1>4. MemoryOK(a, q)
    BY <1>1, <1>2 DEF MemoryOK, Begun
  <1>. QED
    BY <1>0, <1>2, <1>3, <1>4 DEF MemoriesInv

\* The transcript of a checkpoint is a new object, or the one the attempt put before.
LEMMA SaveTranscriptStep == ASSUME CheckpointsInv, NEW a \in Epochs, SaveTranscript(a)
                            PROVE  CheckpointsInv'
  <1>. DEFINE k == TranscriptKey(a)
              said == epoch[a].said
  <1>0. StoreTypes /\ MemoriesInv /\ FreshInv /\ StoredInv /\ HeadInv /\ ArtifactsInv
    BY DEF CheckpointsInv
  <1>1. /\ MemoriesInv' /\ epoch'[a].pc = "snapshot"
        /\ epoch'[a].said = said /\ epoch'[a].work = epoch[a].work
        /\ epoch'[a].step = epoch[a].step
        /\ \A b \in Epochs \ {a} : epoch'[b] = epoch[b]
    <2>1. GoOn(a, "snapshot") /\ epoch[a].pc = "put" /\ UNCHANGED runRow
      BY DEF SaveTranscript, At
    <2>. QED
      BY <2>1, SavingMemory DEF Begun
  <1>2. epoch[a] \in Memories /\ MemoryOK(a, epoch[a]) /\ epoch[a].pc = "put"
    BY <1>0 DEF MemoriesInv, SaveTranscript, At
  <1>3. k \in Ids /\ k[1] = a /\ said \in Seq(Turns) /\ AnsweredOnce(said)
    BY <1>2, CheckpointsAssumption DEF TranscriptKey, Ids, Memories, MemoryOK, Epochs
  <1>4. /\ DOMAIN object' = DOMAIN object \union {k}
        /\ object'[k] = said
        /\ \A j \in DOMAIN object \ {k} : object'[j] = object[j]
    BY DEF SaveTranscript, PutObject
  <1>5. UNCHANGED <<runRow, latest, head, output, artifacts>>
    BY DEF SaveTranscript
  <1>6. \A b \in Epochs : TranscriptKey(b)' = TranscriptKey(b)
    BY <1>1 DEF TranscriptKey
  <1>. HIDE DEF k, said
  <1>7. StoreTypes'
    BY <1>0, <1>3, <1>4, <1>5 DEF StoreTypes
  <1>8. FreshInv'
    <2>1. \A b \in Epochs : epoch'[b].pc \in {"none", "started"} =>
                              epoch[b].pc \in {"none", "started"}
      BY <1>1
    <2>2. \A b \in Epochs : epoch'[b].said = epoch[b].said
      BY <1>1 DEF said
    <2>3. \A b \in Epochs : epoch[b].pc \in {"none", "started"} => Without(said, b)
      BY <1>0 DEF FreshInv, said
    <2>. QED
      BY <1>0, <1>4, <2>1, <2>2, <2>3 DEF FreshInv
  <1>9. StoredInv'
    <2>1. \A b \in Epochs \ {a} : TranscriptKey(b) # k
      BY <1>3 DEF TranscriptKey
    <2>2. latest.pending # NoCall => latest.key # k
      BY <1>0, <1>2, <1>3 DEF StoredInv
    <2>3. \A j \in DOMAIN object' : AnsweredOnce(object'[j])
      BY <1>0, <1>3, <1>4 DEF StoredInv
    <2>4. ASSUME NEW b \in Epochs, epoch'[b].pc \in {"snapshot", "insert"}
          PROVE  /\ TranscriptKey(b) \in DOMAIN object'
                 /\ object'[TranscriptKey(b)] = epoch'[b].said
      <3>1. CASE b = a
        BY <1>1, <1>4, <3>1 DEF k
      <3>2. CASE b # a
        BY <1>0, <1>1, <1>4, <2>1, <2>4, <3>2 DEF StoredInv
      <3>. QED
        BY <3>1, <3>2
    <2>5. latest.key \in DOMAIN object'
      BY <1>0, <1>4 DEF StoredInv
    <2>6. latest.pending # NoCall =>
            /\ Open(object'[latest.key], latest.pending)
            /\ \A b \in Epochs : latest.key[1] = b => epoch'[b].pc = "gone"
      BY <1>0, <1>1, <1>2, <1>4, <2>2 DEF StoredInv
    <2>. QED
      BY <1>5, <1>6, <2>3, <2>4, <2>5, <2>6 DEF StoredInv
  <1>10. HeadInv'
    BY <1>0, <1>1, <1>2, <1>5 DEF HeadInv, SaveTranscript, Replaced, Restored, Begun
  <1>11. ArtifactsInv'
    BY <1>0, <1>1, <1>5 DEF ArtifactsInv
  <1>. QED
    BY <1>1, <1>7, <1>8, <1>9, <1>10, <1>11 DEF CheckpointsInv

\* Transcripts and the latest checkpoint stay as they are; an epoch goes on.
LEMMA TranscriptsStay ==
  ASSUME CheckpointsInv, NEW a \in Epochs, UNCHANGED <<object, latest>>,
         epoch[a].pc \notin {"none", "gone"},
         epoch'[a].pc \notin {"none", "started"},
         epoch'[a].said = epoch[a].said,
         epoch'[a].step = epoch[a].step,
         epoch'[a].pc \in {"snapshot", "insert"} => epoch[a].pc \in {"snapshot", "insert"},
         \A b \in Epochs \ {a} : epoch'[b] = epoch[b]
  PROVE  FreshInv' /\ StoredInv'
  <1>0. FreshInv /\ StoredInv
    BY DEF CheckpointsInv
  <1>1. \A b \in Epochs : epoch'[b].said = epoch[b].said /\ TranscriptKey(b)' = TranscriptKey(b)
    BY DEF TranscriptKey
  <1>2. FreshInv'
    <2>1. \A b \in Epochs : epoch'[b].pc \in {"none", "started"} =>
                              epoch[b].pc \in {"none", "started"}
      OBVIOUS
    <2>. QED
      BY <1>0, <1>1, <2>1 DEF FreshInv
  <1>3. latest.pending # NoCall => latest.key[1] # a
    BY <1>0 DEF StoredInv
  <1>4. StoredInv'
    BY <1>0, <1>1, <1>3 DEF StoredInv
  <1>. QED
    BY <1>2, <1>4

\* The snapshot is put behind the transcript.
LEMMA SaveWorkspaceStep == ASSUME CheckpointsInv, NEW a \in Epochs, SaveWorkspace(a)
                           PROVE  CheckpointsInv'
  <1>0. StoreTypes /\ MemoriesInv /\ FreshInv /\ StoredInv /\ HeadInv /\ ArtifactsInv
    BY DEF CheckpointsInv
  <1>1. /\ MemoriesInv' /\ epoch'[a].pc = "insert"
        /\ epoch'[a].said = epoch[a].said /\ epoch'[a].work = epoch[a].work
        /\ epoch'[a].step = epoch[a].step
        /\ \A b \in Epochs \ {a} : epoch'[b] = epoch[b]
    <2>1. GoOn(a, "insert") /\ epoch[a].pc = "snapshot" /\ UNCHANGED runRow
      BY DEF SaveWorkspace, At
    <2>. QED
      BY <2>1, SavingMemory DEF Begun
  <1>2. epoch[a].pc = "snapshot" /\ UNCHANGED <<runRow, object, latest, output, artifacts>>
          /\ head' = [work |-> epoch[a].work, by |-> a]
          /\ late' = (late \/ runRow.attempt # a)
    BY DEF SaveWorkspace, At, Snapshot, Replaced
  <1>3. FreshInv' /\ StoredInv'
    BY <1>1, <1>2, TranscriptsStay
  <1>4. StoreTypes'
    BY <1>0, <1>2 DEF StoreTypes, MemoriesInv, Memories
  <1>5. HeadInv'
    BY <1>0, <1>1, <1>2 DEF HeadInv, Restored, Begun
  <1>6. ArtifactsInv'
    BY <1>0, <1>1, <1>2 DEF ArtifactsInv
  <1>. QED
    BY <1>1, <1>3, <1>4, <1>5, <1>6 DEF CheckpointsInv

\* Artifacts are staged, and the last snapshot is of the same workspace.
LEMMA FinishSteps ==
  ASSUME CheckpointsInv, NEW a \in Epochs, StageArtifactOutputs(a) \/ FinalSnapshot(a)
  PROVE  CheckpointsInv'
  <1>0. StoreTypes /\ MemoriesInv /\ FreshInv /\ StoredInv /\ HeadInv /\ ArtifactsInv
    BY DEF CheckpointsInv
  <1>1. CASE StageArtifactOutputs(a)
    <2>1. /\ MemoriesInv' /\ epoch'[a].pc = "staged"
          /\ epoch'[a].said = epoch[a].said /\ epoch'[a].work = epoch[a].work
          /\ epoch'[a].step = epoch[a].step
          /\ \A b \in Epochs \ {a} : epoch'[b] = epoch[b]
      <3>1. GoOn(a, "staged") /\ epoch[a].pc = "verifying" /\ UNCHANGED runRow
        BY <1>1 DEF StageArtifactOutputs, At
      <3>. QED
        BY <3>1, SavingMemory DEF Begun
    <2>2. /\ epoch[a].pc = "verifying" /\ UNCHANGED <<runRow, object, latest, head, artifacts, late>>
          /\ output' = output \union {epoch[a].work}
      BY <1>1 DEF StageArtifactOutputs, At
    <2>3. FreshInv' /\ StoredInv'
      BY <2>1, <2>2, TranscriptsStay
    <2>4. StoreTypes' /\ HeadInv'
      BY <1>0, <2>1, <2>2 DEF StoreTypes, HeadInv, Restored, Begun
    <2>5. ArtifactsInv'
      BY <1>0, <2>1, <2>2 DEF ArtifactsInv
    <2>. QED
      BY <2>1, <2>3, <2>4, <2>5 DEF CheckpointsInv
  <1>2. CASE FinalSnapshot(a)
    <2>1. /\ MemoriesInv' /\ epoch'[a].pc = "final"
          /\ epoch'[a].said = epoch[a].said /\ epoch'[a].work = epoch[a].work
          /\ epoch'[a].step = epoch[a].step
          /\ \A b \in Epochs \ {a} : epoch'[b] = epoch[b]
      <3>1. GoOn(a, "final") /\ epoch[a].pc = "staged" /\ UNCHANGED runRow
        BY <1>2 DEF FinalSnapshot, At
      <3>. QED
        BY <3>1, SavingMemory DEF Begun
    <2>2. /\ epoch[a].pc = "staged" /\ UNCHANGED <<runRow, object, latest, output, artifacts>>
          /\ head' = [work |-> epoch[a].work, by |-> a]
          /\ late' = (late \/ runRow.attempt # a)
      BY <1>2 DEF FinalSnapshot, At, Snapshot, Replaced
    <2>3. FreshInv' /\ StoredInv'
      BY <2>1, <2>2, TranscriptsStay
    <2>4. StoreTypes'
      BY <1>0, <2>2 DEF StoreTypes, MemoriesInv, Memories
    <2>5. HeadInv'
      BY <1>0, <2>1, <2>2 DEF HeadInv, Restored, Begun
    <2>6. ArtifactsInv'
      BY <1>0, <2>1, <2>2 DEF ArtifactsInv
    <2>. QED
      BY <2>1, <2>3, <2>4, <2>5, <2>6 DEF CheckpointsInv
  <1>. QED
    BY <1>1, <1>2

\* What is left of an epoch that is gone.
LEMMA GoneMemory ==
  ASSUME CheckpointsInv, NEW a \in Epochs, Gone(a), runRow'.attempt = runRow.attempt,
         epoch[a].pc \notin {"none", "gone"}
  PROVE  /\ MemoriesInv'
         /\ epoch'[a].pc = "gone"
         /\ \A b \in Epochs : Without(epoch'[a].said, b)
         /\ \A b \in Epochs \ {a} : epoch'[b] = epoch[b]
  <1>1. PICK q \in Memories : /\ epoch' = [epoch EXCEPT ![a] = q]
                              /\ q.pc = "gone" /\ MemoryOK(a, q)
                              /\ \A b : Without(q.said, b)
    BY Forgotten DEF Gone
  <1>2. MemoriesInv
    BY DEF CheckpointsInv
  <1>. QED
    BY <1>1, <1>2 DEF MemoriesInv

\* The row of a checkpoint refers to objects that are there, and moves the head.
LEMMA InsertStep == ASSUME CheckpointsInv, NEW a \in Epochs, InsertCheckpoint(a)
                    PROVE  CheckpointsInv'
  <1>. DEFINE e == epoch[a]
  <1>0. StoreTypes /\ MemoriesInv /\ FreshInv /\ StoredInv /\ HeadInv /\ ArtifactsInv
    BY DEF CheckpointsInv
  <1>1. /\ e \in Memories /\ MemoryOK(a, e) /\ e.pc = "insert"
        /\ latest' = NewCheckpoint(a) /\ late' = (late \/ runRow.attempt # a)
        /\ UNCHANGED <<runRow, object, head, output, artifacts>>
    BY <1>0 DEF MemoriesInv, InsertCheckpoint, At, Replaced
  <1>2. /\ MemoriesInv'
        /\ \A b \in Epochs \ {a} : epoch'[b] = epoch[b]
        /\ epoch'[a].pc \in {"gone", "loop"}
        /\ epoch'[a].pc = "loop" => e.pending = NoCall /\ epoch'[a].work = e.work
        /\ \A b \in Epochs : epoch[b].pc \in {"none", "started"} => Without(epoch'[a].said, b)
    <2>1. CASE e.leaves
      <3>1. Gone(a)
        BY <2>1 DEF InsertCheckpoint
      <3>. QED
        BY <1>1, <3>1, GoneMemory
    <2>2. CASE ~e.leaves
      <3>1. GoOn(a, "loop")
        BY <2>2 DEF InsertCheckpoint
      <3>2. e.pending = NoCall
        BY <1>1, <2>2 DEF MemoryOK
      <3>. QED
        BY <1>0, <1>1, <3>1, <3>2, SavingMemory DEF Begun, FreshInv
    <2>. QED
      BY <2>1, <2>2
  <1>3. /\ latest' \in CheckpointRows /\ latest'.key = TranscriptKey(a)
        /\ latest'.key[1] = a /\ latest'.pending = e.pending /\ latest'.work = e.work
    <2>1. a \in Nat /\ e.step \in Nat
      BY <1>1, CheckpointsAssumption DEF Epochs, Memories
    <2>2. TranscriptKey(a) \in Ids /\ TranscriptKey(a)[1] = a
      BY <2>1 DEF TranscriptKey, Ids
    <2>3. e.pending \in Ids /\ e.work \in SUBSET Ids
      BY <1>1 DEF Memories
    <2>. QED
      BY <1>1, <2>1, <2>2, <2>3 DEF NewCheckpoint, CheckpointRows
  <1>4. StoreTypes'
    BY <1>0, <1>1, <1>3 DEF StoreTypes
  <1>5. FreshInv'
    BY <1>0, <1>1, <1>2 DEF FreshInv
  <1>6. StoredInv'
    <2>1. \A b \in Epochs \ {a} : TranscriptKey(b)' = TranscriptKey(b)
      BY <1>2 DEF TranscriptKey
    <2>2. TranscriptKey(a) \in DOMAIN object /\ object[TranscriptKey(a)] = e.said
      BY <1>0, <1>1 DEF StoredInv
    <2>3. e.pending # NoCall => Open(e.said, e.pending) /\ epoch'[a].pc = "gone"
      BY <1>1, <1>2 DEF MemoryOK
    <2>. QED
      BY <1>0, <1>1, <1>2, <1>3, <2>1, <2>2, <2>3 DEF StoredInv
  <1>7. HeadInv'
    BY <1>0, <1>1, <1>2, <1>3 DEF HeadInv, Restored, Begun
  <1>8. ArtifactsInv'
    BY <1>0, <1>1, <1>2 DEF ArtifactsInv
  <1>. QED
    BY <1>2, <1>4, <1>5, <1>6, <1>7, <1>8 DEF CheckpointsInv

\* The run completes with what its owner has staged.
LEMMA CompleteStep == ASSUME CheckpointsInv, NEW a \in Epochs, Complete(a)
                      PROVE  CheckpointsInv'
  <1>0. StoreTypes /\ MemoriesInv /\ FreshInv /\ StoredInv /\ HeadInv /\ ArtifactsInv
    BY DEF CheckpointsInv
  <1>1. /\ epoch[a].pc = "final" /\ runRow.status = "VERIFYING"
        /\ runRow'.status = "COMPLETED" /\ runRow'.attempt = runRow.attempt
        /\ runRow' \in RunRows
        /\ artifacts' = artifacts \union {NewArtifact(a)} /\ Gone(a)
        /\ UNCHANGED <<object, latest, head, output, late>>
    BY <1>0 DEF Complete, At, Moves, StoreTypes, RunRows
  <1>2. /\ MemoriesInv'
        /\ epoch'[a].pc = "gone"
        /\ \A b \in Epochs : Without(epoch'[a].said, b)
        /\ \A b \in Epochs \ {a} : epoch'[b] = epoch[b]
    BY <1>1, GoneMemory
  <1>3. StoreTypes'
    BY <1>0, <1>1 DEF StoreTypes
  <1>4. FreshInv'
    BY <1>0, <1>1, <1>2 DEF FreshInv
  <1>5. StoredInv'
    <2>1. \A b \in Epochs \ {a} : TranscriptKey(b)' = TranscriptKey(b)
      BY <1>2 DEF TranscriptKey
    <2>. QED
      BY <1>0, <1>1, <1>2, <2>1 DEF StoredInv
  <1>6. HeadInv'
    BY <1>0, <1>1, <1>2 DEF HeadInv, Restored, Begun
  <1>7. ArtifactsInv'
    <2>1. artifacts' = {NewArtifact(a)}
      BY <1>0, <1>1 DEF ArtifactsInv
    <2>2. NewArtifact(a).work \in output
      BY <1>0, <1>1 DEF ArtifactsInv, NewArtifact
    <2>. QED
      BY <1>0, <1>1, <1>2, <2>1, <2>2 DEF ArtifactsInv
  <1>. QED
    BY <1>2, <1>3, <1>4, <1>5, <1>6, <1>7 DEF CheckpointsInv

\* A new run has no checkpoint; a fork has that of its source.
LEMMA CheckpointsStart == ASSUME CheckpointsInit PROVE CheckpointsInv
  <1>1. PICK s \in ForkSources :
          /\ latest = s
          /\ object = [k \in {<<0, 0>>} |->
               IF s.pending = NoCall THEN <<>> ELSE <<Ask(SourceCall)>>]
    BY DEF CheckpointsInit
  <1>2. /\ s \in CheckpointRows /\ s.key = <<0, 0>> /\ s.work = {}
        /\ s.pending \in {NoCall, SourceCall}
    <2>1. /\ NoCheckpoint \in CheckpointRows /\ NoCheckpoint.key = <<0, 0>>
          /\ NoCheckpoint.work = {} /\ NoCheckpoint.pending = NoCall
      BY CallIds DEF NoCheckpoint, CheckpointRows, Ids
    <2>2. CASE s = [NoCheckpoint EXCEPT !.schema = "newer"]
      BY <2>1, <2>2 DEF CheckpointRows
    <2>3. CASE \E n \in {0, 1}, c \in {NoCall, SourceCall} :
                 s = [NoCheckpoint EXCEPT !.step = n, !.pending = c]
      <3>1. PICK n \in {0, 1}, c \in {NoCall, SourceCall} :
              s = [NoCheckpoint EXCEPT !.step = n, !.pending = c]
        BY <2>3
      <3>2. n \in Nat /\ c \in Ids
        BY CallIds
      <3>3. PICK r \in CheckpointRows :
              r = NoCheckpoint /\ r.key = <<0, 0>> /\ r.work = {}
        BY <2>1
      <3>4. s = [r EXCEPT !.step = n, !.pending = c]
        BY <3>1, <3>3
      <3>. QED
        BY <3>2, <3>3, <3>4 DEF CheckpointRows
    <2>. QED
      BY <2>2, <2>3 DEF ForkSources
  <1>3. /\ runRow = [status |-> "QUEUED", attempt |-> 0] /\ head = NoRevision
        /\ output = {} /\ artifacts = {} /\ epoch = [a \in Epochs |-> EpochIdle]
    BY DEF CheckpointsInit
  <1>. DEFINE said == IF s.pending = NoCall THEN <<>> ELSE <<Ask(SourceCall)>>
  <1>4. /\ said \in Seq(Turns) /\ AnsweredOnce(said)
        /\ \A a \in Epochs : Without(said, a)
        /\ s.pending # NoCall => Open(said, s.pending)
    <2>1. Ask(SourceCall) \in Turns /\ Ask(SourceCall).call[1] = 0 /\ Ask(SourceCall).kind = "ask"
      BY CallIds DEF Ask, Turns, SourceCall
    <2>2. \A a \in Epochs : a # 0
      BY DEF Epochs
    <2>3. CASE s.pending = NoCall
      <3>1. said = <<>> /\ DOMAIN <<>> = {}
        BY <2>3
      <3>. QED
        BY <2>3, <3>1 DEF AnsweredOnce, Without, Heard
    <2>4. CASE s.pending # NoCall
      <3>1. said = <<Ask(SourceCall)>> /\ s.pending = SourceCall
        BY <1>2, <2>4
      <3>2. DOMAIN said = {1} /\ said[1] = Ask(SourceCall) /\ said \in Seq(Turns)
        BY <2>1, <3>1
      <3>. HIDE DEF said
      <3>3. Heard(said) = {Ask(SourceCall)}
        BY <3>2 DEF Heard
      <3>4. Tool(SourceCall) # Ask(SourceCall)
        BY DEF Tool, Ask
      <3>. QED
        BY <2>1, <2>2, <3>1, <3>2, <3>3, <3>4 DEF AnsweredOnce, Without, Open
    <2>. QED
      BY <2>3, <2>4
  <1>5. DOMAIN object = {<<0, 0>>} /\ object[<<0, 0>>] = said
    BY <1>1
  <1>. HIDE DEF said
  <1>6. /\ EpochIdle \in Memories /\ EpochIdle.pc = "none" /\ EpochIdle.said = <<>>
        /\ EpochIdle.pending = NoCall
    <2>1. <<>> \in Seq(Turns) /\ <<>> \in Seq(Ids)
      OBVIOUS
    <2>. QED
      BY <2>1, CallIds DEF EpochIdle, Memories, Places
  <1>7. AnsweredOnce(<<>>) /\ \A a : Without(<<>>, a)
    <2>1. DOMAIN <<>> = {}
      OBVIOUS
    <2>. QED
      BY <2>1 DEF AnsweredOnce, Without, Heard
  <1>8. StoreTypes
    BY <1>1, <1>2, <1>3, <1>4, <1>5, CheckpointsAssumption
    DEF StoreTypes, RunRows, NoRevision, Ids
  <1>9. MemoriesInv
    BY <1>3, <1>6, <1>7 DEF MemoriesInv, MemoryOK, Begun
  <1>10. FreshInv
    BY <1>3, <1>4, <1>5, <1>6, <1>7 DEF FreshInv
  <1>11. StoredInv
    <2>1. latest.key = <<0, 0>> /\ latest.key[1] = 0 /\ \A a \in Epochs : a # 0
      BY <1>1, <1>2 DEF Epochs
    <2>. QED
      BY <1>1, <1>3, <1>4, <1>5, <1>6, <2>1 DEF StoredInv
  <1>12. HeadInv
    BY <1>1, <1>2, <1>3, <1>6 DEF HeadInv, Restored, Begun
  <1>13. ArtifactsInv
    BY <1>3, <1>6 DEF ArtifactsInv
  <1>. QED
    BY <1>8, <1>9, <1>10, <1>11, <1>12, <1>13 DEF CheckpointsInv

\* The invariant of transcripts, checkpoints, workspace heads and artifacts
\* (epoch.ts saveCheckpoint and finishRun, workspace.ts, artifacts.ts).
THEOREM CheckpointsInductive == CheckpointsSpec => []CheckpointsInv
  <1>1. ASSUME CheckpointsInv, [CheckpointsNext]_checkpointVars PROVE CheckpointsInv'
    <2>1. CASE UNCHANGED checkpointVars
      BY <1>1, <2>1 DEF checkpointVars, CheckpointsInv, StoreTypes, MemoriesInv, FreshInv,
         StoredInv, HeadInv, ArtifactsInv, TranscriptKey
    <2>. QED
      BY <1>1, <2>1, ClaimEpochStep, RequeueSteps, LeaveSteps, ReadStep, RestoreStep,
         ReplayStep, LeaveLoopSteps, GoSteps, InvokeStep, NudgeStep, ToolStep, SuspendStep,
         EndStep, SaveTranscriptStep, SaveWorkspaceStep, InsertStep, VerifyStep, FinishSteps,
         CompleteStep
      DEF CheckpointsNext
  <1>. QED
    BY <1>1, CheckpointsStart, PTL DEF CheckpointsSpec

\* No transcript, in memory or saved, answers a call twice or one that was not
\* asked, however epochs are suspended, replaced, lost and restored
\* (the resumed call and saveCheckpoint of epoch.ts).
THEOREM AnsweredOnceOnly == CheckpointsSpec => []CallsAreAnsweredOnce
  <1>1. CheckpointsInv => CallsAreAnsweredOnce
    BY DEF CheckpointsInv, MemoriesInv, MemoryOK, StoredInv, CallsAreAnsweredOnce
  <1>. QED
    BY <1>1, CheckpointsInductive, PTL

\* The head that is restored holds the work of the latest checkpoint unless a
\* replaced worker has saved (saveCheckpoint, WorkspaceManager.restore).
THEOREM HeadHolds == CheckpointsSpec => []HeadHoldsTheCheckpoint
  <1>1. CheckpointsInv => HeadHoldsTheCheckpoint
    BY DEF CheckpointsInv, HeadInv, HeadHoldsTheCheckpoint
  <1>. QED
    BY <1>1, CheckpointsInductive, PTL

\* A run has artifacts exactly when it is completed, of one attempt, and stored
\* (finishRun, stageArtifactOutputs, createArtifacts).
THEOREM ArtifactsOfCompletion == CheckpointsSpec => []ArtifactsAreOfTheCompletion
  <1>1. CheckpointsInv => ArtifactsAreOfTheCompletion
    BY DEF CheckpointsInv, ArtifactsInv, ArtifactsAreOfTheCompletion
  <1>. QED
    BY <1>1, CheckpointsInductive, PTL
-----------------------------------------------------------------------------
(* ScriptedEpoch.                                                          *)

Stages == {"QUEUED", "RUNNING", "WAITING", "COMPLETED", "ENDED"}

\* A gate that has been passed, or at which the run has been suspended.
Reached(s) ==
  \/ s \in opened \union asked
  \/ script[s] # "approval" /\ \E t \in opened \union asked : script[t] = script[s]

\* Every gate in front of the step n has been reached.
ReachedBefore(n) ==
  \A s \in origin..Len(script) : s < n /\ script[s] \in Gates => Reached(s)

\* Who is at a step, or resumes at it, is past the gates in front of it; what has
\* been asked for is decided once the run goes on.
ScriptedInv ==
  /\ script \in Scripts /\ origin \in 1..Len(script)
  /\ stage \in Stages
  /\ savedStep \in Nat
  /\ savedStep # 0 => savedStep >= origin /\ ReachedBefore(savedStep)
  /\ DOMAIN worker = Workers
  /\ \A w \in Workers : worker[w].at \in {"stepping", "asking"} =>
       /\ worker[w].step \in Nat /\ worker[w].step >= origin
       /\ ReachedBefore(worker[w].step)
  /\ stage \notin {"WAITING", "ENDED"} => asked \subseteq opened
  /\ stage = "WAITING" => asked \subseteq opened \union {waitsAt}
  /\ CompletedPastEveryGate

\* Gates that are reached stay reached.
LEMMA ReachedStays ==
  ASSUME UNCHANGED <<script, origin>>,
         opened \subseteq opened', asked \subseteq asked'
  PROVE  /\ \A n : ReachedBefore(n) => ReachedBefore(n)'
         /\ \A s : GatePassed(s) => GatePassed(s)'
  BY DEF ReachedBefore, Reached, GatePassed

\* A step of one worker that leaves the gates alone.
LEMMA MoveStep ==
  ASSUME ScriptedInv, NEW w \in Workers, NEW at, NEW k \in Nat, Move(w, at, k),
         UNCHANGED <<script, origin, waitsAt, opened, asked>>,
         at \in {"stepping", "asking"} => k >= origin /\ ReachedBefore(k),
         savedStep' = savedStep \/ (savedStep' = k /\ at = "stepping"),
         stage' = stage \/ (stage' = "RUNNING" /\ stage = "QUEUED")
  PROVE  ScriptedInv'
  <1>1. /\ DOMAIN worker' = Workers
        /\ worker'[w] = [at |-> at, step |-> k]
        /\ \A v \in Workers \ {w} : worker'[v] = worker[v]
    BY DEF ScriptedInv, Move
  <1>2. \A j : ReachedBefore(j)' <=> ReachedBefore(j)
    BY DEF ReachedBefore, Reached
  <1>3. CompletedPastEveryGate'
    BY DEF ScriptedInv, CompletedPastEveryGate, GatePassed
  <1>4. \A v \in Workers : worker'[v].at \in {"stepping", "asking"} =>
          /\ worker'[v].step \in Nat /\ worker'[v].step >= origin
          /\ ReachedBefore(worker'[v].step)
    BY <1>1 DEF ScriptedInv
  <1>5. /\ savedStep' \in Nat
        /\ savedStep' # 0 => savedStep' >= origin /\ ReachedBefore(savedStep')
    BY DEF ScriptedInv
  <1>6. /\ savedStep' # 0 => savedStep' >= origin' /\ ReachedBefore(savedStep)'
        /\ \A v \in Workers : worker'[v].at \in {"stepping", "asking"} =>
             /\ worker'[v].step \in Nat /\ worker'[v].step >= origin'
             /\ ReachedBefore(worker[v].step)'
    BY <1>4, <1>5 DEF ReachedBefore, Reached
  <1>7. /\ script' \in Scripts /\ origin' \in 1..Len(script)' /\ stage' \in Stages
        /\ stage' \notin {"WAITING", "ENDED"} => asked' \subseteq opened'
        /\ stage' = "WAITING" => asked' \subseteq opened' \union {waitsAt'}
    BY DEF ScriptedInv, Stages
  <1>. QED
    BY <1>1, <1>3, <1>5, <1>6, <1>7 DEF ScriptedInv

\* The next step is behind one more gate.
LEMMA NextStep ==
  ASSUME ScriptedInv, NEW n \in Nat, ReachedBefore(n),
         n \in DOMAIN script /\ script[n] \in Gates => Reached(n)
  PROVE  ReachedBefore(n + 1)
  <1>1. Len(script) \in Nat /\ DOMAIN script = 1..Len(script) /\ origin \in Nat /\ origin >= 1
    BY ScriptedAssumption DEF ScriptedInv
  <1>. SUFFICES ASSUME NEW s \in origin..Len(script), s < n + 1, script[s] \in Gates
                PROVE  Reached(s)
    BY DEF ReachedBefore
  <1>2. s < n \/ s = n
    BY <1>1
  <1>. QED
    BY <1>1, <1>2 DEF ReachedBefore

\* What a worker does on its own: claim, resume, go on to the next step.
LEMMA WorkerSteps ==
  ASSUME ScriptedInv, NEW w \in Workers,
         \/ ClaimScripted(w) \/ WorkerLeaves(w) \/ ResumeScript(w)
         \/ Progress(w) \/ SaveStep(w) \/ FailOnce(w) \/ LookAtGate(w)
  PROVE  ScriptedInv'
  <1>0. origin \in Nat /\ Len(script) \in Nat /\ DOMAIN script = 1..Len(script) /\ origin >= 1
    BY ScriptedAssumption DEF ScriptedInv
  <1>1. CASE ClaimScripted(w)
    <2>1. /\ Move(w, "claimed", 0) /\ savedStep' = savedStep
          /\ stage' = "RUNNING" /\ stage = "QUEUED"
          /\ UNCHANGED <<script, origin, waitsAt, opened, asked>>
      BY <1>1 DEF ClaimScripted, GateVars
    <2>. QED
      BY <2>1, MoveStep
  <1>2. CASE WorkerLeaves(w)
    <2>1. /\ Move(w, "gone", 0) /\ savedStep' = savedStep /\ stage' = stage
          /\ UNCHANGED <<script, origin, waitsAt, opened, asked>>
      BY <1>2 DEF WorkerLeaves, GateVars
    <2>. QED
      BY <2>1, MoveStep
  <1>3. CASE ResumeScript(w)
    <2>1. ReachedBefore(origin)
      BY <1>0 DEF ReachedBefore
    <2>2. PICK k \in Nat : k = (IF savedStep = 0 THEN origin ELSE savedStep)
      BY <1>0 DEF ScriptedInv
    <2>3. k >= origin /\ ReachedBefore(k)
      BY <1>0, <2>1, <2>2 DEF ScriptedInv
    <2>4. /\ Move(w, "stepping", k) /\ savedStep' = savedStep /\ stage' = stage
          /\ UNCHANGED <<script, origin, waitsAt, opened, asked>>
      BY <1>3, <2>2 DEF ResumeScript, GateVars
    <2>. QED
      BY <2>3, <2>4, MoveStep
  <1>5. CASE Progress(w) \/ SaveStep(w) \/ FailOnce(w)
    <2>1. PICK k \in Nat : k = worker[w].step /\ k >= origin /\ ReachedBefore(k)
      BY <1>5 DEF Progress, SaveStep, FailOnce, Reaches, ScriptedInv
    <2>2. script[k] \notin Gates
      BY <1>5, <2>1 DEF Progress, SaveStep, FailOnce, Reaches, NextOp, Gates
    <2>3. k + 1 \in Nat /\ k + 1 >= origin /\ ReachedBefore(k + 1)
      BY <1>0, <2>1, <2>2, NextStep
    <2>4. /\ Move(w, "stepping", k + 1) /\ stage' = stage
          /\ UNCHANGED <<script, origin, waitsAt, opened, asked>>
          /\ savedStep' = savedStep \/ savedStep' = k + 1
      BY <1>5, <2>1 DEF Progress, SaveStep, FailOnce, GateVars
    <2>. QED
      BY <2>3, <2>4, MoveStep
  <1>6. CASE LookAtGate(w)
    <2>1. PICK k \in Nat : k = worker[w].step /\ k >= origin /\ ReachedBefore(k)
      BY <1>6 DEF LookAtGate, Reaches, ScriptedInv
    <2>2. script[k] \in Gates
      BY <1>6, <2>1 DEF LookAtGate, Reaches, NextOp
    <2>3. /\ UNCHANGED <<script, origin, waitsAt, opened, asked>>
          /\ savedStep' = savedStep /\ stage' = stage
      BY <1>6 DEF LookAtGate, GateVars
    <2>4. CASE AlreadyPassed(k)
      <3>1. Reached(k)
        BY <2>2, <2>4 DEF AlreadyPassed, Reached, SignalSteps, Gates
      <3>2. k + 1 \in Nat /\ k + 1 >= origin /\ ReachedBefore(k + 1)
        BY <1>0, <2>1, <3>1, NextStep
      <3>3. Move(w, "stepping", k + 1)
        BY <1>6, <2>1, <2>4 DEF LookAtGate
      <3>. QED
        BY <2>3, <3>2, <3>3, MoveStep
    <2>5. CASE ~AlreadyPassed(k)
      <3>1. Move(w, "asking", k)
        BY <1>6, <2>1, <2>5 DEF LookAtGate
      <3>. QED
        BY <2>1, <2>3, <3>1, MoveStep
    <2>. QED
      BY <2>4, <2>5
  <1>. QED
    BY <1>1, <1>2, <1>3, <1>5, <1>6

\* The run ends or is queued, or a gate opens.
LEMMA RunEndSteps ==
  ASSUME ScriptedInv, AttemptEnds \/ CancelScripted \/ GateOpens \/ SignalComesEarly
  PROVE  ScriptedInv'
  <1>1. /\ UNCHANGED <<script, origin, waitsAt, asked, savedStep, worker>>
        /\ opened \subseteq opened'
    BY DEF AttemptEnds, CancelScripted, GateOpens, SignalComesEarly, GateVars
  <1>2. /\ \A n : ReachedBefore(n) => ReachedBefore(n)'
        /\ \A s : GatePassed(s) => GatePassed(s)'
    BY <1>1, ReachedStays
  <1>3. stage' \in Stages /\ (stage' = "COMPLETED" => stage = "COMPLETED")
    BY DEF AttemptEnds, CancelScripted, GateOpens, SignalComesEarly, ScriptedInv, Stages
  <1>4. CompletedPastEveryGate'
    BY <1>1, <1>2, <1>3 DEF ScriptedInv, CompletedPastEveryGate
  <1>5. /\ stage' \notin {"WAITING", "ENDED"} => asked \subseteq opened'
        /\ stage' = "WAITING" => asked \subseteq opened' \union {waitsAt}
    BY DEF AttemptEnds, CancelScripted, GateOpens, SignalComesEarly, ScriptedInv, Stages, GateVars
  <1>. QED
    BY <1>1, <1>2, <1>3, <1>4, <1>5 DEF ScriptedInv

\* The gate is asked for, and the step behind it saved, in one transaction.
LEMMA AskScriptedStep ==
  ASSUME ScriptedInv, NEW w \in Workers, AskAndSuspend(w)
  PROVE  ScriptedInv'
  <1>0. origin \in Nat /\ Len(script) \in Nat /\ DOMAIN script = 1..Len(script) /\ origin >= 1
    BY ScriptedAssumption DEF ScriptedInv
  <1>1. PICK k \in Nat : k = worker[w].step /\ k >= origin /\ ReachedBefore(k)
    BY DEF AskAndSuspend, ScriptedInv
  <1>2. /\ UNCHANGED <<script, origin, opened>>
        /\ stage = "RUNNING" /\ stage' = "WAITING" /\ waitsAt' = k
        /\ asked' = asked \union {k} /\ savedStep' = k + 1
        /\ Move(w, "gone", 0)
    BY <1>1 DEF AskAndSuspend
  <1>3. \A j : ReachedBefore(j) => ReachedBefore(j)'
    BY <1>2, ReachedStays
  <1>4. Reached(k)'
    BY <1>2 DEF Reached
  <1>5. ReachedBefore(k + 1)'
    <2>. SUFFICES ASSUME NEW s \in origin..Len(script), s < k + 1, script[s] \in Gates
                  PROVE  Reached(s)'
      BY <1>2 DEF ReachedBefore
    <2>1. s < k \/ s = k
      BY <1>0, <1>1
    <2>2. s < k => Reached(s)'
      BY <1>1, <1>2, <1>3 DEF ReachedBefore
    <2>. QED
      BY <1>4, <2>1, <2>2
  <1>6. savedStep' \in Nat /\ savedStep' >= origin' /\ ReachedBefore(savedStep)'
    BY <1>0, <1>1, <1>2, <1>5
  <1>7. /\ DOMAIN worker' = Workers
        /\ worker'[w].at = "gone"
        /\ \A v \in Workers \ {w} : worker'[v] = worker[v]
    BY <1>2 DEF ScriptedInv, Move
  <1>8. ASSUME NEW v \in Workers, worker'[v].at \in {"stepping", "asking"}
        PROVE  /\ worker'[v].step \in Nat /\ worker'[v].step >= origin'
               /\ ReachedBefore(worker[v].step)'
    <2>1. worker'[v] = worker[v]
      BY <1>7, <1>8
    <2>2. PICK j \in Nat : j = worker[v].step /\ j >= origin /\ ReachedBefore(j)
      BY <1>8, <2>1 DEF ScriptedInv
    <2>3. ReachedBefore(j)'
      BY <1>3, <2>2
    <2>. QED
      BY <1>2, <2>1, <2>2, <2>3
  <1>9. CompletedPastEveryGate'
    BY <1>2 DEF CompletedPastEveryGate
  <1>10. /\ script' \in Scripts /\ origin' \in 1..Len(script)' /\ stage' \in Stages
         /\ stage' \notin {"WAITING", "ENDED"} => asked' \subseteq opened'
         /\ stage' = "WAITING" => asked' \subseteq opened' \union {waitsAt'}
    BY <1>2 DEF ScriptedInv, Stages
  <1>. QED
    BY <1>6, <1>7, <1>8, <1>9, <1>10 DEF ScriptedInv

\* The end of the script is behind all of its gates.
LEMMA CompleteScriptedStep ==
  ASSUME ScriptedInv, NEW w \in Workers, CompleteScripted(w)
  PROVE  ScriptedInv'
  <1>. DEFINE n == worker[w].step
  <1>0. origin \in Nat /\ Len(script) \in Nat /\ DOMAIN script = 1..Len(script) /\ origin >= 1
    BY ScriptedAssumption DEF ScriptedInv
  <1>1. n \in Nat /\ n >= origin /\ ReachedBefore(n) /\ asked \subseteq opened
          /\ (n <= Len(script) => script[n] = "complete")
    BY <1>0 DEF CompleteScripted, ScriptedInv, NextOp
  <1>2. /\ UNCHANGED <<script, origin, opened, asked, waitsAt, savedStep>>
        /\ stage' = "COMPLETED" /\ Move(w, "gone", n)
    BY DEF CompleteScripted, GateVars
  <1>. HIDE DEF n
  <1>3. CompletedPastEveryGate'
    <2>. SUFFICES ASSUME NEW s \in origin..Len(script), script[s] \in Gates,
                         \A t \in origin..s : script[t] # "complete"
                  PROVE  GatePassed(s)'
      BY <1>2 DEF CompletedPastEveryGate
    <2>1. s < n
      <3>1. ~(n <= s)
        <4>1. SUFFICES ASSUME n <= s PROVE FALSE
          OBVIOUS
        <4>2. n \in origin..s /\ n <= Len(script)
          BY <1>0, <1>1, <4>1
        <4>. QED
          BY <1>1, <4>2
      <3>. QED
        BY <1>0, <1>1, <3>1
    <2>2. Reached(s)
      BY <1>1, <2>1 DEF ReachedBefore
    <2>. QED
      BY <1>1, <1>2, <2>2 DEF Reached, GatePassed
  <1>4. /\ DOMAIN worker' = Workers
        /\ worker'[w].at = "gone"
        /\ \A v \in Workers \ {w} : worker'[v] = worker[v]
    BY <1>2 DEF ScriptedInv, Move
  <1>5. \A k : ReachedBefore(k)' <=> ReachedBefore(k)
    BY <1>2 DEF ReachedBefore, Reached
  <1>. QED
    BY <1>1, <1>2, <1>3, <1>4, <1>5 DEF ScriptedInv, Stages

\* The invariant of a scripted run (scriptedEpoch.ts).
THEOREM ScriptedInductive == ScriptedSpec => []ScriptedInv
  <1>1. ScriptedInit => ScriptedInv
    BY DEF ScriptedInit, ScriptedInv, Stages, CompletedPastEveryGate
  <1>2. ASSUME ScriptedInv, [ScriptedNext]_scriptedVars PROVE ScriptedInv'
    <2>1. CASE UNCHANGED scriptedVars
      BY <1>2, <2>1 DEF scriptedVars, ScriptedInv, ReachedBefore, Reached, GatePassed,
         CompletedPastEveryGate
    <2>. QED
      BY <1>2, <2>1, WorkerSteps, RunEndSteps, AskScriptedStep, CompleteScriptedStep DEF ScriptedNext
  <1>. QED
    BY <1>1, <1>2, PTL DEF ScriptedSpec

\* A scripted run completes past decided gates only, for every script, every fork
\* of it and any number of stale epochs (scriptedEpoch.ts).
THEOREM GatesArePassed == ScriptedSpec => []CompletedPastEveryGate
  <1>1. ScriptedInv => CompletedPastEveryGate
    BY DEF ScriptedInv
  <1>. QED
    BY <1>1, ScriptedInductive, PTL
-----------------------------------------------------------------------------
(* Supervisor.                                                             *)

\* Where the last element of a sequence begins to be repeated.
Repeating(s, m) ==
  /\ m \in 1..Len(s)
  /\ \A j \in m..Len(s) : s[j] = s[Len(s)]
  /\ m > 1 => s[m - 1] # s[Len(s)]

\* A sequence that is not empty has such a place.
LEMMA RepeatingExists ==
  ASSUME NEW S, NEW s \in Seq(S), s # <<>>
  PROVE  \E m \in 1..Len(s) : Repeating(s, m)
  <1>. DEFINE T == {m \in 1..Len(s) : \A j \in m..Len(s) : s[j] = s[Len(s)]}
  <1>1. Len(s) \in Nat /\ Len(s) > 0
    OBVIOUS
  <1>2. T \in SUBSET Nat /\ Len(s) \in T
    BY <1>1
  <1>3. PICK m \in T : \A k \in T : m <= k
    BY <1>2, SmallestExists
  <1>4. m > 1 => s[m - 1] # s[Len(s)]
    <2>. SUFFICES ASSUME m > 1, s[m - 1] = s[Len(s)] PROVE FALSE
      OBVIOUS
    <2>1. m - 1 \in 1..Len(s)
      BY <1>1
    <2>2. \A j \in m - 1..Len(s) : j = m - 1 \/ j \in m..Len(s)
      BY <1>1
    <2>3. m - 1 \in T
      BY <2>1, <2>2
    <2>. QED
      BY <1>3, <2>3
  <1>. QED
    BY <1>4 DEF Repeating

\* Trailing repeats count from there.
LEMMA RepeatsCounted ==
  ASSUME NEW S, NEW s \in Seq(S), NEW m \in Nat, Repeating(s, m)
  PROVE  TrailingRepeats(s) = Len(s) - m + 1
  <1>. DEFINE T == {i \in DOMAIN s : \A j \in i..Len(s) : s[j] = Last(s)}
  <1>1. Len(s) \in Nat /\ m \in 1..Len(s) /\ DOMAIN s = 1..Len(s) /\ s # <<>> /\ Last(s) = s[Len(s)]
    BY DEF Repeating, Last
  <1>2. \A i \in m..Len(s) : i \in T
    BY <1>1 DEF Repeating
  <1>3. \A i \in T : i \in m..Len(s)
    <2>. SUFFICES ASSUME NEW i \in T, i < m PROVE FALSE
      BY <1>1
    <2>1. m - 1 \in i..Len(s) /\ m > 1
      BY <1>1
    <2>2. s[m - 1] = s[Len(s)]
      BY <1>1, <2>1
    <2>. QED
      BY <2>1, <2>2 DEF Repeating
  <1>4. T = m..Len(s)
    BY <1>1, <1>2, <1>3
  <1>5. Cardinality(m..Len(s)) = Len(s) - m + 1
    BY <1>1, FS_Interval
  <1>. QED
    BY <1>1, <1>4, <1>5 DEF TrailingRepeats

\* Repeats are between none and all.
LEMMA RepeatsBounds ==
  ASSUME NEW S, NEW s \in Seq(S), s # <<>>
  PROVE  TrailingRepeats(s) \in Nat /\ TrailingRepeats(s) >= 1 /\ TrailingRepeats(s) <= Len(s)
  <1>1. PICK m \in 1..Len(s) : Repeating(s, m)
    BY RepeatingExists
  <1>2. m \in Nat /\ Len(s) \in Nat
    OBVIOUS
  <1>. QED
    BY <1>1, <1>2, RepeatsCounted

\* One element more: a repeat more, or the first.
LEMMA RepeatsAppend ==
  ASSUME NEW S, NEW s \in Seq(S), NEW x \in S
  PROVE  TrailingRepeats(Append(s, x))
           = IF s # <<>> /\ Last(s) = x THEN TrailingRepeats(s) + 1 ELSE 1
  <1>. DEFINE t == Append(s, x)
  <1>1. /\ t \in Seq(S) /\ Len(s) \in Nat /\ Len(t) = Len(s) + 1 /\ t[Len(t)] = x
        /\ \A j \in 1..Len(s) : t[j] = s[j]
    OBVIOUS
  <1>. HIDE DEF t
  <1>2. CASE s # <<>> /\ Last(s) = x
    <2>1. PICK m \in 1..Len(s) : Repeating(s, m)
      BY <1>2, RepeatingExists
    <2>2. s[Len(s)] = x /\ m \in Nat
      BY <1>2 DEF Last
    <2>3. Repeating(t, m)
      <3>1. \A j \in m..Len(t) : t[j] = x
        <4>1. ASSUME NEW j \in m..Len(t) PROVE t[j] = x
          <5>1. CASE j = Len(t)
            BY <1>1, <5>1
          <5>2. CASE j # Len(t)
            BY <1>1, <2>1, <2>2, <5>2 DEF Repeating
          <5>. QED
            BY <5>1, <5>2
        <4>. QED
          BY <4>1
      <3>2. m > 1 => t[m - 1] # x
        BY <1>1, <2>1, <2>2 DEF Repeating
      <3>. QED
        BY <1>1, <2>1, <3>1, <3>2 DEF Repeating
    <2>4. TrailingRepeats(s) = Len(s) - m + 1
      BY <2>1, <2>2, RepeatsCounted
    <2>5. TrailingRepeats(t) = Len(t) - m + 1
      BY <1>1, <2>2, <2>3, RepeatsCounted
    <2>6. TrailingRepeats(t) = TrailingRepeats(s) + 1
      BY <1>1, <2>2, <2>4, <2>5
    <2>. QED
      BY <1>2, <2>6 DEF t
  <1>3. CASE ~(s # <<>> /\ Last(s) = x)
    <2>1. Len(t) > 1 => t[Len(t) - 1] # x
      BY <1>1, <1>3 DEF Last
    <2>2. Repeating(t, Len(t))
      BY <1>1, <2>1 DEF Repeating
    <2>3. Len(t) \in Nat
      BY <1>1
    <2>4. TrailingRepeats(t) = Len(t) - Len(t) + 1
      BY <1>1, <2>2, <2>3, RepeatsCounted
    <2>5. TrailingRepeats(t) = 1
      BY <2>3, <2>4
    <2>. QED
      BY <1>3, <2>5 DEF t
  <1>. QED
    BY <1>2, <1>3

\* A window keeps the repeats it has room for.
LEMMA RepeatsKept ==
  ASSUME NEW S, NEW s \in Seq(S), s # <<>>, NEW n \in Nat \ {0}, Len(s) <= n + 1
  PROVE  /\ KeepLast(s, n) \in Seq(S) /\ KeepLast(s, n) # <<>> /\ Len(KeepLast(s, n)) <= n
         /\ Last(KeepLast(s, n)) = Last(s)
         /\ TrailingRepeats(KeepLast(s, n)) >= TrailingRepeats(s)
              \/ TrailingRepeats(KeepLast(s, n)) >= n
  <1>1. PICK m \in 1..Len(s) : Repeating(s, m)
    BY RepeatingExists
  <1>2. Len(s) \in Nat /\ Len(s) >= 1 /\ m \in Nat
    OBVIOUS
  <1>3. CASE Len(s) <= n
    <2>1. KeepLast(s, n) = s
      BY <1>2, <1>3 DEF KeepLast
    <2>. QED
      BY <1>3, <2>1, RepeatsBounds
  <1>4. CASE Len(s) = n + 1
    <2>. DEFINE t == KeepLast(s, n)
    <2>1. t = SubSeq(s, 2, n + 1)
      BY <1>2, <1>4 DEF KeepLast
    <2>2. t \in Seq(S) /\ Len(t) = n /\ \A j \in 1..n : t[j] = s[j + 1]
      BY <1>2, <1>4, <2>1
    <2>. HIDE DEF t
    <2>3. t # <<>> /\ Last(t) = Last(s) /\ t[n] = s[n + 1]
      BY <1>2, <1>4, <2>2 DEF Last
    <2>4. CASE m >= 2
      <3>1. Repeating(t, m - 1)
        <4>1. m - 1 \in 1..n
          BY <1>2, <1>4, <2>4
        <4>2. \A j \in m - 1..n : t[j] = s[n + 1]
          <5>1. ASSUME NEW j \in m - 1..n PROVE t[j] = s[n + 1]
            <6>1. j \in 1..n /\ j + 1 \in m..Len(s)
              BY <1>2, <1>4, <4>1
            <6>. QED
              BY <1>1, <1>4, <2>2, <6>1 DEF Repeating
          <5>. QED
            BY <5>1
        <4>3. m - 1 > 1 => t[m - 2] # s[n + 1]
          <5>1. m - 1 > 1 => m - 2 \in 1..n /\ t[m - 2] = s[m - 1]
            BY <1>2, <2>2, <4>1
          <5>. QED
            BY <1>1, <1>4, <5>1 DEF Repeating
        <4>. QED
          BY <2>2, <2>3, <4>1, <4>2, <4>3 DEF Repeating
      <3>2. TrailingRepeats(t) = n - (m - 1) + 1
        BY <1>2, <2>2, <2>4, <3>1, RepeatsCounted
      <3>3. TrailingRepeats(s) = n + 1 - m + 1
        BY <1>1, <1>2, <1>4, RepeatsCounted
      <3>. QED
        BY <1>2, <2>2, <2>3, <3>2, <3>3 DEF t
    <2>5. CASE m = 1
      <3>1. Repeating(t, 1)
        <4>1. \A j \in 1..n : t[j] = s[n + 1]
          <5>1. ASSUME NEW j \in 1..n PROVE t[j] = s[n + 1]
            <6>1. j + 1 \in m..Len(s)
              BY <1>4, <2>5
            <6>. QED
              BY <1>1, <1>4, <2>2, <6>1 DEF Repeating
          <5>. QED
            BY <5>1
        <4>. QED
          BY <2>2, <2>3, <4>1 DEF Repeating
      <3>2. TrailingRepeats(t) = n
        BY <2>2, <3>1, RepeatsCounted
      <3>. QED
        BY <2>2, <2>3, <3>2 DEF t
    <2>. QED
      BY <1>2, <2>4, <2>5
  <1>. QED
    BY <1>2, <1>3, <1>4

Proposals == Signatures \cup {Silent}
Directives == {"continue", "recover", "escalate", "terminate", "wind_down"}
Transcripts == [signature : Proposals, times : Nat]
SupervisorStates ==
  [actionWindow : Seq(Proposals), progressWindow : Seq(Nat),
   escalationLevel : Nat, recoveries : Nat]
WatchRows ==
  [pc : {"none", "resume", "loop", "record", "tools", "terminate", "put", "row", "gone"},
   step : Nat, said : Transcripts, sup : SupervisorStates, directive : Directives,
   silent : Nat, pending : BOOLEAN, leaves : BOOLEAN]
SavedRows == [key : Nat \X Nat, sup : SupervisorStates, pending : BOOLEAN]
WatchedRows ==
  [status : {"RUNNING", "WAITING", "FAILED", "LEFT"}, attempt : Nat, completed : Nat]

\* What the window of a supervisor shows of a signature.
Shown(sup, x) ==
  IF sup.actionWindow # <<>> /\ Last(sup.actionWindow) = x
  THEN TrailingRepeats(sup.actionWindow) ELSE 0

\* What a supervisor that has not given up knows of a transcript, but for k
\* completions: its window shows the repeats, and each repeat beyond the
\* threshold has cost a rung.
FollowsUpTo(sup, said, k) ==
  /\ Len(sup.actionWindow) <= Window
  /\ sup.escalationLevel <= MaxEscalations
  /\ sup.recoveries <= sup.escalationLevel + 1
  /\ said.signature # Silent =>
       /\ Shown(sup, said.signature) + k >= said.times \/ Shown(sup, said.signature) >= Window
       /\ said.times >= LoopThreshold + k => said.times + 1 <= LoopThreshold + sup.recoveries + k

\* The run can be claimed again.
Live(run) == run.status \in {"RUNNING", "WAITING"}

\* Who has not given up misses a completion per attempt before its own; who has
\* given up has ended the run by the time it saves.
WorkerInv(a, w, run) ==
  /\ w.pc \in {"none", "gone"} => w.said = NothingSaid
  /\ a > run.attempt => w.pc = "none"
  /\ w.directive # "terminate" => FollowsUpTo(w.sup, w.said, a - 1)
  /\ w.directive = "terminate" =>
       /\ w.pc \in {"record", "terminate", "put", "row"}
       /\ w.pc \in {"put", "row"} => ~Live(run) /\ w.leaves
       /\ w.said.signature # Silent => w.said.times <= LoopThreshold + MaxEscalations + a

\* The transcript that a worker may put over the one of the latest checkpoint:
\* it has one completion more, or none while nothing has been proposed since.
KeyInv(a, w, run, latestSaved) ==
  latestSaved.key[1] = a /\ w.pc \notin {"none", "gone"} =>
    /\ latestSaved.key[2] <= w.step
    /\ Live(run) /\ latestSaved.key[2] = w.step =>
         FollowsUpTo(latestSaved.sup, w.said, IF w.pc = "loop" THEN a - 1 ELSE a)

SupervisorInv ==
  /\ watch \in [Watches -> WatchRows] /\ saved \in SavedRows
  /\ stored \in Transcripts /\ watched \in WatchedRows
  /\ saved.key[1] <= watched.attempt
  /\ Live(watched) => FollowsUpTo(saved.sup, stored, saved.key[1])
  /\ \A a \in Watches : WorkerInv(a, watch[a], watched) /\ KeyInv(a, watch[a], watched, saved)

\* The parameters are positive, and the window has room for a loop.
LEMMA SupervisorNumbers ==
  /\ LoopThreshold \in Nat /\ LoopThreshold >= 1 /\ MaxEscalations \in Nat
  /\ Window \in Nat \ {0} /\ Window >= LoopThreshold /\ Silent \in Proposals
  /\ Watches \subseteq Nat \ {0}
  BY SupervisorAssumption DEF Proposals, Watches

\* What a window shows is a number.
LEMMA ShownIsNat ==
  ASSUME NEW sup \in SupervisorStates, NEW x
  PROVE  Shown(sup, x) \in Nat
  <1>1. sup.actionWindow \in Seq(Proposals)
    BY DEF SupervisorStates
  <1>. QED
    BY <1>1, RepeatsBounds DEF Shown

\* Missing more is missing less, too.
LEMMA FollowsMonotone ==
  ASSUME NEW sup \in SupervisorStates, NEW said \in Transcripts, NEW k \in Nat, NEW l \in Nat,
         k <= l, FollowsUpTo(sup, said, k)
  PROVE  FollowsUpTo(sup, said, l)
  <1>1. Shown(sup, said.signature) \in Nat /\ said.times \in Nat /\ sup.recoveries \in Nat
    BY ShownIsNat DEF Transcripts, SupervisorStates
  <1>. QED
    BY <1>1, SupervisorNumbers DEF FollowsUpTo

\* A completion that the supervisor has not seen is one more it misses.
LEMMA CompletedFollows ==
  ASSUME NEW sup \in SupervisorStates, NEW said \in Transcripts, NEW k \in Nat,
         NEW x \in Proposals, FollowsUpTo(sup, said, k)
  PROVE  /\ Completed(said, x) \in Transcripts
         /\ FollowsUpTo(sup, Completed(said, x), k + 1)
  <1>1. said.times \in Nat /\ sup.recoveries \in Nat
    BY DEF Transcripts, SupervisorStates
  <1>2. PICK n \in Nat : n = IF x = said.signature THEN said.times + 1 ELSE 1
    BY <1>1
  <1>. DEFINE t == [signature |-> x, times |-> n]
  <1>3. t \in Transcripts /\ t = Completed(said, x) /\ t.signature = x /\ t.times = n
    <2>1. t = Completed(said, x)
      BY <1>2 DEF Completed
    <2>. QED
      BY <2>1 DEF Transcripts
  <1>. HIDE DEF t
  <1>4. Shown(sup, x) \in Nat
    BY ShownIsNat
  <1>5. CASE x = Silent
    BY <1>3, <1>5 DEF FollowsUpTo
  <1>6. CASE x # Silent /\ x = said.signature
    <2>1. n = said.times + 1
      BY <1>2, <1>6
    <2>2. Shown(sup, x) + k >= said.times \/ Shown(sup, x) >= Window
      BY <1>6 DEF FollowsUpTo
    <2>3. said.times >= LoopThreshold + k => said.times + 1 <= LoopThreshold + sup.recoveries + k
      BY <1>6 DEF FollowsUpTo
    <2>4. /\ Shown(sup, x) + (k + 1) >= n \/ Shown(sup, x) >= Window
          /\ n >= LoopThreshold + (k + 1) => n + 1 <= LoopThreshold + sup.recoveries + (k + 1)
      BY <1>1, <1>4, <2>1, <2>2, <2>3, SupervisorNumbers
    <2>. QED
      BY <1>3, <2>4 DEF FollowsUpTo
  <1>7. CASE x # Silent /\ x # said.signature
    <2>1. /\ Shown(sup, x) + (k + 1) >= 1
          /\ ~(1 >= LoopThreshold + (k + 1))
      BY <1>4, SupervisorNumbers
    <2>. QED
      BY <1>2, <1>3, <1>7, <2>1 DEF FollowsUpTo
  <1>. QED
    BY <1>3, <1>5, <1>6, <1>7

\* Nothing said is known.
LEMMA NothingIsFollowed ==
  /\ InitialSupervisorState \in SupervisorStates /\ NothingSaid \in Transcripts
  /\ \A k : FollowsUpTo(InitialSupervisorState, NothingSaid, k)
  BY SupervisorNumbers DEF InitialSupervisorState, SupervisorStates, NothingSaid, Transcripts,
     FollowsUpTo

\* One evaluation, rung by rung.
LEMMA EvaluateFollows ==
  ASSUME NEW sup \in SupervisorStates, NEW said \in Transcripts, NEW k \in Nat,
         FollowsUpTo(sup, said, k), NEW o \in Observations,
         NEW t, t = Completed(said, o.signature), NEW e, e = Evaluate(sup, o)
  PROVE  /\ e.sup \in SupervisorStates /\ e.directive \in Directives
         /\ e.directive # "terminate" => FollowsUpTo(e.sup, t, k)
         /\ e.directive = "terminate" /\ t.signature # Silent =>
              t.times <= LoopThreshold + MaxEscalations + 1 + k
  <1>0. /\ LoopThreshold \in Nat /\ LoopThreshold >= 1 /\ MaxEscalations \in Nat
        /\ Window \in Nat \ {0} /\ Window >= LoopThreshold
    BY SupervisorNumbers
  <1>1. PICK x \in Proposals : x = o.signature
    BY DEF Observations, Proposals
  <1>2. o.completed \in Nat
    BY SupervisorAssumption DEF Observations
  <1>. DEFINE w == KeepLast(Append(sup.actionWindow, x), Window)
              p == KeepLast(Append(sup.progressWindow, o.completed), Window)
  <1>3. /\ t.signature = x /\ t.times \in Nat /\ said.times \in Nat
        /\ t.times = IF x = said.signature THEN said.times + 1 ELSE 1
    BY <1>1 DEF Completed, Transcripts
  <1>4. PICK m : m = Shown(sup, x) /\ m \in Nat
    BY ShownIsNat
  <1>6. PICK b \in Seq(Proposals) : b = sup.actionWindow /\ Len(b) \in Nat /\ Len(b) <= Window
    BY DEF SupervisorStates, FollowsUpTo
  <1>7. Append(b, x) \in Seq(Proposals) /\ Append(b, x) # <<>> /\ Last(Append(b, x)) = x
        /\ Len(Append(b, x)) <= Window + 1
    BY <1>0, <1>6 DEF Last
  <1>8. /\ w \in Seq(Proposals) /\ w # <<>> /\ Len(w) <= Window /\ Last(w) = x
        /\ TrailingRepeats(w) >= TrailingRepeats(Append(b, x)) \/ TrailingRepeats(w) >= Window
    BY <1>0, <1>6, <1>7, RepeatsKept
  <1>9. TrailingRepeats(Append(b, x)) = m + 1
    <2>1. TrailingRepeats(Append(b, x)) = IF b # <<>> /\ Last(b) = x THEN TrailingRepeats(b) + 1 ELSE 1
      BY <1>6, RepeatsAppend
    <2>. QED
      BY <1>4, <1>6, <2>1 DEF Shown
  <1>10. PICK n \in Nat : n = TrailingRepeats(w) /\ (n >= m + 1 \/ n >= Window)
    BY <1>4, <1>8, <1>9, RepeatsBounds
  <1>. HIDE DEF w, p
  <1>11. x # Silent => n + k >= t.times \/ n >= Window
    BY <1>0, <1>3, <1>4, <1>10 DEF FollowsUpTo
  <1>12. p \in Seq(Nat)
    <2>1. sup.progressWindow \in Seq(Nat)
      BY DEF SupervisorStates
    <2>2. Append(sup.progressWindow, o.completed) \in Seq(Nat)
      BY <1>2, <2>1
    <2>. DEFINE l == Append(sup.progressWindow, o.completed)
    <2>3. l \in Seq(Nat) /\ p = KeepLast(l, Window)
      BY <2>2 DEF p
    <2>. HIDE DEF l
    <2>4. CASE Len(l) > Window
      BY <1>0, <2>3, <2>4 DEF KeepLast
    <2>5. CASE ~(Len(l) > Window)
      BY <2>3, <2>5 DEF KeepLast
    <2>. QED
      BY <2>4, <2>5
  <1>. DEFINE q == [sup EXCEPT !.actionWindow = w, !.progressWindow = p]
  <1>13. Observe(sup, o) = q
    BY <1>1 DEF Observe, w, p, SupervisorStates
  <1>14. /\ q \in SupervisorStates /\ q.actionWindow = w
         /\ q.escalationLevel = sup.escalationLevel /\ q.recoveries = sup.recoveries
         /\ q.escalationLevel \in Nat /\ q.recoveries \in Nat
    BY <1>8, <1>12 DEF SupervisorStates
  <1>. HIDE DEF q
  <1>15. x # Silent /\ t.times >= LoopThreshold + k => Stuck(q, o)
    BY <1>0, <1>3, <1>8, <1>10, <1>11, <1>14 DEF Stuck, Looping
  <1>16. /\ sup.escalationLevel <= MaxEscalations /\ sup.recoveries <= sup.escalationLevel + 1
         /\ x # Silent /\ t.times >= LoopThreshold + k =>
              t.times <= LoopThreshold + sup.recoveries + k
    BY <1>0, <1>3, <1>14 DEF FollowsUpTo
  <1>17. e = Ladder(q, o)
    BY <1>13 DEF Evaluate
  <1>5. ASSUME NEW r \in SupervisorStates, r.actionWindow = w
        PROVE  Len(r.actionWindow) <= Window /\ Shown(r, x) = n
    BY <1>5, <1>8, <1>10 DEF Shown
  <1>18. CASE ~Stuck(q, o)
    <2>. DEFINE r == [q EXCEPT !.recoveries = 0]
    <2>1. Ladder(q, o).sup = r /\ Ladder(q, o).directive \in {"wind_down", "continue"}
      BY <1>18 DEF Ladder
    <2>2. r \in SupervisorStates /\ r.actionWindow = w /\ r.escalationLevel = q.escalationLevel
          /\ r.recoveries = 0
      BY <1>14 DEF SupervisorStates
    <2>. HIDE DEF r
    <2>3. FollowsUpTo(r, t, k)
      BY <1>0, <1>3, <1>5, <1>10, <1>11, <1>14, <1>15, <1>16, <1>18, <2>2 DEF FollowsUpTo
    <2>. QED
      BY <1>17, <2>1, <2>2, <2>3 DEF Directives
  <1>19. CASE Stuck(q, o) /\ q.escalationLevel >= MaxEscalations
    <2>1. Ladder(q, o).sup = q /\ Ladder(q, o).directive = "terminate"
      BY <1>19 DEF Ladder
    <2>2. x # Silent => t.times <= LoopThreshold + MaxEscalations + 1 + k
      <3>1. sup.recoveries \in Nat /\ sup.recoveries <= MaxEscalations + 1
        BY <1>0, <1>14, <1>16
      <3>2. x # Silent => t.times <= LoopThreshold + sup.recoveries + k
        BY <1>0, <1>3, <1>16, <3>1
      <3>. QED
        BY <1>0, <1>3, <3>1, <3>2
    <2>. QED
      BY <1>3, <1>14, <1>17, <2>1, <2>2 DEF Directives
  <1>20. CASE Stuck(q, o) /\ ~(q.escalationLevel >= MaxEscalations) /\ q.recoveries >= 1
    <2>. DEFINE r == [q EXCEPT !.escalationLevel = q.escalationLevel + 1,
                               !.recoveries = q.recoveries + 1]
    <2>1. Ladder(q, o).sup = r /\ Ladder(q, o).directive = "escalate"
      BY <1>20 DEF Ladder
    <2>0. q.escalationLevel + 1 \in Nat /\ q.recoveries + 1 \in Nat
      BY <1>14
    <2>2. r \in SupervisorStates /\ r.actionWindow = w
          /\ r.escalationLevel = q.escalationLevel + 1 /\ r.recoveries = q.recoveries + 1
      BY <1>14, <2>0 DEF SupervisorStates
    <2>. HIDE DEF r
    <2>3. r.escalationLevel <= MaxEscalations /\ r.recoveries <= r.escalationLevel + 1
      BY <1>0, <1>14, <1>16, <1>20, <2>2
    <2>4. x # Silent /\ t.times >= LoopThreshold + k => t.times + 1 <= LoopThreshold + r.recoveries + k
      BY <1>0, <1>3, <1>14, <1>16, <2>2
    <2>5. FollowsUpTo(r, t, k)
      BY <1>3, <1>5, <1>10, <1>11, <2>2, <2>3, <2>4 DEF FollowsUpTo
    <2>. QED
      BY <1>17, <2>1, <2>2, <2>5 DEF Directives
  <1>21. CASE Stuck(q, o) /\ ~(q.escalationLevel >= MaxEscalations) /\ ~(q.recoveries >= 1)
    <2>. DEFINE r == [q EXCEPT !.recoveries = q.recoveries + 1]
    <2>1. Ladder(q, o).sup = r /\ Ladder(q, o).directive = "recover"
      BY <1>21 DEF Ladder
    <2>0. q.recoveries + 1 \in Nat
      BY <1>14
    <2>2. r \in SupervisorStates /\ r.actionWindow = w
          /\ r.escalationLevel = q.escalationLevel /\ r.recoveries = q.recoveries + 1
      BY <1>14, <2>0 DEF SupervisorStates
    <2>. HIDE DEF r
    <2>3. r.escalationLevel <= MaxEscalations /\ r.recoveries <= r.escalationLevel + 1
      BY <1>0, <1>14, <1>16, <1>21, <2>2
    <2>4. x # Silent /\ t.times >= LoopThreshold + k => t.times + 1 <= LoopThreshold + r.recoveries + k
      BY <1>0, <1>3, <1>14, <1>16, <2>2
    <2>5. FollowsUpTo(r, t, k)
      BY <1>3, <1>5, <1>10, <1>11, <2>2, <2>3, <2>4 DEF FollowsUpTo
    <2>. QED
      BY <1>17, <2>1, <2>2, <2>5 DEF Directives
  <1>. QED
    BY <1>18, <1>19, <1>20, <1>21

\* A worker that is awake has claimed the run.
LEMMA AwakeHasClaimed ==
  ASSUME SupervisorInv, NEW a \in Watches, watch[a].pc # "none"
  PROVE  /\ a \in Nat /\ a - 1 \in Nat /\ a <= watched.attempt /\ watched.attempt \in Nat
         /\ watch[a] \in WatchRows /\ WorkerInv(a, watch[a], watched) /\ KeyInv(a, watch[a], watched, saved)
         /\ saved.key \in Nat \X Nat /\ saved.key[1] \in Nat /\ saved.key[2] \in Nat
  <1>1. a \in Nat \ {0} /\ watched.attempt \in Nat /\ ~(a > watched.attempt)
    BY SupervisorNumbers DEF SupervisorInv, WorkerInv, WatchedRows
  <1>. QED
    BY <1>1 DEF SupervisorInv, SavedRows

\* A worker that has gone knows nothing any more.
LEMMA OverIsWell ==
  ASSUME SupervisorInv, NEW a \in Watches, watch[a].pc # "none", watched' = watched
  PROVE  WatchOver \in WatchRows /\ WorkerInv(a, WatchOver, watched') /\ KeyInv(a, WatchOver, watched', saved')
  <1>1. a \in Nat /\ a <= watched.attempt /\ watched.attempt \in Nat
    BY AwakeHasClaimed
  <1>2. /\ WatchOver \in WatchRows /\ WatchOver.pc = "gone" /\ WatchOver.said = NothingSaid
        /\ WatchOver.directive = "continue" /\ WatchOver.sup = InitialSupervisorState
    BY NothingIsFollowed DEF WatchOver, Asleep, WatchRows, Directives
  <1>3. FollowsUpTo(InitialSupervisorState, NothingSaid, a - 1)
    BY NothingIsFollowed
  <1>. QED
    BY <1>1, <1>2, <1>3 DEF WorkerInv, KeyInv

\* A step that changes a worker's memory, and may end the run or let it wait.
LEMMA WatchStep ==
  ASSUME SupervisorInv, NEW a \in Watches, NEW q \in WatchRows,
         watch' = [watch EXCEPT ![a] = q], saved' = saved, stored' = stored,
         watched' \in WatchedRows, watched'.attempt = watched.attempt,
         Live(watched') => Live(watched),
         WorkerInv(a, q, watched'), KeyInv(a, q, watched', saved')
  PROVE  SupervisorInv'
  <1>0. watch \in [Watches -> WatchRows]
    BY DEF SupervisorInv
  <1>1. watch' \in [Watches -> WatchRows] /\ watch'[a] = q
    BY <1>0
  <1>2. ASSUME NEW b \in Watches, b # a
        PROVE  WorkerInv(b, watch'[b], watched') /\ KeyInv(b, watch'[b], watched', saved')
    <2>1. watch'[b] = watch[b] /\ WorkerInv(b, watch[b], watched) /\ KeyInv(b, watch[b], watched, saved)
      BY <1>2 DEF SupervisorInv
    <2>2. WorkerInv(b, watch'[b], watched')
      BY <2>1 DEF WorkerInv
    <2>3. KeyInv(b, watch'[b], watched', saved')
      BY <2>1 DEF KeyInv
    <2>. QED
      BY <2>2, <2>3
  <1>3. WorkerInv(a, watch'[a], watched') /\ KeyInv(a, watch'[a], watched', saved')
    BY <1>1
  <1>4. Live(watched') => FollowsUpTo(saved'.sup, stored', saved'.key[1])
    BY DEF SupervisorInv
  <1>. QED
    BY <1>1, <1>2, <1>3, <1>4 DEF SupervisorInv

\* A claim: the new worker starts from the checkpoint.
LEMMA WatchFromCheckpointStep ==
  ASSUME SupervisorInv, NEW a \in Watches, WatchFromCheckpoint(a)
  PROVE  SupervisorInv'
  <1>1. /\ Live(watched) /\ watched.attempt = a - 1 /\ a \in Nat /\ a - 1 \in Nat
        /\ watched' = [watched EXCEPT !.attempt = a, !.status = "RUNNING"]
        /\ saved' = saved /\ stored' = stored /\ watched \in WatchedRows
    BY SupervisorNumbers DEF WatchFromCheckpoint, Live, SupervisorInv
  <1>. DEFINE q == FromCheckpoint(saved.sup)
  <1>2. watch' = [watch EXCEPT ![a] = q]
    BY DEF WatchFromCheckpoint, FromCheckpoint
  <1>3. /\ saved.sup \in SupervisorStates /\ saved.key[1] \in Nat /\ saved.key[2] \in Nat
        /\ saved.pending \in BOOLEAN /\ saved.key[1] <= a - 1 /\ stored \in Transcripts
        /\ FollowsUpTo(saved.sup, stored, saved.key[1])
    BY <1>1 DEF SupervisorInv, SavedRows
  <1>4. /\ q \in WatchRows /\ q.said = stored /\ q.sup = saved.sup /\ q.directive = "continue"
        /\ q.pc \in {"resume", "loop"}
    BY <1>3, NothingIsFollowed DEF FromCheckpoint, Asleep, WatchRows, Directives
  <1>. HIDE DEF q
  <1>5. /\ watched' \in WatchedRows /\ watched'.attempt = a /\ Live(watched')
    BY <1>1 DEF WatchedRows, Live
  <1>6. FollowsUpTo(saved.sup, stored, a - 1)
    BY <1>1, <1>3, FollowsMonotone
  <1>7. WorkerInv(a, q, watched') /\ KeyInv(a, q, watched', saved')
    <2>1. WorkerInv(a, q, watched')
      BY <1>1, <1>4, <1>5, <1>6 DEF WorkerInv
    <2>2. saved'.key[1] # a
      BY <1>1, <1>3
    <2>. QED
      BY <2>1, <2>2 DEF KeyInv
  <1>8. watch' \in [Watches -> WatchRows] /\ watch'[a] = q
    BY <1>2, <1>4 DEF SupervisorInv
  <1>9. ASSUME NEW b \in Watches, b # a
        PROVE  WorkerInv(b, watch'[b], watched') /\ KeyInv(b, watch'[b], watched', saved')
    <2>1. watch'[b] = watch[b] /\ WorkerInv(b, watch[b], watched) /\ KeyInv(b, watch[b], watched, saved)
          /\ b \in Nat
      BY <1>2, <1>9, SupervisorNumbers DEF SupervisorInv
    <2>2. watch[b].directive = "terminate" => watch[b].pc \notin {"put", "row"}
      BY <1>1, <2>1 DEF WorkerInv
    <2>3. b > a => b > watched.attempt
      BY <1>1, <2>1
    <2>4. WorkerInv(b, watch'[b], watched')
      BY <1>5, <2>1, <2>2, <2>3 DEF WorkerInv
    <2>5. KeyInv(b, watch'[b], watched', saved')
      BY <1>1, <2>1 DEF KeyInv
    <2>. QED
      BY <2>4, <2>5
  <1>10. saved'.key[1] <= watched'.attempt
    BY <1>1, <1>3, <1>5
  <1>11. WorkerInv(a, watch'[a], watched') /\ KeyInv(a, watch'[a], watched', saved')
    BY <1>7, <1>8
  <1>12. FollowsUpTo(saved'.sup, stored', saved'.key[1])
    BY <1>1, <1>3
  <1>. QED
    BY <1>1, <1>5, <1>8, <1>9, <1>10, <1>11, <1>12 DEF SupervisorInv

\* The pending call answers, and the step it was of is behind the worker.
LEMMA ResumedCallAnswersStep ==
  ASSUME SupervisorInv, NEW a \in Watches, ResumedCallAnswers(a)
  PROVE  SupervisorInv'
  <1>1. watch[a].pc = "resume" /\ UNCHANGED <<watched, stored, saved>>
    BY DEF ResumedCallAnswers
  <1>2. /\ a \in Nat /\ watch[a] \in WatchRows /\ WorkerInv(a, watch[a], watched) /\ KeyInv(a, watch[a], watched, saved)
        /\ saved.key[2] \in Nat /\ watch[a].step \in Nat
    BY <1>1, AwakeHasClaimed DEF WatchRows
  <1>3. PICK q : q = [watch[a] EXCEPT !.pc = "loop", !.step = watch[a].step + 1, !.pending = FALSE]
    OBVIOUS
  <1>4. /\ q \in WatchRows /\ q.said = watch[a].said /\ q.sup = watch[a].sup /\ q.pc = "loop"
        /\ q.directive = watch[a].directive /\ q.step = watch[a].step + 1
        /\ watch' = [watch EXCEPT ![a] = q]
    BY <1>1, <1>2, <1>3 DEF ResumedCallAnswers, SupervisorInv, WatchRows
  <1>5. WorkerInv(a, q, watched')
    BY <1>1, <1>2, <1>4 DEF WorkerInv, Live
  <1>6. KeyInv(a, q, watched', saved')
    BY <1>1, <1>2, <1>4 DEF KeyInv, Live
  <1>. QED
    BY <1>1, <1>4, <1>5, <1>6, WatchStep DEF SupervisorInv, Live

\* The worker goes on to save: nothing of what it knows has changed.
LEMMA GoesToSave ==
  ASSUME SupervisorInv, NEW a \in Watches, NEW p \in BOOLEAN,
         watch' = [watch EXCEPT ![a].pc = "put", ![a].leaves = TRUE, ![a].pending = p],
         UNCHANGED <<stored, saved>>, watched' \in WatchedRows,
         watched'.attempt = watched.attempt,
         Live(watched') => Live(watched),
         watch[a].pc \in {"resume", "loop", "tools", "terminate"},
         watch[a].pc = "terminate" => ~Live(watched')
  PROVE  SupervisorInv'
  <1>1. /\ a \in Nat /\ a - 1 \in Nat /\ watch[a] \in WatchRows
        /\ WorkerInv(a, watch[a], watched) /\ KeyInv(a, watch[a], watched, saved)
        /\ saved.key[2] \in Nat /\ watch[a].step \in Nat /\ saved.sup \in SupervisorStates
        /\ watch[a].said \in Transcripts
    BY AwakeHasClaimed DEF WatchRows, SupervisorInv, SavedRows
  <1>2. PICK q : q = [watch[a] EXCEPT !.pc = "put", !.leaves = TRUE, !.pending = p]
    OBVIOUS
  <1>3. /\ q \in WatchRows /\ q.said = watch[a].said /\ q.sup = watch[a].sup /\ q.pc = "put"
        /\ q.directive = watch[a].directive /\ q.step = watch[a].step /\ q.leaves
        /\ watch' = [watch EXCEPT ![a] = q]
    BY <1>1, <1>2 DEF SupervisorInv, WatchRows
  <1>4. WorkerInv(a, q, watched')
    BY <1>1, <1>3 DEF WorkerInv
  <1>5. KeyInv(a, q, watched', saved')
    <2>1. FollowsUpTo(saved.sup, watch[a].said, a - 1) => FollowsUpTo(saved.sup, watch[a].said, a)
      BY <1>1, FollowsMonotone
    <2>. QED
      BY <1>1, <1>3, <2>1 DEF KeyInv
  <1>. QED
    BY <1>3, <1>4, <1>5, WatchStep

\* One more completion, observed and evaluated.
LEMMA SuperviseStep ==
  ASSUME SupervisorInv, NEW a \in Watches, Supervise(a)
  PROVE  SupervisorInv'
  <1>1. watch[a].pc = "loop" /\ UNCHANGED <<watched, stored, saved>>
    BY DEF Supervise
  <1>2. /\ a \in Nat /\ a - 1 \in Nat /\ a <= watched.attempt /\ watched.attempt \in Nat
        /\ watch[a] \in WatchRows /\ WorkerInv(a, watch[a], watched) /\ KeyInv(a, watch[a], watched, saved)
        /\ saved.key[2] \in Nat /\ saved.sup \in SupervisorStates
        /\ watch[a].said \in Transcripts /\ watch[a].sup \in SupervisorStates
    BY <1>1, AwakeHasClaimed DEF WatchRows, SupervisorInv, SavedRows
  <1>3. FollowsUpTo(watch[a].sup, watch[a].said, a - 1)
    BY <1>1, <1>2 DEF WorkerInv
  <1>4. PICK o \in Observations :
          watch' = [watch EXCEPT
            ![a].said = Completed(@, o.signature), ![a].sup = Evaluate(watch[a].sup, o).sup,
            ![a].directive = Evaluate(watch[a].sup, o).directive,
            ![a].pc = IF Evaluate(watch[a].sup, o).directive = "continue"
                      THEN "tools" ELSE "record"]
    BY DEF Supervise
  <1>5. PICK e, s, d, t : /\ e = Evaluate(watch[a].sup, o) /\ s = e.sup /\ d = e.directive
                          /\ t = Completed(watch[a].said, o.signature)
    OBVIOUS
  <1>6. /\ s \in SupervisorStates /\ d \in Directives
        /\ d # "terminate" => FollowsUpTo(s, t, a - 1)
        /\ d = "terminate" /\ t.signature # Silent =>
             t.times <= LoopThreshold + MaxEscalations + 1 + (a - 1)
    BY <1>2, <1>3, <1>5, EvaluateFollows
  <1>7. o.signature \in Proposals
    BY DEF Observations, Proposals
  <1>8. /\ t \in Transcripts
        /\ FollowsUpTo(saved.sup, watch[a].said, a - 1) => FollowsUpTo(saved.sup, t, a)
    <2>1. t \in Transcripts
      BY <1>2, <1>5, <1>7 DEF Completed, Transcripts
    <2>2. ASSUME FollowsUpTo(saved.sup, watch[a].said, a - 1) PROVE FollowsUpTo(saved.sup, t, a)
      <3>1. FollowsUpTo(saved.sup, t, (a - 1) + 1)
        BY <1>2, <1>5, <1>7, <2>2, CompletedFollows
      <3>2. (a - 1) + 1 = a
        BY <1>2
      <3>. QED
        BY <3>1, <3>2
    <2>. QED
      BY <2>1, <2>2
  <1>9. PICK p \in {"tools", "record"} : p = IF d = "continue" THEN "tools" ELSE "record"
    OBVIOUS
  <1>10. PICK q : q = [watch[a] EXCEPT !.said = t, !.sup = s, !.directive = d, !.pc = p]
    OBVIOUS
  <1>11. /\ q \in WatchRows /\ q.said = t /\ q.sup = s /\ q.directive = d /\ q.pc = p
         /\ q.step = watch[a].step
    BY <1>2, <1>6, <1>8, <1>9, <1>10 DEF WatchRows
  <1>12. watch' = [watch EXCEPT ![a] = q]
    <2>1. watch' = [watch EXCEPT ![a].said = t, ![a].sup = s, ![a].directive = d, ![a].pc = p]
      BY <1>4, <1>5, <1>9
    <2>. QED
      BY <1>2, <1>10, <2>1 DEF WatchRows
  <1>13. LoopThreshold + MaxEscalations + 1 + (a - 1) = LoopThreshold + MaxEscalations + a
    BY <1>2, SupervisorNumbers
  <1>14. WorkerInv(a, q, watched')
    BY <1>1, <1>2, <1>6, <1>9, <1>11, <1>13 DEF WorkerInv
  <1>15. KeyInv(a, q, watched', saved')
    BY <1>1, <1>2, <1>8, <1>9, <1>11 DEF KeyInv, Live
  <1>. QED
    BY <1>1, <1>11, <1>12, <1>14, <1>15, WatchStep DEF SupervisorInv, Live

\* Recording the directive decides where the worker goes on.
LEMMA RecordSupervisionStep ==
  ASSUME SupervisorInv, NEW a \in Watches, RecordSupervision(a)
  PROVE  SupervisorInv'
  <1>1. watch[a].pc = "record" /\ UNCHANGED <<watched, stored, saved>>
    BY DEF RecordSupervision
  <1>2. /\ watch[a] \in WatchRows /\ WorkerInv(a, watch[a], watched) /\ KeyInv(a, watch[a], watched, saved)
    BY <1>1, AwakeHasClaimed
  <1>3. PICK q : /\ q = IF watch[a].directive = "terminate" THEN [watch[a] EXCEPT !.pc = "terminate"]
                        ELSE [watch[a] EXCEPT !.pc = "tools", !.directive = "continue"]
                 /\ watch' = [watch EXCEPT ![a] = q]
    BY <1>2 DEF RecordSupervision, SupervisorInv
  <1>4. /\ q \in WatchRows /\ q.said = watch[a].said /\ q.sup = watch[a].sup
        /\ q.step = watch[a].step
        /\ \/ watch[a].directive = "terminate" /\ q.directive = "terminate" /\ q.pc = "terminate"
           \/ watch[a].directive # "terminate" /\ q.directive = "continue" /\ q.pc = "tools"
    BY <1>2, <1>3 DEF WatchRows, Directives
  <1>5. WorkerInv(a, q, watched')
    BY <1>1, <1>2, <1>4 DEF WorkerInv, Live
  <1>6. KeyInv(a, q, watched', saved')
    BY <1>1, <1>2, <1>4 DEF KeyInv, Live
  <1>. QED
    BY <1>1, <1>3, <1>4, <1>5, <1>6, WatchStep DEF SupervisorInv, Live

\* A completion without tool calls is seen by the window, and ends no repeats.
LEMMA NoToolTurnStep ==
  ASSUME SupervisorInv, NEW a \in Watches, NoToolTurn(a)
  PROVE  SupervisorInv'
  <1>1. /\ watch[a].pc = "tools" /\ watch[a].said.signature = Silent
        /\ UNCHANGED <<watched, stored, saved>>
    BY DEF NoToolTurn
  <1>2. /\ a \in Nat /\ a - 1 \in Nat /\ watch[a] \in WatchRows
        /\ WorkerInv(a, watch[a], watched) /\ KeyInv(a, watch[a], watched, saved)
        /\ watch[a].silent \in Nat
    BY <1>1, AwakeHasClaimed DEF WatchRows
  <1>3. CASE watch' = [watch EXCEPT ![a] = WatchOver]
    BY <1>1, <1>3, OverIsWell, WatchStep DEF SupervisorInv, Live
  <1>4. CASE watch' = [watch EXCEPT ![a].silent = @ + 1, ![a].pc = "loop"]
    <2>1. PICK n \in Nat : n = watch[a].silent + 1
      BY <1>2
    <2>2. PICK q : q = [watch[a] EXCEPT !.silent = n, !.pc = "loop"]
      OBVIOUS
    <2>3. /\ q \in WatchRows /\ q.said = watch[a].said /\ q.sup = watch[a].sup
          /\ q.step = watch[a].step /\ q.directive = watch[a].directive /\ q.pc = "loop"
      BY <1>2, <2>2 DEF WatchRows
    <2>4. watch' = [watch EXCEPT ![a] = q]
      BY <1>2, <1>4, <2>1, <2>2 DEF WatchRows
    <2>5. WorkerInv(a, q, watched')
      BY <1>1, <1>2, <2>3 DEF WorkerInv, Live
    <2>6. KeyInv(a, q, watched', saved')
      BY <1>1, <1>2, <2>3 DEF KeyInv, Live, FollowsUpTo
    <2>. QED
      BY <1>1, <2>3, <2>4, <2>5, <2>6, WatchStep DEF SupervisorInv, Live
  <1>. QED
    BY <1>3, <1>4 DEF NoToolTurn

\* The step is over.
LEMMA FinishWatchedStep ==
  ASSUME SupervisorInv, NEW a \in Watches, FinishStep(a)
  PROVE  SupervisorInv'
  <1>1. watch[a].pc = "tools" /\ UNCHANGED <<watched, stored, saved>>
    BY DEF FinishStep
  <1>2. /\ watch[a] \in WatchRows /\ WorkerInv(a, watch[a], watched) /\ KeyInv(a, watch[a], watched, saved)
        /\ saved.key[2] \in Nat /\ watch[a].step \in Nat
    BY <1>1, AwakeHasClaimed DEF WatchRows
  <1>3. PICK p \in {"put", "loop"} :
          watch' = [watch EXCEPT ![a].step = @ + 1, ![a].silent = 0, ![a].pc = p]
    BY DEF FinishStep
  <1>4. PICK q : q = [watch[a] EXCEPT !.step = watch[a].step + 1, !.silent = 0, !.pc = p]
    OBVIOUS
  <1>5. /\ q \in WatchRows /\ q.said = watch[a].said /\ q.sup = watch[a].sup /\ q.pc = p
        /\ q.step = watch[a].step + 1 /\ q.directive = watch[a].directive
        /\ watch' = [watch EXCEPT ![a] = q]
    <2>1. watch[a].step + 1 \in Nat
      BY <1>2
    <2>2. watch' = [watch EXCEPT ![a] = q]
      BY <1>3, <1>4
    <2>. QED
      BY <1>2, <1>4, <2>1, <2>2 DEF WatchRows
  <1>6. WorkerInv(a, q, watched')
    BY <1>1, <1>2, <1>5 DEF WorkerInv, Live
  <1>7. KeyInv(a, q, watched', saved')
    BY <1>1, <1>2, <1>5 DEF KeyInv, Live
  <1>. QED
    BY <1>1, <1>5, <1>6, <1>7, WatchStep DEF SupervisorInv, Live

\* A transcript put over the latest checkpoint's has one completion more than
\* its row knows of.
LEMMA PutTranscriptStep ==
  ASSUME SupervisorInv, NEW a \in Watches, PutTranscript(a)
  PROVE  SupervisorInv'
  <1>1. /\ watch[a].pc = "put" /\ UNCHANGED <<watched, saved>>
        /\ watch' = [watch EXCEPT ![a].pc = "row"]
        /\ stored' = IF saved.key = <<a, watch[a].step>> THEN watch[a].said ELSE stored
    BY DEF PutTranscript
  <1>2. /\ watch[a] \in WatchRows /\ WorkerInv(a, watch[a], watched) /\ KeyInv(a, watch[a], watched, saved)
        /\ saved.key[1] \in Nat /\ saved.key[2] \in Nat /\ watch[a].step \in Nat
        /\ watch[a].said \in Transcripts
    BY <1>1, AwakeHasClaimed DEF WatchRows
  <1>3. PICK q : q = [watch[a] EXCEPT !.pc = "row"]
    OBVIOUS
  <1>4. /\ q \in WatchRows /\ q.said = watch[a].said /\ q.sup = watch[a].sup /\ q.pc = "row"
        /\ q.step = watch[a].step /\ q.directive = watch[a].directive
        /\ q.leaves = watch[a].leaves
        /\ watch' = [watch EXCEPT ![a] = q]
    BY <1>1, <1>2, <1>3 DEF SupervisorInv, WatchRows
  <1>5. WorkerInv(a, q, watched)
    BY <1>1, <1>2, <1>4 DEF WorkerInv
  <1>6. KeyInv(a, q, watched, saved)
    BY <1>1, <1>2, <1>4 DEF KeyInv
  <1>7. Live(watched) => FollowsUpTo(saved.sup, stored', saved.key[1])
    <2>1. CASE saved.key = <<a, watch[a].step>>
      <3>1. saved.key[1] = a /\ saved.key[2] = watch[a].step
        BY <2>1
      <3>. QED
        BY <1>1, <1>2, <2>1, <3>1 DEF KeyInv
    <2>2. CASE saved.key # <<a, watch[a].step>>
      BY <1>1, <2>2 DEF SupervisorInv
    <2>. QED
      BY <2>1, <2>2
  <1>8. stored' \in Transcripts /\ watch' \in [Watches -> WatchRows]
    BY <1>1, <1>2, <1>4 DEF SupervisorInv
  <1>9. ASSUME NEW b \in Watches PROVE WorkerInv(b, watch'[b], watched) /\ KeyInv(b, watch'[b], watched, saved)
    BY <1>4, <1>5, <1>6 DEF SupervisorInv
  <1>10. ASSUME NEW b \in Watches PROVE WorkerInv(b, watch'[b], watched') /\ KeyInv(b, watch'[b], watched', saved')
    BY <1>1, <1>9 DEF WorkerInv, KeyInv, Live
  <1>. QED
    BY <1>1, <1>7, <1>8, <1>10 DEF SupervisorInv, Live

\* The row holds what its worker knows.
LEMMA InsertCheckpointRowStep ==
  ASSUME SupervisorInv, NEW a \in Watches, InsertCheckpointRow(a)
  PROVE  SupervisorInv'
  <1>1. /\ watch[a].pc = "row" /\ UNCHANGED watched /\ stored' = watch[a].said
        /\ saved' = [key |-> <<a, watch[a].step>>, sup |-> watch[a].sup,
                      pending |-> watch[a].pending]
    BY DEF InsertCheckpointRow
  <1>2. /\ a \in Nat /\ a - 1 \in Nat /\ a <= watched.attempt
        /\ watch[a] \in WatchRows /\ WorkerInv(a, watch[a], watched)
        /\ watch[a].step \in Nat /\ watch[a].pending \in BOOLEAN
        /\ watch[a].said \in Transcripts /\ watch[a].sup \in SupervisorStates
    BY <1>1, AwakeHasClaimed DEF WatchRows
  <1>3. /\ saved' \in SavedRows /\ saved'.key[1] = a /\ saved'.key[2] = watch[a].step
        /\ saved'.sup = watch[a].sup /\ stored' \in Transcripts
    BY <1>1, <1>2 DEF SavedRows
  <1>4. Live(watched) => /\ watch[a].directive # "terminate"
                /\ FollowsUpTo(watch[a].sup, watch[a].said, a - 1)
                /\ FollowsUpTo(watch[a].sup, watch[a].said, a)
    BY <1>1, <1>2, FollowsMonotone DEF WorkerInv
  <1>5. PICK q : /\ q = IF watch[a].leaves THEN WatchOver ELSE [watch[a] EXCEPT !.pc = "loop"]
                 /\ watch' = [watch EXCEPT ![a] = q]
    BY <1>2 DEF InsertCheckpointRow, SupervisorInv
  <1>6. q \in WatchRows /\ WorkerInv(a, q, watched') /\ KeyInv(a, q, watched', saved')
    <2>1. CASE q = WatchOver
      BY <1>1, <2>1, OverIsWell
    <2>2. CASE ~watch[a].leaves
      <3>1. /\ q \in WatchRows /\ q.said = watch[a].said /\ q.sup = watch[a].sup
            /\ q.step = watch[a].step /\ q.directive = watch[a].directive /\ q.pc = "loop"
        BY <1>2, <1>5, <2>2 DEF WatchRows
      <3>2. KeyInv(a, q, watched', saved')
        BY <1>1, <1>2, <1>3, <1>4, <3>1 DEF KeyInv, Live
      <3>3. watch[a].directive # "terminate"
        BY <1>1, <1>2, <2>2 DEF WorkerInv
      <3>4. WorkerInv(a, q, watched')
        BY <1>1, <1>2, <3>1, <3>3 DEF WorkerInv
      <3>. QED
        BY <3>1, <3>2, <3>4
    <2>. QED
      BY <1>5, <2>1, <2>2
  <1>7. watch' \in [Watches -> WatchRows] /\ watch'[a] = q
    BY <1>5, <1>6 DEF SupervisorInv
  <1>8. ASSUME NEW b \in Watches, b # a PROVE WorkerInv(b, watch'[b], watched') /\ KeyInv(b, watch'[b], watched', saved')
    <2>1. watch'[b] = watch[b] /\ WorkerInv(b, watch[b], watched) /\ saved'.key[1] # b
      BY <1>3, <1>5, <1>8 DEF SupervisorInv
    <2>. QED
      BY <1>1, <2>1 DEF WorkerInv, KeyInv, Live
  <1>9. WorkerInv(a, watch'[a], watched') /\ KeyInv(a, watch'[a], watched', saved')
    BY <1>6, <1>7
  <1>10. Live(watched') => FollowsUpTo(saved'.sup, stored', saved'.key[1])
    BY <1>1, <1>3, <1>4 DEF Live
  <1>11. saved'.key[1] <= watched'.attempt
    BY <1>1, <1>2, <1>3
  <1>. QED
    BY <1>1, <1>3, <1>7, <1>8, <1>9, <1>10, <1>11 DEF SupervisorInv

\* However its workers are lost and its checkpoints are torn or written late, a
\* supervisor that has not given up misses at most one completion per earlier
\* attempt of those that its transcript repeats (supervisor.ts superviseStep,
\* epoch.ts saveCheckpoint).
THEOREM SupervisorInductive == SupervisorSpec => []SupervisorInv
  <1>1. SupervisorInit => SupervisorInv
    <2>. SUFFICES ASSUME SupervisorInit PROVE SupervisorInv
      OBVIOUS
    <2>1. /\ Asleep \in WatchRows /\ Asleep.pc = "none" /\ Asleep.said = NothingSaid
          /\ Asleep.directive = "continue" /\ Asleep.sup = InitialSupervisorState
      BY NothingIsFollowed DEF Asleep, WatchRows, Directives
    <2>2. watch \in [Watches -> WatchRows] /\ \A a \in Watches : watch[a] = Asleep
      BY <2>1 DEF SupervisorInit
    <2>3. /\ saved \in SavedRows /\ saved.key[1] = 0 /\ saved.sup = InitialSupervisorState
          /\ stored = NothingSaid /\ watched \in WatchedRows /\ watched.attempt = 0
      BY NothingIsFollowed DEF SupervisorInit, SavedRows, WatchedRows
    <2>4. ASSUME NEW a \in Watches PROVE WorkerInv(a, watch[a], watched) /\ KeyInv(a, watch[a], watched, saved)
      BY <2>1, <2>2, NothingIsFollowed DEF WorkerInv, KeyInv
    <2>. QED
      BY <2>2, <2>3, <2>4, NothingIsFollowed DEF SupervisorInv
  <1>2. SupervisorInv /\ [SupervisorNext]_supervisorVars => SupervisorInv'
    <2>. SUFFICES ASSUME SupervisorInv, [SupervisorNext]_supervisorVars PROVE SupervisorInv'
      OBVIOUS
    <2>1. CASE UNCHANGED supervisorVars
      BY <2>1 DEF SupervisorInv, supervisorVars, WorkerInv, KeyInv, Live
    <2>2. CASE WatchedLeaves
      <3>1. /\ watched' = [watched EXCEPT !.status = "LEFT"] /\ UNCHANGED <<stored, saved, watch>>
        BY <2>2 DEF WatchedLeaves
      <3>2. watched' \in WatchedRows /\ watched'.attempt = watched.attempt /\ ~Live(watched')
        BY <3>1 DEF SupervisorInv, WatchedRows, Live
      <3>3. ASSUME NEW a \in Watches PROVE WorkerInv(a, watch'[a], watched') /\ KeyInv(a, watch'[a], watched', saved')
        BY <3>1, <3>2 DEF SupervisorInv, WorkerInv, KeyInv
      <3>. QED
        BY <3>1, <3>2, <3>3 DEF SupervisorInv
    <2>3. ASSUME NEW a \in Watches, WatchFromCheckpoint(a) PROVE SupervisorInv'
      BY <2>3, WatchFromCheckpointStep
    <2>4. ASSUME NEW a \in Watches, ResumedCallAnswers(a) PROVE SupervisorInv'
      BY <2>4, ResumedCallAnswersStep
    <2>5. ASSUME NEW a \in Watches, CallSuspends(a) PROVE SupervisorInv'
      <3>1. /\ watched' = [watched EXCEPT !.status = "WAITING"] /\ watched.status = "RUNNING"
            /\ watch' = [watch EXCEPT ![a].pc = "put", ![a].leaves = TRUE, ![a].pending = TRUE]
            /\ UNCHANGED <<stored, saved>> /\ watch[a].pc \in {"resume", "tools"}
        BY <2>5 DEF CallSuspends
      <3>2. watched' \in WatchedRows /\ watched'.attempt = watched.attempt /\ Live(watched)
        BY <3>1 DEF SupervisorInv, WatchedRows, Live
      <3>. QED
        BY <3>1, <3>2, GoesToSave
    <2>6. ASSUME NEW a \in Watches, BudgetRunsOut(a) PROVE SupervisorInv'
      <3>1. /\ UNCHANGED <<watched, stored, saved>> /\ watch[a].pc = "loop"
            /\ watch' = [watch EXCEPT ![a].pc = "put", ![a].leaves = TRUE]
        BY <2>6 DEF BudgetRunsOut, SaveAndGo
      <3>2. PICK p \in BOOLEAN : p = watch[a].pending
        BY <3>1, AwakeHasClaimed DEF WatchRows
      <3>3. watch' = [watch EXCEPT ![a].pc = "put", ![a].leaves = TRUE, ![a].pending = p]
        BY <3>1, <3>2 DEF SupervisorInv, WatchRows
      <3>. QED
        BY <3>1, <3>3, GoesToSave DEF SupervisorInv, Live
    <2>7. ASSUME NEW a \in Watches, Supervise(a) PROVE SupervisorInv'
      BY <2>7, SuperviseStep
    <2>8. ASSUME NEW a \in Watches, RecordSupervision(a) PROVE SupervisorInv'
      BY <2>8, RecordSupervisionStep
    <2>9. ASSUME NEW a \in Watches, TerminateStuck(a) PROVE SupervisorInv'
      <3>1. /\ watched' = [watched EXCEPT !.status = "FAILED"] /\ UNCHANGED <<stored, saved>>
            /\ watch[a].pc = "terminate"
            /\ watch' = [watch EXCEPT ![a].pc = "put", ![a].leaves = TRUE]
        BY <2>9 DEF TerminateStuck, SaveAndGo
      <3>2. PICK p \in BOOLEAN : p = watch[a].pending
        BY <3>1, AwakeHasClaimed DEF WatchRows
      <3>3. watch' = [watch EXCEPT ![a].pc = "put", ![a].leaves = TRUE, ![a].pending = p]
        BY <3>1, <3>2 DEF SupervisorInv, WatchRows
      <3>4. watched' \in WatchedRows /\ watched'.attempt = watched.attempt /\ ~Live(watched')
        BY <3>1 DEF SupervisorInv, WatchedRows, Live
      <3>. QED
        BY <3>1, <3>3, <3>4, GoesToSave
    <2>10. ASSUME NEW a \in Watches, NoToolTurn(a) PROVE SupervisorInv'
      BY <2>10, NoToolTurnStep
    <2>11. ASSUME NEW a \in Watches, ProgressUpdate(a) PROVE SupervisorInv'
      <3>1. PICK n \in 0..MostCompleted : /\ watched' = [watched EXCEPT !.completed = n]
                                          /\ UNCHANGED <<stored, saved, watch>>
        BY <2>11 DEF ProgressUpdate
      <3>2. n \in Nat
        BY SupervisorAssumption
      <3>3. /\ watched' \in WatchedRows /\ watched'.attempt = watched.attempt
            /\ watched'.status = watched.status
        BY <3>1, <3>2 DEF SupervisorInv, WatchedRows
      <3>4. ASSUME NEW b \in Watches PROVE WorkerInv(b, watch'[b], watched') /\ KeyInv(b, watch'[b], watched', saved')
        BY <3>1, <3>3 DEF SupervisorInv, WorkerInv, KeyInv, Live
      <3>. QED
        BY <3>1, <3>3, <3>4 DEF SupervisorInv, Live
    <2>12. ASSUME NEW a \in Watches, FinishStep(a) PROVE SupervisorInv'
      BY <2>12, FinishWatchedStep
    <2>13. ASSUME NEW a \in Watches, PutTranscript(a) PROVE SupervisorInv'
      BY <2>13, PutTranscriptStep
    <2>14. ASSUME NEW a \in Watches, InsertCheckpointRow(a) PROVE SupervisorInv'
      BY <2>14, InsertCheckpointRowStep
    <2>. QED
      BY <2>1, <2>2, <2>3, <2>4, <2>5, <2>6, <2>7, <2>8, <2>9, <2>10, <2>11, <2>12, <2>13, <2>14
         DEF SupervisorNext
  <1>. QED
    BY <1>1, <1>2, PTL DEF SupervisorSpec

\* "so a run can never spin forever burning budget" (supervisor.ts): for every
\* threshold, window, ladder and number of attempts, with workers lost between
\* any two writes of a checkpoint and stale ones that go on.
THEOREM RunsDoNotSpin == SupervisorSpec => []SpinningEnds
  <1>1. SupervisorInv => SpinningEnds
    <2>. SUFFICES ASSUME SupervisorInv, NEW a \in Watches, watch[a].said.signature # Silent
                  PROVE  /\ watch[a].said.times <= LoopThreshold + MaxEscalations + a
                         /\ watch[a].said.times = LoopThreshold + MaxEscalations + a =>
                              watch[a].directive = "terminate"
      BY DEF SpinningEnds
    <2>1. /\ watch[a] \in WatchRows /\ watch[a].said.times \in Nat /\ WorkerInv(a, watch[a], watched)
          /\ watch[a].sup.recoveries \in Nat /\ watch[a].sup.escalationLevel \in Nat
      BY DEF SupervisorInv, WatchRows, Transcripts, SupervisorStates
    <2>2. a \in Nat \ {0}
      BY SupervisorNumbers
    <2>3. CASE watch[a].directive # "terminate"
      <3>1. /\ watch[a].sup.recoveries <= MaxEscalations + 1
            /\ watch[a].said.times >= LoopThreshold + (a - 1) =>
                 watch[a].said.times + 1 <= LoopThreshold + watch[a].sup.recoveries + (a - 1)
        BY <2>1, <2>3, SupervisorNumbers DEF WorkerInv, FollowsUpTo
      <3>. QED
        BY <2>1, <2>2, <3>1, SupervisorNumbers
    <2>4. CASE watch[a].directive = "terminate"
      BY <2>1, <2>4 DEF WorkerInv
    <2>. QED
      BY <2>3, <2>4
  <1>. QED
    BY <1>1, SupervisorInductive, PTL

-----------------------------------------------------------------------------
(* Credentials, for any number of runs, grants, credentials and concurrent *)
(* releases: uses are counted once per logical action and keep to their    *)
(* limits, and a secret goes to the attempt that holds the run, under a    *)
(* grant and a credential that are not revoked.                            *)

Policies == [run : Nat, credential : Nat, delegated : BOOLEAN, forks : BOOLEAN,
             approval : BOOLEAN, max : Nat]
HolderRows == [running : BOOLEAN, attempt : Nat, lease : BOOLEAN]
SecretRows == [created : BOOLEAN, active : BOOLEAN, unexpired : BOOLEAN, max : Nat, uses : Nat]
GrantRows == [created : BOOLEAN, active : BOOLEAN, unexpired : BOOLEAN, policy : Policies,
              uses : Nat]
ReleaseRows == [pc : {"idle", "locking", "opening", "opened"}, run : LineageRuns \union {0},
                attempt : Nat, key : Keys \union {0}, approval : {0, 1},
                waiting : SUBSET Grants, half : Grants \union {0},
                candidates : SUBSET Grants, chosen : Grants \union {0}, again : BOOLEAN]
UseRows == [grant : Grants, run : LineageRuns, key : Keys \union {0}, approval : {0, 1}]

CredentialRows ==
  /\ holder \in [LineageRuns -> HolderRows]
  /\ secret \in [Secrets -> SecretRows]
  /\ grant \in [Grants -> GrantRows]
  /\ rowOf \in [Rows -> Releases \union {0}]
  /\ release \in [Releases -> ReleaseRows]
  /\ useOf \subseteq UseRows /\ IsFiniteSet(useOf)

\* A grant is of a credential that exists; receipts are of grants that reach their
\* run.
GrantsInv ==
  /\ \A g \in Grants : grant[g].created =>
       grant[g].policy \in GrantPolicies /\ secret[CredentialOf(g)].created
  /\ \A u \in useOf : grant[u.grant].created /\ BindsTo(grant[u.grant].policy, u.run)

\* A release has its run to itself, and with it the receipts of the run.
OwnsRun(x) ==
  /\ release[x].run \in LineageRuns
  /\ holder[release[x].run].running /\ holder[release[x].run].attempt = release[x].attempt
  /\ \A y \in Releases \ {x} : release[y].pc # "idle" => release[y].run # release[x].run

\* The grants a release works on reach its run, and the candidates among them are
\* locked and not revoked; every usable grant with a receipt of the run is there.
OwnsRows(x) ==
  LET e == release[x] IN
  /\ \A g \in e.waiting \union e.candidates : grant[g].created /\ BindsTo(grant[g].policy, e.run)
  /\ e.half # 0 => grant[e.half].created
  /\ \A g \in e.candidates :
       /\ grant[g].active /\ rowOf[<<g, 0>>] = x
       /\ g = e.half \/ (secret[CredentialOf(g)].active /\ rowOf[<<0, CredentialOf(g)>>] = x)
  /\ \A u \in useOf : u.run = e.run /\ Usable(u.grant) => u.grant \in e.waiting \union e.candidates

\* The choice: a grant with a receipt of the action, or one with a use left while
\* every other grant with such a receipt is spent.
Chose(x) ==
  LET e == release[x] IN
  /\ e.waiting = {} /\ e.half = 0
  /\ e.chosen \in e.candidates
  /\ e.again => Prior(x, e.chosen) # {}
  /\ ~e.again =>
       /\ HasUse(e.chosen)
       /\ \A u \in useOf : u.run = e.run /\ u.key = e.key => u.grant # e.chosen /\ Spent(u.grant)

CredentialsInv ==
  /\ CredentialRows
  /\ GrantsInv
  /\ UsesAreReceipts
  /\ \A x \in Releases : release[x].pc # "idle" => OwnsRun(x) /\ OwnsRows(x)
  /\ \A x \in Releases : release[x].pc \in {"opening", "opened"} => Chose(x)

\* What a step leaves to a release y it is not a step of.
LeavesRelease(y) ==
  /\ release'[y] = release[y]
  /\ \A g \in Grants : grant[g].created =>
       /\ grant'[g].created /\ grant'[g].policy = grant[g].policy
       /\ Usable(g)' => Usable(g)
  /\ \A g \in Grants : rowOf[<<g, 0>>] = y =>
       /\ rowOf'[<<g, 0>>] = y
       /\ grant'[g].active = grant[g].active /\ grant'[g].uses = grant[g].uses
  /\ \A c \in Secrets : rowOf[<<0, c>>] = y =>
       /\ rowOf'[<<0, c>>] = y
       /\ secret'[c].active = secret[c].active
       /\ secret'[c].uses = secret[c].uses
  /\ \A c \in Secrets : secret[c].created => secret'[c].max = secret[c].max
  /\ useOf \subseteq useOf'
  /\ \A u \in useOf' : u.run = release[y].run => u \in useOf

\* What grants may be created with.
LEMMA GrantCredentials ==
  GrantPolicies \subseteq Policies /\ \A p \in GrantPolicies : p.credential \in Secrets
  <1>1. Cardinality(Secrets) \in Nat
    BY CredentialsAssumption, FS_CardinalityType
  <1>2. Secrets \subseteq Nat
    BY <1>1, CredentialsAssumption
  <1>3. LineageRuns \subseteq Nat /\ UseLimits \subseteq Nat
    BY CredentialsAssumption
  <1>4. GrantPolicies \subseteq
          [run : LineageRuns, credential : Secrets, delegated : BOOLEAN, forks : BOOLEAN,
           approval : BOOLEAN, max : UseLimits]
    BY CredentialsAssumption
  <1>. QED
    BY <1>2, <1>3, <1>4 DEF Policies

\* A grant that is created is of a credential.
LEMMA GrantsAreOfSecrets ==
  ASSUME GrantsInv, NEW g \in Grants, grant[g].created
  PROVE  CredentialOf(g) \in Secrets /\ g # 0 /\ g \in Nat
  <1>1. CredentialOf(g) \in Secrets
    BY GrantCredentials DEF GrantsInv, CredentialOf
  <1>2. Grants = 1..Cardinality(Grants) /\ Cardinality(Grants) \in Nat
    BY CredentialsAssumption, FS_CardinalityType
  <1>. QED
    BY <1>1, <1>2

\* A release keeps its rows and its choice through the steps of others.
LEMMA OthersKeep ==
  ASSUME CredentialsInv, NEW y \in Releases, LeavesRelease(y), release[y].pc # "idle"
  PROVE  OwnsRows(y)' /\ (release'[y].pc \in {"opening", "opened"} => Chose(y)')
  <1>. DEFINE e == release[y]
  <1>1. OwnsRows(y) /\ (e.pc \in {"opening", "opened"} => Chose(y))
    BY DEF CredentialsInv
  <1>2. /\ e \in ReleaseRows /\ useOf \subseteq UseRows /\ GrantsInv
        /\ \A u \in useOf : u.grant \in Grants /\ grant[u.grant].created
    BY DEF CredentialsInv, CredentialRows, GrantsInv, UseRows
  <1>3. /\ e.waiting \subseteq Grants /\ e.candidates \subseteq Grants
        /\ e.half \in Grants \union {0}
    BY <1>2 DEF ReleaseRows
  <1>4. \A g \in Grants : grant[g].created =>
          /\ CredentialOf(g) \in Secrets /\ CredentialOf(g)' = CredentialOf(g)
          /\ grant'[g].policy = grant[g].policy
          /\ grant'[g].created
    BY GrantsAreOfSecrets DEF LeavesRelease, CredentialOf, CredentialsInv
  <1>5. ASSUME NEW g \in e.waiting \union e.candidates
        PROVE  grant'[g].created /\ BindsTo(grant'[g].policy, e.run)
    BY <1>1, <1>3, <1>4, <1>5 DEF OwnsRows
  <1>6. e.half # 0 => grant'[e.half].created
    BY <1>1, <1>3, <1>4 DEF OwnsRows
  <1>7. ASSUME NEW g \in e.candidates
        PROVE  /\ grant'[g].active /\ rowOf'[<<g, 0>>] = y
               /\ g = e.half \/ (secret'[CredentialOf(g)].active /\ rowOf'[<<0, CredentialOf(g)>>] = y)
               /\ CredentialOf(g)' = CredentialOf(g)
    BY <1>1, <1>3, <1>4, <1>7 DEF OwnsRows, LeavesRelease
  <1>8. ASSUME NEW u \in useOf', u.run = e.run, Usable(u.grant)'
        PROVE  u.grant \in e.waiting \union e.candidates
    BY <1>1, <1>2, <1>8 DEF OwnsRows, LeavesRelease
  <1>9. OwnsRows(y)'
    BY <1>5, <1>6, <1>7, <1>8 DEF OwnsRows, LeavesRelease
  <1>10. ASSUME e.pc \in {"opening", "opened"} PROVE Chose(y)'
    <2>1. Chose(y) /\ e.chosen \in Grants /\ grant[e.chosen].created
      BY <1>1, <1>3, <1>10 DEF Chose, OwnsRows
    <2>2. e.again => Prior(y, e.chosen)' # {}
      BY <2>1 DEF Chose, Prior, LeavesRelease
    <2>3. ~e.again => HasUse(e.chosen)'
      <3>1. /\ rowOf[<<e.chosen, 0>>] = y /\ rowOf[<<0, CredentialOf(e.chosen)>>] = y
            /\ CredentialOf(e.chosen) \in Secrets /\ CredentialOf(e.chosen)' = CredentialOf(e.chosen)
            /\ grant'[e.chosen].policy = grant[e.chosen].policy
        <4>1. e.chosen # 0
          BY <2>1, GrantsAreOfSecrets DEF CredentialsInv
        <4>2. e.chosen \in e.candidates /\ e.half = 0
          BY <2>1 DEF Chose
        <4>3. rowOf[<<e.chosen, 0>>] = y /\ rowOf[<<0, CredentialOf(e.chosen)>>] = y
          BY <1>1, <4>1, <4>2 DEF OwnsRows
        <4>4. grant[e.chosen].created /\ e.chosen \in Grants
          BY <2>1
        <4>. QED
          BY <1>4, <4>3, <4>4 DEF LeavesRelease
      <3>2. /\ grant'[e.chosen].uses = grant[e.chosen].uses
            /\ secret'[CredentialOf(e.chosen)].uses = secret[CredentialOf(e.chosen)].uses
            /\ secret'[CredentialOf(e.chosen)].max = secret[CredentialOf(e.chosen)].max
        BY <1>2, <2>1, <3>1 DEF LeavesRelease, GrantsInv
      <3>3. ~e.again => HasUse(e.chosen)
        BY <2>1 DEF Chose
      <3>. QED
        BY <3>1, <3>2, <3>3 DEF HasUse, Below, LeavesRelease
    <2>4. ASSUME ~e.again, NEW u \in useOf', u.run = e.run, u.key = e.key
          PROVE  u.grant # e.chosen /\ Spent(u.grant)'
      <3>1. u \in useOf /\ u.grant \in Grants /\ grant[u.grant].created
        BY <1>2, <2>4 DEF LeavesRelease
      <3>2. u.grant # e.chosen /\ Spent(u.grant)
        BY <2>1, <2>4, <3>1 DEF Chose
      <3>. QED
        BY <3>1, <3>2 DEF Spent, LeavesRelease
    <2>. QED
      BY <2>1, <2>2, <2>3, <2>4 DEF Chose, LeavesRelease
  <1>. QED
    BY <1>9, <1>10 DEF LeavesRelease

\* The receipts, as long as there is no new one.
LEMMA UsesStay ==
  ASSUME CredentialsInv, UNCHANGED useOf,
         \A g \in Grants : grant'[g].uses = grant[g].uses,
         \A g \in Grants : grant[g].created =>
           /\ grant'[g].created /\ grant'[g].policy = grant[g].policy
           /\ Usable(g)' => Usable(g),
         \A g \in Grants : grant'[g].created => grant'[g].policy \in GrantPolicies,
         \A c \in Secrets : secret'[c].uses = secret[c].uses,
         \A c \in Secrets : secret[c].created => secret'[c].max = secret[c].max,
         \A g \in Grants : grant'[g].created =>
           grant[g].created \/ secret[grant'[g].policy.credential].created,
         secret' \in [Secrets -> SecretRows], grant' \in [Grants -> GrantRows]
  PROVE  UsesAreReceipts'
  <1>0. /\ useOf \subseteq UseRows /\ GrantsInv /\ UsesAreReceipts
        /\ \A u \in useOf : u.grant \in Grants /\ grant[u.grant].created
    BY DEF CredentialsInv, CredentialRows, GrantsInv, UseRows
  <1>1. ASSUME NEW g \in Grants PROVE GrantUses(g)'
    <2>1. UsesUnder({g})' = UsesUnder({g})
      BY DEF UsesUnder
    <2>2. GrantUses(g)
      BY <1>0 DEF UsesAreReceipts
    <2>3. CASE grant[g].created
      BY <2>1, <2>2, <2>3 DEF GrantUses
    <2>4. CASE ~grant[g].created
      <3>1. UsesUnder({g}) = {}
        BY <1>0, <2>4 DEF UsesUnder
      <3>2. grant'[g].uses = 0
        BY <2>2, <3>1, FS_EmptySet DEF GrantUses
      <3>3. grant'[g].policy.max \in Nat
        BY DEF GrantRows, Policies
      <3>. QED
        BY <2>1, <2>2, <3>2, <3>3 DEF GrantUses
    <2>. QED
      BY <2>3, <2>4
  <1>2. ASSUME NEW c \in Secrets PROVE SecretUses(c)'
    <2>1. UsesUnder(GrantsOn(c))' = UsesUnder(GrantsOn(c))
      <3>1. \A u \in useOf : (u.grant \in GrantsOn(c))' <=> u.grant \in GrantsOn(c)
        BY <1>0 DEF GrantsOn, CredentialOf
      <3>. QED
        BY <3>1 DEF UsesUnder
    <2>2. SecretUses(c)
      BY <1>0 DEF UsesAreReceipts
    <2>3. CASE secret[c].created
      BY <2>1, <2>2, <2>3 DEF SecretUses
    <2>4. CASE ~secret[c].created
      <3>1. GrantsOn(c) = {}
        BY <1>0, <2>4 DEF GrantsOn, GrantsInv
      <3>2. UsesUnder(GrantsOn(c)) = {}
        BY <3>1 DEF UsesUnder
      <3>3. secret'[c].uses = 0 /\ secret'[c].max \in Nat
        BY <2>2, <3>2, FS_EmptySet DEF SecretUses, SecretRows
      <3>. QED
        BY <2>1, <2>2, <3>3 DEF SecretUses
    <2>. QED
      BY <2>3, <2>4
  <1>3. ASSUME NEW u \in useOf', NEW v \in useOf',
               u.run = v.run, u.key = v.key, u.grant # v.grant
        PROVE  (Spent(u.grant) \/ Spent(v.grant))'
    <2>1. Spent(u.grant) \/ Spent(v.grant)
      BY <1>0, <1>3 DEF UsesAreReceipts
    <2>2. \A g \in Grants : grant[g].created /\ Spent(g) => Spent(g)'
      BY DEF Spent
    <2>. QED
      BY <1>0, <1>3, <2>1, <2>2
  <1>. QED
    BY <1>1, <1>2, <1>3 DEF UsesAreReceipts

\* A step of the administration, or of a run: it uses no secret, no row that a
\* release has locked changes, and no run that a release works for.
Administers ==
  /\ UNCHANGED <<rowOf, release, useOf>>
  /\ holder' \in [LineageRuns -> HolderRows]
  /\ secret' \in [Secrets -> SecretRows]
  /\ grant' \in [Grants -> GrantRows]
  /\ \A r \in LineageRuns : InRelease(r) =>
       holder'[r].running = holder[r].running /\ holder'[r].attempt = holder[r].attempt
  /\ \A g \in Grants :
       /\ grant'[g].uses = grant[g].uses
       /\ grant[g].created => /\ grant'[g].created /\ grant'[g].policy = grant[g].policy
                              /\ Usable(g)' => Usable(g)
       /\ grant'[g].created => grant'[g].policy \in GrantPolicies
       /\ grant'[g].created => grant[g].created \/ secret[grant'[g].policy.credential].created
       /\ rowOf[<<g, 0>>] # 0 => grant'[g].active = grant[g].active
  /\ \A c \in Secrets :
       /\ secret'[c].uses = secret[c].uses
       /\ secret[c].created => secret'[c].created /\ secret'[c].max = secret[c].max
       /\ rowOf[<<0, c>>] # 0 => secret'[c].active = secret[c].active

\* Administration disturbs no release.
LEMMA AdminKeeps == ASSUME CredentialsInv, Administers PROVE CredentialsInv'
  <1>0. /\ CredentialRows /\ GrantsInv
        /\ useOf \subseteq UseRows
    BY DEF CredentialsInv, CredentialRows
  <1>1. CredentialRows'
    BY <1>0 DEF CredentialRows, Administers
  <1>2. GrantsInv'
    <2>1. ASSUME NEW g \in Grants, grant'[g].created
          PROVE  grant'[g].policy \in GrantPolicies /\ secret'[CredentialOf(g)'].created
      <3>1. grant'[g].policy \in GrantPolicies /\ grant'[g].policy.credential \in Secrets
        BY <2>1, GrantCredentials DEF Administers
      <3>2. secret[grant'[g].policy.credential].created
        BY <1>0, <2>1 DEF Administers, GrantsInv, CredentialOf
      <3>. QED
        BY <3>1, <3>2 DEF Administers, CredentialOf
    <2>2. ASSUME NEW u \in useOf'
          PROVE  grant'[u.grant].created /\ BindsTo(grant'[u.grant].policy, u.run)
      BY <1>0, <2>2 DEF Administers, GrantsInv, UseRows
    <2>. QED
      BY <2>1, <2>2 DEF GrantsInv, CredentialOf
  <1>3. UsesAreReceipts'
    BY UsesStay DEF Administers
  <1>4. ASSUME NEW y \in Releases, release'[y].pc # "idle" PROVE OwnsRun(y)'
    <2>1. OwnsRun(y) /\ release'[y] = release[y]
      BY <1>4 DEF CredentialsInv, Administers
    <2>2. InRelease(release[y].run)
      BY <1>4, <2>1 DEF InRelease
    <2>. QED
      BY <2>1, <2>2 DEF OwnsRun, Administers
  <1>5. ASSUME NEW y \in Releases PROVE LeavesRelease(y)
    <2>1. y # 0
      BY CredentialsAssumption
    <2>. QED
      BY <2>1 DEF Administers, LeavesRelease
  <1>6. ASSUME NEW y \in Releases, release'[y].pc # "idle"
        PROVE  OwnsRows(y)' /\ (release'[y].pc \in {"opening", "opened"} => Chose(y)')
    BY <1>5, <1>6, OthersKeep DEF Administers
  <1>. QED
    BY <1>1, <1>2, <1>3, <1>4, <1>6 DEF CredentialsInv

\* What the rows of the administration and of the runs do.
LEMMA AdminSteps ==
  ASSUME CredentialsInv,
         \/ \E g \in Grants : CreateCredentialGrant(g) \/ RevokeCredentialGrant(g) \/ GrantExpires(g)
         \/ \E c \in Secrets : CreateCredential(c) \/ RevokeCredential(c) \/ CredentialExpires(c)
         \/ \E r \in LineageRuns : LeaseExpires(r) \/ Replace(r) \/ CancelHolder(r)
  PROVE  CredentialsInv'
  <1>0. CredentialRows /\ GrantsInv
    BY DEF CredentialsInv
  <1>1. ASSUME NEW g \in Grants, CreateCredentialGrant(g) PROVE Administers
    <2>1. PICK p \in GrantPolicies :
            /\ secret[p.credential].created
            /\ grant' = [grant EXCEPT ![g].created = TRUE, ![g].policy = p]
      BY <1>1 DEF CreateCredentialGrant
    <2>2. p \in Policies
      BY GrantCredentials
    <2>3. grant' \in [Grants -> GrantRows]
      <3>1. grant \in [Grants -> GrantRows]
        BY <1>0 DEF CredentialRows
      <3>2. PICK row : row = [grant[g] EXCEPT !.created = TRUE, !.policy = p]
        OBVIOUS
      <3>3. row \in GrantRows
        BY <2>2, <3>1, <3>2 DEF GrantRows
      <3>4. grant' = [grant EXCEPT ![g] = row]
        BY <2>1, <3>2
      <3>. QED
        BY <3>1, <3>3, <3>4
    <2>4. /\ grant'[g].created /\ grant'[g].policy = p /\ grant'[g].uses = grant[g].uses
          /\ grant'[g].active = grant[g].active
          /\ \A h \in Grants \ {g} : grant'[h] = grant[h]
      BY <1>0, <2>1 DEF CredentialRows, GrantRows
    <2>5. ~grant[g].created /\ UNCHANGED <<holder, secret, useOf, rowOf, release>>
      BY <1>1 DEF CreateCredentialGrant
    <2>6. \A h \in Grants : grant[h].created => Usable(h)' = Usable(h)
      BY <2>4, <2>5 DEF Usable, CredentialOf
    <2>. QED
      BY <1>0, <2>1, <2>3, <2>4, <2>5, <2>6 DEF Administers, CredentialRows, GrantsInv
  <1>2. ASSUME NEW g \in Grants, RevokeCredentialGrant(g) PROVE Administers
    <2>1. /\ grant' \in [Grants -> GrantRows]
          /\ \A h \in Grants : /\ grant'[h].created = grant[h].created
                               /\ grant'[h].policy = grant[h].policy
                               /\ grant'[h].uses = grant[h].uses
                               /\ grant'[h].unexpired = grant[h].unexpired
                               /\ h # g => grant'[h] = grant[h]
                               /\ grant'[h].active => grant[h].active
      BY <1>0, <1>2 DEF RevokeCredentialGrant, CredentialRows, GrantRows
    <2>2. rowOf[<<g, 0>>] = 0 /\ UNCHANGED <<holder, secret, useOf, rowOf, release>>
      BY <1>2 DEF RevokeCredentialGrant
    <2>3. \A h \in Grants : Usable(h)' => Usable(h)
      BY <2>1, <2>2 DEF Usable, CredentialOf
    <2>. QED
      BY <1>0, <2>1, <2>2, <2>3 DEF Administers, CredentialRows, GrantsInv
  <1>3. ASSUME NEW g \in Grants, GrantExpires(g) PROVE Administers
    <2>1. /\ grant' \in [Grants -> GrantRows]
          /\ \A h \in Grants : /\ grant'[h].created = grant[h].created
                               /\ grant'[h].policy = grant[h].policy
                               /\ grant'[h].uses = grant[h].uses
                               /\ grant'[h].active = grant[h].active
                               /\ grant'[h].unexpired => grant[h].unexpired
      BY <1>0, <1>3 DEF GrantExpires, CredentialRows, GrantRows
    <2>2. UNCHANGED <<holder, secret, useOf, rowOf, release>>
      BY <1>3 DEF GrantExpires
    <2>3. \A h \in Grants : Usable(h)' => Usable(h)
      BY <2>1, <2>2 DEF Usable, CredentialOf
    <2>. QED
      BY <1>0, <2>1, <2>2, <2>3 DEF Administers, CredentialRows, GrantsInv
  <1>4. ASSUME NEW c \in Secrets, CreateCredential(c) PROVE Administers
    <2>1. PICK m \in UseLimits : secret' = [secret EXCEPT ![c].created = TRUE, ![c].max = m]
      BY <1>4 DEF CreateCredential
    <2>2. m \in Nat
      BY CredentialsAssumption
    <2>3. /\ secret' \in [Secrets -> SecretRows]
          /\ secret'[c].created
          /\ \A d \in Secrets : /\ secret'[d].uses = secret[d].uses
                                /\ secret'[d].active = secret[d].active
                                /\ secret'[d].unexpired = secret[d].unexpired
                                /\ d # c => secret'[d] = secret[d]
      BY <1>0, <2>1, <2>2 DEF CredentialRows, SecretRows
    <2>4. ~secret[c].created /\ UNCHANGED <<holder, grant, useOf, rowOf, release>>
      BY <1>4 DEF CreateCredential
    <2>5. \A g \in Grants : grant[g].created => CredentialOf(g) \in Secrets
      BY <1>0, GrantsAreOfSecrets
    <2>6. \A h \in Grants : grant[h].created => (Usable(h)' => Usable(h))
      BY <2>3, <2>4, <2>5 DEF Usable, CredentialOf
    <2>. QED
      BY <1>0, <2>3, <2>4, <2>6 DEF Administers, CredentialRows, GrantsInv
  <1>5. ASSUME NEW c \in Secrets, RevokeCredential(c) \/ CredentialExpires(c) PROVE Administers
    <2>1. /\ secret' \in [Secrets -> SecretRows]
          /\ \A d \in Secrets : /\ secret'[d].uses = secret[d].uses
                                /\ secret'[d].max = secret[d].max
                                /\ secret'[d].created = secret[d].created
                                /\ secret'[d].active => secret[d].active
                                /\ secret'[d].unexpired => secret[d].unexpired
                                /\ rowOf[<<0, d>>] # 0 => secret'[d].active = secret[d].active
      <3>1. CASE RevokeCredential(c)
        BY <1>0, <3>1 DEF RevokeCredential, CredentialRows, SecretRows
      <3>2. CASE CredentialExpires(c)
        BY <1>0, <3>2 DEF CredentialExpires, CredentialRows, SecretRows
      <3>. QED
        BY <1>5, <3>1, <3>2
    <2>2. UNCHANGED <<holder, grant, useOf, rowOf, release>>
      BY <1>5 DEF RevokeCredential, CredentialExpires
    <2>3. \A g \in Grants : grant[g].created => CredentialOf(g) \in Secrets
      BY <1>0, GrantsAreOfSecrets
    <2>4. \A h \in Grants : grant[h].created => (Usable(h)' => Usable(h))
      BY <2>1, <2>2, <2>3 DEF Usable, CredentialOf
    <2>. QED
      BY <1>0, <2>1, <2>2, <2>4 DEF Administers, CredentialRows, GrantsInv
  <1>6. ASSUME NEW r \in LineageRuns, LeaseExpires(r) \/ Replace(r) \/ CancelHolder(r)
        PROVE  Administers
    <2>1. UNCHANGED <<secret, grant, useOf, rowOf, release>>
      BY <1>6 DEF LeaseExpires, Replace, CancelHolder
    <2>2. /\ holder' \in [LineageRuns -> HolderRows]
          /\ \A s \in LineageRuns : InRelease(s) =>
               holder'[s].running = holder[s].running /\ holder'[s].attempt = holder[s].attempt
      <3>1. CASE LeaseExpires(r)
        BY <1>0, <3>1 DEF LeaseExpires, CredentialRows, HolderRows
      <3>2. CASE Replace(r)
        <4>1. holder[r] \in HolderRows /\ holder[r].attempt + 1 \in Nat
          BY <1>0 DEF CredentialRows, HolderRows
        <4>2. /\ \A s \in LineageRuns : InRelease(s) => s # r
              /\ holder' = [holder EXCEPT ![r].attempt = @ + 1, ![r].lease = TRUE]
          BY <3>2 DEF Replace
        <4>. QED
          BY <1>0, <4>1, <4>2 DEF CredentialRows, HolderRows
      <3>3. CASE CancelHolder(r)
        <4>1. /\ \A s \in LineageRuns : InRelease(s) => s # r
              /\ holder' = [holder EXCEPT ![r].running = FALSE]
          BY <3>3 DEF CancelHolder
        <4>. QED
          BY <1>0, <4>1 DEF CredentialRows, HolderRows
      <3>. QED
        BY <1>6, <3>1, <3>2, <3>3
    <2>3. \A h \in Grants : Usable(h)' = Usable(h)
      BY <2>1 DEF Usable, CredentialOf
    <2>. QED
      BY <1>0, <2>1, <2>2, <2>3 DEF Administers, CredentialRows, GrantsInv
  <1>. QED
    BY <1>1, <1>2, <1>3, <1>4, <1>5, <1>6, AdminKeeps

\* A step of the release x that writes no counter.
LEMMA ReleaseStep ==
  ASSUME CredentialsInv, NEW x \in Releases,
         UNCHANGED <<holder, secret, grant, useOf>>,
         release' \in [Releases -> ReleaseRows],
         rowOf' \in [Rows -> Releases \union {0}],
         \A y \in Releases \ {x} : release'[y] = release[y],
         \A row \in Rows, y \in Releases \ {x} : rowOf[row] = y => rowOf'[row] = y,
         release'[x].pc # "idle" => OwnsRun(x)' /\ OwnsRows(x)',
         release'[x].pc \in {"opening", "opened"} => Chose(x)'
  PROVE  CredentialsInv'
  <1>0. CredentialRows /\ GrantsInv
    BY DEF CredentialsInv
  <1>1. CredentialRows'
    BY <1>0 DEF CredentialRows
  <1>2. /\ \A g \in Grants : Usable(g)' = Usable(g)
        /\ GrantsInv'
    BY <1>0 DEF GrantsInv, CredentialOf, Usable
  <1>3. UsesAreReceipts'
    BY <1>0, <1>2, UsesStay DEF GrantsInv, CredentialRows
  <1>4. ASSUME NEW y \in Releases \ {x}, release'[y].pc # "idle" PROVE OwnsRun(y)'
    <2>1. OwnsRun(y) /\ release'[y] = release[y]
      BY <1>4 DEF CredentialsInv
    <2>2. release'[x].pc # "idle" => release'[x].run # release'[y].run
      BY <1>4 DEF OwnsRun
    <2>. QED
      BY <2>1, <2>2 DEF OwnsRun
  <1>5. ASSUME NEW y \in Releases \ {x}, release'[y].pc # "idle"
        PROVE  OwnsRows(y)' /\ (release'[y].pc \in {"opening", "opened"} => Chose(y)')
    <2>1. LeavesRelease(y)
      BY <1>2 DEF LeavesRelease, Rows
    <2>. QED
      BY <1>5, <2>1, OthersKeep
  <1>. QED
    BY <1>1, <1>2, <1>3, <1>4, <1>5 DEF CredentialsInv

\* A release begins: it has its run to itself and knows the usable grants.
LEMMA BeginReleaseStep ==
  ASSUME CredentialsInv, NEW x \in Releases, NEW r \in LineageRuns, NEW n \in 1..LeaseLimit,
         NEW k \in Keys, NEW p \in {0, 1}, BeginRelease(x, r, n, k, p)
  PROVE  CredentialsInv'
  <1>0. CredentialRows /\ GrantsInv
    BY DEF CredentialsInv
  <1>1. PICK e \in ReleaseRows :
          /\ e.pc = "locking" /\ e.run = r /\ e.attempt = n
          /\ e.waiting = {g \in Grants : Eligible(g, r)} /\ e.half = 0 /\ e.candidates = {}
          /\ release' = [release EXCEPT ![x] = e]
    <2>1. n \in Nat
      BY CredentialsAssumption
    <2>2. {g \in Grants : Eligible(g, r)} \in SUBSET Grants
      OBVIOUS
    <2>. QED
      BY <2>1, <2>2 DEF BeginRelease, NoRelease, ReleaseRows
  <1>2. /\ UNCHANGED <<holder, secret, grant, useOf, rowOf>>
        /\ release[x].pc = "idle" /\ ~InRelease(r) /\ Owner(r, n)
    BY DEF BeginRelease
  <1>3. release' \in [Releases -> ReleaseRows] /\ release'[x] = e
        /\ \A y \in Releases \ {x} : release'[y] = release[y]
    BY <1>0, <1>1 DEF CredentialRows
  <1>4. OwnsRun(x)'
    BY <1>1, <1>2, <1>3 DEF OwnsRun, InRelease, Owner
  <1>5. OwnsRows(x)'
    <2>1. \A g \in e.waiting : grant[g].created /\ BindsTo(grant[g].policy, r)
      BY <1>1 DEF Eligible, Usable
    <2>2. \A u \in useOf : u.run = r /\ Usable(u.grant) => u.grant \in e.waiting
      BY <1>0, <1>1 DEF Eligible, GrantsInv, CredentialRows, UseRows
    <2>3. \A g \in Grants : Usable(g)' = Usable(g)
      BY <1>2 DEF Usable, CredentialOf
    <2>4. \A u \in useOf : u.grant \in Grants
      BY <1>0 DEF CredentialRows, UseRows
    <2>. QED
      BY <1>1, <1>2, <1>3, <2>1, <2>2, <2>3, <2>4 DEF OwnsRows
  <1>. QED
    BY <1>0, <1>1, <1>2, <1>3, <1>4, <1>5, ReleaseStep DEF CredentialRows

\* A grant is locked, and is a candidate unless it has been revoked.
LEMMA LockGrantStep ==
  ASSUME CredentialsInv, NEW x \in Releases, LockGrantRow(x)
  PROVE  CredentialsInv'
  <1>0. /\ CredentialRows /\ GrantsInv
        /\ release[x].pc = "locking" => OwnsRun(x) /\ OwnsRows(x)
    BY DEF CredentialsInv
  <1>1. PICK g \in Grants :
          /\ g \in release[x].waiting
          /\ rowOf[<<g, 0>>] \in {0, x} /\ rowOf' = [rowOf EXCEPT ![<<g, 0>>] = x]
          /\ release' = [release EXCEPT
               ![x].waiting = @ \ {g}, ![x].half = g,
               ![x].candidates = IF grant[g].active THEN @ \union {g} ELSE @]
    BY DEF LockGrantRow, First
  <1>2. /\ release[x].pc = "locking" /\ release[x].half = 0
        /\ UNCHANGED <<holder, secret, grant, useOf>>
    BY DEF LockGrantRow
  <1>3. PICK r \in ReleaseRows : r = release[x]
    BY <1>0 DEF CredentialRows
  <1>4. /\ release' \in [Releases -> ReleaseRows]
        /\ release'[x].pc = "locking" /\ release'[x].run = r.run
        /\ release'[x].attempt = r.attempt
        /\ release'[x].waiting = r.waiting \ {g} /\ release'[x].half = g
        /\ release'[x].candidates = (IF grant[g].active THEN r.candidates \union {g} ELSE r.candidates)
        /\ \A y \in Releases \ {x} : release'[y] = release[y]
    <2>. DEFINE cs == IF grant[g].active THEN r.candidates \union {g} ELSE r.candidates
                q == [r EXCEPT !.waiting = r.waiting \ {g}, !.half = g, !.candidates = cs]
    <2>1. cs \in SUBSET Grants /\ r.waiting \ {g} \in SUBSET Grants /\ g \in Grants \union {0}
      BY <1>3 DEF ReleaseRows
    <2>. HIDE DEF cs
    <2>2. q \in ReleaseRows /\ q.pc = r.pc /\ q.run = r.run /\ q.attempt = r.attempt
          /\ q.waiting = r.waiting \ {g} /\ q.half = g /\ q.candidates = cs
      BY <2>1 DEF ReleaseRows
    <2>3. release' = [release EXCEPT ![x] = q]
      BY <1>0, <1>1, <1>3 DEF CredentialRows, ReleaseRows, cs
    <2>. HIDE DEF q
    <2>4. release' \in [Releases -> ReleaseRows] /\ release'[x] = q
          /\ \A y \in Releases \ {x} : release'[y] = release[y]
      BY <1>0, <2>2, <2>3 DEF CredentialRows
    <2>. QED
      BY <1>2, <1>3, <2>2, <2>4 DEF cs
  <1>5. <<g, 0>> \in Rows /\ x # 0 /\ g # 0
    BY CredentialsAssumption, <1>0, <1>1, <1>2, GrantsAreOfSecrets DEF Rows, OwnsRows
  <1>6. /\ rowOf' \in [Rows -> Releases \union {0}]
        /\ rowOf'[<<g, 0>>] = x
        /\ \A row \in Rows : rowOf[row] = x => rowOf'[row] = x
        /\ \A row \in Rows, y \in Releases \ {x} : rowOf[row] = y => rowOf'[row] = y
    BY <1>0, <1>1, <1>5, CredentialsAssumption DEF CredentialRows
  <1>7. OwnsRun(x)'
    BY <1>0, <1>2, <1>3, <1>4 DEF OwnsRun
  <1>8. OwnsRows(x)'
    <2>0. OwnsRows(x) /\ r.waiting \subseteq Grants /\ r.candidates \subseteq Grants
      BY <1>0, <1>2, <1>3 DEF ReleaseRows
    <2>1. ASSUME NEW h \in release'[x].waiting \union release'[x].candidates
          PROVE  grant[h].created /\ BindsTo(grant[h].policy, r.run) /\ h \in Grants
      BY <1>1, <1>3, <1>4, <2>0, <2>1 DEF OwnsRows
    <2>2. grant[g].created
      BY <1>1, <2>0 DEF OwnsRows
    <2>3. ASSUME NEW h \in release'[x].candidates
          PROVE  /\ grant[h].active /\ rowOf'[<<h, 0>>] = x
                 /\ h = g \/ (secret[CredentialOf(h)].active /\ rowOf'[<<0, CredentialOf(h)>>] = x)
      <3>1. CASE h = g
        <4>1. grant[g].active
          <5>1. ASSUME ~grant[g].active PROVE FALSE
            <6>1. g \in r.candidates
              BY <1>4, <2>3, <3>1, <5>1
            <6>. QED
              BY <1>3, <2>0, <5>1, <6>1 DEF OwnsRows
          <5>. QED
            BY <5>1
        <4>. QED
          BY <1>6, <3>1, <4>1
      <3>2. CASE h # g
        <4>1. h \in r.candidates /\ h \in Grants /\ h # 0
          BY <1>0, <1>4, <2>0, <2>1, <2>3, <3>2, GrantsAreOfSecrets
        <4>2. <<h, 0>> \in Rows /\ <<0, CredentialOf(h)>> \in Rows
          BY <1>0, <2>1, <2>3, GrantsAreOfSecrets DEF Rows
        <4>. QED
          BY <1>2, <1>3, <1>6, <2>0, <4>1, <4>2 DEF OwnsRows
      <3>. QED
        BY <3>1, <3>2
    <2>4. ASSUME NEW u \in useOf, u.run = r.run, Usable(u.grant)
          PROVE  u.grant \in release'[x].waiting \union release'[x].candidates
      <3>1. u.grant \in r.waiting \union r.candidates
        BY <1>3, <2>0, <2>4 DEF OwnsRows
      <3>2. grant[u.grant].active
        BY <2>4 DEF Usable
      <3>. QED
        BY <1>4, <3>1, <3>2
    <2>5. \A h \in Grants : Usable(h)' = Usable(h) /\ CredentialOf(h)' = CredentialOf(h)
      BY <1>2 DEF Usable, CredentialOf
    <2>6. \A u \in useOf : u.grant \in Grants
      BY <1>0 DEF CredentialRows, UseRows
    <2>. QED
      BY <1>2, <1>4, <2>1, <2>2, <2>3, <2>4, <2>5, <2>6 DEF OwnsRows
  <1>. QED
    BY <1>2, <1>4, <1>6, <1>7, <1>8, ReleaseStep

\* The credential of the grant is locked; its grants go if it has been revoked.
LEMMA LockCredentialStep ==
  ASSUME CredentialsInv, NEW x \in Releases, LockCredentialRow(x)
  PROVE  CredentialsInv'
  <1>0. /\ CredentialRows /\ GrantsInv
        /\ release[x].pc = "locking" => OwnsRun(x) /\ OwnsRows(x)
    BY DEF CredentialsInv
  <1>1. PICK r \in ReleaseRows : r = release[x]
    BY <1>0 DEF CredentialRows
  <1>2. /\ r.pc = "locking" /\ r.half \in Grants /\ r.half # 0
        /\ UNCHANGED <<holder, secret, grant, useOf>>
    BY <1>1 DEF LockCredentialRow, ReleaseRows
  <1>3. grant[r.half].created
    BY <1>0, <1>1, <1>2 DEF OwnsRows
  <1>4. PICK c \in Secrets : c = CredentialOf(r.half)
    BY <1>0, <1>2, <1>3, GrantsAreOfSecrets
  <1>5. /\ rowOf[<<0, c>>] \in {0, x} /\ rowOf' = [rowOf EXCEPT ![<<0, c>>] = x]
        /\ release' = [release EXCEPT
             ![x].half = 0,
             ![x].candidates = {g \in @ : CredentialOf(g) = c => secret[c].active}]
    BY <1>1, <1>4 DEF LockCredentialRow
  <1>6. /\ release' \in [Releases -> ReleaseRows]
        /\ release'[x].pc = "locking" /\ release'[x].run = r.run
        /\ release'[x].attempt = r.attempt
        /\ release'[x].waiting = r.waiting /\ release'[x].half = 0
        /\ release'[x].candidates = {g \in r.candidates : CredentialOf(g) = c => secret[c].active}
        /\ \A y \in Releases \ {x} : release'[y] = release[y]
    <2>. DEFINE cs == {g \in r.candidates : CredentialOf(g) = c => secret[c].active}
                q == [r EXCEPT !.half = 0, !.candidates = cs]
    <2>1. cs \in SUBSET Grants
      BY DEF ReleaseRows
    <2>5. release' = [release EXCEPT ![x].half = 0, ![x].candidates = cs]
      BY <1>1, <1>5
    <2>. HIDE DEF cs
    <2>2. q \in ReleaseRows /\ q.pc = r.pc /\ q.run = r.run /\ q.attempt = r.attempt
          /\ q.waiting = r.waiting /\ q.half = 0 /\ q.candidates = cs
      BY <2>1 DEF ReleaseRows
    <2>3. release' = [release EXCEPT ![x] = q]
      BY <1>0, <1>1, <2>5 DEF CredentialRows, ReleaseRows
    <2>. HIDE DEF q
    <2>4. release' \in [Releases -> ReleaseRows] /\ release'[x] = q
          /\ \A y \in Releases \ {x} : release'[y] = release[y]
      BY <1>0, <2>2, <2>3 DEF CredentialRows
    <2>. QED
      BY <1>2, <2>2, <2>4 DEF cs
  <1>7. <<0, c>> \in Rows /\ x # 0
    BY CredentialsAssumption DEF Rows
  <1>8. /\ rowOf' \in [Rows -> Releases \union {0}]
        /\ rowOf'[<<0, c>>] = x
        /\ \A row \in Rows : rowOf[row] = x => rowOf'[row] = x
        /\ \A row \in Rows, y \in Releases \ {x} : rowOf[row] = y => rowOf'[row] = y
    BY <1>0, <1>5, <1>7, CredentialsAssumption DEF CredentialRows
  <1>9. OwnsRun(x)'
    BY <1>0, <1>1, <1>2, <1>6 DEF OwnsRun
  <1>10. OwnsRows(x)'
    <2>0. OwnsRows(x) /\ r.waiting \subseteq Grants /\ r.candidates \subseteq Grants
      BY <1>0, <1>1, <1>2 DEF ReleaseRows
    <2>1. ASSUME NEW h \in r.waiting \union r.candidates
          PROVE  grant[h].created /\ BindsTo(grant[h].policy, r.run) /\ h \in Grants
      BY <1>1, <2>0, <2>1 DEF OwnsRows
    <2>3. ASSUME NEW h \in release'[x].candidates
          PROVE  /\ grant[h].active /\ rowOf'[<<h, 0>>] = x
                 /\ secret[CredentialOf(h)].active /\ rowOf'[<<0, CredentialOf(h)>>] = x
      <3>1. h \in r.candidates /\ (CredentialOf(h) = c => secret[c].active)
        BY <1>6, <2>3
      <3>2. <<h, 0>> \in Rows /\ <<0, CredentialOf(h)>> \in Rows
        BY <1>0, <2>1, <3>1, GrantsAreOfSecrets DEF Rows
      <3>3. /\ grant[h].active /\ rowOf[<<h, 0>>] = x
            /\ h = r.half \/ (secret[CredentialOf(h)].active /\ rowOf[<<0, CredentialOf(h)>>] = x)
        BY <1>1, <2>0, <3>1 DEF OwnsRows
      <3>4. CASE CredentialOf(h) = c
        BY <1>8, <3>1, <3>2, <3>3, <3>4
      <3>5. CASE CredentialOf(h) # c
        BY <1>4, <1>8, <3>2, <3>3, <3>5
      <3>. QED
        BY <3>4, <3>5
    <2>4. ASSUME NEW u \in useOf, u.run = r.run, Usable(u.grant)
          PROVE  u.grant \in r.waiting \union release'[x].candidates
      <3>1. u.grant \in r.waiting \union r.candidates
        BY <1>1, <2>0, <2>4 DEF OwnsRows
      <3>2. secret[CredentialOf(u.grant)].active
        BY <2>4 DEF Usable
      <3>. QED
        BY <1>6, <3>1, <3>2
    <2>5. \A h \in Grants : Usable(h)' = Usable(h) /\ CredentialOf(h)' = CredentialOf(h)
      BY <1>2 DEF Usable, CredentialOf
    <2>6. \A u \in useOf : u.grant \in Grants
      BY <1>0 DEF CredentialRows, UseRows
    <2>7. release'[x].candidates \subseteq r.candidates
      BY <1>6
    <2>. QED
      BY <1>2, <1>6, <2>0, <2>1, <2>3, <2>4, <2>5, <2>6, <2>7 DEF OwnsRows
  <1>. QED
    BY <1>2, <1>6, <1>8, <1>9, <1>10, ReleaseStep

\* What a release does with its rows: choose, look again, and give up.
LEMMA ChooseSteps ==
  ASSUME CredentialsInv, NEW x \in Releases,
         SelectGrant(x) \/ OpenWhileStillAuthorized(x)
  PROVE  CredentialsInv'
  <1>0. /\ CredentialRows /\ GrantsInv
        /\ release[x].pc # "idle" => OwnsRun(x) /\ OwnsRows(x)
        /\ release[x].pc \in {"opening", "opened"} => Chose(x)
    BY DEF CredentialsInv
  <1>1. PICK r \in ReleaseRows : r = release[x]
    BY <1>0 DEF CredentialRows
  <1>2. /\ r.pc # "idle" /\ UNCHANGED <<holder, secret, grant, useOf, rowOf>>
    BY <1>1 DEF SelectGrant, HasRows, OpenWhileStillAuthorized
  <1>3. PICK q \in ReleaseRows :
          /\ release' = [release EXCEPT ![x] = q]
          /\ q.pc \in {"opening", "opened"}
          /\ q.run = r.run /\ q.attempt = r.attempt /\ q.key = r.key
          /\ q.waiting = {} /\ q.half = 0
          /\ r.waiting = {} /\ r.half = 0 /\ q.candidates = r.candidates
          /\ q.chosen \in q.candidates
          /\ q.again => Prior(x, q.chosen) # {}
          /\ ~q.again =>
               /\ HasUse(q.chosen)
               /\ \A u \in useOf : u.run = r.run /\ u.key = r.key =>
                    u.grant # q.chosen /\ Spent(u.grant)
    <2>1. CASE SelectGrant(x)
      <3>. DEFINE approved == {g \in r.candidates : Approved(x, g)}
                  used == {g \in approved : Prior(x, g) # {}}
                  fresh == {g \in approved : HasUse(g)}
      <3>1. PICK g \in Grants : \/ g \in used /\ Choice(x, g, TRUE)
                                \/ used = {} /\ g \in fresh /\ Choice(x, g, FALSE)
        BY <1>1, <2>1 DEF SelectGrant, First
      <3>2. r.waiting = {} /\ r.half = 0
        BY <1>1, <2>1 DEF SelectGrant, HasRows
      <3>3. CASE g \in used /\ Choice(x, g, TRUE)
        <4>. DEFINE q == [r EXCEPT !.pc = "opening", !.chosen = g, !.again = TRUE]
        <4>1. q \in ReleaseRows
          BY DEF ReleaseRows
        <4>2. release' = [release EXCEPT ![x] = q]
          BY <1>0, <1>1, <3>3 DEF Choice, CredentialRows, ReleaseRows
        <4>3. /\ q.pc = "opening" /\ q.run = r.run /\ q.attempt = r.attempt /\ q.key = r.key
              /\ q.waiting = r.waiting /\ q.half = r.half /\ q.candidates = r.candidates
              /\ q.chosen = g /\ q.again
          BY DEF ReleaseRows
        <4>. HIDE DEF q
        <4>4. g \in r.candidates /\ Prior(x, g) # {}
          BY <3>3
        <4>. QED
          BY <3>2, <4>1, <4>2, <4>3, <4>4
      <3>4. CASE used = {} /\ g \in fresh /\ Choice(x, g, FALSE)
        <4>. DEFINE q == [r EXCEPT !.pc = "opening", !.chosen = g, !.again = FALSE]
        <4>1. q \in ReleaseRows
          BY DEF ReleaseRows
        <4>2. release' = [release EXCEPT ![x] = q]
          BY <1>0, <1>1, <3>4 DEF Choice, CredentialRows, ReleaseRows
        <4>3. /\ q.pc = "opening" /\ q.run = r.run /\ q.attempt = r.attempt /\ q.key = r.key
              /\ q.waiting = r.waiting /\ q.half = r.half /\ q.candidates = r.candidates
              /\ q.chosen = g /\ ~q.again
          BY DEF ReleaseRows
        <4>. HIDE DEF q
        <4>4. g \in r.candidates /\ Approved(x, g) /\ HasUse(g)
          BY <3>4
        <4>5. \A h \in r.candidates : Approved(x, h) => Prior(x, h) = {}
          BY <3>4
        <4>6. ASSUME NEW u \in useOf, u.run = r.run, u.key = r.key
              PROVE  u.grant # g /\ Spent(u.grant)
          <5>1. u \in Prior(x, u.grant)
            BY <1>1, <4>6 DEF Prior
          <5>2. ~(u.grant \in r.candidates /\ Approved(x, u.grant))
            BY <4>5, <5>1
          <5>3. u.grant \in r.candidates \/ ~Usable(u.grant)
            BY <1>0, <1>1, <1>2, <3>2, <4>6 DEF OwnsRows
          <5>4. Spent(u.grant)
            BY <5>2, <5>3 DEF Spent, Approved
          <5>. QED
            BY <4>4, <5>2, <5>4
        <4>. QED
          BY <3>2, <4>1, <4>2, <4>3, <4>4, <4>6
      <3>. QED
        BY <3>1, <3>3, <3>4
    <2>2. CASE OpenWhileStillAuthorized(x)
      <3>. DEFINE q == [r EXCEPT !.pc = "opened"]
      <3>1. q \in ReleaseRows
        BY DEF ReleaseRows
      <3>2. release' = [release EXCEPT ![x] = q]
        BY <1>0, <1>1, <2>2 DEF OpenWhileStillAuthorized, CredentialRows, ReleaseRows
      <3>3. /\ q.pc = "opened" /\ q.run = r.run /\ q.attempt = r.attempt /\ q.key = r.key
            /\ q.waiting = r.waiting /\ q.half = r.half /\ q.candidates = r.candidates
            /\ q.chosen = r.chosen /\ q.again = r.again
        BY DEF ReleaseRows
      <3>. HIDE DEF q
      <3>4. Chose(x)
        BY <1>0, <2>2 DEF OpenWhileStillAuthorized
      <3>. QED
        BY <1>1, <3>1, <3>2, <3>3, <3>4 DEF Chose
    <2>. QED
      BY <2>1, <2>2
  <1>4. /\ release' \in [Releases -> ReleaseRows] /\ release'[x] = q
        /\ \A y \in Releases \ {x} : release'[y] = release[y]
    BY <1>0, <1>3 DEF CredentialRows
  <1>5. OwnsRun(x)'
    BY <1>0, <1>1, <1>2, <1>3, <1>4 DEF OwnsRun
  <1>6. \A h \in Grants : Usable(h)' = Usable(h) /\ CredentialOf(h)' = CredentialOf(h)
    BY <1>2 DEF Usable, CredentialOf
  <1>7. \A u \in useOf : u.grant \in Grants
    BY <1>0 DEF CredentialRows, UseRows
  <1>8. OwnsRows(x)'
    <2>1. r.candidates \subseteq Grants
      BY DEF ReleaseRows
    <2>. QED
      BY <1>0, <1>1, <1>2, <1>3, <1>4, <1>6, <1>7, <2>1 DEF OwnsRows
  <1>9. Chose(x)'
    <2>1. q.again => Prior(x, q.chosen)' # {}
      BY <1>1, <1>2, <1>3, <1>4 DEF Prior
    <2>2. ~q.again => HasUse(q.chosen)'
      BY <1>2, <1>3, <1>4 DEF HasUse, CredentialOf
    <2>3. ASSUME ~q.again, NEW u \in useOf', u.run = q.run, u.key = q.key
          PROVE  u.grant # q.chosen /\ Spent(u.grant)'
      BY <1>2, <1>3, <1>6, <1>7, <2>3 DEF Spent
    <2>. QED
      BY <1>3, <1>4, <2>1, <2>2, <2>3 DEF Chose
  <1>. QED
    BY <1>0, <1>2, <1>4, <1>5, <1>8, <1>9, ReleaseStep DEF CredentialRows

\* A release ends without a trace.
LEMMA RollBackStep ==
  ASSUME CredentialsInv, NEW x \in Releases, RollBack(x)
  PROVE  CredentialsInv'
  <1>0. CredentialRows
    BY DEF CredentialsInv
  <1>1. NoRelease \in ReleaseRows /\ NoRelease.pc = "idle"
    BY DEF NoRelease, ReleaseRows
  <1>2. /\ release' = [release EXCEPT ![x] = NoRelease]
        /\ rowOf' = Unlocked(x)
        /\ UNCHANGED <<holder, secret, grant, useOf>>
    BY DEF RollBack
  <1>3. /\ release' \in [Releases -> ReleaseRows] /\ release'[x].pc = "idle"
        /\ \A y \in Releases \ {x} : release'[y] = release[y]
    BY <1>0, <1>1, <1>2 DEF CredentialRows
  <1>4. /\ rowOf' \in [Rows -> Releases \union {0}]
        /\ \A row \in Rows, y \in Releases \ {x} : rowOf[row] = y => rowOf'[row] = y
    BY <1>0, <1>2 DEF CredentialRows, Unlocked
  <1>. QED
    BY <1>2, <1>3, <1>4, ReleaseStep

\* Finitely many receipts are finitely many uses.
LEMMA UsesAreFinite ==
  ASSUME IsFiniteSet(useOf), NEW gs PROVE IsFiniteSet(UsesUnder(gs))
  <1>. DEFINE S == {v \in useOf : v.grant \in gs}
              f == [u \in S |-> <<u.grant, u.run, u.key>>]
  <1>1. IsFiniteSet(S)
    BY FS_Subset
  <1>2. f \in Surjection(S, UsesUnder(gs))
    BY DEF UsesUnder, Surjection
  <1>. QED
    BY <1>1, <1>2, FS_Surjection

\* One more receipt.
LEMMA OneMoreUse ==
  ASSUME CredentialRows, NEW u0 \in UseRows, useOf' = useOf \union {u0}, NEW gs
  PROVE  /\ u0.grant \notin gs => UsesUnder(gs)' = UsesUnder(gs)
         /\ (\E w \in useOf : w.grant = u0.grant /\ w.run = u0.run /\ w.key = u0.key) =>
              UsesUnder(gs)' = UsesUnder(gs)
         /\ u0.grant \in gs
              /\ (\A w \in useOf : w.run = u0.run /\ w.key = u0.key => w.grant # u0.grant) =>
              Cardinality(UsesUnder(gs)') = Cardinality(UsesUnder(gs)) + 1
  <1>0. IsFiniteSet(useOf) /\ useOf \subseteq UseRows
    BY DEF CredentialRows
  <1>. DEFINE t == <<u0.grant, u0.run, u0.key>>
  <1>1. u0.grant \notin gs => UsesUnder(gs)' = UsesUnder(gs)
    BY DEF UsesUnder
  <1>2. ASSUME NEW w \in useOf, w.grant = u0.grant, w.run = u0.run, w.key = u0.key
        PROVE  UsesUnder(gs)' = UsesUnder(gs)
    BY <1>2 DEF UsesUnder
  <1>3. ASSUME u0.grant \in gs,
               \A w \in useOf : w.run = u0.run /\ w.key = u0.key => w.grant # u0.grant
        PROVE  Cardinality(UsesUnder(gs)') = Cardinality(UsesUnder(gs)) + 1
    <2>1. UsesUnder(gs)' = UsesUnder(gs) \union {t}
      BY <1>3 DEF UsesUnder
    <2>2. t \notin UsesUnder(gs)
      BY <1>0, <1>3 DEF UsesUnder, UseRows
    <2>3. IsFiniteSet(UsesUnder(gs))
      BY <1>0, UsesAreFinite
    <2>. QED
      BY <2>1, <2>2, <2>3, FS_AddElement
  <1>. QED
    BY <1>1, <1>2, <1>3

\* A release commits: the receipt and the counters, or the receipt of a retry.
LEMMA CommitReleaseStep ==
  ASSUME CredentialsInv, NEW x \in Releases, CommitRelease(x)
  PROVE  CredentialsInv'
  <1>0. /\ CredentialRows /\ GrantsInv /\ UsesAreReceipts
        /\ useOf \subseteq UseRows /\ IsFiniteSet(useOf)
        /\ release[x].pc # "idle" => OwnsRun(x) /\ OwnsRows(x)
        /\ release[x].pc \in {"opening", "opened"} => Chose(x)
    BY DEF CredentialsInv, CredentialRows
  <1>1. PICK r \in ReleaseRows : r = release[x]
    BY <1>0 DEF CredentialRows
  <1>2. /\ r.pc = "opened" /\ OwnsRun(x) /\ OwnsRows(x) /\ Chose(x)
    BY <1>0, <1>1 DEF CommitRelease
  <1>3. PICK g \in Grants : g = r.chosen /\ g \in r.candidates /\ g # 0 /\ grant[g].created
    <2>1. r.chosen \in r.candidates /\ r.candidates \subseteq Grants
      BY <1>1, <1>2 DEF Chose, ReleaseRows
    <2>2. grant[r.chosen].created
      BY <1>1, <1>2, <2>1 DEF OwnsRows
    <2>. QED
      BY <1>0, <2>1, <2>2, GrantsAreOfSecrets
  <1>4. PICK c \in Secrets : c = CredentialOf(g)
    BY <1>0, <1>3, GrantsAreOfSecrets
  <1>5. /\ rowOf[<<g, 0>>] = x /\ rowOf[<<0, c>>] = x
        /\ BindsTo(grant[g].policy, r.run) /\ r.run \in LineageRuns
    BY <1>1, <1>2, <1>3, <1>4 DEF OwnsRows, Chose, OwnsRun
  <1>6. PICK u0 \in UseRows :
          /\ u0.grant = g /\ u0.run = r.run /\ u0.key = r.key
          /\ useOf' = useOf \union {u0}
    <2>. DEFINE u0 == [grant |-> g, run |-> r.run, key |-> r.key, approval |-> r.approval]
    <2>1. u0 \in UseRows
      BY <1>5 DEF UseRows, ReleaseRows
    <2>2. useOf' = useOf \union {u0}
      BY <1>1, <1>3 DEF CommitRelease
    <2>. QED
      BY <2>1, <2>2
  <1>7. /\ release' = [release EXCEPT ![x] = NoRelease] /\ rowOf' = Unlocked(x)
        /\ UNCHANGED holder
        /\ r.again => UNCHANGED <<grant, secret>>
        /\ ~r.again => /\ grant' = [grant EXCEPT ![g].uses = @ + 1]
                       /\ secret' = [secret EXCEPT ![c].uses = @ + 1]
    BY <1>1, <1>3, <1>4 DEF CommitRelease
  <1>8. /\ grant' \in [Grants -> GrantRows] /\ secret' \in [Secrets -> SecretRows]
        /\ \A h \in Grants : /\ grant'[h].created = grant[h].created
                             /\ grant'[h].policy = grant[h].policy
                             /\ grant'[h].active = grant[h].active
                             /\ grant'[h].unexpired = grant[h].unexpired
                             /\ h # g => grant'[h].uses = grant[h].uses
        /\ \A d \in Secrets : /\ secret'[d].created = secret[d].created
                              /\ secret'[d].max = secret[d].max
                              /\ secret'[d].active = secret[d].active
                              /\ secret'[d].unexpired = secret[d].unexpired
                              /\ d # c => secret'[d].uses = secret[d].uses
        /\ r.again => grant'[g].uses = grant[g].uses /\ secret'[c].uses = secret[c].uses
        /\ ~r.again => grant'[g].uses = grant[g].uses + 1 /\ secret'[c].uses = secret[c].uses + 1
    <2>1. CASE r.again
      BY <1>0, <1>7, <2>1 DEF CredentialRows
    <2>2. CASE ~r.again
      <3>1. /\ grant[g] \in GrantRows /\ secret[c] \in SecretRows
            /\ grant[g].uses + 1 \in Nat /\ secret[c].uses + 1 \in Nat
        BY <1>0 DEF CredentialRows, GrantRows, SecretRows
      <3>2. /\ grant' \in [Grants -> GrantRows]
            /\ \A h \in Grants : /\ grant'[h].created = grant[h].created
                                 /\ grant'[h].policy = grant[h].policy
                                 /\ grant'[h].active = grant[h].active
                                 /\ grant'[h].unexpired = grant[h].unexpired
                                 /\ h # g => grant'[h].uses = grant[h].uses
            /\ grant'[g].uses = grant[g].uses + 1
        BY <1>0, <1>7, <2>2, <3>1 DEF CredentialRows, GrantRows
      <3>3. /\ secret' \in [Secrets -> SecretRows]
            /\ \A d \in Secrets : /\ secret'[d].created = secret[d].created
                                  /\ secret'[d].max = secret[d].max
                                  /\ secret'[d].active = secret[d].active
                                  /\ secret'[d].unexpired = secret[d].unexpired
                                  /\ d # c => secret'[d].uses = secret[d].uses
            /\ secret'[c].uses = secret[c].uses + 1
        BY <1>0, <1>7, <2>2, <3>1 DEF CredentialRows, SecretRows
      <3>. QED
        BY <2>2, <3>2, <3>3
    <2>. QED
      BY <2>1, <2>2
  <1>9. /\ release' \in [Releases -> ReleaseRows] /\ release'[x].pc = "idle"
        /\ \A y \in Releases \ {x} : release'[y] = release[y]
    <2>1. NoRelease \in ReleaseRows /\ NoRelease.pc = "idle"
      BY DEF NoRelease, ReleaseRows
    <2>. QED
      BY <1>0, <1>7, <2>1 DEF CredentialRows
  <1>10. /\ rowOf' \in [Rows -> Releases \union {0}]
         /\ \A row \in Rows, y \in Releases \ {x} : rowOf[row] = y => rowOf'[row] = y
    BY <1>0, <1>7 DEF CredentialRows, Unlocked
  <1>11. CredentialRows'
    <2>1. IsFiniteSet(useOf')
      BY <1>0, <1>6, FS_AddElement
    <2>. QED
      BY <1>0, <1>6, <1>7, <1>8, <1>9, <1>10, <2>1 DEF CredentialRows
  <1>12. \A h \in Grants : /\ CredentialOf(h)' = CredentialOf(h)
                           /\ grant[h].created => CredentialOf(h) \in Secrets
                           /\ grant[h].created => Usable(h)' = Usable(h)
    <2>1. \A h \in Grants : /\ CredentialOf(h)' = CredentialOf(h)
                            /\ grant[h].created => CredentialOf(h) \in Secrets
      BY <1>0, <1>8, GrantsAreOfSecrets DEF CredentialOf
    <2>. QED
      BY <1>8, <2>1 DEF Usable
  <1>13. GrantsInv'
    <2>1. \A h \in Grants : grant'[h].created =>
            grant'[h].policy \in GrantPolicies /\ secret'[CredentialOf(h)'].created
      BY <1>0, <1>8, <1>12 DEF GrantsInv
    <2>2. ASSUME NEW u \in useOf'
          PROVE  grant'[u.grant].created /\ BindsTo(grant'[u.grant].policy, u.run)
      <3>1. CASE u = u0
        BY <1>3, <1>5, <1>6, <1>8, <3>1
      <3>2. CASE u \in useOf
        BY <1>0, <1>8, <3>2 DEF GrantsInv, UseRows
      <3>. QED
        BY <1>6, <2>2, <3>1, <3>2
    <2>. QED
      BY <2>1, <2>2 DEF GrantsInv
  <1>14. /\ r.again => \E w \in useOf : w.grant = g /\ w.run = r.run /\ w.key = r.key
         /\ ~r.again =>
              /\ grant[g].policy.max = 0 \/ grant[g].uses < grant[g].policy.max
              /\ secret[c].max = 0 \/ secret[c].uses < secret[c].max
              /\ \A w \in useOf : w.run = r.run /\ w.key = r.key => w.grant # g /\ Spent(w.grant)
    BY <1>1, <1>2, <1>3, <1>4 DEF Chose, Prior, HasUse, Below
  <1>15. ASSUME NEW h \in Grants PROVE GrantUses(h)'
    <2>1. GrantUses(h)
      BY <1>0 DEF UsesAreReceipts
    <2>2. CASE h # g
      <3>1. UsesUnder({h})' = UsesUnder({h})
        BY <1>0, <1>6, <2>2, OneMoreUse
      <3>. QED
        BY <1>8, <2>1, <2>2, <3>1 DEF GrantUses
    <2>3. CASE h = g /\ r.again
      <3>1. UsesUnder({h})' = UsesUnder({h})
        BY <1>0, <1>6, <1>14, <2>3, OneMoreUse
      <3>. QED
        BY <1>8, <2>1, <2>3, <3>1 DEF GrantUses
    <2>4. CASE h = g /\ ~r.again
      <3>1. Cardinality(UsesUnder({g})') = Cardinality(UsesUnder({g})) + 1
        BY <1>0, <1>6, <1>14, <2>4, OneMoreUse
      <3>2. grant[g].uses \in Nat /\ grant[g].policy.max \in Nat
        BY <1>0 DEF CredentialRows, GrantRows, Policies
      <3>. QED
        BY <1>8, <1>14, <2>1, <2>4, <3>1, <3>2 DEF GrantUses
    <2>. QED
      BY <2>2, <2>3, <2>4
  <1>16. ASSUME NEW d \in Secrets PROVE SecretUses(d)'
    <2>1. SecretUses(d)
      BY <1>0 DEF UsesAreReceipts
    <2>2. GrantsOn(d)' = GrantsOn(d) /\ (g \in GrantsOn(d) <=> d = c)
      BY <1>3, <1>4, <1>8, <1>12 DEF GrantsOn
    <2>. DEFINE gs == GrantsOn(d)
    <2>3. UsesUnder(GrantsOn(d))' = {<<u.grant, u.run, u.key>> : u \in {v \in useOf' : v.grant \in gs}}
      BY <2>2 DEF UsesUnder
    <2>4. PICK G : G = GrantsOn(d)
      OBVIOUS
    <2>5. UsesUnder(GrantsOn(d))' = UsesUnder(G)' /\ UsesUnder(GrantsOn(d)) = UsesUnder(G)
      BY <2>2, <2>4 DEF UsesUnder
    <2>6. CASE d # c
      <3>1. UsesUnder(G)' = UsesUnder(G)
        BY <1>0, <1>6, <2>2, <2>4, <2>6, OneMoreUse
      <3>. QED
        BY <1>8, <2>1, <2>5, <2>6, <3>1 DEF SecretUses
    <2>7. CASE d = c /\ r.again
      <3>1. UsesUnder(G)' = UsesUnder(G)
        BY <1>0, <1>6, <1>14, <2>7, OneMoreUse
      <3>. QED
        BY <1>8, <2>1, <2>5, <2>7, <3>1 DEF SecretUses
    <2>8. CASE d = c /\ ~r.again
      <3>1. Cardinality(UsesUnder(G)') = Cardinality(UsesUnder(G)) + 1
        BY <1>0, <1>6, <1>14, <2>2, <2>4, <2>8, OneMoreUse
      <3>2. secret[c].uses \in Nat /\ secret[c].max \in Nat
        BY <1>0 DEF CredentialRows, SecretRows
      <3>. QED
        BY <1>8, <1>14, <2>1, <2>5, <2>8, <3>1, <3>2 DEF SecretUses
    <2>. QED
      BY <2>6, <2>7, <2>8
  <1>17. \A h \in Grants : grant[h].created /\ Spent(h) => Spent(h)'
    BY <1>8, <1>12 DEF Spent
  <1>18. ASSUME NEW u \in useOf', NEW v \in useOf', u.run = v.run, u.key = v.key,
                u.grant # v.grant
         PROVE  Spent(u.grant)' \/ Spent(v.grant)'
    <2>1. \A w \in useOf : w.grant \in Grants /\ grant[w.grant].created
      BY <1>0 DEF GrantsInv, UseRows
    <2>2. ASSUME NEW w \in useOf, w.run = r.run, w.key = r.key, w.grant # g
          PROVE  Spent(g) \/ Spent(w.grant)
      BY <1>0, <1>14, <2>2 DEF UsesAreReceipts
    <2>3. CASE u \in useOf /\ v \in useOf
      BY <1>0, <1>17, <1>18, <2>1, <2>3 DEF UsesAreReceipts
    <2>4. CASE u = u0 /\ v \in useOf
      BY <1>3, <1>6, <1>17, <1>18, <2>1, <2>2, <2>4
    <2>5. CASE v = u0 /\ u \in useOf
      BY <1>3, <1>6, <1>17, <1>18, <2>1, <2>2, <2>5
    <2>. QED
      BY <1>6, <1>18, <2>3, <2>4, <2>5
  <1>19. UsesAreReceipts'
    BY <1>15, <1>16, <1>18 DEF UsesAreReceipts
  <1>20. ASSUME NEW y \in Releases \ {x}, release[y].pc # "idle" PROVE LeavesRelease(y)
    <2>1. <<g, 0>> \in Rows /\ <<0, c>> \in Rows
      BY DEF Rows
    <2>2. release[y].run # r.run
      BY <1>1, <1>2, <1>20 DEF OwnsRun
    <2>3. \A u \in useOf' : u.run = release[y].run => u \in useOf
      BY <1>6, <2>2
    <2>. QED
      BY <1>5, <1>6, <1>8, <1>9, <1>10, <1>12, <2>1, <2>3 DEF LeavesRelease, Rows
  <1>21. ASSUME NEW y \in Releases, release'[y].pc # "idle"
         PROVE  OwnsRun(y)' /\ OwnsRows(y)' /\ (release'[y].pc \in {"opening", "opened"} => Chose(y)')
    <2>1. y # x /\ release'[y] = release[y]
      BY <1>9, <1>21
    <2>2. OwnsRun(y)
      BY <1>21, <2>1 DEF CredentialsInv
    <2>3. OwnsRun(y)'
      BY <1>7, <1>9, <2>1, <2>2 DEF OwnsRun
    <2>. QED
      BY <1>20, <1>21, <2>1, <2>3, OthersKeep
  <1>. QED
    BY <1>11, <1>13, <1>19, <1>21 DEF CredentialsInv

\* The invariant of the release of secrets (credentials.ts).
THEOREM CredentialsInductive == CredentialsSpec => []CredentialsInv
  <1>1. CredentialsInit => CredentialsInv
    <2>. SUFFICES ASSUME CredentialsInit PROVE CredentialsInv
      OBVIOUS
    <2>1. CredentialRows
      <3>1. NoRelease \in ReleaseRows
        BY DEF NoRelease, ReleaseRows
      <3>2. NoPolicy \in Policies
        BY DEF NoPolicy, Policies
      <3>3. [running |-> TRUE, attempt |-> 1, lease |-> TRUE] \in HolderRows
        BY DEF HolderRows
      <3>4. [created |-> FALSE, active |-> TRUE, unexpired |-> TRUE, max |-> 0, uses |-> 0]
              \in SecretRows
        BY DEF SecretRows
      <3>5. [created |-> FALSE, active |-> TRUE, unexpired |-> TRUE, policy |-> NoPolicy,
             uses |-> 0] \in GrantRows
        BY <3>2 DEF GrantRows
      <3>. QED
        BY <3>1, <3>3, <3>4, <3>5, FS_EmptySet DEF CredentialsInit, CredentialRows
    <2>2. \A gs : UsesUnder(gs) = {}
      BY DEF CredentialsInit, UsesUnder
    <2>3. UsesAreReceipts
      BY <2>2, FS_EmptySet DEF CredentialsInit, UsesAreReceipts, GrantUses, SecretUses, NoPolicy
    <2>4. GrantsInv
      BY DEF CredentialsInit, GrantsInv
    <2>5. \A x \in Releases : release[x].pc = "idle"
      BY DEF CredentialsInit, NoRelease
    <2>. QED
      BY <2>1, <2>3, <2>4, <2>5 DEF CredentialsInv
  <1>2. ASSUME CredentialsInv, [CredentialsNext]_credentialVars PROVE CredentialsInv'
    <2>1. CASE UNCHANGED credentialVars
      <3>1. \A g \in Grants : Usable(g)' = Usable(g)
        BY <2>1 DEF credentialVars, Usable, CredentialOf
      <3>2. Administers
        BY <1>2, <2>1, <3>1 DEF Administers, credentialVars, CredentialsInv, CredentialRows,
           GrantsInv
      <3>. QED
        BY <1>2, <3>2, AdminKeeps
    <2>. QED
      BY <1>2, <2>1, AdminSteps, BeginReleaseStep, LockGrantStep, LockCredentialStep,
         ChooseSteps, RollBackStep, CommitReleaseStep DEF CredentialsNext
  <1>. QED
    BY <1>1, <1>2, PTL DEF CredentialsSpec

\* Uses are counted once per logical action and keep to their limits, for any
\* number of runs, grants, credentials and concurrent releases (credentials.ts:
\* 371-459).
THEOREM UsesAreCounted == CredentialsSpec => []UsesAreReceipts
  <1>1. CredentialsInv => UsesAreReceipts
    BY DEF CredentialsInv
  <1>. QED
    BY <1>1, CredentialsInductive, PTL

\* A secret is released to the attempt that holds the run, under a grant and a
\* credential that are not revoked (credentials.ts:331-369).
THEOREM OwnerGetsTheSecret == CredentialsSpec => ReleasedToTheOwnerOnly
  <1>. DEFINE Step ==
         \A x \in Releases :
           release[x].pc = "opened" /\ release'[x].pc = "idle" /\ useOf' # useOf =>
             Entitled(x)
  <1>1. ASSUME CredentialsInv, NEW x \in Releases, release[x].pc = "opened"
        PROVE  Entitled(x)
    <2>1. OwnsRun(x) /\ OwnsRows(x) /\ Chose(x)
      BY <1>1 DEF CredentialsInv
    <2>2. release[x] \in ReleaseRows
      BY <1>1 DEF CredentialsInv, CredentialRows
    <2>3. release[x].chosen \in Grants /\ grant[release[x].chosen].created
      BY <2>1, <2>2 DEF Chose, OwnsRows, ReleaseRows
    <2>4. release[x].chosen # 0
      BY <1>1, <2>3, GrantsAreOfSecrets DEF CredentialsInv
    <2>. QED
      BY <2>1, <2>4 DEF OwnsRun, OwnsRows, Chose, Entitled
  <1>2. ASSUME CredentialsInv, [CredentialsNext]_credentialVars PROVE [Step]_credentialVars
    BY <1>1, <1>2
  <1>. QED
    BY <1>2, CredentialsInductive, PTL DEF CredentialsSpec, ReleasedToTheOwnerOnly

=============================================================================
