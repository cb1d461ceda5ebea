----------------------------- MODULE Suspension -----------------------------
(***************************************************************************)
(* wait_for_signal: how a run is suspended for a named signal, woken by    *)
(* its delivery, and resumed from a checkpoint that carries the suspended  *)
(* call.                                                                   *)
(*                                                                         *)
(* The look at the ledger, the transition to WAITING_SIGNAL and the        *)
(* checkpoint are three transactions of an epoch that may be stale, and    *)
(* the delivery to a run without a session acts on a row it read before.   *)
(* A run is `managed' when it belongs to a session: its signals then come  *)
(* in as session events, which are accepted only by a run that waits.      *)
(*                                                                         *)
(* Of an epoch's transcript only the answered waits are kept.  What the    *)
(* model asks for next is arbitrary.  STARTING and VERIFYING are part of   *)
(* RUNNING here, and FAILED, COMPLETED and CANCELLED are DONE;             *)
(* RunLifecycle has them all.  ClaimLimit, MaxDeliveries and MaxWaits      *)
(* bound the model.                                                        *)
(***************************************************************************)
EXTENDS Naturals, Sequences

CONSTANTS
  Names,           \* the names of signals
  MaxAttempts,     \* cfg.MAX_ATTEMPTS
  ClaimLimit,      \* claims of the run; a run that waits may exceed MaxAttempts
  MaxDeliveries,   \* deliveries requested of the API
  MaxWaits         \* waits an epoch may have answered

ASSUME LimitsAssumption ==
  /\ MaxAttempts \in Nat \ {0}
  /\ ClaimLimit \in Nat
  /\ MaxDeliveries \in Nat
  /\ MaxWaits \in Nat
ASSUME NamesAssumption == "" \notin Names

Attempts == 1..ClaimLimit
Deliveries == 1..MaxDeliveries
NoName == ""
None == 0          \* no attempt, and the payload null

VARIABLES
  managed,      \* runs.managed_session_id is not null
  status,       \* runs.status
  awaited,      \* runs.awaited_signal
  attempt,      \* the newest attempt
  ledger,       \* the SignalReceived events that have a name, oldest first
  checkpoint,   \* the latest checkpoint: answered waits and the pending call
  pc,           \* where the epoch of each attempt is
  transcript,   \* the answered waits of each epoch
  pending,      \* the wait each epoch is dispatching, or has restored
  request       \* each delivery: what POST /signals has decided to do

runVars == <<status, awaited>>
epochVars == <<pc, transcript, pending>>
vars == <<managed, status, awaited, attempt, ledger, checkpoint, pc,
          transcript, pending, request>>

\* A delivery is not requested, or answered; or the run's row has been read
\* and the request will append its event, or append it and wake the run.
Idle == [state |-> "idle", name |-> NoName]
Answered == [state |-> "answered", name |-> NoName]

Init ==
  /\ managed \in BOOLEAN
  /\ status = "QUEUED"
  /\ awaited = NoName
  /\ attempt = None
  /\ ledger = <<>>
  /\ checkpoint = [answers |-> <<>>, call |-> NoName]
  /\ pc = [a \in Attempts |-> "none"]
  /\ transcript = [a \in Attempts |-> <<>>]
  /\ pending = [a \in Attempts |-> NoName]
  /\ request = [d \in Deliveries |-> Idle]

-----------------------------------------------------------------------------
\* The events waitForSignal looks for.
Received(n) == {i \in DOMAIN ledger : ledger[i].name = n}

\* The payload of the newest of them.
LatestPayload(n) ==
  ledger[CHOOSE i \in Received(n) : \A j \in Received(n) : j <= i].payload

Event(n, payload) == [name |-> n, payload |-> payload]

Goto(a, p) == pc' = [pc EXCEPT ![a] = p]

-----------------------------------------------------------------------------
(* The run's attempts.                                                     *)

claimRun ==
  /\ status = "QUEUED"
  /\ attempt < ClaimLimit
  /\ status' = "RUNNING"
  /\ attempt' = attempt + 1
  /\ Goto(attempt + 1, "claimed")
  /\ UNCHANGED <<managed, awaited, ledger, checkpoint, transcript, pending,
                 request>>

\* An attempt's lease is lost, or its epoch ends with an error; the epoch may
\* go on.  An attempt that has suspended the run is still open, so the run
\* may be a newer attempt's by now.
Requeue(a) ==
  /\ a <= attempt
  /\ status = "RUNNING"
  /\ status' = IF a >= MaxAttempts THEN "DONE" ELSE "QUEUED"
  /\ UNCHANGED <<managed, awaited, attempt, ledger, checkpoint, epochVars,
                 request>>

\* POST /runs/:id/cancel; it leaves awaited_signal as it is.
Cancel ==
  /\ status # "DONE"
  /\ status' = "DONE"
  /\ UNCHANGED <<managed, awaited, attempt, ledger, checkpoint, epochVars,
                 request>>

\* The worker is lost, or sees that its lease is.
Crash(a) ==
  /\ pc[a] \notin {"none", "gone"}
  /\ Goto(a, "gone")
  /\ UNCHANGED <<managed, runVars, attempt, ledger, checkpoint, transcript,
                 pending, request>>

-----------------------------------------------------------------------------
(* The epoch.                                                              *)

\* Faulty variant: the pending call is taken to be answered.
RestoreAnswered(a) ==
  /\ pc[a] = "claimed"
  /\ transcript' = [transcript EXCEPT ![a] =
       IF checkpoint.call = NoName THEN checkpoint.answers
       ELSE Append(checkpoint.answers, Event(checkpoint.call, None))]
  /\ Goto(a, "running")
  /\ UNCHANGED <<managed, runVars, attempt, ledger, checkpoint, pending,
                 request>>

\* latestCheckpoint, the transcript it refers to and the pending call.
Restore(a) ==
  /\ pc[a] = "claimed"
  /\ transcript' = [transcript EXCEPT ![a] = checkpoint.answers]
  /\ pending' = [pending EXCEPT ![a] = checkpoint.call]
  /\ Goto(a, "running")
  /\ UNCHANGED <<managed, runVars, attempt, ledger, checkpoint, request>>

\* waitForSignal, the look at the ledger: answer the wait with the newest
\* event of its name, or go on to suspend the run.
LookForSignal(a, n) ==
  /\ pc[a] = "running"
  /\ pending[a] \in {NoName, n}
  /\ Len(transcript[a]) < MaxWaits
  /\ \/ /\ Received(n) # {}
        /\ transcript' = [transcript EXCEPT ![a] =
             Append(transcript[a], Event(n, LatestPayload(n)))]
        /\ pending' = [pending EXCEPT ![a] = NoName]
        /\ UNCHANGED pc
     \/ /\ Received(n) = {}
        /\ pending' = [pending EXCEPT ![a] = n]
        /\ Goto(a, "suspending")
        /\ UNCHANGED transcript
  /\ UNCHANGED <<managed, runVars, attempt, ledger, checkpoint, request>>

\* Faulty variant: the pending call is saved before the run is suspended.
WaitAfterSave(a) ==
  /\ pc[a] = "suspending"
  /\ \/ /\ checkpoint.call # pending[a]
        /\ checkpoint' = [answers |-> transcript[a], call |-> pending[a]]
        /\ UNCHANGED <<runVars, pc>>
     \/ /\ checkpoint.call = pending[a] /\ status = "RUNNING"
        /\ status' = "WAITING_SIGNAL"
        /\ awaited' = pending[a]
        /\ Goto(a, "gone")
        /\ UNCHANGED checkpoint
  /\ UNCHANGED <<managed, attempt, ledger, transcript, pending, request>>

\* waitForSignal, the transition; it is refused when the run is not RUNNING.
WaitForSignal(a) ==
  /\ pc[a] = "suspending"
  /\ \/ /\ status = "RUNNING"
        /\ status' = "WAITING_SIGNAL"
        /\ awaited' = pending[a]
        /\ Goto(a, "saving")
     \/ /\ status # "RUNNING"
        /\ Goto(a, "gone")
        /\ UNCHANGED runVars
  /\ UNCHANGED <<managed, attempt, ledger, checkpoint, transcript, pending,
                 request>>

\* saveCheckpoint with the pending call, after the run was suspended.  Saving
\* is one step: a checkpoint whose event_seq was overtaken before it was
\* inserted is never the latest, as if its worker had been lost.
SavePending(a) ==
  /\ pc[a] = "saving"
  /\ checkpoint' = [answers |-> transcript[a], call |-> pending[a]]
  /\ Goto(a, "gone")
  /\ UNCHANGED <<managed, runVars, attempt, ledger, transcript, pending,
                 request>>

\* saveCheckpoint after every CHECKPOINT_EVERY_STEPS turns of the loop.
SavePeriodic(a) ==
  /\ pc[a] = "running"
  /\ pending[a] = NoName
  /\ checkpoint' = [answers |-> transcript[a], call |-> NoName]
  /\ UNCHANGED <<managed, runVars, attempt, ledger, epochVars, request>>

\* The epoch finishes the run, whoever's run it is by now.
Finish(a) ==
  /\ pc[a] = "running"
  /\ pending[a] = NoName
  /\ status' = IF status = "RUNNING" THEN "DONE" ELSE status
  /\ Goto(a, "gone")
  /\ UNCHANGED <<managed, awaited, attempt, ledger, checkpoint, transcript,
                 pending, request>>

-----------------------------------------------------------------------------
(* Delivery.                                                               *)

\* Faulty variant: the wake does not clear awaited_signal.
SignalCommitsUncleared(d) ==
  LET n == request[d].name IN
  /\ request[d].state \in {"wakes", "appends"}
  /\ request' = [request EXCEPT ![d] = Answered]
  /\ ledger' = Append(ledger, Event(n, d))
  /\ status' = IF request[d].state = "wakes" /\ status = "WAITING_SIGNAL"
               THEN "QUEUED" ELSE status
  /\ UNCHANGED <<managed, awaited, attempt, checkpoint, epochVars>>

\* POST /runs/:id/signals reads the run, without a lock ...
SignalReads(d, n) ==
  /\ ~managed
  /\ status # "DONE"
  /\ request[d] = Idle
  /\ request' = [request EXCEPT ![d] =
       [name |-> n,
        state |-> IF status = "WAITING_SIGNAL" /\ awaited = n
                  THEN "wakes" ELSE "appends"]]
  /\ UNCHANGED <<managed, runVars, attempt, ledger, checkpoint, epochVars>>

\* ... then appends the event, and wakes the run if the row it read was
\* waiting for it: by a second event, and not unless the run is waiting still.
SignalCommits(d) ==
  LET n == request[d].name IN
  /\ request[d].state \in {"wakes", "appends"}
  /\ request' = [request EXCEPT ![d] = Answered]
  /\ \/ /\ request[d].state = "appends"
        /\ ledger' = Append(ledger, Event(n, d))
        /\ UNCHANGED runVars
     \/ /\ request[d].state = "wakes"
        /\ status = "WAITING_SIGNAL"
        /\ ledger' = ledger \o <<Event(n, d), Event(n, None)>>
        /\ status' = "QUEUED"
        /\ awaited' = NoName
     \/ /\ request[d].state = "wakes"
        /\ status # "WAITING_SIGNAL"
        /\ UNCHANGED <<ledger, runVars>>
  /\ UNCHANGED <<managed, attempt, checkpoint, epochVars>>

\* Faulty variant: a session event is accepted whatever the run does.
receiveAnySessionEvent(d, n) ==
  /\ managed
  /\ request[d] = Idle
  /\ request' = [request EXCEPT ![d] = Answered]
  /\ ledger' = Append(ledger, Event(n, d))
  /\ IF status = "WAITING_SIGNAL" /\ awaited = n
     THEN status' = "QUEUED" /\ awaited' = NoName
     ELSE UNCHANGED runVars
  /\ UNCHANGED <<managed, attempt, checkpoint, epochVars>>

\* receiveManagedSessionEvent with a signal.  The session row is locked from
\* the look at the run to its transition, and a transition out of the wait
\* needs that lock too; a run that does not wait for the signal refuses it.
receiveManagedSessionEvent(d, n) ==
  /\ managed
  /\ request[d] = Idle
  /\ request' = [request EXCEPT ![d] = Answered]
  /\ \/ /\ status = "WAITING_SIGNAL" /\ awaited = n
        /\ ledger' = Append(ledger, Event(n, d))
        /\ status' = "QUEUED"
        /\ awaited' = NoName
     \/ /\ ~(status = "WAITING_SIGNAL" /\ awaited = n)
        /\ UNCHANGED <<ledger, runVars>>
  /\ UNCHANGED <<managed, attempt, checkpoint, epochVars>>

-----------------------------------------------------------------------------
Epoch(a) ==
  \/ Restore(a)
  \/ \E n \in Names : LookForSignal(a, n)
  \/ WaitForSignal(a) \/ SavePending(a) \/ SavePeriodic(a) \/ Finish(a)
  \/ Crash(a)

Deliver(d) ==
  \/ \E n \in Names : SignalReads(d, n) \/ receiveManagedSessionEvent(d, n)
  \/ SignalCommits(d)

Next ==
  \/ claimRun \/ Cancel
  \/ \E a \in Attempts : Requeue(a) \/ Epoch(a)
  \/ \E d \in Deliveries : Deliver(d)

Spec == Init /\ [][Next]_vars

-----------------------------------------------------------------------------
(* Properties.                                                             *)

AnswersOf(payloads) == [name : Names, payload : payloads]

\* The run's columns, its ledger, its latest checkpoint and the epochs' local
\* state (runs, run_events, checkpoints, createRealEpoch).
TypeOK ==
  /\ managed \in BOOLEAN
  /\ status \in {"QUEUED", "RUNNING", "WAITING_SIGNAL", "DONE"}
  /\ awaited \in Names \cup {NoName}
  /\ status = "WAITING_SIGNAL" => awaited # NoName
  /\ status \in {"QUEUED", "RUNNING"} => awaited = NoName
  /\ attempt \in Attempts \cup {None}
  /\ ledger \in Seq(AnswersOf(Deliveries \cup {None}))
  /\ checkpoint.answers \in Seq(AnswersOf(Deliveries \cup {None}))
  /\ checkpoint.call \in Names \cup {NoName}
  /\ pc \in [Attempts -> {"none", "claimed", "running", "suspending", "saving",
                          "gone"}]
  /\ transcript \in [Attempts -> Seq(AnswersOf(Deliveries \cup {None}))]
  /\ pending \in [Attempts -> Names \cup {NoName}]
  /\ request \in [Deliveries -> [name : Names \cup {NoName},
                                 state : {"idle", "wakes", "appends",
                                          "answered"}]]

\* No epoch, however it was restored, gets past a wait unless an event of the
\* ledger answered it: checkpoints written late by a stale worker, crashes and
\* replayed calls included (waitForSignal, saveCheckpoint, the resumed call).
WaitsAreAnsweredByEvents ==
  /\ \A a \in Attempts, i \in 1..MaxWaits :
       i \in DOMAIN transcript[a]
         => \E e \in DOMAIN ledger : ledger[e] = transcript[a][i]
  /\ \A i \in DOMAIN checkpoint.answers :
       \E e \in DOMAIN ledger : ledger[e] = checkpoint.answers[i]

\* The epoch that owns a session's run never suspends it for a signal that its
\* ledger already has: the look, the transition and the delivery do not miss
\* each other, because receiveManagedSessionEvent takes a signal only while the
\* run waits.  Of an epoch that is stale it is not true: it may look, see its
\* run taken over, woken by the signal and claimed, and then suspend it.
OwnerSuspendsForAMissingSignal ==
  [][\A a \in Attempts :
       managed /\ a = attempt /\ pc[a] = "suspending" /\ pc'[a] = "saving"
         => Received(pending[a]) = {}]_vars

\* In a session's run a wait is saved as the pending call of a checkpoint, and
\* an epoch resumes it, only if its signal is in the ledger or the run still
\* waits for it: "resume implies decision", except for an epoch that was
\* claimed before its predecessor suspended the run (saveCheckpoint, the
\* resumed call, receiveManagedSessionEvent).
PendingWaitIsAnsweredOrAwaited ==
  \A n \in Names :
    managed /\ \/ checkpoint.call = n
               \/ \E a \in Attempts : pc[a] = "running" /\ pending[a] = n
    => \/ Received(n) # {}
       \/ status = "WAITING_SIGNAL" /\ awaited = n
       \/ status = "DONE"

\* "If the signal was already delivered, return its payload" (waitForSignal):
\* every delivery here carries a payload, so no wait is answered by null.
DeliveredPayloadIsReturned ==
  \A a \in Attempts, i \in 1..MaxWaits :
    i \in DOMAIN transcript[a] => transcript[a][i].payload # None
=============================================================================
