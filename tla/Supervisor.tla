----------------------------- MODULE Supervisor -----------------------------
(***************************************************************************)
(* The semantic supervisor of a run: after every completion it looks at    *)
(* the last proposed actions and at the progress ledger, and answers a     *)
(* stuck run with a corrective note, a stronger model, and at last its     *)
(* failure.  Its state lives in the worker and in the checkpoint row, the  *)
(* completions it has judged in the transcript, an object of its own that  *)
(* is named after attempt and step and written before the row.             *)
(*                                                                         *)
(* Completed items are a count, an action's targets and the rest of the    *)
(* budget are what an observation says of them.  A transcript is the       *)
(* signature of its last completion and how often in a row it ends with    *)
(* it, and of the transcripts in the object store only the one that the    *)
(* latest checkpoint names is kept: no other is read.  The waits are one   *)
(* status, QUEUED is part of the status before it, and a run that          *)
(* completes, is cancelled or fails for another reason has LEFT.           *)
(* MaxWatches bounds the attempts.                                         *)
(***************************************************************************)
EXTENDS Naturals, Sequences, FiniteSets, SequencesExt

CONSTANTS
  Signatures,       \* what actionSignature makes of a completion's tool calls
  Silent,           \* the signature of a completion without tool calls
  MostCompleted,    \* completed items of the progress ledger, at most
  LoopThreshold,    \* SUPERVISOR_LOOP_THRESHOLD
  StagnationSteps,  \* SUPERVISOR_STAGNATION_STEPS
  Window,           \* SUPERVISOR_WINDOW
  MaxEscalations,   \* SUPERVISOR_MAX_ESCALATIONS
  WatchedSteps,     \* runs.max_steps
  SaveEvery,        \* CHECKPOINT_EVERY_STEPS
  SilentTurns,      \* MAX_NO_TOOL_TURNS
  MaxWatches

Watches == 1..MaxWatches

ASSUME SupervisorAssumption ==
  /\ Silent \notin Signatures
  /\ {LoopThreshold, StagnationSteps, MaxEscalations, WatchedSteps, SaveEvery, SilentTurns,
      MaxWatches} \subseteq Nat \ {0}
  /\ MostCompleted \in Nat
  /\ Window \in Nat /\ Window >= LoopThreshold /\ Window >= StagnationSteps

\* runs/<run>/transcripts/<attempt>-<step>.json; the first key is of no object.
TranscriptKeys == (0..MaxWatches) \X (0..WatchedSteps)

VARIABLES
  watched,   \* the run: its status, its newest attempt, its completed items
  saved,     \* the latest checkpoint: its transcript's key, which names its
             \* step, the supervisor's state, and whether a call is pending
  stored,    \* the transcript under that key
  watch      \* each worker's memory

supervisorVars == <<watched, saved, stored, watch>>

InitialSupervisorState ==
  [actionWindow |-> <<>>, progressWindow |-> <<>>, escalationLevel |-> 0, recoveries |-> 0]

NothingSaid == [signature |-> Silent, times |-> 0]

Asleep ==
  [pc |-> "none", step |-> 0, said |-> NothingSaid, sup |-> InitialSupervisorState,
   directive |-> "continue", silent |-> 0, pending |-> FALSE, leaves |-> FALSE]

WatchOver == [Asleep EXCEPT !.pc = "gone"]

SupervisorInit ==
  /\ watched = [status |-> "RUNNING", attempt |-> 0, completed |-> 0]
  /\ stored = NothingSaid
  /\ saved = [key |-> <<0, 0>>, sup |-> InitialSupervisorState, pending |-> FALSE]
  /\ watch = [a \in Watches |-> Asleep]
-----------------------------------------------------------------------------
(* One evaluation *)

KeepLast(s, n) == IF Len(s) > n THEN SubSeq(s, Len(s) - n + 1, Len(s)) ELSE s

TrailingRepeats(s) ==
  IF s = <<>> THEN 0
  ELSE Cardinality({i \in DOMAIN s : \A j \in i..Len(s) : s[j] = Last(s)})

Looping(actions) == Last(actions) # Silent /\ TrailingRepeats(actions) >= LoopThreshold

Stagnant(progress) ==
  Len(progress) >= StagnationSteps /\ TrailingRepeats(progress) >= StagnationSteps

\* The windows with this step's observation in them.
Observe(sup, o) ==
  [sup EXCEPT !.actionWindow = KeepLast(Append(@, o.signature), Window),
              !.progressWindow = KeepLast(Append(@, o.completed), Window)]

\* Work the ledger already records as completed is proposed again.
Stuck(sup, o) ==
  Looping(sup.actionWindow) \/ Stagnant(sup.progressWindow) \/ o.redoes

\* The ladder: a note, a stronger model per further stuck step, the end.
Ladder(sup, o) ==
  IF ~Stuck(sup, o)
  THEN [sup |-> [sup EXCEPT !.recoveries = 0],
        directive |-> IF o.low THEN "wind_down" ELSE "continue"]
  ELSE IF sup.escalationLevel >= MaxEscalations
  THEN [sup |-> sup, directive |-> "terminate"]
  ELSE IF sup.recoveries >= 1
  THEN [sup |-> [sup EXCEPT !.escalationLevel = @ + 1, !.recoveries = @ + 1],
        directive |-> "escalate"]
  ELSE [sup |-> [sup EXCEPT !.recoveries = @ + 1], directive |-> "recover"]

Evaluate(sup, o) == Ladder(Observe(sup, o), o)

\* What a completion and the freshly read ledger may show.  An action can only
\* repeat completed work when there is some.
Observations ==
  { o \in [signature : Signatures \cup {Silent}, completed : 0..MostCompleted,
           redoes : BOOLEAN, low : BOOLEAN] :
      o.redoes => o.signature # Silent /\ o.completed > 0 }
-----------------------------------------------------------------------------
(* The worker around it *)

\* A transcript with one more completion.
Completed(said, signature) ==
  [signature |-> signature,
   times |-> IF signature = said.signature THEN said.times + 1 ELSE 1]

\* The memory of a worker that has restored the latest checkpoint.
FromCheckpoint(sup) ==
  [Asleep EXCEPT !.pc = IF saved.pending THEN "resume" ELSE "loop", !.step = saved.key[2],
                 !.said = stored, !.sup = sup, !.pending = saved.pending]

\* Faulty variant: the supervisor state is not restored.
WatchFromScratch(a) ==
  /\ watched.status \in {"RUNNING", "WAITING"} /\ watched.attempt = a - 1
  /\ watched' = [watched EXCEPT !.attempt = a, !.status = "RUNNING"]
  /\ watch' = [watch EXCEPT ![a] = FromCheckpoint(InitialSupervisorState)]
  /\ UNCHANGED <<stored, saved>>

\* A claim, after a wait or after an attempt whose worker is dead or goes on
\* without the lease, and the restore from the latest checkpoint.
WatchFromCheckpoint(a) ==
  /\ watched.status \in {"RUNNING", "WAITING"} /\ watched.attempt = a - 1
  /\ watched' = [watched EXCEPT !.attempt = a, !.status = "RUNNING"]
  /\ watch' = [watch EXCEPT ![a] = FromCheckpoint(saved.sup)]
  /\ UNCHANGED <<stored, saved>>

\* The pending call is dispatched again.  It answers, and its step is over, ...
ResumedCallAnswers(a) ==
  /\ watch[a].pc = "resume"
  /\ watch' = [watch EXCEPT ![a].pc = "loop", ![a].step = @ + 1, ![a].pending = FALSE]
  /\ UNCHANGED <<watched, stored, saved>>

\* The worker saves what it has, and leaves.
SaveAndGo(a) == watch' = [watch EXCEPT ![a].pc = "put", ![a].leaves = TRUE]

\* ... or it suspends the run once more, as a call of the step does; the rest of
\* the step is dropped, and its number is not counted up.
CallSuspends(a) ==
  /\ \/ watch[a].pc = "resume"
     \/ watch[a].pc = "tools" /\ watch[a].said.signature # Silent
  /\ watched.status = "RUNNING"
  /\ watched' = [watched EXCEPT !.status = "WAITING"]
  /\ watch' = [watch EXCEPT ![a].pc = "put", ![a].leaves = TRUE, ![a].pending = TRUE]
  /\ UNCHANGED <<stored, saved>>

\* No step or no token is left.
BudgetRunsOut(a) ==
  /\ watch[a].pc = "loop"
  /\ SaveAndGo(a)
  /\ UNCHANGED <<watched, stored, saved>>

\* The invocation is settled under the fence and read back with the run;
\* the evaluation follows without a wait.
Supervise(a) ==
  /\ watch[a].pc = "loop" /\ watch[a].step < WatchedSteps
  /\ watched.attempt = a /\ watched.status = "RUNNING"
  /\ \E o \in Observations :
       /\ o.completed = watched.completed
       /\ LET e == Evaluate(watch[a].sup, o) IN
          watch' = [watch EXCEPT
            ![a].said = Completed(@, o.signature), ![a].sup = e.sup,
            ![a].directive = e.directive,
            ![a].pc = IF e.directive = "continue" THEN "tools" ELSE "record"]
  /\ UNCHANGED <<watched, stored, saved>>

\* recordSupervision: its events are of no consequence for the run.  It waits
\* for the database, and its transaction has no fence around it.
RecordSupervision(a) ==
  /\ watch[a].pc = "record"
  /\ watch' = [watch EXCEPT ![a] =
       IF @.directive = "terminate" THEN [@ EXCEPT !.pc = "terminate"]
       ELSE [@ EXCEPT !.pc = "tools", !.directive = "continue"]]
  /\ UNCHANGED <<watched, stored, saved>>

\* The transition to FAILED asks for a RUNNING run, whoever runs it; refused, it
\* throws.
TerminateStuck(a) ==
  /\ watch[a].pc = "terminate"
  /\ watched.status = "RUNNING"
  /\ watched' = [watched EXCEPT !.status = "FAILED"]
  /\ SaveAndGo(a)
  /\ UNCHANGED <<stored, saved>>

\* A completion without tool calls: the worker asks the model to go on, and
\* throws when that has happened too often.  The step goes on.
NoToolTurn(a) ==
  /\ watch[a].pc = "tools" /\ watch[a].said.signature = Silent
  /\ IF watch[a].silent + 1 >= SilentTurns
     THEN watch' = [watch EXCEPT ![a] = WatchOver]
     ELSE watch' = [watch EXCEPT ![a].silent = @ + 1, ![a].pc = "loop"]
  /\ UNCHANGED <<watched, stored, saved>>

\* The tool progress_update replaces the ledger.
ProgressUpdate(a) ==
  /\ watch[a].pc = "tools" /\ watch[a].said.signature # Silent
  /\ watched.attempt = a
  /\ \E n \in 0..MostCompleted : watched' = [watched EXCEPT !.completed = n]
  /\ UNCHANGED <<stored, saved, watch>>

\* Every call of the step is answered.  A checkpoint is due every SaveEvery steps.
FinishStep(a) ==
  /\ watch[a].pc = "tools" /\ watch[a].said.signature # Silent
  /\ watch' = [watch EXCEPT ![a].step = @ + 1, ![a].silent = 0,
       ![a].pc = IF (watch[a].step + 1) % SaveEvery = 0 THEN "put" ELSE "loop"]
  /\ UNCHANGED <<watched, stored, saved>>

\* saveCheckpoint puts the transcript, over the one an earlier checkpoint of the
\* same step has put there; then it takes the snapshot of the workspace ...
PutTranscript(a) ==
  /\ watch[a].pc = "put"
  /\ stored' = IF saved.key = <<a, watch[a].step>> THEN watch[a].said ELSE stored
  /\ watch' = [watch EXCEPT ![a].pc = "row"]
  /\ UNCHANGED <<watched, saved>>

\* ... and inserts the row.  It asks for no lease.
InsertCheckpointRow(a) ==
  /\ watch[a].pc = "row"
  /\ saved' = [key |-> <<a, watch[a].step>>, sup |-> watch[a].sup,
                pending |-> watch[a].pending]
  /\ stored' = watch[a].said
  /\ watch' = [watch EXCEPT ![a] = IF @.leaves THEN WatchOver ELSE [@ EXCEPT !.pc = "loop"]]
  /\ UNCHANGED watched

\* The run completes, fails for another reason, or is cancelled.
WatchedLeaves ==
  /\ watched.status \in {"RUNNING", "WAITING"}
  /\ watched' = [watched EXCEPT !.status = "LEFT"]
  /\ UNCHANGED <<stored, saved, watch>>

SupervisorNext ==
  \/ \E a \in Watches :
       \/ WatchFromCheckpoint(a) \/ ResumedCallAnswers(a) \/ CallSuspends(a)
       \/ BudgetRunsOut(a) \/ Supervise(a) \/ RecordSupervision(a)
       \/ TerminateStuck(a) \/ NoToolTurn(a) \/ ProgressUpdate(a) \/ FinishStep(a)
       \/ PutTranscript(a) \/ InsertCheckpointRow(a)
  \/ WatchedLeaves

SupervisorSpec == SupervisorInit /\ [][SupervisorNext]_supervisorVars
-----------------------------------------------------------------------------
(* Properties *)

\* The type of the state.  The windows never outgrow SUPERVISOR_WINDOW, and no
\* more recoveries are applied in a row than the ladder has rungs, although the
\* level survives a recovered run and every checkpoint (supervisor.ts evaluate).
SupervisorTypeOK ==
  /\ watched \in [status : {"RUNNING", "WAITING", "FAILED", "LEFT"}, attempt : 0..MaxWatches,
                  completed : 0..MostCompleted]
  /\ saved.key \in TranscriptKeys /\ stored.times \in Nat
  /\ \A a \in Watches : watch[a].step \in 0..WatchedSteps /\ watch[a].silent \in 0..SilentTurns
  /\ \A sup \in {watch[a].sup : a \in Watches} \cup {saved.sup} :
       /\ Len(sup.actionWindow) <= Window /\ Len(sup.progressWindow) <= Window
       /\ sup.escalationLevel \in 0..MaxEscalations
       /\ sup.recoveries \in 0..MaxEscalations + 1

\* "so a run can never spin forever burning budget" (supervisor.ts): a transcript
\* never holds the same action more often in a row than the detector, the rungs
\* of the ladder and the attempts of the run allow, and who has seen that much
\* gives the run up.  Each attempt adds one: a worker that suspends the run in
\* the middle of a step, and is lost between the transcript and the row of its
\* checkpoint, leaves its successor a completion that no window shows.
SpinningEnds ==
  \A a \in Watches :
    LET said == watch[a].said
        most == LoopThreshold + MaxEscalations + a IN
    said.signature # Silent =>
      /\ said.times <= most
      /\ said.times = most => watch[a].directive = "terminate"

=============================================================================
