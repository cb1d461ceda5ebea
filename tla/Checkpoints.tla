---------------------------- MODULE Checkpoints ----------------------------
(***************************************************************************)
(* What one run leaves for its next epoch: the transcript in the object    *)
(* store, the head of its workspace, the checkpoint row that ties them to  *)
(* a step and to a suspended call, and the artifacts of its completion.    *)
(*                                                                         *)
(* RunLifecycle says when an epoch may move the run; this module says what *)
(* it carries.  STARTING is part of RUNNING, the waits are one status, and *)
(* a cancellation is a run that fails.  The work of a call on the files of *)
(* the sandbox is the call itself: a workspace is the set of the calls     *)
(* whose work it holds.  A transcript keeps its calls and their answers;   *)
(* the texts and the user's turns are left out.  A checkpoint whose        *)
(* event_seq is overtaken before it is inserted is never the latest one    *)
(* and behaves as if its worker had been lost.  MaxClaims and FanOut bound *)
(* the model.                                                              *)
(***************************************************************************)
EXTENDS Naturals, Sequences, FiniteSets, SequencesExt

CONSTANTS
  MaxClaims,         \* attempts of the run
  MaxSteps,          \* runs.max_steps
  CheckpointEvery,   \* cfg.CHECKPOINT_EVERY_STEPS
  MaxNoToolTurns,    \* MAX_NO_TOOL_TURNS
  MaxVerifyRetries,  \* MAX_VERIFY_RETRIES
  FanOut             \* tool calls of one completion

Epochs == 1..MaxClaims

ASSUME CheckpointsAssumption ==
  /\ {MaxClaims, MaxSteps, CheckpointEvery, MaxNoToolTurns, FanOut}
       \subseteq Nat \ {0}
  /\ MaxVerifyRetries \in Nat

VARIABLES
  runRow,     \* status, and the number of the newest attempt
  object,     \* the transcripts in the object store, by key
  latest,     \* the latest checkpoint of the run
  head,       \* the workspace's head revision: its work, and who made it
  output,     \* contents of outputs in the object store: their key is their digest
  artifacts,  \* rows of artifacts, with the content they stand for
  epoch,      \* each worker's memory
  late        \* a replaced worker has saved

checkpointVars == <<runRow, object, latest, head, output, artifacts, epoch, late>>

NoCall == <<0, 0>>
NoRevision == [work |-> {}, by |-> 0]
Ask(c) == [kind |-> "ask", call |-> c]
Tool(c) == [kind |-> "tool", call |-> c]

\* The checkpoint of a run that has none: step 0, or the source a fork resumes.
\* Key <<0, 0>> is the transcript of the fork's source.
NoCheckpoint == [key |-> <<0, 0>>, step |-> 0, pending |-> NoCall, work |-> {},
                 schema |-> "known"]
SourceCall == <<0, 1>>
ForkSources ==
  { [NoCheckpoint EXCEPT !.step = s, !.pending = c] : s \in {0, 1}, c \in {NoCall, SourceCall} }
    \union { [NoCheckpoint EXCEPT !.schema = "newer"] }

EpochIdle == [pc |-> "none", step |-> 0, said |-> <<>>, work |-> {}, todo |-> <<>>,
              pending |-> NoCall, turns |-> 0, retries |-> 0, calls |-> 0,
              leaves |-> FALSE]

CheckpointsInit ==
  /\ runRow = [status |-> "QUEUED", attempt |-> 0]
  /\ \E s \in ForkSources :
       /\ latest = s
       /\ object = [k \in {<<0, 0>>} |->
            IF s.pending = NoCall THEN <<>> ELSE <<Ask(SourceCall)>>]
  /\ head = NoRevision
  /\ output = {}
  /\ artifacts = {}
  /\ epoch = [a \in Epochs |-> EpochIdle]
  /\ late = FALSE
-----------------------------------------------------------------------------
(* The attempts of the run *)

Executing == {"RUNNING", "VERIFYING"}
Owns(a) == runRow.attempt = a /\ runRow.status = "RUNNING"
At(a, p) == epoch[a].pc = p
Moves(from, to) == runRow.status = from /\ runRow' = [runRow EXCEPT !.status = to]
StoredVars == <<object, latest, head, output, artifacts, late>>

GoOn(a, p) == epoch' = [epoch EXCEPT ![a].pc = p]
Gone(a) == epoch' = [epoch EXCEPT ![a] = [EpochIdle EXCEPT !.pc = "gone"]]

\* claimRun; the worker calls realEpoch.
Claim(a) ==
  /\ runRow.status = "QUEUED" /\ a = runRow.attempt + 1
  /\ runRow' = [status |-> "RUNNING", attempt |-> a]
  /\ GoOn(a, "started")
  /\ UNCHANGED StoredVars

\* The lease has expired, or the worker has left: the run is queued again.
RequeueEpoch ==
  /\ runRow.status \in Executing
  /\ runRow' = [runRow EXCEPT !.status = "QUEUED"]
  /\ UNCHANGED <<StoredVars, epoch>>

\* What the run waits for has come.
Wake == Moves("WAITING", "QUEUED") /\ UNCHANGED <<StoredVars, epoch>>

\* The worker dies, its provider or its database throws, or a transition is
\* refused; also `return "lease_lost"' of an epoch that is no longer the owner.
Leave(a) ==
  /\ epoch[a].pc \notin {"none", "gone"}
  /\ Gone(a)
  /\ UNCHANGED <<runRow, StoredVars>>
-----------------------------------------------------------------------------
(* Restore *)

\* Schema version 1 or 2; of any other the epoch throws.
decodeCheckpointEnvelope(c) == c.schema = "known"

\* latestCheckpoint, or that of the fork's source; the transcript it names.
ReadCheckpoint(a) ==
  /\ At(a, "started")
  /\ decodeCheckpointEnvelope(latest)
  /\ epoch' = [epoch EXCEPT ![a] =
       [@ EXCEPT !.pc = "read", !.step = latest.step, !.said = object[latest.key],
                 !.pending = latest.pending]]
  /\ UNCHANGED <<runRow, StoredVars>>

\* WorkspaceManager.restore: the head revision, whatever the checkpoint pins;
\* without one the files of the run's input, or the source's head.
RestoreWorkspace(a) ==
  /\ At(a, "read")
  /\ epoch' = [epoch EXCEPT ![a] =
       [@ EXCEPT !.pc = "restored", !.work = head.work]]
  /\ UNCHANGED <<runRow, StoredVars>>

CallAnswered(e, c) == [e EXCEPT !.said = Append(@, Tool(c))]

\* Faulty variant: the call stays pending for the next checkpoint.
ReplayPendingKept(a) ==
  LET e == epoch[a] IN
  /\ At(a, "restored") /\ e.pending # NoCall
  /\ epoch' = [epoch EXCEPT ![a] =
       [CallAnswered(e, e.pending) EXCEPT !.pc = "loop", !.step = @ + 1]]
  /\ UNCHANGED <<runRow, StoredVars>>

\* The suspended call is dispatched again and returns.
ReplayPending(a) ==
  LET e == epoch[a] IN
  /\ At(a, "restored") /\ e.pending # NoCall
  /\ epoch' = [epoch EXCEPT ![a] =
       [CallAnswered(e, e.pending) EXCEPT !.pc = "loop", !.step = @ + 1, !.pending = NoCall]]
  /\ UNCHANGED <<runRow, StoredVars>>

\* The dispatched call suspends the run again: saved as it was.
PendingSuspendsAgain(a) ==
  /\ At(a, "restored") /\ epoch[a].pending # NoCall
  /\ Moves("RUNNING", "WAITING")
  /\ epoch' = [epoch EXCEPT ![a].pc = "put", ![a].leaves = TRUE]
  /\ UNCHANGED StoredVars

NothingPending(a) ==
  /\ At(a, "restored") /\ epoch[a].pending = NoCall
  /\ GoOn(a, "loop")
  /\ UNCHANGED <<runRow, StoredVars>>
-----------------------------------------------------------------------------
(* The main loop *)

SaveAndLeave(a) == epoch' = [epoch EXCEPT ![a].pc = "put", ![a].leaves = TRUE]

\* No step or no token is left: "budget_exhausted".
BudgetExhausted(a) ==
  /\ At(a, "loop")
  /\ SaveAndLeave(a)
  /\ UNCHANGED <<runRow, StoredVars>>

NewCalls(a, n) == [i \in 1..n |-> <<a, epoch[a].calls * FanOut + i>>]

\* The provider call of a step, for the owner only, and its completion.
InvokeModel(a) ==
  LET e == epoch[a] IN
  /\ At(a, "loop") /\ e.step < MaxSteps /\ Owns(a)
  /\ \E n \in 1..FanOut :
       epoch' = [epoch EXCEPT ![a] =
         [e EXCEPT !.pc = "tools", !.todo = NewCalls(a, n), !.turns = 0,
                   !.calls = @ + 1,
                   !.said = @ \o [i \in 1..n |-> Ask(NewCalls(a, n)[i])]]]
  /\ UNCHANGED <<runRow, StoredVars>>

\* A completion without a tool call: a nudge, and after some an error.
InvokeWithoutTools(a) ==
  LET e == epoch[a] IN
  /\ At(a, "loop") /\ e.step < MaxSteps /\ Owns(a)
  /\ IF e.turns + 1 >= MaxNoToolTurns THEN Gone(a)
     ELSE epoch' = [epoch EXCEPT ![a].turns = @ + 1, ![a].calls = @ + 1]
  /\ UNCHANGED <<runRow, StoredVars>>

\* The supervisor fails a stuck run.
SupervisorTerminates(a) ==
  /\ \/ At(a, "tools") /\ Last(epoch[a].said).kind = "ask"
     \/ At(a, "loop") /\ epoch[a].turns > 0
  /\ Moves("RUNNING", "FAILED")
  /\ SaveAndLeave(a)
  /\ UNCHANGED StoredVars

NextCall(a) == Head(epoch[a].todo)
HasCall(a) == At(a, "tools") /\ epoch[a].todo # <<>>

\* dispatchTool returns.  A command or a written file changes the workspace; a
\* look, a note, a refused completion, an unknown tool and a governed action do
\* not.
ToolReturns(a) ==
  LET e == epoch[a] IN
  /\ HasCall(a)
  /\ \E changed \in {{}, {NextCall(a)}} :
       epoch' = [epoch EXCEPT ![a] =
         [CallAnswered(e, NextCall(a)) EXCEPT !.todo = Tail(@), !.work = @ \union changed]]
  /\ UNCHANGED <<runRow, StoredVars>>

\* The tool router has moved the run to a wait.  The call is saved as pending;
\* the calls of the completion behind it are not kept.
ToolSuspends(a) ==
  /\ HasCall(a)
  /\ Moves("RUNNING", "WAITING")
  /\ epoch' = [epoch EXCEPT ![a] =
       [@ EXCEPT !.pc = "put", !.leaves = TRUE, !.pending = NextCall(a), !.todo = <<>>]]
  /\ UNCHANGED StoredVars

\* Every call is answered: the step is over.
StepEnds(a) ==
  LET s == epoch[a].step + 1 IN
  /\ At(a, "tools") /\ epoch[a].todo = <<>>
  /\ epoch' = [epoch EXCEPT ![a].step = s,
                 ![a].pc = IF s % CheckpointEvery = 0 THEN "put" ELSE "loop"]
  /\ UNCHANGED <<runRow, StoredVars>>
-----------------------------------------------------------------------------
(* saveCheckpoint: three writes, in this order, without a look at the run *)

TranscriptKey(a) == <<a, epoch[a].step>>
Replaced(a) == runRow.attempt # a

\* createCheckpointEnvelope, with the revision the row pins.
NewCheckpoint(a) ==
  [key |-> TranscriptKey(a), step |-> epoch[a].step, pending |-> epoch[a].pending,
   work |-> epoch[a].work, schema |-> "known"]

\* The store with an object in it, in place of one that has its key.
PutObject(key, said) ==
  [k \in DOMAIN object \union {key} |-> IF k = key THEN said ELSE object[k]]

\* Faulty variant: the row is inserted before the snapshot.
SaveWorkspaceAndRow(a) ==
  /\ At(a, "put")
  /\ object' = PutObject(TranscriptKey(a), epoch[a].said)
  /\ latest' = NewCheckpoint(a)
  /\ GoOn(a, "snapshot")
  /\ late' = (late \/ Replaced(a))
  /\ UNCHANGED <<runRow, head, output, artifacts>>

SaveTranscript(a) ==
  /\ At(a, "put")
  /\ object' = PutObject(TranscriptKey(a), epoch[a].said)
  /\ GoOn(a, "snapshot")
  /\ late' = (late \/ Replaced(a))
  /\ UNCHANGED <<runRow, latest, head, output, artifacts>>

\* WorkspaceManager.checkpoint: the snapshot is uploaded and becomes the head.
Snapshot(a) ==
  /\ head' = [work |-> epoch[a].work, by |-> a]
  /\ late' = (late \/ Replaced(a))

SaveWorkspace(a) ==
  /\ At(a, "snapshot")
  /\ Snapshot(a)
  /\ GoOn(a, "insert")
  /\ UNCHANGED <<runRow, object, latest, output, artifacts>>

\* The envelope holds a credential, a signed URL or a malformed field, a
\* suspended call's arguments included: the epoch throws, with the transcript
\* and the head already stored and a suspension already committed.
EnvelopeRefused(a) ==
  /\ At(a, "insert")
  /\ Gone(a)
  /\ UNCHANGED <<runRow, StoredVars>>

\* insertCheckpoint, and then the epoch goes on or has left.
InsertCheckpoint(a) ==
  /\ At(a, "insert")
  /\ latest' = NewCheckpoint(a)
  /\ IF epoch[a].leaves THEN Gone(a) ELSE GoOn(a, "loop")
  /\ late' = (late \/ Replaced(a))
  /\ UNCHANGED <<runRow, object, head, output, artifacts>>
-----------------------------------------------------------------------------
(* finishRun *)

\* run_complete: VERIFYING.
BeginVerification(a) ==
  /\ HasCall(a)
  /\ Moves("RUNNING", "VERIFYING")
  /\ GoOn(a, "verifying")
  /\ UNCHANGED StoredVars

VerificationFails(a) ==
  LET e == epoch[a] IN
  /\ At(a, "verifying")
  /\ Moves("VERIFYING", "RUNNING")
  /\ epoch' = [epoch EXCEPT ![a] =
       IF e.retries + 1 > MaxVerifyRetries
       THEN [e EXCEPT !.pc = "failing"]
       ELSE [CallAnswered(e, NextCall(a)) EXCEPT !.pc = "tools", !.retries = @ + 1,
                                              !.todo = Tail(@)]]
  /\ UNCHANGED StoredVars

VerificationExhausted(a) ==
  /\ At(a, "failing")
  /\ Moves("RUNNING", "FAILED")
  /\ Gone(a)
  /\ UNCHANGED StoredVars

NewArtifact(a) == [attempt |-> a, work |-> epoch[a].work]

\* Faulty variant: the rows are written when the outputs are uploaded.
StageAndCreateArtifacts(a) ==
  /\ At(a, "verifying")
  /\ output' = output \union {epoch[a].work}
  /\ artifacts' = artifacts \union {NewArtifact(a)}
  /\ GoOn(a, "staged")
  /\ UNCHANGED <<runRow, object, latest, head, late>>

\* VerificationPassed; the outputs are uploaded under keys their content names.
StageArtifactOutputs(a) ==
  /\ At(a, "verifying")
  /\ output' = output \union {epoch[a].work}
  /\ GoOn(a, "staged")
  /\ UNCHANGED <<runRow, object, latest, head, artifacts, late>>

\* "Final workspace snapshot so the completed state is durable."
FinalSnapshot(a) ==
  /\ At(a, "staged")
  /\ Snapshot(a)
  /\ GoOn(a, "final")
  /\ UNCHANGED <<runRow, object, latest, output, artifacts>>

Complete(a) ==
  /\ At(a, "final")
  /\ Moves("VERIFYING", "COMPLETED")
  /\ artifacts' = artifacts \union {NewArtifact(a)}
  /\ Gone(a)
  /\ UNCHANGED <<object, latest, head, output, late>>
-----------------------------------------------------------------------------
CheckpointsNext ==
  \/ RequeueEpoch
  \/ Wake
  \/ \E a \in Epochs :
       \/ Claim(a) \/ Leave(a)
       \/ ReadCheckpoint(a) \/ RestoreWorkspace(a)
       \/ ReplayPending(a) \/ PendingSuspendsAgain(a) \/ NothingPending(a)
       \/ BudgetExhausted(a) \/ InvokeModel(a) \/ InvokeWithoutTools(a)
       \/ SupervisorTerminates(a)
       \/ ToolReturns(a) \/ ToolSuspends(a) \/ StepEnds(a)
       \/ SaveTranscript(a) \/ SaveWorkspace(a)
       \/ InsertCheckpoint(a) \/ EnvelopeRefused(a)
       \/ BeginVerification(a) \/ VerificationFails(a) \/ VerificationExhausted(a)
       \/ StageArtifactOutputs(a) \/ FinalSnapshot(a) \/ Complete(a)

CheckpointsSpec == CheckpointsInit /\ [][CheckpointsNext]_checkpointVars
-----------------------------------------------------------------------------
(* Properties *)

Calls == {NoCall, SourceCall} \union (Epochs \X (1..MaxSteps * MaxNoToolTurns * FanOut))
Places == {"none", "started", "read", "restored", "loop", "tools", "put", "snapshot",
           "insert", "verifying", "failing", "staged", "final", "gone"}
Messages == [kind : {"ask", "tool"}, call : Calls]

CheckpointsTypeOK ==
  /\ runRow \in [status : {"QUEUED", "RUNNING", "VERIFYING", "WAITING", "COMPLETED", "FAILED"},
                 attempt : 0..MaxClaims]
  /\ \A k \in DOMAIN object : ToSet(object[k]) \subseteq Messages
  /\ latest.key \in DOMAIN object
  /\ latest.pending \in Calls /\ latest.work \subseteq Calls
  /\ head.work \subseteq Calls /\ head.by \in 0..MaxClaims
  /\ \A w \in output : w \subseteq Calls
  /\ \A x \in artifacts : x.attempt \in Epochs /\ x.work \subseteq Calls
  /\ \A a \in Epochs : epoch[a].pc \in Places /\ epoch[a].work \subseteq Calls
  /\ late \in BOOLEAN

\* No transcript holds an answer to a call that is not asked before it, and
\* none answers a call twice, whatever was suspended, saved, lost and replayed
\* ("the pending call replays on resume", epoch.ts:573-574; epoch.ts:323-328).
AnsweredOnce(said) ==
  \A i \in DOMAIN said :
    said[i].kind = "tool" =>
      /\ \E j \in 1..(i - 1) : said[j] = Ask(said[i].call)
      /\ \A j \in 1..(i - 1) : said[j] # said[i]

CallsAreAnsweredOnce ==
  /\ \A a \in Epochs : AnsweredOnce(epoch[a].said)
  /\ \A k \in DOMAIN object : AnsweredOnce(object[k])

\* The head that an epoch restores holds the work the latest checkpoint pins,
\* unless a replaced worker has saved in the meantime: a snapshot is the head
\* before its checkpoint is a row (saveCheckpoint, epoch.ts:234-246; a restore
\* reads the head and not the pinned revision, workspace.ts:55-58).
HeadHoldsTheCheckpoint == late \/ latest.work \subseteq head.work

\* A run has artifacts if and only if it is completed, all of one attempt, and
\* each stands for content that is in the object store ("committed atomically
\* with RunCompleted", artifacts.ts:17-23).
ArtifactsAreOfTheCompletion ==
  /\ artifacts # {} <=> runRow.status = "COMPLETED"
  /\ \A x, y \in artifacts : x = y /\ x.work \in output

=============================================================================
