--------------------------- MODULE ScriptedEpoch ---------------------------
(***************************************************************************)
(* The epoch that interprets a script instead of a model: a program        *)
(* counter that every suspension and every `checkpoint' saves as the next  *)
(* step, and that a later worker, or a fork, resumes from.                 *)
(*                                                                         *)
(* `progress' and `sleep' are one operation.  A gate is an approval, a     *)
(* signal or a delegation; a script waits for one signal name, which       *)
(* Suspension delivers in detail, and its delegations and its approvals    *)
(* are known by their step.  STARTING is part of RUNNING, the waits are    *)
(* one status and the ends but COMPLETED another.  Scripts and MaxWorkers  *)
(* bound the model.                                                        *)
(***************************************************************************)
EXTENDS Naturals, Sequences

CONSTANTS
  Scripts,      \* the scripts a run may have
  MaxWorkers    \* the attempts of the run

ASSUME ScriptedAssumption ==
  /\ MaxWorkers \in Nat \ {0}
  /\ \A s \in Scripts : Len(s) \in Nat /\ DOMAIN s = 1..Len(s)

Gates == {"approval", "signal", "delegate"}
Workers == 1..MaxWorkers

VARIABLES
  script,     \* run.input.script
  origin,     \* the step a fork resumes from; 1 in other runs
  stage,      \* the run's status
  claimed,    \* its newest attempt
  waitsAt,    \* the step whose gate the run has last been suspended at
  opened,     \* gates that are decided, delivered or resolved
  asked,      \* gates that have been asked for
  savedStep,  \* the step of the latest checkpoint; 0 when there is none
  worker      \* where the epoch of each attempt is, and its step

scriptedVars == <<script, origin, stage, claimed, waitsAt, opened, asked, savedStep, worker>>

ScriptedInit ==
  /\ script \in Scripts
  /\ origin \in 1..Len(script)
  /\ stage = "QUEUED" /\ claimed = 0
  /\ waitsAt = 0 /\ opened = {} /\ asked = {} /\ savedStep = 0
  /\ worker = [w \in Workers |-> [at |-> "none", step |-> 0]]

Move(w, at, step) == worker' = [worker EXCEPT ![w] = [at |-> at, step |-> step]]
NextOp(w) == script[worker[w].step]
Reaches(w, ops) ==
  /\ worker[w].at = "stepping"
  /\ worker[w].step <= Len(script) /\ NextOp(w) \in ops
GateVars == <<waitsAt, opened, asked>>
-----------------------------------------------------------------------------
(* The run around its epochs *)

ClaimScripted(w) ==
  /\ stage = "QUEUED" /\ w = claimed + 1
  /\ stage' = "RUNNING" /\ claimed' = w
  /\ Move(w, "claimed", 0)
  /\ UNCHANGED <<script, origin, GateVars, savedStep>>

\* The reaper, or settlement after an error, queues the run again or ends it.
AttemptEnds ==
  /\ stage = "RUNNING"
  /\ stage' \in {"QUEUED", "ENDED"}
  /\ UNCHANGED <<script, origin, claimed, GateVars, savedStep, worker>>

CancelScripted ==
  /\ stage \notin {"COMPLETED", "ENDED"}
  /\ stage' = "ENDED"
  /\ UNCHANGED <<script, origin, claimed, GateVars, savedStep, worker>>

\* The worker is lost, its lease or its budget is, or an operation throws.
WorkerLeaves(w) ==
  /\ worker[w].at \notin {"none", "gone"}
  /\ Move(w, "gone", 0)
  /\ UNCHANGED <<script, origin, stage, claimed, GateVars, savedStep>>

\* The gate the run waits at is decided, delivered or resolved: it is queued.
GateOpens ==
  /\ stage = "WAITING"
  /\ stage' = "QUEUED"
  /\ opened' = opened \union {waitsAt}
  /\ UNCHANGED <<script, origin, claimed, waitsAt, asked, savedStep, worker>>

SignalSteps == {s \in DOMAIN script : script[s] = "signal"}

\* The signal comes before the run waits for it.
SignalComesEarly ==
  /\ stage \in {"QUEUED", "RUNNING"}
  /\ opened' = opened \union SignalSteps
  /\ UNCHANGED <<script, origin, stage, claimed, waitsAt, asked, savedStep, worker>>
-----------------------------------------------------------------------------
(* scriptedEpoch *)

\* The step of the run's checkpoint, or of that of the run it is forked from.
ResumeScript(w) ==
  /\ worker[w].at = "claimed"
  /\ Move(w, "stepping", IF savedStep = 0 THEN origin ELSE savedStep)
  /\ UNCHANGED <<script, origin, stage, claimed, GateVars, savedStep>>

Progress(w) ==
  /\ Reaches(w, {"progress"})
  /\ Move(w, "stepping", worker[w].step + 1)
  /\ UNCHANGED <<script, origin, stage, claimed, GateVars, savedStep>>

\* A checkpoint is written without a look at who owns the run.
SaveStep(w) ==
  /\ Reaches(w, {"checkpoint"})
  /\ savedStep' = worker[w].step + 1
  /\ Move(w, "stepping", worker[w].step + 1)
  /\ UNCHANGED <<script, origin, stage, claimed, GateVars>>

\* {op: 'fail', once: true} throws in the first attempt only.
FailOnce(w) ==
  /\ Reaches(w, {"failOnce"}) /\ w > 1
  /\ Move(w, "stepping", worker[w].step + 1)
  /\ UNCHANGED <<script, origin, stage, claimed, GateVars, savedStep>>

\* What the epoch looks for before it asks: a decided approval of the step, the
\* signal, or any delegation the run has made.
AlreadyPassed(s) ==
  CASE script[s] = "approval" -> s \in opened
    [] script[s] = "signal"   -> SignalSteps \cap opened # {}
    [] script[s] = "delegate" -> \E t \in asked : script[t] = "delegate"

LookAtGate(w) ==
  LET s == worker[w].step IN
  /\ Reaches(w, Gates)
  /\ IF AlreadyPassed(s) THEN Move(w, "stepping", s + 1) ELSE Move(w, "asking", s)
  /\ UNCHANGED <<script, origin, stage, claimed, GateVars, savedStep>>

\* Faulty variant: the checkpoint is committed before the run is suspended.
AskAfterSave(w) ==
  LET s == worker[w].step IN
  /\ worker[w].at = "asking"
  /\ \/ /\ savedStep # s + 1
        /\ savedStep' = s + 1
        /\ UNCHANGED <<stage, GateVars, worker>>
     \/ /\ savedStep = s + 1 /\ stage = "RUNNING"
        /\ stage' = "WAITING" /\ waitsAt' = s /\ asked' = asked \union {s}
        /\ Move(w, "gone", 0)
        /\ UNCHANGED <<opened, savedStep>>
  /\ UNCHANGED <<script, origin, claimed>>

\* One transaction: the request, the checkpoint of the step behind the gate, and
\* the suspension, which throws unless the run is RUNNING.
AskAndSuspend(w) ==
  LET s == worker[w].step IN
  /\ worker[w].at = "asking" /\ stage = "RUNNING"
  /\ stage' = "WAITING" /\ waitsAt' = s /\ asked' = asked \union {s}
  /\ savedStep' = s + 1
  /\ Move(w, "gone", 0)
  /\ UNCHANGED <<script, origin, claimed, opened>>

\* `complete', or the end of the script.
CompleteScripted(w) ==
  /\ worker[w].at = "stepping"
  /\ worker[w].step <= Len(script) => NextOp(w) = "complete"
  /\ stage = "RUNNING"
  /\ stage' = "COMPLETED"
  /\ Move(w, "gone", worker[w].step)
  /\ UNCHANGED <<script, origin, claimed, GateVars, savedStep>>

ScriptedNext ==
  \/ AttemptEnds \/ CancelScripted \/ GateOpens \/ SignalComesEarly
  \/ \E w \in Workers :
       \/ ClaimScripted(w) \/ WorkerLeaves(w) \/ ResumeScript(w)
       \/ Progress(w) \/ SaveStep(w) \/ FailOnce(w)
       \/ LookAtGate(w) \/ AskAndSuspend(w) \/ CompleteScripted(w)

ScriptedSpec == ScriptedInit /\ [][ScriptedNext]_scriptedVars
-----------------------------------------------------------------------------
(* Properties *)

\* The type of the state.
ScriptedTypeOK ==
  /\ stage \in {"QUEUED", "RUNNING", "WAITING", "COMPLETED", "ENDED"}
  /\ claimed \in 0..MaxWorkers
  /\ {waitsAt} \ {0} \subseteq asked
  /\ opened \union asked \subseteq DOMAIN script
  /\ savedStep \in 0..Len(script) + 1
  /\ \A w \in Workers :
       /\ worker[w].at \in {"none", "claimed", "stepping", "asking", "gone"}
       /\ worker[w].step \in 0..Len(script) + 1

\* A run completes only past every gate of its script, from the step it was
\* forked at to the first `complete': an approval decided, the signal delivered,
\* its children resolved, whatever crashed between the look and the suspension
\* and whichever stale worker went on ("Resume-safe", scriptedEpoch.ts:243; the
\* gate and its checkpoint are one transaction, 194-238).
GatePassed(s) ==
  \/ s \in opened
  \/ script[s] # "approval" /\ \E t \in opened : script[t] = script[s]

CompletedPastEveryGate ==
  stage = "COMPLETED" =>
    \A s \in origin..Len(script) :
      script[s] \in Gates /\ (\A t \in origin..s : script[t] # "complete") => GatePassed(s)
=============================================================================
