----------------------------- MODULE DurableRun -----------------------------
(***************************************************************************)
(* What the kernel promises of one run, whatever its workers do: a run is  *)
(* queued, executed, parked or done.  Execution is always handed over      *)
(* through the queue, always to an attempt newer than every earlier one,   *)
(* and nothing happens to a run that is done.                              *)
(***************************************************************************)
EXTENDS Naturals

VARIABLES
  phase,       \* "queued", "executing", "waiting" or "done"
  generation,  \* how many attempts the run has had
  holder       \* the attempt executing the run, 0 when there is none

vars == <<phase, generation, holder>>

Init ==
  /\ phase = "queued"
  /\ generation = 0
  /\ holder = 0

Dispatch ==
  /\ phase = "queued"
  /\ phase' = "executing"
  /\ generation' = generation + 1
  /\ holder' = generation'

\* The run leaves its holder: it parks, goes back to the queue, or is done.
Suspend ==
  /\ phase = "executing"
  /\ phase' = "waiting"
  /\ holder' = 0
  /\ UNCHANGED generation

Requeue ==
  /\ phase \in {"executing", "waiting"}
  /\ phase' = "queued"
  /\ holder' = 0
  /\ UNCHANGED generation

Finish ==
  /\ phase # "done"
  /\ phase' = "done"
  /\ holder' = 0
  /\ UNCHANGED generation

Next == Dispatch \/ Suspend \/ Requeue \/ Finish

Spec == Init /\ [][Next]_vars
=============================================================================
