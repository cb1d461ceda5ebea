----------------------------- MODULE Sandboxes -----------------------------
(***************************************************************************)
(* The sandboxes of attempts at the provider: creation with its ambiguous  *)
(* failures, readiness, termination by the worker or by the reaper, and    *)
(* the provider that answers late, hides a new instance, forgets a kill or *)
(* ignores a filter.                                                       *)
(*                                                                         *)
(* An attempt asks for one sandbox, which has the attempt's name here.     *)
(* Commands are PrivateShell's.  A deadline may pass whenever the worker   *)
(* polls; CleanupTries stands for the five listings of a cleanup.          *)
(***************************************************************************)
EXTENDS Naturals, FiniteSets

CONSTANTS
  Creators,      \* attempts that create a sandbox
  RunOfAttempt,  \* metadata.runId
  Replaces,      \* pairs <<a, b>>: a may start once b has
  CleanupTries

ASSUME SandboxesAssumption ==
  /\ CleanupTries \in Nat \ {0}
  /\ DOMAIN RunOfAttempt = Creators
  /\ Replaces \subseteq Creators \X Creators

VARIABLES
  instance,   \* state at the provider, and whether its API shows it yet
  attempt,    \* the worker of each attempt: pc, listings made, instances to kill
  killedBy,   \* who asked for each instance's end
  sandboxRow  \* attempts with run_attempts.sandbox_id

sandboxVars == <<instance, attempt, killedBy, sandboxRow>>

AliveStates == {"starting", "ready"}
Listed(a) == instance[a].shown /\ instance[a].state \in AliveStates \cup {"dying"}
OfRun(a) == {b \in Creators : RunOfAttempt[b] = RunOfAttempt[a]}

SandboxesInit ==
  /\ instance = [a \in Creators |-> [state |-> "none", shown |-> FALSE]]
  /\ attempt = [a \in Creators |-> [pc |-> "idle", tries |-> 0, kill |-> {}]]
  /\ killedBy = [a \in Creators |-> {}]
  /\ sandboxRow = {}

GoTo(a, pc) == attempt' = [attempt EXCEPT ![a].pc = pc]
-----------------------------------------------------------------------------
(* The provider *)

\* A request it accepted may take effect later, and become visible later still.
ProviderStep(a) ==
  LET i == instance[a] IN
  /\ \/ i.state = "late" /\ instance' = [instance EXCEPT ![a].state = "starting"]
     \/ /\ i.state \in AliveStates /\ ~i.shown
        /\ instance' = [instance EXCEPT ![a].shown = TRUE]
     \/ /\ i.state = "starting"
        /\ \E s \in {"ready", "failed"} : instance' = [instance EXCEPT ![a].state = s]
     \/ i.state = "dying" /\ instance' = [instance EXCEPT ![a].state = "gone"]
  /\ UNCHANGED <<attempt, killedBy, sandboxRow>>

\* KillSandbox: ResourceNotFound for what it does not show; a kill that it
\* accepts may also come to nothing.
Kill(a, b) ==
  IF Listed(b)
  THEN /\ \/ instance' = [instance EXCEPT ![b].state = "dying"]
          \/ UNCHANGED instance
       /\ killedBy' = [killedBy EXCEPT ![b] = @ \cup {a}]
  ELSE UNCHANGED <<instance, killedBy>>

\* What ListSandboxes returns for a run: its own, or, without the filter, all.
Inventories(a) == { {b \in OfRun(a) : Listed(b)}, {b \in Creators : Listed(b)} }
-----------------------------------------------------------------------------
(* create *)

CreateSandbox(a) ==
  /\ attempt[a].pc = "idle"
  /\ \A r \in Replaces : r[1] = a => attempt[r[2]].pc # "idle"
  /\ \/ \E shown \in BOOLEAN :
          /\ instance' = [instance EXCEPT ![a] = [state |-> "starting", shown |-> shown]]
          /\ GoTo(a, "wait")
     \/ \E s \in {"none", "late", "starting"}, shown \in BOOLEAN :   \* no id came back
          /\ shown => s = "starting"
          /\ instance' = [instance EXCEPT ![a] = [state |-> s, shown |-> shown]]
          /\ GoTo(a, "list")
  /\ UNCHANGED <<killedBy, sandboxRow>>

\* waitForReady and ensureWorkspace; an instance that is not shown is "Creating".
WaitForReady(a) ==
  /\ attempt[a].pc = "wait"
  /\ \/ /\ instance[a].shown /\ instance[a].state = "ready"
        /\ \E pc \in {"held", "stop"} : GoTo(a, pc)
     \/ GoTo(a, "stop")      \* a terminal state, an error, the deadline
  /\ UNCHANGED <<instance, killedBy, sandboxRow>>

\* Faulty variant: whatever the listing holds is taken for the run's.
TrustList(a) ==
  /\ attempt[a].pc = "list"
  /\ \E found \in Inventories(a) :
       attempt' = [attempt EXCEPT ![a] = [pc |-> "kill", tries |-> CleanupTries, kill |-> found]]
  /\ UNCHANGED <<instance, killedBy, sandboxRow>>

\* cleanupAmbiguousCreate: a listing with a foreign instance, a partial one or an
\* error ends it; an empty one is repeated.
ListForCleanup(a) ==
  /\ attempt[a].pc = "list"
  /\ \/ GoTo(a, "unverified")
     \/ \E found \in Inventories(a) :
          /\ found \subseteq OfRun(a)
          /\ IF found # {}
             THEN attempt' = [attempt EXCEPT ![a].pc = "kill", ![a].kill = found]
             ELSE attempt' = [attempt EXCEPT ![a].tries = @ + 1,
                    ![a].pc = IF attempt[a].tries + 1 < CleanupTries THEN "list" ELSE "clean"]
  /\ UNCHANGED <<instance, killedBy, sandboxRow>>

\* One kill after the other; a failed one (or one of an instance gone since)
\* ends the cleanup.
KillForCleanup(a) ==
  /\ attempt[a].pc = "kill"
  /\ \/ \E b \in attempt[a].kill :
          /\ Listed(b) /\ Kill(a, b)
          /\ attempt' = [attempt EXCEPT ![a].kill = @ \ {b},
               ![a].pc = IF attempt[a].kill = {b} THEN "verify" ELSE "kill"]
     \/ GoTo(a, "unverified") /\ UNCHANGED <<instance, killedBy>>
  /\ UNCHANGED sandboxRow

\* One listing more: clean only when it shows nothing.
VerifyCleanup(a) ==
  /\ attempt[a].pc = "verify"
  /\ \/ GoTo(a, "unverified")
     \/ {} \in Inventories(a) /\ GoTo(a, "clean")
  /\ UNCHANGED <<instance, killedBy, sandboxRow>>
-----------------------------------------------------------------------------
(* The life of the handle *)

\* The attempt's row names the sandbox; until then only its worker knows it.
RecordSandbox(a) ==
  /\ attempt[a].pc = "held" /\ a \notin sandboxRow
  /\ sandboxRow' = sandboxRow \cup {a}
  /\ UNCHANGED <<instance, attempt, killedBy>>

\* The epoch ends with its cleanup.
EndEpoch(a) ==
  /\ attempt[a].pc = "held" /\ a \in sandboxRow
  /\ GoTo(a, "stop")
  /\ UNCHANGED <<instance, killedBy, sandboxRow>>

\* terminate: the kill, with ResourceNotFound ignored; any other error throws.
KillOwn(a) ==
  /\ attempt[a].pc = "stop"
  /\ \/ Kill(a, a) /\ GoTo(a, "stopping")
     \/ GoTo(a, "failed") /\ UNCHANGED <<instance, killedBy>>
  /\ UNCHANGED sandboxRow

\* waitForTerminal: a terminal status, or nothing shown of a killed instance.
WaitForTerminal(a) ==
  /\ attempt[a].pc = "stopping"
  /\ \/ ~Listed(a) /\ GoTo(a, "stopped")
     \/ GoTo(a, "failed")
  /\ UNCHANGED <<instance, killedBy, sandboxRow>>

WorkerDies(a) ==
  /\ attempt[a].pc \in {"wait", "list", "kill", "verify", "held", "stop", "stopping"}
  /\ GoTo(a, "dead")
  /\ UNCHANGED <<instance, killedBy, sandboxRow>>

\* The reaper orphans the attempt and kills the sandbox its row names.
ReapSandbox(a) ==
  /\ attempt[a].pc = "dead" /\ a \in sandboxRow
  /\ GoTo(a, "stop")
  /\ UNCHANGED <<instance, killedBy, sandboxRow>>

SandboxesNext ==
  \/ \E a \in Creators :
       \/ ProviderStep(a) \/ CreateSandbox(a) \/ WaitForReady(a) \/ ListForCleanup(a)
       \/ KillForCleanup(a) \/ VerifyCleanup(a) \/ RecordSandbox(a) \/ EndEpoch(a)
       \/ KillOwn(a) \/ WaitForTerminal(a) \/ WorkerDies(a) \/ ReapSandbox(a)

SandboxesSpec == SandboxesInit /\ [][SandboxesNext]_sandboxVars
-----------------------------------------------------------------------------
(* Properties *)

\* The type of the state; a row names only a sandbox that had become ready.
SandboxesTypeOK ==
  /\ instance \in [Creators -> [state : {"none", "late", "starting", "ready", "failed",
                                         "dying", "gone"}, shown : BOOLEAN]]
  /\ \A a \in Creators :
       /\ attempt[a].pc \in {"idle", "wait", "list", "kill", "verify", "clean", "unverified",
                             "held", "stop", "stopping", "stopped", "failed", "dead"}
       /\ attempt[a].tries \in 0..CleanupTries /\ attempt[a].kill \subseteq Creators
  /\ \A a \in sandboxRow : instance[a].state \in {"ready", "dying", "gone"} /\ instance[a].shown

\* No worker ends the sandbox of another run, even when the provider ignores the
\* metadata filter of a listing (vefaasSandbox.ts exactRunSandboxInventory).
OnlyOwnRunIsKilled ==
  \A b \in Creators : \A a \in killedBy[b] : RunOfAttempt[a] = RunOfAttempt[b]
=============================================================================
