------------------------------- MODULE MCEpoch -------------------------------
(***************************************************************************)
(* What an epoch does, for TLC: five components that share no state,       *)
(* beside each other.  A behaviour is one of one of them, its `scope', and *)
(* leaves the others where they are:                                       *)
(*   signals      Suspension                                               *)
(*   checkpoints  Checkpoints                                              *)
(*   supervisor   Supervisor                                               *)
(*   secrets      Credentials                                              *)
(*   scripted     ScriptedEpoch                                            *)
(* so that one run has the sum of their states and not the product.        *)
(***************************************************************************)
EXTENDS Suspension, Checkpoints, Supervisor, Credentials, ScriptedEpoch

CONSTANTS
  FirstName,       \* one of Names
  LooseClaims,     \* claims of a run without a session
  SuccessorCalls,  \* model calls of an epoch after the first
  Changes          \* revocations, expiries, cancellations and lost leases of secrets

VARIABLES
  scope,
  plan   \* the grants that are created, in this order

mcVars == <<vars, checkpointVars, supervisorVars, credentialVars, scriptedVars, scope, plan>>

Scopes == {"signals", "checkpoints", "supervisor", "secrets", "scripted"}

(* Grants: run 2 is a subtask of run 1. *)

MCParentOf == <<0, 1>>
MCForkedFrom == <<0, 0>>

Policy(r, c, delegated, forks, approval, max) ==
  [run |-> r, credential |-> c, delegated |-> delegated, forks |-> forks,
   approval |-> approval, max |-> max]

\* Two secrets for parent and subtask, the second used once; a grant with an
\* approval and one of the subtask's own; and three grants that are in each
\* other's way.
Plans ==
  { << Policy(1, 1, TRUE, FALSE, FALSE, 0), Policy(1, 2, TRUE, FALSE, FALSE, 1) >>,
    << Policy(1, 1, TRUE, FALSE, TRUE, 1), Policy(2, 1, FALSE, FALSE, FALSE, 0) >>,
    << Policy(1, 1, FALSE, FALSE, FALSE, 0), Policy(1, 2, TRUE, TRUE, FALSE, 0),
       Policy(2, 1, FALSE, FALSE, FALSE, 0) >> }
MCPolicies == UNION {ToSet(p) : p \in Plans}

Changed ==
  Cardinality({g \in Grants : ~grant[g].active}) + Cardinality({g \in Grants : ~grant[g].unexpired})
  + Cardinality({c \in Secrets : ~secret[c].active}) + Cardinality({c \in Secrets : ~secret[c].unexpired})
  + Cardinality({r \in LineageRuns : ~holder[r].running})
  + Cardinality({r \in LineageRuns : ~holder[r].lease \/ holder[r].attempt > 1})

\* The grants of the plan first; the second release is the subtask's.
FollowsPlan ==
  /\ Changed' + Len(plan) <= Changes
  /\ secret'[1].created => secret'[1].max = 1
  /\ secret'[2].created => secret'[2].max = 0
  /\ grant' # grant => secret[2].created
  /\ \A g \in Grants : grant'[g].created => g <= Len(plan) /\ grant'[g].policy = plan[g]
  /\ \A x \in Releases : release[x] = NoRelease /\ release'[x] # NoRelease =>
       grant[Len(plan)].created /\ (x = 2 => release'[x].run = 2)

(* Scripts with every gate, behind a checkpoint, behind each other. *)

MCScripts ==
  { <<"progress", "approval", "checkpoint", "signal", "complete">>,
    <<"failOnce", "delegate", "approval", "progress">>,
    <<"signal", "checkpoint", "signal", "delegate", "complete">> }

(* Deliveries are alike, and so are the names: the first ones come first.  *)
(* A behaviour ends with its run; one without a session has fewer claims.  *)

NamesInUse ==
  ({pending[x] : x \in Attempts} \union {request[d].name : d \in Deliveries}
     \union {ledger[i].name : i \in DOMAIN ledger}) \ {NoName}

InOrder ==
  /\ status # "DONE"
  /\ managed \/ attempt' <= LooseClaims
  /\ \A d \in Deliveries : request'[d] # Idle => \A e \in Deliveries : e < d => request'[e] # Idle
  /\ NamesInUse' # {} => FirstName \in NamesInUse'

\* The second epoch of a run repeats the first one's steps.
ShortSuccessors ==
  \A a \in Epochs : a > 1 =>
    epoch'[a].calls <= SuccessorCalls /\ Len(epoch'[a].todo) <= 1

\* Of the calls of a completion the odd ones change the workspace.
OddCallsChange ==
  \A a \in Epochs : ToolReturns(a) =>
    epoch'[a].work = epoch[a].work \union {c \in {NextCall(a)} : c[2] % 2 = 1}

\* A behaviour of the supervisor ends when its run has left, and the ledger's
\* completed items only grow.
WatchedRunGoesOn ==
  /\ watched.status # "LEFT"
  /\ watched'.completed >= watched.completed

MCInit ==
  /\ Init /\ CheckpointsInit /\ SupervisorInit /\ CredentialsInit /\ ScriptedInit
  /\ scope \in Scopes
  /\ scope # "signals" => ~managed
  /\ scope # "checkpoints" => latest = NoCheckpoint
  /\ plan \in Plans
  /\ scope # "secrets" => Len(plan) = 3
  /\ scope # "scripted" => origin = 1 /\ "failOnce" \in ToSet(script)

MCNext ==
  /\ \/ scope = "signals" /\ Next /\ InOrder
     \/ scope = "checkpoints" /\ CheckpointsNext /\ ShortSuccessors /\ OddCallsChange
     \/ scope = "supervisor" /\ SupervisorNext /\ WatchedRunGoesOn
     \/ scope = "secrets" /\ CredentialsNext /\ FollowsPlan
     \/ scope = "scripted" /\ ScriptedNext
  /\ scope # "signals" => UNCHANGED vars
  /\ scope # "checkpoints" => UNCHANGED checkpointVars
  /\ scope # "supervisor" => UNCHANGED supervisorVars
  /\ scope # "secrets" => UNCHANGED credentialVars
  /\ scope # "scripted" => UNCHANGED scriptedVars
  /\ UNCHANGED <<scope, plan>>

MCSpec == MCInit /\ [][MCNext]_mcVars

\* The types of the five states.
EpochTypeOK ==
  /\ TypeOK
  /\ CheckpointsTypeOK
  /\ SupervisorTypeOK
  /\ CredentialsTypeOK
  /\ ScriptedTypeOK
=============================================================================
