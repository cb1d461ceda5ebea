----------------------------- MODULE MCPlatform -----------------------------
(***************************************************************************)
(* A run and the services around it, for TLC: eleven components that share *)
(* no state, beside each other.  A behaviour is one of one of them, its    *)
(* `scope', and leaves the others where they are, so that one run has the  *)
(* sum of their states and not the product.                                *)
(*   run        RunLifecycle                                               *)
(*   drain      Outbox: transactions and relays                            *)
(*   read       Outbox: transactions and clients                           *)
(*   pool       FencePool                                                  *)
(*   rate       RateLimits                                                 *)
(*   sandbox    Sandboxes: of one run's two attempts, or of two runs       *)
(*   shell      PrivateShell                                               *)
(*   provision  Provisioning                                               *)
(*   egress     Egress                                                     *)
(*   knowledge  KnowledgeBindings                                          *)
(*   export     RunExport                                                  *)
(*   objects    ObjectStore                                                *)
(***************************************************************************)
EXTENDS RunLifecycle, Outbox, FencePool, RateLimits, Sandboxes, PrivateShell,
        Provisioning, Egress, KnowledgeBindings, RunExport,
        ObjectStore, TLC

CONSTANTS
  Scopes,
  a1, a2, a3, a4, m1, m2,   \* governed actions and model calls
  k2, t1, t2,               \* a minted key, two tenants
  s1, s2, s3,               \* attempts that create a sandbox
  f1, f2                    \* ids of functions, given out in this order

VARIABLES
  scope,
  active   \* the attempts that take part in `sandbox'

mcVars ==
  <<vars, outboxVars, fencePoolVars, rateLimitVars, sandboxVars, shellVars,
    provisioningVars, egressVars, knowledgeVars, exportVars, storeVars, scope, active>>

\* Two actions on one key.
MCLockOf == (a1 :> 1) @@ (a2 :> 1) @@ (a3 :> 2) @@ (a4 :> 3) @@ (m1 :> 4) @@ (m2 :> 4)
MCKeyTenant == k2 :> t2
\* s2 is the attempt after s1; s3 is another run's.
MCRunOfAttempt == (s1 :> 1) @@ (s2 :> 1) @@ (s3 :> 2)
MCReplaces == {<<s2, s1>>}

MCInit ==
  /\ Init /\ OutboxInit /\ FencePoolInit /\ RateLimitsInit /\ SandboxesInit
  /\ PrivateShellInit /\ ProvisioningInit /\ EgressInit /\ KnowledgeInit
  /\ RunExportInit /\ ObjectStoreInit
  /\ scope \in Scopes
  /\ active \in {{s1, s2}, {s1, s3}}
  /\ scope # "sandbox" => active = {s1, s2}
  /\ scope # "rate" => bucketScope = "instance"
  \* Of functions of others: none, or a released one.
  /\ \A f \in Foreign :
       \/ function[f] = Unborn
       \/ /\ scope = "provision" /\ function[f].state = "stable"
          /\ function[f].fits = function[f].named
  /\ scope # "egress" => egress = [allowed |-> {}, proxy |-> "none"]
  /\ scope # "egress" => granted = {}
  /\ scope # "egress" => request = NewRequest(CHOOSE o \in Origins : TRUE, "GET")
  /\ scope # "objects" => stored = {}
  /\ scope # "knowledge" => binding.at = CHOOSE c \in Coordinates : TRUE

MCNext ==
  /\ \/ scope = "run" /\ Next
     \/ scope \in {"drain", "read"} /\ Appends
     \/ scope = "drain" /\ Drains
     \/ scope = "read" /\ Reads
     \/ scope = "pool" /\ FencePoolNext
     \/ scope = "rate" /\ RateLimitsNext
     \/ scope = "sandbox" /\ SandboxesNext /\ \A a \in Creators \ active : attempt'[a].pc = "idle"
     \/ scope = "shell" /\ PrivateShellNext
     \/ /\ scope = "provision" /\ ProvisioningNext
        /\ function'[f2].state # "none" => function[f1].state # "none"
     \/ scope = "egress" /\ EgressNext
     \/ scope = "knowledge" /\ KnowledgeNext
     \/ scope = "export" /\ RunExportNext
     \/ scope = "objects" /\ ObjectStoreNext
  /\ scope # "run" => UNCHANGED vars
  /\ scope \notin {"drain", "read"} => UNCHANGED outboxVars
  /\ scope # "pool" => UNCHANGED fencePoolVars
  /\ scope # "rate" => UNCHANGED rateLimitVars
  /\ scope # "sandbox" => UNCHANGED sandboxVars
  /\ scope # "shell" => UNCHANGED shellVars
  /\ scope # "provision" => UNCHANGED provisioningVars
  /\ scope # "egress" => UNCHANGED egressVars
  /\ scope # "knowledge" => UNCHANGED knowledgeVars
  /\ scope # "export" => UNCHANGED exportVars
  /\ scope # "objects" => UNCHANGED storeVars
  /\ UNCHANGED <<scope, active>>

MCSpec == MCInit /\ [][MCNext]_mcVars

\* The types of the eleven states.
PlatformTypeOK ==
  /\ TypeOK
  /\ OutboxTypeOK
  /\ FencePoolTypeOK
  /\ RateLimitsTypeOK
  /\ SandboxesTypeOK
  /\ PrivateShellTypeOK
  /\ ProvisioningTypeOK
  /\ EgressTypeOK
  /\ KnowledgeTypeOK
  /\ RunExportTypeOK
  /\ ObjectStoreTypeOK
=============================================================================
