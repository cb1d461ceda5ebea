---------------------------- MODULE MCDelegation ----------------------------
(***************************************************************************)
(* Delegation for TLC.  A behaviour keeps to one of the Scopes:            *)
(*   resolve   two workers resolve one parent of two subtasks              *)
(*   spend     a subtask and its replacement make model calls              *)
(*   admit     direct runs of every budget share the tenant's capacity     *)
(*   defer     two parents wait while the tenant is suspended at times     *)
(***************************************************************************)
EXTENDS Delegation

CONSTANT Scopes

ASSUME WorkersAssumption == IsFiniteSet(Workers)

VARIABLES
  scope,      \* the scope of the behaviour
  passedOver  \* deferrals of others a resolvable parent has seen go before it

mcVars == <<delegationVars, scope, passedOver>>

\* Runs: direct ones, parents, those that call the model, may be cancelled.
Scope == [
  resolve |-> [runs |-> 4, direct |-> {1}, budgets |-> {4}, parents |-> {1}, fan |-> FanOut,
               calls |-> {}, cancels |-> Runs, workers |-> 2],
  spend   |-> [runs |-> 3, direct |-> {1}, budgets |-> {4}, parents |-> {1}, fan |-> 1,
               calls |-> Runs, cancels |-> {}, workers |-> 1],
  admit   |-> [runs |-> 3, direct |-> 1..3, budgets |-> {3, 7}, parents |-> {}, fan |-> 0,
               calls |-> {1}, cancels |-> {2}, workers |-> 0],
  defer   |-> [runs |-> 4, direct |-> {1, 2}, budgets |-> {2}, parents |-> {1, 2}, fan |-> 1,
               calls |-> {}, cancels |-> {}, workers |-> 1] ]

MCInit ==
  /\ DelegationInit
  /\ scope \in Scopes
  /\ passedOver = [p \in Runs |-> 0]

KeepsTo(s) ==
  /\ \A r \in Runs :
       /\ run'[r] # NoRun => r <= s.runs
       /\ run'[r] # NoRun /\ run'[r].parent = None =>
            r \in s.direct /\ run'[r].budget \in s.budgets
       /\ Cardinality({c \in Runs : run'[c].parent = r /\ run'[c].replaces = None})
            <= s.fan
       /\ run'[r].status = "CANCELLED" => r \in s.cancels
       /\ looked'[r] # {} => r \in s.parents
       /\ call'[r] # NoCall => r \in s.calls
  /\ Cardinality({w \in Workers : resolver'[w] # IdleResolver}) <= s.workers
  /\ scope # "resolve" => longLedger' = {}
  /\ scope # "defer" => tenantActive'
  /\ scope # "admit" => usedToday' >= usedToday

\* Every subtask of p has its outcome; only a worker is missing.
Resolved(p) == Resolvable(p) /\ Replaceable(p) = {}

MCNext ==
  /\ DelegationNext
  /\ KeepsTo(Scope[scope])
  /\ UNCHANGED scope
  /\ passedOver' = [p \in Runs |->
       IF ~Resolved(p)' THEN 0
       ELSE IF \E w \in Workers : p \notin ToSet(resolver[w].todo)
                                  /\ ReplacementDeferred(w)
            THEN passedOver[p] + 1 ELSE passedOver[p]]

MCSpec == MCInit /\ [][MCNext]_mcVars

\* A parent whose replacements are deferred again and again does not keep the
\* window of candidates from a parent that only waits to be resolved: a parent
\* is passed over once by each other parent ("preserves ... candidate-window
\* liveness", children.ts:250-252).
DeferralsLetOthersPass ==
  scope = "defer" => \A p \in Runs : passedOver[p] <= 1
=============================================================================
