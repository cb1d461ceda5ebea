------------------------- MODULE KnowledgeBindings -------------------------
(***************************************************************************)
(* A tenant's logical knowledge binding: operators rebind, disable and     *)
(* live-verify it while the runs of the tenant search through it.          *)
(*                                                                         *)
(* A verification is three database looks with a provider call between     *)
(* them; a search is a look and a provider call.  Coordinates are the      *)
(* project and the collection together.  MaxRevisions bounds the model.    *)
(***************************************************************************)
EXTENDS Naturals

CONSTANTS
  Coordinates,    \* provider project and collection
  Operators,      \* runs of `admin knowledge verify'
  Searchers,      \* calls of knowledge_search, with requireLiveVerified
  MaxRevisions    \* times the binding is bound

ASSUME KnowledgeAssumption == MaxRevisions \in Nat

VARIABLES
  binding,     \* the knowledge_bindings row; revision 0 is no row
  verifier,    \* where each verification is, and the revision it has read
  searcher,    \* where each search is, and the coordinates it has read
  probed,      \* coordinates a live probe has been answered from
  searched     \* coordinates a run's search has been sent to

knowledgeVars == <<binding, verifier, searcher, probed, searched>>

KnowledgeInit ==
  /\ \E c \in Coordinates :
       binding = [at |-> c, status |-> "disabled", revision |-> 0, verified |-> FALSE]
  /\ verifier = [v \in Operators |-> [at |-> "idle", revision |-> 0]]
  /\ searcher = [s \in Searchers |-> {}]
  /\ probed = {} /\ searched = {}

\* `knowledge bind': insert, or replace and reactivate.
Rebind(c) ==
  /\ binding.revision < MaxRevisions
  /\ binding' = [at |-> c, status |-> "active", revision |-> binding.revision + 1,
                 verified |-> FALSE]
  /\ UNCHANGED <<verifier, searcher, probed, searched>>

\* `knowledge disable' keeps the revision and the verification.
Disable ==
  /\ binding.status = "active"
  /\ binding' = [binding EXCEPT !.status = "disabled"]
  /\ UNCHANGED <<verifier, searcher, probed, searched>>

VerifierAt(v, p) == verifier' = [verifier EXCEPT ![v].at = p]

\* getKnowledgeBinding: the active row and its revision.
BeginVerify(v) ==
  /\ verifier[v].at = "idle" /\ binding.status = "active"
  /\ verifier' = [verifier EXCEPT ![v] = [at |-> "probing", revision |-> binding.revision]]
  /\ UNCHANGED <<binding, searcher, probed, searched>>

\* The provider reads the row again, which may have been rebound, and searches
\* with what it finds; without requireLiveVerified.
ProbeProvider(v) ==
  /\ verifier[v].at = "probing"
  /\ \/ /\ binding.status = "active"
        /\ probed' = probed \union {binding.at}
        /\ VerifierAt(v, "marking")
     \/ VerifierAt(v, "idle") /\ UNCHANGED probed
  /\ UNCHANGED <<binding, searcher, searched>>

\* Faulty variant: the revision is not compared.
MarkWhatIsThere(v) ==
  /\ verifier[v].at = "marking"
  /\ binding' = [binding EXCEPT !.verified = @ \/ binding.status = "active"]
  /\ VerifierAt(v, "idle")
  /\ UNCHANGED <<searcher, probed, searched>>

\* markKnowledgeBindingVerified: the revision is the optimistic token.
MarkVerified(v) ==
  /\ verifier[v].at = "marking"
  /\ binding' = [binding EXCEPT !.verified = @ \/
       (binding.status = "active" /\ binding.revision = verifier[v].revision)]
  /\ VerifierAt(v, "idle")
  /\ UNCHANGED <<searcher, probed, searched>>

\* A run's search resolves the name, only if it is live-verified ...
ResolveBinding(s) ==
  /\ searcher[s] = {} /\ binding.status = "active" /\ binding.verified
  /\ searcher' = [searcher EXCEPT ![s] = {binding.at}]
  /\ UNCHANGED <<binding, verifier, probed, searched>>

\* ... and asks the provider.
SearchKnowledge(s) ==
  /\ searcher[s] # {}
  /\ searched' = searched \union searcher[s]
  /\ searcher' = [searcher EXCEPT ![s] = {}]
  /\ UNCHANGED <<binding, verifier, probed>>

KnowledgeNext ==
  \/ \E c \in Coordinates : Rebind(c)
  \/ Disable
  \/ \E v \in Operators : BeginVerify(v) \/ ProbeProvider(v) \/ MarkVerified(v)
  \/ \E s \in Searchers : ResolveBinding(s) \/ SearchKnowledge(s)

KnowledgeSpec == KnowledgeInit /\ [][KnowledgeNext]_knowledgeVars
-----------------------------------------------------------------------------
(* Properties *)

\* The type of the state.
KnowledgeTypeOK ==
  /\ binding \in [at : Coordinates, status : {"active", "disabled"},
                  revision : 0..MaxRevisions, verified : BOOLEAN]
  /\ verifier \in [Operators -> [at : {"idle", "probing", "marking"}, revision : 0..MaxRevisions]]
  /\ searcher \in [Searchers -> SUBSET Coordinates]
  /\ probed \union searched \subseteq Coordinates

\* A run's search is sent only to coordinates that answered a live probe, even
\* if the binding is rebound, disabled and bound again while verifications are
\* on their way ("without allowing a previous live verification to carry over
\* to different provider coordinates", knowledgeBindings.ts:20-24).
SearchesAreLiveVerified == searched \subseteq probed
=============================================================================
