---------------------------- MODULE Provisioning ----------------------------
(***************************************************************************)
(* The function application that sandboxes run under: provisioners that    *)
(* reuse or create it by its name, what they take back when a step fails   *)
(* or its answer is lost, and the cleanup of a recorded one.               *)
(*                                                                         *)
(* Functions are known by id.  Of a name it matters whether it is the      *)
(* plan's, of the tags whether the managed ones are there and whose        *)
(* attempt they name, and of a revision whether the rest of it fits the    *)
(* plan.  Pages of an inventory are one listing, and AmbiguityTries its    *)
(* repetitions after a lost answer.                                        *)
(***************************************************************************)
EXTENDS Naturals, FiniteSets

CONSTANTS
  Provisioners,     \* calls of provisionPrivateSandboxApplication, their attempt ids
  Fresh,            \* ids that the provider gives out
  Foreign,          \* ids of functions that no provisioner made
  Missing,          \* no function, no attempt
  AmbiguityTries

FunctionIds == Fresh \cup Foreign

ASSUME ProvisioningAssumption ==
  /\ Fresh \cap Foreign = {} /\ Missing \notin FunctionIds \cup Provisioners
  /\ "cleaner" \notin Provisioners
  /\ AmbiguityTries \in Nat \ {0}

VARIABLES
  function,    \* of each function: its state, name, tags, and the rest of its revision
  provision,   \* each provisioner: pc, listings, the function it is about
  cleaner,     \* the cleanup of a recorded function: pc, target
  sandboxed,   \* functions with live sandboxes
  madeFor,     \* whose request each function was made for
  deletedBy    \* who asked to delete each function

provisioningVars == <<function, provision, cleaner, sandboxed, madeFor, deletedBy>>

Unborn ==
  [state |-> "none", named |-> FALSE, managed |-> FALSE, attempt |-> Missing, fits |-> FALSE]

\* What others may have made, with the plan's name or the managed tags, too.
Others ==
  [state : {"draft", "stable"}, named : BOOLEAN, managed : BOOLEAN, attempt : {Missing},
   fits : BOOLEAN]

ProvisioningInit ==
  /\ \E other \in [Foreign -> Others \cup {Unborn}] :
       function = [f \in FunctionIds |-> IF f \in Foreign THEN other[f] ELSE Unborn]
  /\ provision = [p \in Provisioners |-> [pc |-> "list", tries |-> 0, about |-> Missing]]
  /\ cleaner = [pc |-> "idle", target |-> Missing]
  /\ sandboxed = {}
  /\ madeFor = [f \in FunctionIds |-> Missing]
  /\ deletedBy = [f \in FunctionIds |-> {}]

\* The inventory, and its entries of the plan's name.
Existing == {f \in FunctionIds : function[f].state \in {"draft", "releasing", "stable", "broken"}}
ExactName == {f \in Existing : function[f].named}

\* inventoryExcludes: neither the id nor the name is left.
InventoryExcludes(f) == ExactName = {} /\ f \notin Existing

\* assertRevisionMatches: every field of a revision is the plan's, or as unset as
\* the plan leaves it.
RevisionMatches(f) == function[f].named /\ function[f].managed /\ function[f].fits

Step(p, pc) == provision' = [provision EXCEPT ![p].pc = pc]
Aim(p, pc, f) == provision' = [provision EXCEPT ![p].pc = pc, ![p].about = f]
-----------------------------------------------------------------------------
(* The provider *)

ProviderWorks(f) ==
  /\ \/ /\ function[f].state = "late"
        /\ function' = [function EXCEPT ![f].state = "draft"]
     \/ /\ function[f].state = "releasing"
        /\ \E s \in {"stable", "broken"} : function' = [function EXCEPT ![f].state = s]
  /\ UNCHANGED <<provision, cleaner, sandboxed, madeFor, deletedBy>>

\* A sandbox is created under a released function, or the last one ends.
SandboxUse(f) ==
  /\ function[f].state = "stable"
  /\ sandboxed' = IF f \in sandboxed THEN sandboxed \ {f} ELSE sandboxed \cup {f}
  /\ UNCHANGED <<function, provision, cleaner, madeFor, deletedBy>>

\* DeleteFunction; the provider may accept it and not do it.
Delete(who, f) ==
  /\ deletedBy' = [deletedBy EXCEPT ![f] = @ \cup {who}]
  /\ \/ /\ function' = [function EXCEPT ![f].state = "gone"]
        /\ sandboxed' = sandboxed \ {f}
     \/ UNCHANGED <<function, sandboxed>>
-----------------------------------------------------------------------------
(* provisionPrivateSandboxApplication *)

ListByName(p) ==
  /\ provision[p].pc = "list"
  /\ \/ ExactName = {} /\ Step(p, "create")
     \/ \E f \in FunctionIds : ExactName = {f} /\ Aim(p, "status", f)
     \/ Step(p, "failed")         \* several matches, a bad inventory, an error
  /\ UNCHANGED <<function, cleaner, sandboxed, madeFor, deletedBy>>

\* An existing function is reused only when it is released ..
CheckReleased(p) ==
  /\ provision[p].pc = "status"
  /\ \/ function[provision[p].about].state = "stable" /\ Step(p, "compare")
     \/ Step(p, "failed")
  /\ UNCHANGED <<function, cleaner, sandboxed, madeFor, deletedBy>>

\* .. and its stable revision is the plan's, field by field.
CompareAndReuse(p) ==
  /\ provision[p].pc = "compare"
  /\ \/ /\ provision[p].about \in Existing /\ RevisionMatches(provision[p].about)
        /\ Step(p, "reused")
     \/ Step(p, "failed")
  /\ UNCHANGED <<function, cleaner, sandboxed, madeFor, deletedBy>>

\* CreateFunction: an id, an invalid one, which is an error without a cleanup, or
\* no answer with or without an effect.  The function has the plan's name and
\* tags and the attempt's; of the rest the provider may make something else.
CreateFunction(p) ==
  /\ provision[p].pc = "create"
  /\ \/ \E f \in Fresh, s \in {"late", "draft"}, fits \in BOOLEAN :
          /\ function[f].state = "none"
          /\ function' = [function EXCEPT ![f] =
               [state |-> s, named |-> TRUE, managed |-> TRUE, attempt |-> p, fits |-> fits]]
          /\ madeFor' = [madeFor EXCEPT ![f] = p]
          /\ \/ s = "draft" /\ Aim(p, "release", f)
             \/ s = "draft" /\ Step(p, "unresolved")
             \/ Step(p, "ambiguous")
     \/ Step(p, "ambiguous") /\ UNCHANGED <<function, madeFor>>
  /\ UNCHANGED <<cleaner, sandboxed, deletedBy>>

\* Faulty variant: what bears the name is what was created.
ResolveByName(p) ==
  /\ provision[p].pc = "ambiguous"
  /\ \E f \in ExactName : ExactName = {f} /\ Aim(p, "remove", f)
  /\ UNCHANGED <<function, cleaner, sandboxed, madeFor, deletedBy>>

\* After a lost answer the inventory is listed until something bears the name.
\* What bears this attempt's tag, too, is to be deleted; what bears only the name
\* is left, and reported.
ResolveAmbiguity(p) ==
  LET possible == {f \in ExactName : function[f].attempt = p} IN
  /\ provision[p].pc = "ambiguous"
  /\ \/ \E f \in FunctionIds : possible = {f} /\ Aim(p, "remove", f)
     \/ /\ ExactName = {}
        /\ provision' = [provision EXCEPT ![p].tries = @ + 1,
             ![p].pc = IF provision[p].tries + 1 < AmbiguityTries THEN @ ELSE "failed"]
     \/ /\ ExactName # {} /\ Cardinality(possible) # 1
        /\ Step(p, "unresolved")
     \/ Step(p, "unresolved")     \* a bad inventory, an error
  /\ UNCHANGED <<function, cleaner, sandboxed, madeFor, deletedBy>>

\* The draft is compared, released, and polled until it is stable.
Release(p) ==
  LET f == provision[p].about IN
  /\ provision[p].pc = "release"
  /\ \/ /\ function[f].state = "draft" /\ RevisionMatches(f)
        /\ function' = [function EXCEPT ![f].state = "releasing"]
        /\ Step(p, "poll") \/ Step(p, "remove")
     \/ UNCHANGED function /\ Step(p, "remove")
  /\ UNCHANGED <<cleaner, sandboxed, madeFor, deletedBy>>

PollRelease(p) ==
  LET f == provision[p].about IN
  /\ provision[p].pc = "poll"
  /\ \/ function[f].state = "stable" /\ RevisionMatches(f) /\ Step(p, "created")
     \/ Step(p, "remove")     \* failed, an error, the deadline
  /\ UNCHANGED <<function, cleaner, sandboxed, madeFor, deletedBy>>

\* Whatever failed after the creation, or came of a lost answer, is taken back.
TakeBack(p) ==
  /\ provision[p].pc = "remove"
  /\ \/ Delete(p, provision[p].about) /\ Step(p, "verify")
     \/ Step(p, "unresolved") /\ UNCHANGED <<function, sandboxed, deletedBy>>
  /\ UNCHANGED <<cleaner, madeFor>>

VerifyDeletion(p) ==
  /\ provision[p].pc = "verify"
  /\ \/ InventoryExcludes(provision[p].about) /\ Step(p, "failed")
     \/ Step(p, "unresolved")
  /\ UNCHANGED <<function, cleaner, sandboxed, madeFor, deletedBy>>
-----------------------------------------------------------------------------
(* deletePrivateSandboxApplication, for the id that an operator recorded *)

CleanerLooks ==
  /\ cleaner.pc = "idle"
  /\ \E f \in FunctionIds :
       /\ function[f].state # "none" /\ f \notin sandboxed
       /\ cleaner' = [pc |-> "match", target |-> f]
  /\ UNCHANGED <<function, provision, sandboxed, madeFor, deletedBy>>

\* The id, the name and the managed tags must fit.
CleanerMatches ==
  /\ cleaner.pc = "match"
  /\ \/ /\ cleaner.target \in ExactName /\ function[cleaner.target].managed
        /\ cleaner' = [cleaner EXCEPT !.pc = "delete"]
     \/ cleaner' = [cleaner EXCEPT !.pc = "failed"]
  /\ UNCHANGED <<function, provision, sandboxed, madeFor, deletedBy>>

CleanerDeletes ==
  /\ cleaner.pc = "delete"
  /\ \/ /\ Delete("cleaner", cleaner.target)
        /\ cleaner' = [cleaner EXCEPT !.pc = "verify"]
     \/ /\ cleaner' = [cleaner EXCEPT !.pc = "failed"]
        /\ UNCHANGED <<function, sandboxed, deletedBy>>
  /\ UNCHANGED <<provision, madeFor>>

CleanerVerifies ==
  /\ cleaner.pc = "verify"
  /\ \/ InventoryExcludes(cleaner.target) /\ cleaner' = [cleaner EXCEPT !.pc = "absent"]
     \/ cleaner' = [cleaner EXCEPT !.pc = "failed"]
  /\ UNCHANGED <<function, provision, sandboxed, madeFor, deletedBy>>

ProvisioningNext ==
  \/ \E f \in FunctionIds : ProviderWorks(f) \/ SandboxUse(f)
  \/ \E p \in Provisioners :
       \/ ListByName(p) \/ CheckReleased(p) \/ CompareAndReuse(p) \/ CreateFunction(p)
       \/ ResolveAmbiguity(p) \/ Release(p) \/ PollRelease(p) \/ TakeBack(p) \/ VerifyDeletion(p)
  \/ CleanerLooks \/ CleanerMatches \/ CleanerDeletes \/ CleanerVerifies

ProvisioningSpec == ProvisioningInit /\ [][ProvisioningNext]_provisioningVars
-----------------------------------------------------------------------------
(* Properties *)

\* The type of the state.
ProvisioningTypeOK ==
  /\ \A f \in FunctionIds :
       /\ function[f].state \in {"none", "late", "draft", "releasing", "stable", "broken", "gone"}
       /\ function[f].attempt \in Provisioners \cup {Missing}
       /\ madeFor[f] \in Provisioners \cup {Missing}
  /\ \A p \in Provisioners :
       /\ provision[p].tries \in 0..AmbiguityTries
       /\ provision[p].about \in FunctionIds \cup {Missing}
  /\ sandboxed \subseteq FunctionIds

\* However answers are lost or late and provisioners of one name overlap, with each
\* other and with functions of other people, a provisioner asks to delete no function
\* but the one that was made for it ("Ambiguous CreateFunction cleanup target was not
\* proven disposable", sandboxApplication.ts:176), and the cleanup none but the
\* recorded one, if it has the plan's name and the managed tags.
OnlyOwnFunctionIsDeleted ==
  \A f \in FunctionIds :
    /\ deletedBy[f] \subseteq {madeFor[f], "cleaner"}
    /\ "cleaner" \in deletedBy[f] =>
         f = cleaner.target /\ function[f].named /\ function[f].managed
=============================================================================
