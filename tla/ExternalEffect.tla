--------------------------- MODULE ExternalEffect ---------------------------
(***************************************************************************)
(* What the kernel promises of one logical external action: a durable      *)
(* record is opened before the effect can happen, the effect happens at    *)
(* most once, and the record is closed as done only after the effect and   *)
(* as failed only when there is none and will be none.  An uncertain       *)
(* outcome is escalated to an operator.                                    *)
(***************************************************************************)
EXTENDS Naturals

VARIABLES
  record,   \* "none", "open", "done", "failed" or "escalated"
  effects   \* how often the external system has been changed

vars == <<record, effects>>

Init == record = "none" /\ effects = 0

Open     == record = "none" /\ record' = "open" /\ UNCHANGED effects
Confirm  == record = "open" /\ effects = 1 /\ record' = "done" /\ UNCHANGED effects
Abandon  == record = "open" /\ effects = 0 /\ record' = "failed" /\ UNCHANGED effects
Escalate == record = "open" /\ record' = "escalated" /\ UNCHANGED effects

TakeEffect ==
  /\ record \in {"open", "escalated"}
  /\ effects = 0
  /\ effects' = 1
  /\ UNCHANGED record

Next == Open \/ Confirm \/ Abandon \/ Escalate \/ TakeEffect

Spec == Init /\ [][Next]_vars
=============================================================================
