---------------------------- MODULE MCSuspension ----------------------------
(***************************************************************************)
(* Suspension for TLC: a run with and without a session, two names so that *)
(* a delivery may miss the wait.                                           *)
(***************************************************************************)
EXTENDS Suspension
=============================================================================
