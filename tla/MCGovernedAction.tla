-------------------------- MODULE MCGovernedAction --------------------------
(***************************************************************************)
(* GovernedAction for TLC.                                                 *)
(***************************************************************************)
EXTENDS GovernedAction
=============================================================================
