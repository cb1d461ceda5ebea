--------------------------- MODULE MCRunLifecycle ---------------------------
(***************************************************************************)
(* RunLifecycle for TLC.  The configurations give MaxAttempts and          *)
(* ClaimLimit the value 2: the first attempt is requeued and the second    *)
(* one is the last the run is allowed, and a stale epoch of the first      *)
(* already meets the second.                                               *)
(***************************************************************************)
EXTENDS RunLifecycle
=============================================================================
