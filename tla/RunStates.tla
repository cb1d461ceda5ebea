------------------------------ MODULE RunStates ------------------------------
(***************************************************************************)
(* The states of a run and the edges transitionRun accepts between them.   *)
(* Pure definitions, shared by every module that moves a run.              *)
(***************************************************************************)

\* The allowed run-state transitions, from each status to its successors.
TRANSITIONS ==
  [ CREATED          |-> {"RESOLVING", "FAILED", "CANCELLED"},
    RESOLVING        |-> {"QUEUED", "FAILED", "CANCELLED"},
    QUEUED           |-> {"STARTING", "FAILED", "CANCELLED"},
    STARTING         |-> {"RUNNING", "QUEUED", "RETRY_PENDING", "FAILED",
                          "CANCELLED"},
    RUNNING          |-> {"WAITING_APPROVAL", "WAITING_SIGNAL",
                          "WAITING_CHILDREN", "RETRY_PENDING", "VERIFYING",
                          "QUEUED", "FAILED", "CANCELLED"},
    WAITING_APPROVAL |-> {"QUEUED", "FAILED", "CANCELLED"},
    WAITING_SIGNAL   |-> {"QUEUED", "FAILED", "CANCELLED"},
    WAITING_CHILDREN |-> {"QUEUED", "FAILED", "CANCELLED"},
    SLEEPING         |-> {"QUEUED", "FAILED", "CANCELLED"},
    SUSPENDED        |-> {"QUEUED", "FAILED", "CANCELLED"},
    RETRY_PENDING    |-> {"QUEUED", "FAILED", "CANCELLED"},
    VERIFYING        |-> {"COMPLETED", "RUNNING", "QUEUED", "FAILED",
                          "CANCELLED"},
    COMPLETED        |-> {},
    FAILED           |-> {},
    CANCELLED        |-> {} ]

RunStatus == DOMAIN TRANSITIONS

isTransitionAllowed(from, to) == to \in TRANSITIONS[from]

isTerminal(s) == TRANSITIONS[s] = {}

\* The statuses in which an attempt is executing the run: the ones the reaper
\* and the settlement of a failed attempt take a run out of.
Executing == {"STARTING", "RUNNING", "VERIFYING"}

\* The waits an epoch suspends a run into.
Waiting == {"WAITING_APPROVAL", "WAITING_SIGNAL", "WAITING_CHILDREN"}
==============================================================================
