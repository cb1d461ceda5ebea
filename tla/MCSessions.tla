----------------------------- MODULE MCSessions -----------------------------
(***************************************************************************)
(* Sessions for TLC.  A behaviour leaves out one of `Absences', so that    *)
(* each case is explored with the others out of its way:                   *)
(*   - one session is cancelled while its run delegates or waits;          *)
(*   - one session is served by two workers;                               *)
(*   - two sessions are sent each other's events.                         *)
(***************************************************************************)
EXTENDS Sessions

CONSTANT Absences

VARIABLE absent

\* A tenant is served by finitely many workers.
ASSUME WorkersAssumption == IsFiniteSet(Dispatchers)

MCInit == Init /\ absent \in Absences

\* Without a cancellation there is no delegation, no wait, no signal and no
\* first run either.
MCNext ==
  /\ Next
  /\ \A s \in SessionIds : s \in absent => session'[s] = NoSession
  /\ \A w \in Dispatchers : w \in absent => dispatcher'[w] = IdleDispatcher
  /\ \A c \in Cancellers : c \in absent =>
       /\ canceller'[c] = IdleCanceller
       /\ \A r \in Runs :
            /\ run'[r].parent = None
            /\ run'[r].status \notin {"CANCELLED", "WAITING_SIGNAL"}
            /\ run'[r] = NoRun \/ run'[r].event # NoOne
       /\ \A p \in Receivers : receiver'[p].class # "current-run"
  /\ UNCHANGED absent

MCSpec == MCInit /\ [][MCNext]_<<vars, absent>>

\* One worker and no event repeated for another session: then the events of a
\* session become runs in order, in spite of deferral and late arrival.
OrderedByOneWorker ==
  Cardinality(SessionIds \ absent) = 1 /\ Cardinality(Dispatchers \ absent) = 1
    => NewerEventsDoNotOvertake
=============================================================================
