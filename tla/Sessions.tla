------------------------------ MODULE Sessions ------------------------------
(***************************************************************************)
(* Managed sessions: inbound events are accepted once, queued, and made    *)
(* into one top-level run at a time; a cancellation fences every run.      *)
(*                                                                         *)
(* Each transaction is the sequence of its waits for row locks.  What it   *)
(* writes takes effect at its commit, the step after its last wait, and a  *)
(* transaction on a cycle of waits is rolled back.  Time is relative: a    *)
(* timestamp is kept as its distance from now, so a late one is negative.  *)
(*                                                                         *)
(* Runs are only what a session sees of them.  STARTING is part of RUNNING *)
(* and so is VERIFYING; FAILED is COMPLETED.  An event's content belongs   *)
(* to its id and session, so an id repeated for another session of the     *)
(* tenant is the conflicting repetition.  MaxRuns, MaxChildren, MaxAge and *)
(* RetryDelay bound the model.                                             *)
(***************************************************************************)
EXTENDS Integers, FiniteSets, RunStates

CONSTANTS
  SessionIds, EventIds,
  NoOne,           \* no session, event or transaction
  Receivers,       \* POST /events requests in flight
  Cancellers,      \* POST /cancel requests in flight
  Dispatchers,     \* the workers' dispatch passes
  MaxRuns, MaxChildren,
  CandidateLimit,  \* options.candidateLimit
  RetryDelay,      \* options.retryDelayMs, in ticks
  MaxAge,          \* ticks a receipt or a pass lasts
  MaxAttempts      \* tries of withContentionRetry

ASSUME NumbersAssumption ==
  /\ IsFiniteSet(SessionIds) /\ IsFiniteSet(EventIds)
  /\ {MaxRuns, MaxChildren, RetryDelay, MaxAge} \subseteq Nat
  /\ {CandidateLimit, MaxAttempts} \subseteq Nat \ {0}
  /\ MaxRuns >= Cardinality(SessionIds) + Cardinality(EventIds) + MaxChildren

Runs == 1..MaxRuns
None == 0
Procs == Receivers \union Cancellers \union Dispatchers \union Runs

\* A transaction is of one kind, and NoOne is nobody.
ASSUME ActorsAssumption ==
  /\ NoOne \notin SessionIds \union EventIds \union Procs
  /\ Receivers \intersect Cancellers = {}
  /\ (Receivers \union Cancellers) \intersect Dispatchers = {}
  /\ (Receivers \union Cancellers \union Dispatchers) \intersect Runs = {}

TenantRow == <<"tenant">>
SessionRow(s) == <<"session", s>>
EventRow(e) == <<"event", e>>
KeyRow(e) == <<"key", e>>    \* the advisory lock of its tuple
RunRow(r) == <<"run", r>>
Resources == {TenantRow} \union {SessionRow(s) : s \in SessionIds}
             \union {EventRow(e) : e \in EventIds} \union {KeyRow(e) : e \in EventIds}
             \union {RunRow(r) : r \in Runs}

VARIABLES
  session,     \* managed_sessions of a tenant: state, current run, received_event_seq
  event,       \* managed_session_events by deduplication tuple
  run,         \* the sessions' runs: session, parent, status, event
  room,        \* tenants.max_concurrent_runs admits another run
  lock,        \* the holder of each row and advisory lock
  receiver, canceller, dispatcher,
  worker       \* the transaction on each run of its worker or of the API

vars == <<session, event, run, room, lock, receiver, canceller, dispatcher,
          worker>>

NoSession == [state |-> "absent", current |-> None, seq |-> 0]
NoEvent == [session |-> NoOne, class |-> "none", status |-> "absent",
            seq |-> 0, run |-> None, after |-> 0, born |-> 0]
NoRun == [session |-> NoOne, parent |-> None, status |-> "absent",
          event |-> NoOne]
IdleReceiver == [pc |-> "idle", event |-> NoOne, session |-> NoOne,
                 class |-> "none", time |-> 0, attempt |-> 0]
IdleCanceller == [pc |-> "idle", session |-> NoOne, todo |-> {},
                  attempt |-> 0]
IdleDispatcher == [pc |-> "idle", now |-> 0, todo |-> {}, event |-> NoOne]
IdleWorker == [pc |-> "idle", to |-> "none"]

Init ==
  /\ session = [s \in SessionIds |-> NoSession]
  /\ event = [e \in EventIds |-> NoEvent]
  /\ run = [r \in Runs |-> NoRun]
  /\ room = TRUE
  /\ lock = [x \in Resources |-> NoOne]
  /\ receiver = [p \in Receivers |-> IdleReceiver]
  /\ canceller = [c \in Cancellers |-> IdleCanceller]
  /\ dispatcher = [w \in Dispatchers |-> IdleDispatcher]
  /\ worker = [r \in Runs |-> IdleWorker]

-----------------------------------------------------------------------------
(* Locks.                                                                  *)

Free(x) == lock[x] = NoOne
Acquire(p, xs) == lock' = [x \in Resources |-> IF x \in xs THEN p ELSE lock[x]]

\* COMMIT and ROLLBACK: every lock of the transaction is released.
Released(p) == [x \in Resources |-> IF lock[x] = p THEN NoOne ELSE lock[x]]

\* Faulty variant: the connection of a failed transaction goes back to the
\* pool without a ROLLBACK.
ReleasedWithoutRollback(p) == lock

RolledBack(p) == Released(p)

-----------------------------------------------------------------------------
(* Runs and their sessions.                                                *)

Live(r) == run[r].status \in RunStatus /\ ~isTerminal(run[r].status)
RunsOf(s) == {r \in Runs : run[r].session = s}
Children(r) == {c \in Runs : run[c].parent = r}

\* The state a session shows for the status of its top-level run.
ProjectedState(status) ==
  CASE status = "WAITING_APPROVAL" -> "REQUIRES_ACTION"
    [] status \in {"WAITING_SIGNAL", "WAITING_CHILDREN", "SLEEPING",
                   "SUSPENDED"} -> "WAITING"
    [] isTerminal(status) -> "IDLE"
    [] OTHER -> "ACTIVE"

\* The rows the projecting UPDATE matches.
Projects(r, status) ==
  LET row == session[run[r].session] IN
  /\ run[r].parent = None
  /\ row.current = r
  /\ row.state # "CANCELLED"
  /\ \/ row.state # ProjectedState(status)
     \/ isTerminal(status)

\* Faulty variant: the session keeps the run that has ended.
ProjectsKeepingRun(r, status) ==
  session' = IF ~Projects(r, status) THEN session
             ELSE [session EXCEPT ![run[r].session].state = ProjectedState(status)]

\* An ended run leaves its session idle.
ProjectedRow(row, status) ==
  [state |-> ProjectedState(status),
   current |-> IF isTerminal(status) THEN None ELSE row.current,
   seq |-> row.seq]

projectTopLevelRunStateToSession(r, status) ==
  session' =
    IF ~Projects(r, status) THEN session
    ELSE [session EXCEPT
            ![run[r].session] = ProjectedRow(session[run[r].session], status)]

NextRun == CHOOSE r \in Runs : run[r] = NoRun
                               /\ \A o \in Runs : run[o] = NoRun => r <= o

\* A run commits as QUEUED; a top-level one takes its session.
createRun(s, parent, e) ==
  run' = [run EXCEPT ![NextRun] = [session |-> s, parent |-> parent,
                                   status |-> "QUEUED", event |-> e]]

ActiveRow(s, r) == [state |-> "ACTIVE", current |-> r, seq |-> session[s].seq]

\* POST /sessions, with or without a first run.  The idempotency key names
\* the session here, so a repeated request finds it and changes nothing.
createManagedSession(s, start) ==
  /\ session[s] = NoSession
  /\ start => Free(TenantRow) /\ room
  /\ session' = [session EXCEPT
       ![s] = [state |-> IF start THEN "ACTIVE" ELSE "IDLE",
               current |-> IF start THEN NextRun ELSE None, seq |-> 0]]
  /\ IF start THEN createRun(s, None, NoOne) ELSE run' = run
  /\ UNCHANGED <<event, room, lock, receiver, canceller, dispatcher, worker>>

-----------------------------------------------------------------------------
(* POST /events.                                                           *)

\* A request begins, and with it its transaction's now().
ReceiveBegins(p, s, e, class) ==
  /\ receiver[p].pc = "idle"
  /\ session[s] # NoSession
  /\ receiver' = [receiver EXCEPT
       ![p] = [pc |-> "begun", event |-> e, session |-> s, class |-> class,
               time |-> 0, attempt |-> 1]]
  /\ UNCHANGED <<session, event, run, room, lock, canceller, dispatcher,
                 worker>>

ReceiverDone(p) == receiver' = [receiver EXCEPT ![p] = IdleReceiver]

\* The row of an event, and the session that has numbered it.
Accepted(p, status, r) ==
  LET q == receiver[p]
      n == session[q.session].seq + 1
  IN event' = [event EXCEPT
       ![q.event] = [session |-> q.session, class |-> q.class,
                     status |-> status, seq |-> n, run |-> r,
                     after |-> q.time,
                     born |-> Cardinality({e \in EventIds :
                                             event[e] # NoEvent}) + 1]]

Numbered(row, state) ==
  [state |-> state, current |-> row.current, seq |-> row.seq + 1]

\* The advisory lock of the tuple and the session's row are there to take.
ReceiveMayLock(p) ==
  /\ receiver[p].pc = "begun"
  /\ Free(SessionRow(receiver[p].session))
  /\ Free(KeyRow(receiver[p].event))

\* The current run, whose row is read without a lock, is waiting.
CurrentRunWaits(row) ==
  IF row.current = None THEN FALSE ELSE run[row.current].status = "WAITING_SIGNAL"

\* An exact repetition, or a request the session does not accept.
ReceiveAnswers(p) ==
  LET q == receiver[p]
      row == session[q.session]
  IN
  /\ ReceiveMayLock(p)
  /\ \/ event[q.event].session = q.session
     \/ /\ event[q.event] = NoEvent
        /\ \/ row.state = "CANCELLED"
           \/ q.class = "current-run" /\ ~CurrentRunWaits(row)
  /\ ReceiverDone(p)
  /\ UNCHANGED <<session, event, run, room, lock, canceller, dispatcher,
                 worker>>

\* The tuple was used for another session: that row is locked, then refused.
ReceiveFindsConflict(p) ==
  LET q == receiver[p] IN
  /\ ReceiveMayLock(p)
  /\ event[q.event].session \notin {NoOne, q.session}
  /\ Free(EventRow(q.event))
  /\ Acquire(p, {SessionRow(q.session), KeyRow(q.event),
                 EventRow(q.event)})
  /\ receiver' = [receiver EXCEPT ![p].pc = "conflict"]
  /\ UNCHANGED <<session, event, run, room, canceller, dispatcher, worker>>

ReceiveRefusesConflict(p) ==
  /\ receiver[p].pc = "conflict"
  /\ lock' = RolledBack(p)
  /\ ReceiverDone(p)
  /\ UNCHANGED <<session, event, run, room, canceller, dispatcher, worker>>

\* Future work is queued, whatever the session is doing.
ReceiveQueues(p) ==
  LET q == receiver[p] IN
  /\ ReceiveMayLock(p)
  /\ event[q.event] = NoEvent
  /\ session[q.session].state # "CANCELLED"
  /\ q.class = "future-run"
  /\ Accepted(p, "PENDING", None)
  /\ session' = [session EXCEPT
       ![q.session] = Numbered(session[q.session], session[q.session].state)]
  /\ ReceiverDone(p)
  /\ UNCHANGED <<run, room, lock, canceller, dispatcher, worker>>

\* A signal found its run waiting; the transition needs the run's row.
ReceiveFindsWait(p) ==
  LET q == receiver[p]
      row == session[q.session]
  IN
  /\ ReceiveMayLock(p)
  /\ event[q.event] = NoEvent
  /\ row.state # "CANCELLED"
  /\ q.class = "current-run"
  /\ CurrentRunWaits(row)
  /\ Acquire(p, {SessionRow(q.session), KeyRow(q.event)})
  /\ receiver' = [receiver EXCEPT ![p].pc = "signal"]
  /\ UNCHANGED <<session, event, run, room, canceller, dispatcher, worker>>

\* transitionRun under the run's lock: it resumes the run, or refuses one
\* that no longer waits and takes the receipt back with it.
ReceiveSignals(p) ==
  LET q == receiver[p]
      r == session[q.session].current
  IN
  /\ receiver[p].pc = "signal"
  /\ Free(RunRow(r))
  /\ IF run[r].status = "WAITING_SIGNAL"
     THEN /\ Accepted(p, "CONSUMED", r)
          /\ run' = [run EXCEPT ![r].status = "QUEUED"]
          /\ session' = [session EXCEPT
               ![q.session] = Numbered(session[q.session],
                                       ProjectedState("QUEUED"))]
     ELSE UNCHANGED <<session, event, run>>
  /\ lock' = Released(p)
  /\ ReceiverDone(p)
  /\ UNCHANGED <<room, canceller, dispatcher, worker>>

-----------------------------------------------------------------------------
(* POST /cancel.                                                           *)

CancelBegins(c, s) ==
  /\ canceller[c].pc = "idle"
  /\ session[s] # NoSession
  /\ canceller' = [canceller EXCEPT
       ![c] = [pc |-> "begun", session |-> s, todo |-> {}, attempt |-> 1]]
  /\ UNCHANGED <<session, event, run, room, lock, receiver, dispatcher,
                 worker>>

\* Faulty variant: only the session's own run is fenced.
TopLevelOnly(s) == {r \in RunsOf(s) : Live(r) /\ run[r].parent = None}

\* The runs to fence, and the order in which the query lists them: children
\* before the top level, older ones first.
ToFence(s) == {r \in RunsOf(s) : Live(r)}

ListedBefore(a, b) ==
  \/ run[a].parent # None /\ run[b].parent = None
  \/ (run[a].parent = None <=> run[b].parent = None) /\ a < b

NextToFence(c) ==
  CHOOSE r \in canceller[c].todo :
    \A o \in canceller[c].todo : o = r \/ ListedBefore(r, o)

\* With the session's row locked, the command's receipt and state are read.
CancelLocksSession(c) ==
  LET s == canceller[c].session IN
  /\ canceller[c].pc = "begun"
  /\ Free(SessionRow(s))
  /\ IF session[s].state = "CANCELLED"
     THEN /\ canceller' = [canceller EXCEPT ![c] = IdleCanceller]
          /\ UNCHANGED lock
     ELSE /\ canceller' = [canceller EXCEPT
               ![c] = [pc |-> "fencing", session |-> s, todo |-> ToFence(s),
                       attempt |-> canceller[c].attempt]]
          /\ Acquire(c, {SessionRow(s)})
  /\ UNCHANGED <<session, event, run, room, receiver, dispatcher, worker>>

\* fenceManagedSessionRuns takes the next run.
CancelLocksRun(c) ==
  /\ canceller[c].pc = "fencing"
  /\ canceller[c].todo # {}
  /\ Free(RunRow(NextToFence(c)))
  /\ Acquire(c, {RunRow(NextToFence(c))})
  /\ canceller' = [canceller EXCEPT ![c].todo = canceller[c].todo \ {NextToFence(c)}]
  /\ UNCHANGED <<session, event, run, room, receiver, dispatcher, worker>>

\* The events a cancellation declares stale.
Stale(s) == {e \in EventIds : event[e].session = s /\ event[e].status = "PENDING"}

CancelCommits(c) ==
  LET s == canceller[c].session
      fenced == {r \in Runs : lock[RunRow(r)] = c /\ Live(r)}
  IN
  /\ canceller[c].pc = "fencing"
  /\ canceller[c].todo = {}
  /\ run' = [r \in Runs |-> IF r \in fenced
                            THEN [run[r] EXCEPT !.status = "CANCELLED"]
                            ELSE run[r]]
  /\ event' = [e \in EventIds |-> IF e \in Stale(s)
                                  THEN [event[e] EXCEPT !.status = "STALE"]
                                  ELSE event[e]]
  /\ session' = [session EXCEPT ![s].state = "CANCELLED"]
  /\ lock' = Released(c)
  /\ canceller' = [canceller EXCEPT ![c] = IdleCanceller]
  /\ UNCHANGED <<room, receiver, dispatcher, worker>>

-----------------------------------------------------------------------------
(* dispatchPendingSessionEvents: a pass of a worker over the candidates.   *)

\* Faulty variant: the query does not look at the receipt's status.
InAnyStatus(s) == {e \in EventIds : event[e].session = s
                                    /\ event[e].class = "future-run"}

Pending(s) == {e \in EventIds : /\ event[e].session = s
                                /\ event[e].status = "PENDING"
                                /\ event[e].class = "future-run"}

\* Faulty variant: the queue is read in no order.
AnyOf(es) == CHOOSE e \in es : TRUE

Earliest(es) == CHOOSE e \in es : \A f \in es : event[e].seq <= event[f].seq

\* The idle sessions whose earliest event is due, each with the time of that
\* event; the limit keeps those of the oldest events.
Candidates ==
  LET due == {s \in SessionIds :
                /\ session[s].state = "IDLE"
                /\ Pending(s) # {}
                /\ event[Earliest(Pending(s))].after <= 0}
      rows == {[session |-> s, born |-> event[Earliest(Pending(s))].born] : s \in due}
  IN {row \in rows : Cardinality({o \in rows : o.born < row.born}) < CandidateLimit}

PassBegins(w) ==
  /\ dispatcher[w].pc = "idle"
  /\ Candidates # {}
  /\ dispatcher' = [dispatcher EXCEPT
       ![w] = [pc |-> "pass", now |-> 0, todo |-> Candidates,
               event |-> NoOne]]
  /\ UNCHANGED <<session, event, run, room, lock, receiver, canceller, worker>>

Oldest(rows) == CHOOSE row \in rows : \A o \in rows : row.born <= o.born

Candidate(w) == Oldest(dispatcher[w].todo).session

\* The next candidate, or the end of the pass.
NextCandidate(w) ==
  LET rest == dispatcher[w].todo \ {Oldest(dispatcher[w].todo)} IN
  dispatcher' = [dispatcher EXCEPT
    ![w] = IF rest # {}
           THEN [pc |-> "pass", now |-> dispatcher[w].now, todo |-> rest,
                 event |-> NoOne]
           ELSE IdleDispatcher]

\* The due events of the session whose rows nobody has locked.
Selectable(w) ==
  {e \in Pending(Candidate(w)) : /\ event[e].after <= dispatcher[w].now
                                 /\ Free(EventRow(e))}

SessionSelectable(s) ==
  /\ session[s].state = "IDLE"
  /\ Free(SessionRow(s))

SelectionLocks(w, e) == {SessionRow(Candidate(w)), EventRow(e)}

\* FOR UPDATE SKIP LOCKED on the session, then on its first selectable event.
SelectEvent(w) ==
  LET s == Candidate(w) IN
  /\ dispatcher[w].pc = "pass"
  /\ IF SessionSelectable(s) /\ Selectable(w) # {}
     THEN LET e == Earliest(Selectable(w)) IN
          /\ Acquire(w, SelectionLocks(w, e))
          /\ dispatcher' = [dispatcher EXCEPT
               ![w] = [pc |-> "admit", now |-> dispatcher[w].now,
                       todo |-> dispatcher[w].todo, event |-> e]]
     ELSE NextCandidate(w) /\ UNCHANGED lock
  /\ UNCHANGED <<session, event, run, room, receiver, canceller, worker>>

DispatchedTo(row, r) == [row EXCEPT !.status = "DISPATCHED", !.run = r]

\* createRun waits for the tenant's row, and admits or rejects the run.
AdmitEvent(w) ==
  LET s == Candidate(w)
      e == dispatcher[w].event
  IN
  /\ dispatcher[w].pc = "admit"
  /\ Free(TenantRow)
  /\ IF room
     THEN /\ createRun(s, None, e)
          /\ session' = [session EXCEPT ![s] = ActiveRow(s, NextRun)]
          /\ event' = [event EXCEPT ![e] = DispatchedTo(event[e], NextRun)]
          /\ NextCandidate(w)
     ELSE /\ dispatcher' = [dispatcher EXCEPT ![w].pc = "defer"]
          /\ UNCHANGED <<session, event, run>>
  /\ lock' = Released(w)
  /\ UNCHANGED <<room, receiver, canceller, worker>>

\* A rejected admission delays the whole queue, in a statement of its own.
DeferredEvents(w) ==
  LET until == dispatcher[w].now + RetryDelay IN
  event' = [e \in EventIds |->
              IF e \in Pending(Candidate(w)) /\ event[e].after < until
              THEN [event[e] EXCEPT !.after = until] ELSE event[e]]

DeferSession(w) ==
  /\ dispatcher[w].pc = "defer"
  /\ DeferredEvents(w)
  /\ NextCandidate(w)
  /\ UNCHANGED <<session, run, room, lock, receiver, canceller, worker>>

\* The worker is lost, and with it the pass and its open transaction.
DispatcherCrashes(w) ==
  /\ dispatcher[w].pc # "idle"
  /\ lock' = Released(w)
  /\ dispatcher' = [dispatcher EXCEPT ![w] = IdleDispatcher]
  /\ UNCHANGED <<session, event, run, room, receiver, canceller, worker>>

-----------------------------------------------------------------------------
(* Transitions of a session's run by its worker or by the API.             *)

\* The steps of a run that concern its session.
RunSteps ==
  {<<"QUEUED", "RUNNING">>, <<"RUNNING", "WAITING_SIGNAL">>,
   <<"RUNNING", "WAITING_CHILDREN">>, <<"WAITING_CHILDREN", "QUEUED">>,
   <<"RUNNING", "COMPLETED">>}
  \union {<<from, "CANCELLED">> : from \in {"QUEUED", "RUNNING",
                                   "WAITING_SIGNAL", "WAITING_CHILDREN"}}

\* Delegation and its resolution lock the tenant before the parent's row.
ViaTenant(from, to) == <<from, to>> \in {<<"RUNNING", "WAITING_CHILDREN">>,
                                         <<"WAITING_CHILDREN", "QUEUED">>}

MayStep(r, to) ==
  /\ <<run[r].status, to>> \in RunSteps
  /\ to = "WAITING_CHILDREN" =>
       Cardinality({c \in Runs : run[c].parent # None}) < MaxChildren
  /\ run[r].status = "WAITING_CHILDREN" /\ to = "QUEUED" =>
       \A c \in Children(r) : ~Live(c)

RunStepBegins(r, to) ==
  /\ worker[r].pc = "idle"
  /\ MayStep(r, to)
  /\ IF ViaTenant(run[r].status, to)
     THEN /\ Free(TenantRow)
          /\ Acquire(r, {TenantRow})
          /\ worker' = [worker EXCEPT ![r] = [pc |-> "tenant", to |-> to]]
     ELSE /\ Free(RunRow(r))
          /\ Acquire(r, {RunRow(r)})
          /\ worker' = [worker EXCEPT ![r] = [pc |-> "run", to |-> to]]
  /\ UNCHANGED <<session, event, run, room, receiver, canceller, dispatcher>>

RunStepEnds(r) ==
  /\ lock' = Released(r)
  /\ worker' = [worker EXCEPT ![r] = IdleWorker]

RunStepLocksRun(r) ==
  /\ worker[r].pc = "tenant"
  /\ Free(RunRow(r))
  /\ IF MayStep(r, worker[r].to)
     THEN /\ Acquire(r, {RunRow(r)})
          /\ worker' = [worker EXCEPT ![r].pc = "run"]
     ELSE RunStepEnds(r)
  /\ UNCHANGED <<session, event, run, room, receiver, canceller, dispatcher>>

Delegates(r) == worker[r].to = "WAITING_CHILDREN"

\* A child's insertion locks the session FOR KEY SHARE, the projection of a
\* top-level run's status updates it.
WaitsForSession(r) == Delegates(r) \/ Projects(r, worker[r].to)

\* The trigger runs_session_lineage_guard accepts a child of the run.
SessionAcceptsRuns(s) == session[s].state # "CANCELLED"

RunStepCommits(r) ==
  LET s == run[r].session
      to == worker[r].to
  IN
  /\ worker[r].pc = "run"
  /\ WaitsForSession(r) => Free(SessionRow(s))
  /\ IF Delegates(r) /\ ~(SessionAcceptsRuns(s) /\ room)
     THEN UNCHANGED <<session, run>>
     ELSE /\ run' = IF Delegates(r)
                    THEN [run EXCEPT
                           ![r].status = to,
                           ![NextRun] = [session |-> s, parent |-> r,
                                         status |-> "QUEUED", event |-> NoOne]]
                    ELSE [run EXCEPT ![r].status = to]
          /\ projectTopLevelRunStateToSession(r, to)
  /\ RunStepEnds(r)
  /\ UNCHANGED <<event, room, receiver, canceller, dispatcher>>

-----------------------------------------------------------------------------
(* Deadlocks, and the environment.                                         *)

\* The row a transaction that holds another one waits for.
Wanted(p) ==
  CASE p \in Receivers ->
         IF receiver[p].pc = "signal"
         THEN {RunRow(session[receiver[p].session].current)} ELSE {}
    [] p \in Cancellers ->
         IF canceller[p].pc = "fencing" /\ canceller[p].todo # {}
         THEN {RunRow(NextToFence(p))} ELSE {}
    [] p \in Dispatchers ->
         IF dispatcher[p].pc = "admit" THEN {TenantRow} ELSE {}
    [] OTHER ->
         CASE worker[p].pc = "tenant" -> {RunRow(p)}
           [] worker[p].pc = "run" /\ WaitsForSession(p) ->
                {SessionRow(run[p].session)}
           [] OTHER -> {}

Holders(p) == {lock[x] : x \in Wanted(p)} \ {NoOne}

\* A cycle of two or of three; the locks allow no longer one.
Deadlocked(p) ==
  \E q \in Holders(p) : \/ p \in Holders(q)
                        \/ \E o \in Holders(q) : p \in Holders(o)

\* A request of the session routes begins again, MaxAttempts times at most.
ReceivesAgain(q) ==
  IF q.attempt >= MaxAttempts THEN IdleReceiver
  ELSE [pc |-> "begun", event |-> q.event, session |-> q.session,
        class |-> q.class, time |-> 0, attempt |-> q.attempt + 1]

CancelsAgain(q) ==
  IF q.attempt >= MaxAttempts THEN IdleCanceller
  ELSE [pc |-> "begun", session |-> q.session, todo |-> {},
        attempt |-> q.attempt + 1]

\* The database fails one transaction of the cycle.  A dispatch pass and a
\* worker's step are given up.
DeadlockAborts(p) ==
  /\ Deadlocked(p)
  /\ lock' = RolledBack(p)
  /\ receiver' = IF p \notin Receivers THEN receiver
                 ELSE [receiver EXCEPT ![p] = ReceivesAgain(receiver[p])]
  /\ canceller' = IF p \notin Cancellers THEN canceller
                  ELSE [canceller EXCEPT ![p] = CancelsAgain(canceller[p])]
  /\ dispatcher' = IF p \notin Dispatchers THEN dispatcher
                   ELSE [dispatcher EXCEPT ![p] = IdleDispatcher]
  /\ worker' = IF p \notin Runs THEN worker
               ELSE [worker EXCEPT ![p] = IdleWorker]
  /\ UNCHANGED <<session, event, run, room>>

\* An operator changes a quota, or the tenant's other runs use it up.
QuotaChanges ==
  /\ room' = ~room
  /\ UNCHANGED <<session, event, run, lock, receiver, canceller, dispatcher,
                 worker>>

Older(t) == IF t > -MaxAge THEN t - 1 ELSE t

\* Time passes, but no receipt and no pass lasts longer than MaxAge.
Tick ==
  /\ \A p \in Receivers : receiver[p].pc # "idle" => receiver[p].time > -MaxAge
  /\ \A w \in Dispatchers : dispatcher[w].pc # "idle" => dispatcher[w].now > -MaxAge
  /\ event' = [e \in EventIds |-> IF event[e].status = "PENDING"
                                  THEN [event[e] EXCEPT !.after = Older(@)]
                                  ELSE event[e]]
  /\ receiver' = [p \in Receivers |->
                    IF receiver[p].pc = "idle" THEN receiver[p]
                    ELSE [receiver[p] EXCEPT !.time = @ - 1]]
  /\ dispatcher' = [w \in Dispatchers |->
                      IF dispatcher[w].pc = "idle" THEN dispatcher[w]
                      ELSE [dispatcher[w] EXCEPT !.now = @ - 1]]
  /\ UNCHANGED <<session, run, room, lock, canceller, worker>>

-----------------------------------------------------------------------------
Receive(p) ==
  \/ ReceiveAnswers(p)
  \/ ReceiveFindsConflict(p)
  \/ ReceiveRefusesConflict(p)
  \/ ReceiveQueues(p)
  \/ ReceiveFindsWait(p)
  \/ ReceiveSignals(p)

Cancel(c) == CancelLocksSession(c) \/ CancelLocksRun(c) \/ CancelCommits(c)

Dispatch(w) ==
  PassBegins(w) \/ SelectEvent(w) \/ AdmitEvent(w) \/ DeferSession(w)

RunStep(r) == RunStepLocksRun(r) \/ RunStepCommits(r)

Next ==
  \/ \E s \in SessionIds, start \in BOOLEAN : createManagedSession(s, start)
  \/ \E p \in Receivers, s \in SessionIds, e \in EventIds,
        class \in {"current-run", "future-run"} : ReceiveBegins(p, s, e, class)
  \/ \E p \in Receivers : Receive(p)
  \/ \E c \in Cancellers, s \in SessionIds : CancelBegins(c, s)
  \/ \E c \in Cancellers : Cancel(c)
  \/ \E w \in Dispatchers : Dispatch(w) \/ DispatcherCrashes(w)
  \/ \E r \in Runs, to \in RunStatus : RunStepBegins(r, to)
  \/ \E r \in Runs : RunStep(r)
  \/ \E p \in Procs : DeadlockAborts(p)
  \/ QuotaChanges
  \/ Tick

Spec == Init /\ [][Next]_vars

-----------------------------------------------------------------------------
(* Properties.                                                             *)

SessionStates == {"absent", "IDLE", "ACTIVE", "WAITING", "REQUIRES_ACTION",
                  "CANCELLED"}

\* The type of the state.
TypeOK ==
  /\ session \in [SessionIds -> [state : SessionStates, current : Runs \union {None},
                                seq : 0..Cardinality(EventIds)]]
  /\ \A e \in EventIds :
       /\ event[e].status \in {"absent", "PENDING", "CONSUMED", "DISPATCHED", "STALE"}
       /\ event[e].run \in Runs \union {None}
       /\ event[e].after \in -MaxAge..RetryDelay
  /\ \A r \in Runs : run[r].status \in RunStatus \union {"absent"}
  /\ lock \in [Resources -> Procs \union {NoOne}]

\* A cancelled session has no run that still executes or waits, a delegated
\* one included, and no event that still looks like work.  The cancellation
\* (fenceManagedSessionRuns) fences the runs it has listed, so delegation,
\* dispatch and receipt must all be kept out while it works and afterwards.
CancelledSessionIsQuiet ==
  \A s \in SessionIds : session[s].state = "CANCELLED" =>
    /\ \A r \in RunsOf(s) : ~Live(r)
    /\ Stale(s) = {}

\* The session's row and the run's row, which transitionRun writes in turn,
\* agree: the current run is the one live top-level run, and the session
\* shows its status; an idle session has none.
SessionShowsItsRun ==
  \A s \in SessionIds :
    session[s].state \notin {"absent", "CANCELLED"} =>
      LET top == {r \in RunsOf(s) : run[r].parent = None /\ Live(r)} IN
      IF session[s].current = None
      THEN top = {} /\ session[s].state = "IDLE"
      ELSE /\ top = {session[s].current}
           /\ session[s].state = ProjectedState(run[session[s].current].status)

\* An accepted event starts one run, or none: the runs and the receipts
\* written by dispatchPendingSessionEvents name each other.
EventStartsOneRun ==
  /\ \A r, o \in Runs : run[r].event # NoOne /\ run[r].event = run[o].event => r = o
  /\ \A r \in Runs : run[r].event # NoOne =>
       event[run[r].event].status = "DISPATCHED" /\ event[run[r].event].run = r

\* A session's events become runs in the order in which it has numbered them:
\* newer events cannot overtake a deferred one.
NewerEventsDoNotOvertake ==
  \A e, f \in EventIds :
    /\ event[e].session = event[f].session
    /\ event[e].seq < event[f].seq
    /\ event[e].class = "future-run"
    /\ event[e].status = "PENDING"
    => event[f].status # "DISPATCHED"

\* What p waits for, through at most n holders.
WaitsBehind(p) ==
  LET next(S) == S \union UNION {Holders(o) : o \in S}
  IN next(next(next({p})))

Open(p) ==
  CASE p \in Receivers -> receiver[p].pc # "idle"
    [] p \in Cancellers -> canceller[p].pc # "idle"
    [] p \in Dispatchers -> dispatcher[p].pc # "idle"
    [] OTHER -> worker[p].pc # "idle"

\* Cancellation and signals lock the session before the run, a transition
\* the run before the session.  No wait lasts for ever all the same: behind
\* every waiting transaction there is an open one that waits for nobody or
\* is on a cycle that the database breaks.
WaitsEnd ==
  \A p \in {p \in Procs : Wanted(p) # {}} :
    \E q \in WaitsBehind(p) \union {p} :
      \/ Deadlocked(q)
      \/ (q # p => Open(q)) /\ Holders(q) = {}

=============================================================================
