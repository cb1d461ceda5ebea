--------------------------- MODULE Sessions_proofs ---------------------------
(***************************************************************************)
(* Proofs about Sessions, for any number of sessions, events, requests,    *)
(* workers and runs: a cancelled session is quiet, a session shows its     *)
(* run, an event starts one run, no wait for a lock lasts for ever, and    *)
(* one worker keeps the order of the events.                               *)
(*                                                                         *)
(* The properties rest on who holds which row: what a transaction has read *)
(* stays true as long as it holds the row it read it from.                 *)
(***************************************************************************)
EXTENDS MCSessions, FiniteFacts, TLAPS

SessionRecord == [state : SessionStates, current : Runs \union {None}, seq : Nat]
EventRecord == [session : SessionIds \union {NoOne},
                class : {"none", "current-run", "future-run"},
                status : {"absent", "PENDING", "CONSUMED", "DISPATCHED", "STALE"},
                seq : Nat, run : Runs \union {None}, after : Int, born : Nat]
RunRecord == [session : SessionIds \union {NoOne}, parent : Runs \union {None},
              status : RunStatus \union {"absent"}, event : EventIds \union {NoOne}]
ReceiverRecord == [pc : {"idle", "begun", "conflict", "signal"},
                   event : EventIds \union {NoOne}, session : SessionIds \union {NoOne},
                   class : {"none", "current-run", "future-run"}, time : Int, attempt : Nat]
CancellerRecord == [pc : {"idle", "begun", "fencing"}, session : SessionIds \union {NoOne},
                    todo : SUBSET Runs, attempt : Nat]
CandidateRecord == [session : SessionIds, born : Nat]
DispatcherRecord == [pc : {"idle", "pass", "admit", "defer"}, now : Int,
                     todo : SUBSET CandidateRecord, event : EventIds \union {NoOne}]
WorkerRecord == [pc : {"idle", "tenant", "run"}, to : RunStatus \union {"none"}]

\* The rows and the transactions.
Typed ==
  /\ session \in [SessionIds -> SessionRecord]
  /\ event \in [EventIds -> EventRecord]
  /\ run \in [Runs -> RunRecord]
  /\ room \in BOOLEAN
  /\ lock \in [Resources -> Procs \union {NoOne}]
  /\ receiver \in [Receivers -> ReceiverRecord]
  /\ canceller \in [Cancellers -> CancellerRecord]
  /\ dispatcher \in [Dispatchers -> DispatcherRecord]
  /\ worker \in [Runs -> WorkerRecord]

\* A row is held by a transaction at the step that needs it.
HoldsSession(p, s) ==
  \/ p \in Receivers /\ receiver[p].pc \in {"conflict", "signal"} /\ receiver[p].session = s
  \/ p \in Cancellers /\ canceller[p].pc = "fencing" /\ canceller[p].session = s
  \/ p \in Dispatchers /\ dispatcher[p].pc = "admit" /\ Candidate(p) = s

HoldsRun(p, r) ==
  \/ p = r /\ worker[r].pc = "run"
  \/ p \in Cancellers /\ canceller[p].pc = "fencing" /\ canceller[p].session = run[r].session

HoldsEvent(p, e) ==
  \/ p \in Dispatchers /\ dispatcher[p].pc = "admit" /\ dispatcher[p].event = e
  \/ p \in Receivers /\ receiver[p].pc = "conflict" /\ receiver[p].event = e

HoldsKey(p, e) ==
  p \in Receivers /\ receiver[p].pc \in {"conflict", "signal"} /\ receiver[p].event = e

HolderInv(p) ==
  /\ lock[TenantRow] = p => p \in Runs /\ worker[p].pc # "idle"
  /\ \A s \in SessionIds : lock[SessionRow(s)] = p => HoldsSession(p, s)
  /\ \A r \in Runs : lock[RunRow(r)] = p => HoldsRun(p, r)
  /\ \A e \in EventIds : /\ lock[EventRow(e)] = p => HoldsEvent(p, e)
                         /\ lock[KeyRow(e)] = p => HoldsKey(p, e)

\* What a transaction is about is there, it holds the rows it has asked for,
\* and what it has read from them still holds.

\* A receipt in hand is of a new event, for a session that has a run.
ReceiverInv(p) ==
  /\ receiver[p].pc # "idle" =>
       /\ receiver[p].session \in SessionIds /\ receiver[p].event \in EventIds
       /\ receiver[p].class \in {"current-run", "future-run"}
       /\ session[receiver[p].session].state # "absent"
  /\ receiver[p].pc \in {"conflict", "signal"} =>
       /\ lock[SessionRow(receiver[p].session)] = p
       /\ lock[KeyRow(receiver[p].event)] = p
  /\ receiver[p].pc = "conflict" => lock[EventRow(receiver[p].event)] = p
  /\ receiver[p].pc = "signal" =>
       /\ event[receiver[p].event] = NoEvent
       /\ session[receiver[p].session].state # "CANCELLED"
       /\ session[receiver[p].session].current # None

\* A cancellation has the live runs of its session, or will lock them next.
CancellerInv(c) ==
  /\ canceller[c].pc # "idle" =>
       /\ canceller[c].session \in SessionIds
       /\ session[canceller[c].session].state # "absent"
  /\ canceller[c].pc = "fencing" =>
       /\ lock[SessionRow(canceller[c].session)] = c
       /\ session[canceller[c].session].state # "CANCELLED"
       /\ canceller[c].todo \subseteq RunsOf(canceller[c].session)
       /\ \A r \in RunsOf(canceller[c].session) :
            Live(r) => r \in canceller[c].todo \/ lock[RunRow(r)] = c

\* An admission is of a pending event of an idle session.
DispatcherInv(w) ==
  /\ dispatcher[w].pc # "idle" => dispatcher[w].todo # {}
  /\ dispatcher[w].pc = "admit" =>
       /\ lock[SessionRow(Candidate(w))] = w
       /\ lock[EventRow(dispatcher[w].event)] = w
       /\ session[Candidate(w)].state = "IDLE"
       /\ dispatcher[w].event \in Pending(Candidate(w))

\* A step of a run is one that the run may still take.
WorkerInv(r) ==
  /\ worker[r].pc # "idle" => worker[r].to \in RunStatus /\ run[r].status # "absent"
  /\ worker[r].pc = "tenant" => lock[TenantRow] = r
  /\ worker[r].pc = "run" => lock[RunRow(r)] = r /\ MayStep(r, worker[r].to)
  /\ worker[r].pc = "run" /\ Delegates(r) => lock[TenantRow] = r

ProcInv(p) ==
  /\ HolderInv(p)
  /\ p \in Receivers => ReceiverInv(p)
  /\ p \in Cancellers => CancellerInv(p)
  /\ p \in Dispatchers => DispatcherInv(p)
  /\ p \in Runs => WorkerInv(p)

\* Rows name each other only when they are there.
Rows ==
  /\ \A s \in SessionIds : session[s].state = "absent" => session[s] = NoSession
  /\ \A r \in Runs :
       IF run[r].status = "absent" THEN run[r] = NoRun
       ELSE run[r].session \in SessionIds /\ session[run[r].session].state # "absent"
  /\ \A r \in Runs : run[r].parent # None => run[r].event = NoOne
  /\ \A e \in EventIds :
       IF event[e].status = "absent" THEN event[e] = NoEvent
       ELSE event[e].session \in SessionIds /\ session[event[e].session].state # "absent"
  /\ \A e \in EventIds : event[e].status = "PENDING" => event[e].class = "future-run"

\* Each session has begun one run by itself, the events began the others, and
\* the children are counted.
FewRuns ==
  /\ \A r, o \in Runs :
       /\ run[r].status # "absent" /\ run[r].parent = None /\ run[r].event = NoOne
       /\ run[o].status # "absent" /\ run[o].parent = None /\ run[o].event = NoOne
       /\ run[r].session = run[o].session
       => r = o
  /\ Cardinality({c \in Runs : run[c].parent # None}) <= MaxChildren

RowsInv ==
  /\ Rows
  /\ FewRuns
  /\ CancelledSessionIsQuiet
  /\ SessionShowsItsRun
  /\ EventStartsOneRun

SessionsInv == Typed /\ RowsInv /\ \A p \in Procs : ProcInv(p)

-----------------------------------------------------------------------------
(* Statuses, actors and rows.                                              *)

\* The statuses of the table, and the three without a way out.
LEMMA StatusTable ==
  /\ RunStatus = {"CREATED", "RESOLVING", "QUEUED", "STARTING", "RUNNING",
                  "WAITING_APPROVAL", "WAITING_SIGNAL", "WAITING_CHILDREN",
                  "SLEEPING", "SUSPENDED", "RETRY_PENDING", "VERIFYING",
                  "COMPLETED", "FAILED", "CANCELLED"}
  /\ \A s \in RunStatus :
       isTerminal(s) <=> s \in {"COMPLETED", "FAILED", "CANCELLED"}
  BY DEF RunStatus, isTerminal, TRANSITIONS

\* A run without a row is not live, and a live one is in none of the final
\* statuses.
LEMMA LiveStatus ==
  ASSUME NEW r
  PROVE  Live(r) <=> run[r].status \in RunStatus \ {"COMPLETED", "FAILED", "CANCELLED"}
  BY StatusTable DEF Live

\* What a session shows is one of its states; it shows IDLE for an ended run
\* only.
LEMMA ShownStates ==
  ASSUME NEW status \in RunStatus
  PROVE  /\ ProjectedState(status) \in SessionStates \ {"absent", "CANCELLED"}
         /\ ProjectedState(status) = "IDLE" <=> isTerminal(status)
         /\ status = "QUEUED" => ProjectedState(status) = "ACTIVE"
  <1>1. status \in {"COMPLETED", "FAILED", "CANCELLED"} <=> isTerminal(status)
    BY StatusTable
  <1>2. CASE status = "WAITING_APPROVAL"
    BY <1>1, <1>2 DEF ProjectedState, SessionStates
  <1>3. CASE status \in {"WAITING_SIGNAL", "WAITING_CHILDREN", "SLEEPING", "SUSPENDED"}
    BY <1>1, <1>3 DEF ProjectedState, SessionStates
  <1>4. CASE isTerminal(status)
    BY <1>1, <1>4 DEF ProjectedState, SessionStates
  <1>5. CASE /\ ~isTerminal(status)
             /\ status \notin {"WAITING_APPROVAL", "WAITING_SIGNAL", "WAITING_CHILDREN",
                              "SLEEPING", "SUSPENDED"}
    BY <1>5 DEF ProjectedState, SessionStates
  <1>. QED
    BY <1>2, <1>3, <1>4, <1>5

\* No transaction is of two kinds.
LEMMA Kinds ==
  /\ \A p \in Receivers : p \notin Cancellers /\ p \notin Dispatchers /\ p \notin Runs
  /\ \A p \in Cancellers : p \notin Receivers /\ p \notin Dispatchers /\ p \notin Runs
  /\ \A p \in Dispatchers : p \notin Receivers /\ p \notin Cancellers /\ p \notin Runs
  /\ \A p \in Runs : p \notin Receivers /\ p \notin Cancellers /\ p \notin Dispatchers
  /\ NoOne \notin SessionIds /\ NoOne \notin EventIds /\ NoOne \notin Procs
  /\ Receivers \subseteq Procs /\ Cancellers \subseteq Procs
  /\ Dispatchers \subseteq Procs /\ Runs \subseteq Procs
  /\ None \notin Runs
  BY ActorsAssumption DEF Procs, Runs, None

\* The rows of two kinds differ, and so do the rows of two of one kind.
LEMMA Tables ==
  /\ TenantRow \in Resources
  /\ \A s \in SessionIds : SessionRow(s) \in Resources
  /\ \A e \in EventIds : EventRow(e) \in Resources /\ KeyRow(e) \in Resources
  /\ \A r \in Runs : RunRow(r) \in Resources
  /\ \A s, t : SessionRow(s) = SessionRow(t) => s = t
  /\ \A s, t : EventRow(s) = EventRow(t) => s = t
  /\ \A s, t : KeyRow(s) = KeyRow(t) => s = t
  /\ \A s, t : RunRow(s) = RunRow(t) => s = t
  /\ \A s : TenantRow \notin {SessionRow(s), EventRow(s), KeyRow(s), RunRow(s)}
  /\ \A s, t : /\ SessionRow(s) \notin {EventRow(t), KeyRow(t), RunRow(t)}
               /\ EventRow(s) \notin {KeyRow(t), RunRow(t)}
               /\ KeyRow(s) # RunRow(t)
  BY DEF TenantRow, SessionRow, EventRow, KeyRow, RunRow, Resources

\* The candidate that a pass takes next is one of its list, and the oldest.
LEMMA OldestIs ==
  ASSUME NEW rows \in SUBSET CandidateRecord, rows # {}
  PROVE  /\ Oldest(rows) \in rows /\ Oldest(rows).session \in SessionIds
         /\ \A o \in rows : Oldest(rows).born <= o.born
  <1>1. PICK b \in {row.born : row \in rows} : \A c \in {row.born : row \in rows} : b <= c
    <2>1. {row.born : row \in rows} \in SUBSET Nat /\ {row.born : row \in rows} # {}
      BY DEF CandidateRecord
    <2>. QED
      BY <2>1, SmallestExists
  <1>2. \E row \in rows : \A o \in rows : row.born <= o.born
    BY <1>1
  <1>. QED
    BY <1>2 DEF Oldest, CandidateRecord

LEMMA RunsAreNumbers == MaxRuns \in Nat /\ Runs \subseteq Nat
  BY NumbersAssumption DEF Runs

\* Of some runs one is listed before the others.
LEMMA FirstListed ==
  ASSUME NEW todo \in SUBSET Runs, todo # {}
  PROVE  \E r \in todo : \A o \in todo : o = r \/ ListedBefore(r, o)
  <1>. DEFINE children == {r \in todo : run[r].parent # None}
  <1>1. todo \in SUBSET Nat /\ children \in SUBSET Nat
    BY RunsAreNumbers
  <1>2. CASE children # {}
    <2>1. PICK r \in children : \A o \in children : r <= o
      BY <1>1, <1>2, SmallestExists
    <2>2. ASSUME NEW o \in todo, o # r
          PROVE  ListedBefore(r, o)
      <3>1. r \in Int /\ o \in Int
        BY <1>1
      <3>2. run[r].parent # None /\ (run[o].parent # None => r <= o)
        BY <2>1
      <3>. QED
        BY <2>2, <3>1, <3>2 DEF ListedBefore
    <2>. QED
      BY <2>1, <2>2
  <1>3. CASE children = {}
    <2>1. PICK r \in todo : \A o \in todo : r <= o
      BY <1>1, SmallestExists
    <2>2. ASSUME NEW o \in todo, o # r
          PROVE  ListedBefore(r, o)
      <3>1. r \in Int /\ o \in Int /\ r <= o
        BY <1>1, <2>1
      <3>2. run[r].parent = None /\ run[o].parent = None
        BY <1>3
      <3>. QED
        BY <2>2, <3>1, <3>2 DEF ListedBefore
    <2>. QED
      BY <2>1, <2>2
  <1>. QED
    BY <1>2, <1>3

\* The run that a cancellation fences next is one of its list.
LEMMA NextToFenceIs ==
  ASSUME NEW c, canceller[c].todo \in SUBSET Runs, canceller[c].todo # {}
  PROVE  NextToFence(c) \in canceller[c].todo
  BY FirstListed DEF NextToFence

-----------------------------------------------------------------------------
(* There is a row left for every run that is created.                      *)

\* A set with a name of its own in B for each element is no larger than B.
LEMMA NamedApart ==
  ASSUME NEW A, NEW B, IsFiniteSet(B), NEW f \in [A -> B],
         \A x, y \in A : f[x] = f[y] => x = y
  PROVE  IsFiniteSet(A) /\ Cardinality(A) <= Cardinality(B)
  <1>1. f \in Injection(A, B)
    BY DEF Injection, IsInjective
  <1>. QED
    BY <1>1, FS_Injection

\* Two sets together are no larger than their sizes together.
LEMMA TwoSets ==
  ASSUME NEW A, NEW B, IsFiniteSet(A), IsFiniteSet(B)
  PROVE  /\ IsFiniteSet(A \union B) /\ Cardinality(A \union B) \in Nat
         /\ Cardinality(A) \in Nat /\ Cardinality(B) \in Nat
         /\ Cardinality(A \union B) <= Cardinality(A) + Cardinality(B)
  <1>1. IsFiniteSet(A \cap B)
    BY FS_Intersection
  <1>2. Cardinality(A \cap B) \in Nat /\ Cardinality(A) \in Nat /\ Cardinality(B) \in Nat
    BY <1>1, FS_CardinalityType
  <1>3. /\ IsFiniteSet(A \union B)
        /\ Cardinality(A \union B) = Cardinality(A) + Cardinality(B) - Cardinality(A \cap B)
    BY FS_Union
  <1>4. Cardinality(A \union B) \in Nat
    BY <1>3, FS_CardinalityType
  <1>. QED
    BY <1>2, <1>3, <1>4

\* The model's bound on runs is no bound on what the sessions do.
LEMMA RunLeft ==
  ASSUME Typed, Rows, FewRuns, EventStartsOneRun,
         \/ \E s \in SessionIds : session[s].state = "absent"
         \/ \E e \in EventIds : event[e].status # "DISPATCHED"
         \/ Cardinality({c \in Runs : run[c].parent # None}) < MaxChildren
  PROVE  NextRun \in Runs /\ run[NextRun] = NoRun
  <1>. DEFINE C == {c \in Runs : run[c].parent # None}
              D == {r \in Runs : run[r].event # NoOne}
              F == {r \in Runs : run[r].parent = None /\ run[r].event = NoOne}
              S == {s \in SessionIds : session[s].state # "absent"}
              E == {e \in EventIds : event[e].status = "DISPATCHED"}
  <1>1. IsFiniteSet(Runs) /\ Cardinality(Runs) = MaxRuns
    BY RunsAreNumbers, FS_Interval DEF Runs
  <1>2. /\ IsFiniteSet(SessionIds) /\ IsFiniteSet(EventIds)
        /\ Cardinality(SessionIds) \in Nat /\ Cardinality(EventIds) \in Nat
        /\ MaxChildren \in Nat /\ MaxRuns \in Nat
        /\ MaxRuns >= Cardinality(SessionIds) + Cardinality(EventIds) + MaxChildren
    BY NumbersAssumption, FS_CardinalityType
  <1>3. /\ IsFiniteSet(S) /\ Cardinality(S) \in Nat /\ Cardinality(S) <= Cardinality(SessionIds)
        /\ Cardinality(S) = Cardinality(SessionIds) => S = SessionIds
    BY <1>2, FS_Subset, FS_CardinalityType
  <1>4. /\ IsFiniteSet(E) /\ Cardinality(E) \in Nat /\ Cardinality(E) <= Cardinality(EventIds)
        /\ Cardinality(E) = Cardinality(EventIds) => E = EventIds
    BY <1>2, FS_Subset, FS_CardinalityType
  <1>5. /\ IsFiniteSet(C) /\ Cardinality(C) \in Nat
        /\ IsFiniteSet(D) /\ Cardinality(D) \in Nat
        /\ IsFiniteSet(F) /\ Cardinality(F) \in Nat
    BY <1>1, FS_Subset, FS_CardinalityType
  <1>6. ASSUME \A r \in Runs : run[r].status # "absent"
        PROVE  FALSE
    <2>1. Cardinality(F) <= Cardinality(S)
      <3>. DEFINE f == [r \in F |-> run[r].session]
      <3>1. f \in [F -> S]
        BY <1>6 DEF Rows
      <3>2. \A x, y \in F : f[x] = f[y] => x = y
        BY <1>6 DEF FewRuns
      <3>. HIDE DEF f, F, S
      <3>. QED
        BY <1>3, <3>1, <3>2, NamedApart
    <2>2. Cardinality(D) <= Cardinality(E)
      <3>. DEFINE f == [r \in D |-> run[r].event]
      <3>1. f \in [D -> E]
        BY DEF EventStartsOneRun, Typed, RunRecord
      <3>2. \A x, y \in D : f[x] = f[y] => x = y
        BY DEF EventStartsOneRun
      <3>. HIDE DEF f, D, E
      <3>. QED
        BY <1>4, <3>1, <3>2, NamedApart
    <2>3. Cardinality(C) <= MaxChildren
      BY DEF FewRuns
    <2>4. Runs = F \union D \union C
      OBVIOUS
    <2>5. \/ Cardinality(S) < Cardinality(SessionIds)
          \/ Cardinality(E) < Cardinality(EventIds)
          \/ Cardinality(C) < MaxChildren
      <3>1. \/ S # SessionIds
            \/ E # EventIds
            \/ Cardinality(C) < MaxChildren
        OBVIOUS
      <3>. HIDE DEF S, E, C
      <3>. QED
        BY <1>2, <1>3, <1>4, <3>1
    <2>. HIDE DEF C, D, F, S, E
    <2>6. /\ IsFiniteSet(F \union D) /\ Cardinality(F \union D) \in Nat
          /\ Cardinality(F \union D) <= Cardinality(F) + Cardinality(D)
      BY <1>5, TwoSets
    <2>7. Cardinality(Runs) <= Cardinality(F \union D) + Cardinality(C)
      BY <1>5, <2>4, <2>6, TwoSets
    <2>. QED
      BY <1>1, <1>2, <1>3, <1>4, <1>5, <2>1, <2>2, <2>3, <2>5, <2>6, <2>7
  <1>7. PICK r \in {o \in Runs : run[o] = NoRun} : \A o \in {q \in Runs : run[q] = NoRun} : r <= o
    <2>1. {o \in Runs : run[o] = NoRun} # {}
      BY <1>6 DEF Rows
    <2>. QED
      BY <2>1, RunsAreNumbers, SmallestExists
  <1>. QED
    BY <1>7 DEF NextRun

-----------------------------------------------------------------------------
(* A step of one transaction leaves what the others rely on.               *)

\* A row that another transaction has locked is not of p.
Others(p, x) == lock[x] \notin {p, NoOne}

\* The rows that p and nobody else writes are the ones it has locked, or the
\* ones that are free.
Respects(p) ==
  /\ \A x \in Resources : Others(p, x) \/ lock'[x] \notin {p, NoOne} => lock'[x] = lock[x]
  /\ \A s \in SessionIds :
       /\ session[s].state # "absent" => session'[s].state # "absent"
       /\ Others(p, SessionRow(s)) => session'[s] = session[s]
  /\ \A r \in Runs :
       /\ run[r].status # "absent" =>
            run'[r].status # "absent" /\ run'[r].session = run[r].session
       /\ Others(p, RunRow(r)) => run'[r] = run[r]
       /\ Live(r)' => \/ Live(r) /\ run'[r].session = run[r].session /\ run'[r].parent = run[r].parent
                      \/ ~Others(p, SessionRow(run'[r].session)) /\ run'[r].parent \in {None, p}
  /\ Others(p, TenantRow) =>
       {c \in Runs : run'[c].parent # None} = {c \in Runs : run[c].parent # None}
  /\ \A e \in EventIds :
       /\ event[e] = NoEvent /\ Others(p, KeyRow(e)) => event'[e] = NoEvent
       /\ /\ event[e].status = "PENDING"
          /\ Others(p, EventRow(e)) /\ Others(p, SessionRow(event[e].session))
          => /\ event'[e].status = "PENDING" /\ event'[e].session = event[e].session
             /\ event'[e].class = event[e].class

\* The other transactions stay where they are.
OthersStay(p) ==
  /\ \A q \in Receivers \ {p} :
       /\ receiver'[q].pc = receiver[q].pc /\ receiver'[q].event = receiver[q].event
       /\ receiver'[q].session = receiver[q].session /\ receiver'[q].class = receiver[q].class
  /\ \A q \in Cancellers \ {p} : canceller'[q] = canceller[q]
  /\ \A q \in Dispatchers \ {p} :
       /\ dispatcher'[q].pc = dispatcher[q].pc /\ dispatcher'[q].todo = dispatcher[q].todo
       /\ dispatcher'[q].event = dispatcher[q].event
  /\ \A q \in Runs \ {p} : worker'[q] = worker[q]

LEMMA OthersKeepTheirs ==
  ASSUME SessionsInv, Typed', NEW p, Respects(p), OthersStay(p), NEW q \in Procs \ {p}
  PROVE  ProcInv(q)'
  <1>1. q # NoOne /\ ProcInv(q) /\ Typed
    BY Kinds DEF SessionsInv
  <1>2. \A x \in Resources : lock[x] = q \/ lock'[x] = q => lock[x] = q /\ lock'[x] = q
    BY <1>1 DEF Respects, Others
  <1>3. q \in Dispatchers => Candidate(q)' = Candidate(q)
    BY DEF OthersStay, Candidate
  <1>4. HolderInv(q)'
    <2>1. lock'[TenantRow] = q => q \in Runs /\ worker'[q].pc # "idle"
      BY <1>1, <1>2, Tables DEF ProcInv, HolderInv, OthersStay
    <2>2. ASSUME NEW s \in SessionIds, lock'[SessionRow(s)] = q
          PROVE  HoldsSession(q, s)'
      <3>1. HoldsSession(q, s)
        BY <1>1, <1>2, <2>2, Tables DEF ProcInv, HolderInv
      <3>. QED
        BY <1>3, <3>1 DEF HoldsSession, OthersStay
    <2>3. ASSUME NEW r \in Runs, lock'[RunRow(r)] = q
          PROVE  HoldsRun(q, r)'
      <3>1. HoldsRun(q, r) /\ Others(p, RunRow(r))
        BY <1>1, <1>2, <2>3, Tables DEF ProcInv, HolderInv, Others
      <3>. QED
        BY <3>1 DEF HoldsRun, OthersStay, Respects
    <2>4. ASSUME NEW e \in EventIds, lock'[EventRow(e)] = q
          PROVE  HoldsEvent(q, e)'
      <3>1. lock[EventRow(e)] = q
        BY <1>2, <2>4, Tables
      <3>2. HolderInv(q)
        BY <1>1 DEF ProcInv
      <3>3. HoldsEvent(q, e)
        BY <3>1, <3>2 DEF HolderInv
      <3>. QED
        BY <3>3 DEF HoldsEvent, OthersStay
    <2>5. ASSUME NEW e \in EventIds, lock'[KeyRow(e)] = q
          PROVE  HoldsKey(q, e)'
      <3>1. lock[KeyRow(e)] = q
        BY <1>2, <2>5, Tables
      <3>2. HolderInv(q)
        BY <1>1 DEF ProcInv
      <3>3. HoldsKey(q, e)
        BY <3>1, <3>2 DEF HolderInv
      <3>. QED
        BY <3>3 DEF HoldsKey, OthersStay
    <2>. QED
      BY <2>1, <2>2, <2>3, <2>4, <2>5 DEF HolderInv
  <1>5. CASE q \in Receivers
    <2>1. ReceiverInv(q)
      BY <1>1, <1>5 DEF ProcInv
    <2>2. /\ receiver'[q].pc = receiver[q].pc /\ receiver'[q].event = receiver[q].event
          /\ receiver'[q].session = receiver[q].session /\ receiver'[q].class = receiver[q].class
      BY <1>5 DEF OthersStay
    <2>3. ReceiverInv(q)'
      BY <1>1, <1>2, <2>1, <2>2, Tables DEF ReceiverInv, Respects, Others
    <2>. QED
      BY <1>4, <1>5, <2>3, Kinds DEF ProcInv
  <1>6. CASE q \in Cancellers
    <2>1. CancellerInv(q) /\ canceller'[q] = canceller[q]
      BY <1>1, <1>6 DEF ProcInv, OthersStay
    <2>2. ASSUME canceller[q].pc = "fencing", NEW r \in RunsOf(canceller[q].session)', Live(r)'
          PROVE  r \in canceller[q].todo \/ lock'[RunRow(r)] = q
      <3>1. r \in Runs /\ Others(p, SessionRow(run'[r].session))
        BY <1>1, <2>1, <2>2 DEF CancellerInv, Others, RunsOf
      <3>2. Live(r) /\ r \in RunsOf(canceller[q].session)
        BY <2>1, <2>2, <3>1 DEF Respects, RunsOf
      <3>. QED
        BY <1>2, <2>1, <2>2, <3>1, <3>2, Tables DEF CancellerInv
    <2>3. ASSUME canceller[q].pc = "fencing", NEW r \in canceller[q].todo
          PROVE  r \in RunsOf(canceller[q].session)'
      <3>1. r \in Runs /\ run[r].session = canceller[q].session /\ run[r] # NoRun
        BY <2>1, <2>3, Kinds DEF CancellerInv, RunsOf, NoRun
      <3>2. run[r].status # "absent"
        BY <3>1 DEF SessionsInv, RowsInv, Rows
      <3>. QED
        BY <2>1, <3>1, <3>2 DEF Respects, RunsOf
    <2>4. CancellerInv(q)'
      BY <1>1, <1>2, <2>1, <2>2, <2>3, Tables DEF CancellerInv, Respects, Others
    <2>. QED
      BY <1>4, <1>6, <2>4, Kinds DEF ProcInv
  <1>7. CASE q \in Dispatchers
    <2>1. DispatcherInv(q)
      BY <1>1, <1>7 DEF ProcInv
    <2>2. /\ dispatcher'[q].pc = dispatcher[q].pc /\ dispatcher'[q].todo = dispatcher[q].todo
          /\ dispatcher'[q].event = dispatcher[q].event
      BY <1>7 DEF OthersStay
    <2>3. ASSUME dispatcher[q].pc = "admit"
          PROVE  /\ lock'[SessionRow(Candidate(q))] = q
                 /\ lock'[EventRow(dispatcher[q].event)] = q
                 /\ session'[Candidate(q)].state = "IDLE"
                 /\ dispatcher[q].event \in Pending(Candidate(q))'
      <3>1. /\ Candidate(q) \in SessionIds /\ dispatcher[q].event \in EventIds
            /\ event[dispatcher[q].event].session = Candidate(q)
            /\ event[dispatcher[q].event].status = "PENDING"
            /\ event[dispatcher[q].event].class = "future-run"
        BY <1>1, <1>7, <2>1, <2>3, OldestIs DEF DispatcherInv, Pending, Candidate, Typed, DispatcherRecord
      <3>2. /\ Others(p, SessionRow(Candidate(q))) /\ Others(p, EventRow(dispatcher[q].event))
        BY <1>1, <2>1, <2>3 DEF DispatcherInv, Others
      <3>. QED
        BY <1>2, <1>3, <1>7, <2>1, <2>3, <3>1, <3>2, Tables DEF DispatcherInv, Respects, Pending
    <2>4. DispatcherInv(q)'
      BY <1>3, <1>7, <2>1, <2>2, <2>3 DEF DispatcherInv
    <2>. QED
      BY <1>4, <1>7, <2>4, Kinds DEF ProcInv
  <1>8. CASE q \in Runs
    <2>1. WorkerInv(q) /\ worker'[q] = worker[q]
      BY <1>1, <1>8 DEF ProcInv, OthersStay
    <2>2. Delegates(q)' <=> Delegates(q)
      BY <2>1 DEF Delegates
    <2>3. ASSUME worker[q].pc = "run"
          PROVE  MayStep(q, worker[q].to)'
      <3>1. Others(p, RunRow(q)) /\ run'[q] = run[q]
        BY <1>1, <1>8, <2>1, <2>3 DEF WorkerInv, Others, Respects
      <3>2. Delegates(q) => Others(p, TenantRow)
        BY <1>1, <2>1, <2>3 DEF WorkerInv, Others
      <3>3. \A c \in Children(q)' : Live(c)' => c \in Children(q) /\ Live(c)
        BY <1>8, Kinds DEF Respects, Children
      <3>4. worker[q].to = "WAITING_CHILDREN"
              => Cardinality({c \in Runs : run'[c].parent # None}) < MaxChildren
        <4>1. SUFFICES ASSUME worker[q].to = "WAITING_CHILDREN"
                       PROVE  Cardinality({c \in Runs : run'[c].parent # None}) < MaxChildren
          OBVIOUS
        <4>2. {c \in Runs : run'[c].parent # None} = {c \in Runs : run[c].parent # None}
          BY <3>2, <4>1 DEF Delegates, Respects
        <4>3. Cardinality({c \in Runs : run[c].parent # None}) < MaxChildren
          BY <2>1, <2>3, <4>1 DEF WorkerInv, MayStep
        <4>. QED
          BY <4>2, <4>3
      <3>5. MayStep(q, worker[q].to)
        BY <2>1, <2>3 DEF WorkerInv
      <3>. QED
        BY <2>1, <3>1, <3>3, <3>4, <3>5 DEF MayStep
    <2>4. WorkerInv(q)'
      BY <1>2, <1>8, <2>1, <2>2, <2>3, Tables DEF WorkerInv, Respects
    <2>. QED
      BY <1>4, <1>8, <2>4, Kinds DEF ProcInv
  <1>. QED
    BY <1>5, <1>6, <1>7, <1>8 DEF Procs

\* So a step keeps the invariant when it keeps the types, what the rows say,
\* and what its own transaction relies on.
LEMMA StepOfOne ==
  ASSUME SessionsInv, Typed', RowsInv', NEW p, Respects(p), OthersStay(p),
         p \in Procs => ProcInv(p)'
  PROVE  SessionsInv'
  BY OthersKeepTheirs DEF SessionsInv

\* A step that writes no row of the tables, only locks.
LockRules(p) ==
  \A x \in Resources : Others(p, x) \/ lock'[x] \notin {p, NoOne} => lock'[x] = lock[x]

LEMMA TablesUntouched ==
  ASSUME SessionsInv, UNCHANGED <<session, event, run>>, NEW p, LockRules(p)
  PROVE  RowsInv' /\ Respects(p)
  <1>1. session' = session /\ event' = event /\ run' = run
    OBVIOUS
  <1>2. Rows' /\ FewRuns' /\ CancelledSessionIsQuiet' /\ SessionShowsItsRun' /\ EventStartsOneRun'
    <2>1. Rows'
      BY <1>1 DEF SessionsInv, RowsInv, Rows
    <2>2. FewRuns'
      BY <1>1 DEF SessionsInv, RowsInv, FewRuns
    <2>3. CancelledSessionIsQuiet'
      BY <1>1 DEF SessionsInv, RowsInv, CancelledSessionIsQuiet, RunsOf, Live, Stale
    <2>4. SessionShowsItsRun'
      BY <1>1 DEF SessionsInv, RowsInv, SessionShowsItsRun, RunsOf, Live
    <2>5. EventStartsOneRun'
      BY <1>1 DEF SessionsInv, RowsInv, EventStartsOneRun
    <2>. QED
      BY <2>1, <2>2, <2>3, <2>4, <2>5
  <1>. QED
    BY <1>1, <1>2 DEF RowsInv, Respects, LockRules, Live

\* Locking rows that are free.
LEMMA Acquiring ==
  ASSUME NEW p \in Procs, NEW xs, \A x \in xs : Free(x), Acquire(p, xs), Typed
  PROVE  /\ LockRules(p)
         /\ lock' \in [Resources -> Procs \union {NoOne}]
         /\ \A x \in Resources : lock'[x] = p <=> lock[x] = p \/ x \in xs
  BY Kinds DEF Free, Acquire, Typed, LockRules, Others

\* The end of a transaction.
LEMMA Releasing ==
  ASSUME NEW p \in Procs, lock' = Released(p), Typed
  PROVE  /\ LockRules(p)
         /\ lock' \in [Resources -> Procs \union {NoOne}]
         /\ \A x \in Resources : lock'[x] # p
  BY Kinds DEF Released, Typed, LockRules, Others

\* A transaction that holds nothing afterwards.
LEMMA HoldsNothing ==
  ASSUME NEW p, \A x \in Resources : lock'[x] # p
  PROVE  HolderInv(p)'
  BY Tables DEF HolderInv

LEMMA KeepingLocks ==
  ASSUME lock' = lock, Typed, NEW p
  PROVE  LockRules(p) /\ lock' \in [Resources -> Procs \union {NoOne}]
  BY DEF LockRules, Typed

-----------------------------------------------------------------------------
(* Requests with an event.                                                 *)

\* What a receiver at its first step holds.
LEMMA BegunReceiverHoldsNothing ==
  ASSUME SessionsInv, NEW p \in Receivers, receiver[p].pc \in {"idle", "begun"}
  PROVE  \A x \in Resources : lock[x] # p
  <1>1. HolderInv(p)
    BY Kinds DEF SessionsInv, ProcInv
  <1>2. \A s \in SessionIds : lock[SessionRow(s)] # p
    BY <1>1, Kinds DEF HolderInv, HoldsSession
  <1>3. \A r \in Runs : lock[RunRow(r)] # p
    BY <1>1, Kinds DEF HolderInv, HoldsRun
  <1>4. \A e \in EventIds : lock[EventRow(e)] # p /\ lock[KeyRow(e)] # p
    BY <1>1, Kinds DEF HolderInv, HoldsEvent, HoldsKey
  <1>5. lock[TenantRow] # p
    BY <1>1, Kinds DEF HolderInv
  <1>. QED
    BY <1>2, <1>3, <1>4, <1>5 DEF Resources

LEMMA ReceiveBeginsKeeps ==
  ASSUME SessionsInv, NEW p \in Receivers, NEW s \in SessionIds, NEW e \in EventIds,
         NEW class \in {"current-run", "future-run"}, ReceiveBegins(p, s, e, class)
  PROVE  SessionsInv'
  <1>. USE DEF ReceiveBegins
  <1>1. Typed
    BY DEF SessionsInv
  <1>2. receiver'[p] = [pc |-> "begun", event |-> e, session |-> s, class |-> class,
                        time |-> 0, attempt |-> 1]
    BY <1>1 DEF Typed
  <1>3. Typed'
    BY <1>1 DEF Typed, ReceiverRecord
  <1>4. RowsInv' /\ Respects(p)
    BY <1>1, KeepingLocks, TablesUntouched
  <1>5. OthersStay(p)
    BY <1>1 DEF OthersStay, Typed
  <1>6. \A x \in Resources : lock'[x] # p
    BY BegunReceiverHoldsNothing
  <1>7. session[s].state # "absent"
    BY DEF SessionsInv, RowsInv, Rows
  <1>8. ReceiverInv(p)'
    BY <1>2, <1>7 DEF ReceiverInv
  <1>9. ProcInv(p)'
    BY <1>6, <1>8, HoldsNothing, Kinds DEF ProcInv
  <1>. QED
    BY <1>3, <1>4, <1>5, <1>9, StepOfOne

LEMMA ReceiveAnswersKeeps ==
  ASSUME SessionsInv, NEW p \in Receivers, ReceiveAnswers(p)
  PROVE  SessionsInv'
  <1>. USE DEF ReceiveAnswers, ReceiveMayLock, ReceiverDone
  <1>1. Typed
    BY DEF SessionsInv
  <1>2. receiver'[p] = IdleReceiver
    BY <1>1 DEF Typed
  <1>3. Typed'
    BY <1>1, Kinds DEF Typed, ReceiverRecord, IdleReceiver
  <1>4. RowsInv' /\ Respects(p)
    BY <1>1, KeepingLocks, TablesUntouched
  <1>5. OthersStay(p)
    BY <1>1 DEF OthersStay, Typed
  <1>6. \A x \in Resources : lock'[x] # p
    BY BegunReceiverHoldsNothing
  <1>7. ReceiverInv(p)'
    BY <1>2 DEF ReceiverInv, IdleReceiver
  <1>8. ProcInv(p)'
    BY <1>6, <1>7, HoldsNothing, Kinds DEF ProcInv
  <1>. QED
    BY <1>3, <1>4, <1>5, <1>8, StepOfOne

LEMMA ReceiveFindsConflictKeeps ==
  ASSUME SessionsInv, NEW p \in Receivers, ReceiveFindsConflict(p)
  PROVE  SessionsInv'
  <1>. DEFINE s == receiver[p].session
              e == receiver[p].event
              rows == {SessionRow(s), KeyRow(e), EventRow(e)}
  <1>. USE DEF ReceiveFindsConflict, ReceiveMayLock
  <1>1. Typed /\ ReceiverInv(p)
    BY Kinds DEF SessionsInv, ProcInv
  <1>2. s \in SessionIds /\ e \in EventIds /\ session[s].state # "absent"
    BY <1>1 DEF ReceiverInv
  <1>3. receiver' = [receiver EXCEPT ![p].pc = "conflict"]
    OBVIOUS
  <1>4. /\ receiver'[p].pc = "conflict" /\ receiver'[p].session = s
        /\ receiver'[p].event = e /\ receiver'[p].class = receiver[p].class
        /\ receiver' \in [Receivers -> ReceiverRecord]
    BY <1>1, <1>3 DEF Typed, ReceiverRecord
  <1>5. /\ LockRules(p) /\ lock' \in [Resources -> Procs \union {NoOne}]
        /\ \A x \in Resources : lock'[x] = p <=> lock[x] = p \/ x \in rows
    BY <1>1, Acquiring, Kinds
  <1>6. \A x \in Resources : lock'[x] = p <=> x \in rows
    BY <1>5, BegunReceiverHoldsNothing
  <1>7. Typed'
    BY <1>1, <1>4, <1>5 DEF Typed
  <1>8. RowsInv' /\ Respects(p)
    BY <1>5, TablesUntouched
  <1>9. OthersStay(p)
    BY <1>1 DEF OthersStay, Typed
  <1>10. HolderInv(p)'
    BY <1>2, <1>4, <1>6, Tables DEF HolderInv, HoldsSession, HoldsRun, HoldsEvent, HoldsKey
  <1>11. ReceiverInv(p)'
    BY <1>1, <1>2, <1>4, <1>6, Tables DEF ReceiverInv
  <1>12. ProcInv(p)'
    BY <1>10, <1>11, Kinds DEF ProcInv
  <1>. QED
    BY <1>7, <1>8, <1>9, <1>12, StepOfOne

\* A receiver that gives up or has done.
LEMMA ReceiverLeaves ==
  ASSUME SessionsInv, NEW p \in Receivers, lock' = Released(p), ReceiverDone(p),
         UNCHANGED <<session, event, run, room, canceller, dispatcher, worker>>
  PROVE  SessionsInv'
  <1>. USE DEF ReceiverDone
  <1>1. Typed
    BY DEF SessionsInv
  <1>2. receiver'[p] = IdleReceiver
    BY <1>1 DEF Typed
  <1>3. /\ LockRules(p) /\ lock' \in [Resources -> Procs \union {NoOne}]
        /\ \A x \in Resources : lock'[x] # p
    BY <1>1, Releasing, Kinds
  <1>4. Typed'
    BY <1>1, <1>3, Kinds DEF Typed, ReceiverRecord, IdleReceiver
  <1>5. RowsInv' /\ Respects(p)
    BY <1>3, TablesUntouched
  <1>6. OthersStay(p)
    BY <1>1 DEF OthersStay, Typed
  <1>7. ReceiverInv(p)'
    BY <1>2 DEF ReceiverInv, IdleReceiver
  <1>8. ProcInv(p)'
    BY <1>3, <1>7, HoldsNothing, Kinds DEF ProcInv
  <1>. QED
    BY <1>4, <1>5, <1>6, <1>8, StepOfOne

LEMMA ReceiveRefusesConflictKeeps ==
  ASSUME SessionsInv, NEW p \in Receivers, ReceiveRefusesConflict(p)
  PROVE  SessionsInv'
  BY ReceiverLeaves DEF ReceiveRefusesConflict, RolledBack

LEMMA ReceiveFindsWaitKeeps ==
  ASSUME SessionsInv, NEW p \in Receivers, ReceiveFindsWait(p)
  PROVE  SessionsInv'
  <1>. DEFINE s == receiver[p].session
              e == receiver[p].event
              rows == {SessionRow(s), KeyRow(e)}
  <1>. USE DEF ReceiveFindsWait, ReceiveMayLock
  <1>1. Typed /\ ReceiverInv(p)
    BY Kinds DEF SessionsInv, ProcInv
  <1>2. s \in SessionIds /\ e \in EventIds /\ session[s].state # "absent"
    BY <1>1 DEF ReceiverInv
  <1>3. receiver' = [receiver EXCEPT ![p].pc = "signal"]
    OBVIOUS
  <1>4. /\ receiver'[p].pc = "signal" /\ receiver'[p].session = s
        /\ receiver'[p].event = e /\ receiver'[p].class = receiver[p].class
        /\ receiver' \in [Receivers -> ReceiverRecord]
    BY <1>1, <1>3 DEF Typed, ReceiverRecord
  <1>5. /\ LockRules(p) /\ lock' \in [Resources -> Procs \union {NoOne}]
        /\ \A x \in Resources : lock'[x] = p <=> lock[x] = p \/ x \in rows
    BY <1>1, Acquiring, Kinds
  <1>6. \A x \in Resources : lock'[x] = p <=> x \in rows
    BY <1>5, BegunReceiverHoldsNothing
  <1>7. Typed'
    BY <1>1, <1>4, <1>5 DEF Typed
  <1>8. RowsInv' /\ Respects(p)
    BY <1>5, TablesUntouched
  <1>9. OthersStay(p)
    BY <1>1 DEF OthersStay, Typed
  <1>10. HolderInv(p)'
    BY <1>2, <1>4, <1>6, Tables DEF HolderInv, HoldsSession, HoldsRun, HoldsEvent, HoldsKey
  <1>11. session[s].state # "CANCELLED" /\ session[s].current # None /\ event[e] = NoEvent
    BY DEF CurrentRunWaits
  <1>12. ReceiverInv(p)'
    BY <1>1, <1>2, <1>4, <1>6, <1>11, Tables DEF ReceiverInv
  <1>13. ProcInv(p)'
    BY <1>10, <1>12, Kinds DEF ProcInv
  <1>. QED
    BY <1>7, <1>8, <1>9, <1>13, StepOfOne

-----------------------------------------------------------------------------
(* Cancellations.                                                          *)

LEMMA BegunCancellerHoldsNothing ==
  ASSUME SessionsInv, NEW c \in Cancellers, canceller[c].pc \in {"idle", "begun"}
  PROVE  \A x \in Resources : lock[x] # c
  <1>1. HolderInv(c)
    BY Kinds DEF SessionsInv, ProcInv
  <1>2. \A s \in SessionIds : lock[SessionRow(s)] # c
    BY <1>1, Kinds DEF HolderInv, HoldsSession
  <1>3. \A r \in Runs : lock[RunRow(r)] # c
    BY <1>1, Kinds DEF HolderInv, HoldsRun
  <1>4. \A e \in EventIds : lock[EventRow(e)] # c /\ lock[KeyRow(e)] # c
    BY <1>1, Kinds DEF HolderInv, HoldsEvent, HoldsKey
  <1>5. lock[TenantRow] # c
    BY <1>1, Kinds DEF HolderInv
  <1>. QED
    BY <1>2, <1>3, <1>4, <1>5 DEF Resources

LEMMA CancelBeginsKeeps ==
  ASSUME SessionsInv, NEW c \in Cancellers, NEW s \in SessionIds, CancelBegins(c, s)
  PROVE  SessionsInv'
  <1>. USE DEF CancelBegins
  <1>1. Typed
    BY DEF SessionsInv
  <1>2. canceller'[c] = [pc |-> "begun", session |-> s, todo |-> {}, attempt |-> 1]
    BY <1>1 DEF Typed
  <1>3. Typed'
    BY <1>1 DEF Typed, CancellerRecord
  <1>4. RowsInv' /\ Respects(c)
    BY <1>1, KeepingLocks, TablesUntouched
  <1>5. OthersStay(c)
    BY <1>1 DEF OthersStay, Typed
  <1>6. \A x \in Resources : lock'[x] # c
    BY BegunCancellerHoldsNothing
  <1>7. session[s].state # "absent"
    BY DEF SessionsInv, RowsInv, Rows
  <1>8. CancellerInv(c)'
    BY <1>2, <1>7 DEF CancellerInv
  <1>9. ProcInv(c)'
    BY <1>6, <1>8, HoldsNothing, Kinds DEF ProcInv
  <1>. QED
    BY <1>3, <1>4, <1>5, <1>9, StepOfOne

LEMMA CancelLocksSessionKeeps ==
  ASSUME SessionsInv, NEW c \in Cancellers, CancelLocksSession(c)
  PROVE  SessionsInv'
  <1>. DEFINE s == canceller[c].session
  <1>. USE DEF CancelLocksSession
  <1>1. Typed /\ CancellerInv(c)
    BY Kinds DEF SessionsInv, ProcInv
  <1>2. s \in SessionIds /\ session[s].state # "absent"
    BY <1>1 DEF CancellerInv
  <1>3. OthersStay(c)
    BY <1>1 DEF OthersStay, Typed
  <1>4. CASE session[s].state = "CANCELLED"
    <2>1. canceller'[c] = IdleCanceller /\ lock' = lock
      BY <1>1, <1>4 DEF Typed
    <2>2. Typed'
      BY <1>1, <1>4 DEF Typed, CancellerRecord, IdleCanceller
    <2>3. RowsInv' /\ Respects(c)
      BY <1>1, <2>1, KeepingLocks, TablesUntouched
    <2>4. \A x \in Resources : lock'[x] # c
      BY <2>1, BegunCancellerHoldsNothing
    <2>5. CancellerInv(c)'
      BY <2>1 DEF CancellerInv, IdleCanceller
    <2>6. ProcInv(c)'
      BY <2>4, <2>5, HoldsNothing, Kinds DEF ProcInv
    <2>. QED
      BY <1>3, <2>2, <2>3, <2>6, StepOfOne
  <1>5. CASE session[s].state # "CANCELLED"
    <2>1. /\ canceller'[c] = [pc |-> "fencing", session |-> s, todo |-> ToFence(s),
                              attempt |-> canceller[c].attempt]
          /\ ToFence(s) \in SUBSET Runs
      BY <1>1, <1>5 DEF Typed, ToFence, RunsOf
    <2>2. canceller' \in [Cancellers -> CancellerRecord]
      BY <1>1, <1>2, <1>5, <2>1 DEF Typed, CancellerRecord
    <2>3. /\ LockRules(c) /\ lock' \in [Resources -> Procs \union {NoOne}]
          /\ \A x \in Resources : lock'[x] = c <=> lock[x] = c \/ x \in {SessionRow(s)}
      BY <1>1, <1>5, Acquiring, Kinds
    <2>4. \A x \in Resources : lock'[x] = c <=> x = SessionRow(s)
      BY <2>3, BegunCancellerHoldsNothing
    <2>5. Typed'
      BY <1>1, <2>2, <2>3 DEF Typed
    <2>6. RowsInv' /\ Respects(c)
      BY <2>3, TablesUntouched
    <2>7. HolderInv(c)'
      BY <1>2, <2>1, <2>4, Tables DEF HolderInv, HoldsSession, HoldsRun, HoldsEvent, HoldsKey
    <2>8. /\ \A t \in SessionIds : RunsOf(t)' = RunsOf(t)
          /\ \A r \in Runs : Live(r)' <=> Live(r)
      BY DEF RunsOf, Live
    <2>9. CancellerInv(c)'
      BY <1>2, <1>5, <2>1, <2>4, <2>8, Tables DEF CancellerInv, ToFence, RunsOf
    <2>10. ProcInv(c)'
      BY <2>7, <2>9, Kinds DEF ProcInv
    <2>. QED
      BY <1>3, <2>5, <2>6, <2>10, StepOfOne
  <1>. QED
    BY <1>4, <1>5

LEMMA CancelLocksRunKeeps ==
  ASSUME SessionsInv, NEW c \in Cancellers, CancelLocksRun(c)
  PROVE  SessionsInv'
  <1>. DEFINE s == canceller[c].session
              next == NextToFence(c)
  <1>. USE DEF CancelLocksRun
  <1>1. Typed /\ CancellerInv(c) /\ HolderInv(c)
    BY Kinds DEF SessionsInv, ProcInv
  <1>2. s \in SessionIds /\ session[s].state # "absent"
    BY <1>1 DEF CancellerInv
  <1>3. next \in canceller[c].todo /\ canceller[c].todo \in SUBSET Runs /\ next \in Runs
    <2>1. canceller[c].todo \in SUBSET Runs
      BY <1>1 DEF Typed, CancellerRecord
    <2>. QED
      BY <2>1, NextToFenceIs
  <1>4. run[next].session = s
    BY <1>1, <1>3 DEF CancellerInv, RunsOf
  <1>. HIDE DEF next
  <1>5. canceller' = [canceller EXCEPT ![c].todo = canceller[c].todo \ {next}]
    BY DEF next
  <1>6. /\ canceller'[c].pc = "fencing" /\ canceller'[c].session = s
        /\ canceller'[c].todo = canceller[c].todo \ {next}
        /\ canceller' \in [Cancellers -> CancellerRecord]
    <2>1. canceller[c].todo \ {next} \in SUBSET Runs
      BY <1>3
    <2>2. canceller[c] \in CancellerRecord /\ canceller \in [Cancellers -> CancellerRecord]
      BY <1>1 DEF Typed
    <2>. QED
      BY <1>5, <2>1, <2>2 DEF CancellerRecord
  <1>7. /\ LockRules(c) /\ lock' \in [Resources -> Procs \union {NoOne}]
        /\ \A x \in Resources : lock'[x] = c <=> lock[x] = c \/ x \in {RunRow(next)}
    BY <1>1, Acquiring, Kinds DEF next
  <1>8. Typed'
    BY <1>1, <1>6, <1>7 DEF Typed
  <1>9. RowsInv' /\ Respects(c)
    BY <1>7, TablesUntouched
  <1>10. OthersStay(c)
    BY <1>1, <1>5 DEF OthersStay, Typed
  <1>11. HolderInv(c)'
    <2>1. lock'[TenantRow] # c
      BY <1>1, <1>7, Tables, Kinds DEF HolderInv
    <2>2. ASSUME NEW t \in SessionIds, lock'[SessionRow(t)] = c
          PROVE  HoldsSession(c, t)'
      BY <1>1, <1>6, <1>7, <2>2, Tables, Kinds DEF HolderInv, HoldsSession
    <2>3. ASSUME NEW r \in Runs, lock'[RunRow(r)] = c
          PROVE  HoldsRun(c, r)'
      BY <1>1, <1>4, <1>6, <1>7, <2>3, Tables, Kinds DEF HolderInv, HoldsRun
    <2>4. ASSUME NEW e \in EventIds
          PROVE  lock'[EventRow(e)] # c /\ lock'[KeyRow(e)] # c
      BY <1>1, <1>7, Tables, Kinds DEF HolderInv, HoldsEvent, HoldsKey
    <2>. QED
      BY <2>1, <2>2, <2>3, <2>4 DEF HolderInv
  <1>12. /\ \A t \in SessionIds : RunsOf(t)' = RunsOf(t)
         /\ \A r \in Runs : Live(r)' <=> Live(r)
    BY DEF RunsOf, Live
  <1>13. CancellerInv(c)'
    BY <1>1, <1>2, <1>6, <1>7, <1>12, Tables DEF CancellerInv, RunsOf
  <1>14. ProcInv(c)'
    BY <1>11, <1>13, Kinds DEF ProcInv
  <1>. QED
    BY <1>8, <1>9, <1>10, <1>14, StepOfOne

-----------------------------------------------------------------------------
(* Dispatch passes.                                                        *)

\* Of some events one has the least number.
LEMMA EarliestIs ==
  ASSUME Typed, NEW T \in SUBSET EventIds, T # {}
  PROVE  Earliest(T) \in T /\ \A f \in T : event[Earliest(T)].seq <= event[f].seq
  <1>1. PICK n \in {event[e].seq : e \in T} : \A m \in {event[e].seq : e \in T} : n <= m
    <2>1. {event[e].seq : e \in T} \in SUBSET Nat /\ {event[e].seq : e \in T} # {}
      BY DEF Typed, EventRecord
    <2>. QED
      BY <2>1, SmallestExists
  <1>2. \E e \in T : \A f \in T : event[e].seq <= event[f].seq
    BY <1>1
  <1>. QED
    BY <1>2 DEF Earliest

\* What a query lists are sessions with the time of an event.
LEMMA CandidatesAreRecords ==
  ASSUME Typed
  PROVE  Candidates \in SUBSET CandidateRecord
  <1>1. ASSUME NEW s \in SessionIds, Pending(s) # {}
        PROVE  event[Earliest(Pending(s))].born \in Nat
    <2>1. Pending(s) \in SUBSET EventIds
      BY DEF Pending
    <2>2. Earliest(Pending(s)) \in EventIds
      BY <1>1, <2>1, EarliestIs
    <2>. QED
      BY <2>2 DEF Typed, EventRecord
  <1>. QED
    BY <1>1 DEF Candidates, CandidateRecord

LEMMA IdleDispatcherHoldsNothing ==
  ASSUME SessionsInv, NEW w \in Dispatchers, dispatcher[w].pc # "admit"
  PROVE  \A x \in Resources : lock[x] # w
  <1>1. HolderInv(w)
    BY Kinds DEF SessionsInv, ProcInv
  <1>2. \A s \in SessionIds : lock[SessionRow(s)] # w
    BY <1>1, Kinds DEF HolderInv, HoldsSession
  <1>3. \A r \in Runs : lock[RunRow(r)] # w
    BY <1>1, Kinds DEF HolderInv, HoldsRun
  <1>4. \A e \in EventIds : lock[EventRow(e)] # w /\ lock[KeyRow(e)] # w
    BY <1>1, Kinds DEF HolderInv, HoldsEvent, HoldsKey
  <1>5. lock[TenantRow] # w
    BY <1>1, Kinds DEF HolderInv
  <1>. QED
    BY <1>2, <1>3, <1>4, <1>5 DEF Resources

LEMMA PassBeginsKeeps ==
  ASSUME SessionsInv, NEW w \in Dispatchers, PassBegins(w)
  PROVE  SessionsInv'
  <1>. USE DEF PassBegins
  <1>1. Typed
    BY DEF SessionsInv
  <1>2. Candidates \in SUBSET CandidateRecord
    BY <1>1, CandidatesAreRecords
  <1>3. dispatcher'[w] = [pc |-> "pass", now |-> 0, todo |-> Candidates, event |-> NoOne]
    BY <1>1 DEF Typed
  <1>4. Typed'
    BY <1>1, <1>2 DEF Typed, DispatcherRecord
  <1>5. RowsInv' /\ Respects(w)
    BY <1>1, KeepingLocks, TablesUntouched
  <1>6. OthersStay(w)
    BY <1>1 DEF OthersStay, Typed
  <1>7. \A x \in Resources : lock'[x] # w
    BY IdleDispatcherHoldsNothing
  <1>8. DispatcherInv(w)'
    BY <1>3 DEF DispatcherInv
  <1>9. ProcInv(w)'
    BY <1>7, <1>8, HoldsNothing, Kinds DEF ProcInv
  <1>. QED
    BY <1>4, <1>5, <1>6, <1>9, StepOfOne

\* The pass goes on, or ends.
LEMMA NextCandidateIs ==
  ASSUME Typed, NEW w \in Dispatchers, NextCandidate(w)
  PROVE  /\ dispatcher' \in [Dispatchers -> DispatcherRecord]
         /\ dispatcher'[w].pc \in {"idle", "pass"}
         /\ dispatcher'[w].pc # "idle" => dispatcher'[w].todo # {}
         /\ \A q \in Dispatchers \ {w} : dispatcher'[q] = dispatcher[q]
  <1>. DEFINE rest == dispatcher[w].todo \ {Oldest(dispatcher[w].todo)}
              next == IF rest # {}
                      THEN [pc |-> "pass", now |-> dispatcher[w].now, todo |-> rest,
                            event |-> NoOne]
                      ELSE IdleDispatcher
  <1>1. dispatcher' = [dispatcher EXCEPT ![w] = next]
    BY DEF NextCandidate
  <1>2. dispatcher[w].todo \in SUBSET CandidateRecord /\ dispatcher[w].now \in Int
    BY DEF Typed, DispatcherRecord
  <1>3. rest \in SUBSET CandidateRecord
    BY <1>2
  <1>4. /\ next \in DispatcherRecord /\ next.pc \in {"idle", "pass"}
        /\ next.pc # "idle" => next.todo # {}
    <2>. HIDE DEF rest
    <2>. QED
      BY <1>2, <1>3 DEF DispatcherRecord, IdleDispatcher
  <1>. HIDE DEF next
  <1>. QED
    BY <1>1, <1>4 DEF Typed

LEMMA SelectEventKeeps ==
  ASSUME SessionsInv, NEW w \in Dispatchers, SelectEvent(w)
  PROVE  SessionsInv'
  <1>. DEFINE s == Candidate(w)
              e == Earliest(Selectable(w))
  <1>. USE DEF SelectEvent
  <1>1. Typed /\ DispatcherInv(w)
    BY Kinds DEF SessionsInv, ProcInv
  <1>2. CASE SessionSelectable(s) /\ Selectable(w) # {}
    <2>1. s \in SessionIds
      BY <1>1, OldestIs DEF DispatcherInv, Candidate, Typed, DispatcherRecord
    <2>2. Selectable(w) \in SUBSET EventIds
      BY DEF Selectable, Pending
    <2>3. e \in Selectable(w) /\ e \in EventIds
      BY <1>1, <1>2, <2>2, EarliestIs
    <2>4. e \in Pending(s) /\ Free(EventRow(e)) /\ Free(SessionRow(s)) /\ session[s].state = "IDLE"
      BY <1>2, <2>3 DEF Selectable, SessionSelectable
    <2>. HIDE DEF e
    <2>5. dispatcher'[w] = [pc |-> "admit", now |-> dispatcher[w].now,
                            todo |-> dispatcher[w].todo, event |-> e]
      BY <1>1, <1>2 DEF Typed, e
    <2>6. dispatcher' \in [Dispatchers -> DispatcherRecord]
          /\ \A q \in Dispatchers \ {w} : dispatcher'[q] = dispatcher[q]
      BY <1>1, <1>2, <2>3 DEF Typed, DispatcherRecord, e
    <2>7. Candidate(w)' = s
      BY <2>5 DEF Candidate
    <2>8. Acquire(w, {SessionRow(s), EventRow(e)})
      BY <1>2 DEF SelectionLocks, e
    <2>9. /\ LockRules(w) /\ lock' \in [Resources -> Procs \union {NoOne}]
          /\ \A x \in Resources : lock'[x] = w <=> lock[x] = w \/ x \in {SessionRow(s), EventRow(e)}
      BY <1>1, <2>4, <2>8, Acquiring, Kinds
    <2>10. \A x \in Resources : lock'[x] = w <=> x \in {SessionRow(s), EventRow(e)}
      BY <2>9, IdleDispatcherHoldsNothing
    <2>11. Typed'
      BY <1>1, <2>6, <2>9 DEF Typed
    <2>12. RowsInv' /\ Respects(w)
      BY <2>9, TablesUntouched
    <2>13. OthersStay(w)
      BY <2>6 DEF OthersStay
    <2>14. HolderInv(w)'
      BY <2>1, <2>3, <2>5, <2>7, <2>10, Tables DEF HolderInv, HoldsSession, HoldsRun, HoldsEvent, HoldsKey
    <2>15. e \in Pending(Candidate(w))'
      BY <2>4, <2>7 DEF Pending
    <2>16. DispatcherInv(w)'
      BY <1>1, <2>1, <2>3, <2>4, <2>5, <2>7, <2>10, <2>15, Tables DEF DispatcherInv
    <2>17. ProcInv(w)'
      BY <2>14, <2>16, Kinds DEF ProcInv
    <2>. QED
      BY <2>11, <2>12, <2>13, <2>17, StepOfOne
  <1>3. CASE ~(SessionSelectable(s) /\ Selectable(w) # {})
    <2>1. NextCandidate(w) /\ lock' = lock
      BY <1>3
    <2>2. /\ dispatcher' \in [Dispatchers -> DispatcherRecord]
          /\ dispatcher'[w].pc \in {"idle", "pass"}
          /\ dispatcher'[w].pc # "idle" => dispatcher'[w].todo # {}
          /\ \A q \in Dispatchers \ {w} : dispatcher'[q] = dispatcher[q]
      BY <1>1, <2>1, NextCandidateIs
    <2>3. Typed'
      BY <1>1, <2>1, <2>2 DEF Typed
    <2>4. RowsInv' /\ Respects(w)
      BY <1>1, <2>1, KeepingLocks, TablesUntouched
    <2>5. OthersStay(w)
      BY <2>2 DEF OthersStay
    <2>6. \A x \in Resources : lock'[x] # w
      BY <2>1, IdleDispatcherHoldsNothing
    <2>7. DispatcherInv(w)'
      BY <2>2 DEF DispatcherInv
    <2>8. ProcInv(w)'
      BY <2>6, <2>7, HoldsNothing, Kinds DEF ProcInv
    <2>. QED
      BY <2>3, <2>4, <2>5, <2>8, StepOfOne
  <1>. QED
    BY <1>2, <1>3

LEMMA DispatcherCrashesKeeps ==
  ASSUME SessionsInv, NEW w \in Dispatchers, lock' = Released(w),
         dispatcher' = [dispatcher EXCEPT ![w] = IdleDispatcher],
         UNCHANGED <<session, event, run, room, receiver, canceller, worker>>
  PROVE  SessionsInv'
  <1>1. Typed
    BY DEF SessionsInv
  <1>2. dispatcher'[w] = IdleDispatcher
    BY <1>1 DEF Typed
  <1>3. /\ LockRules(w) /\ lock' \in [Resources -> Procs \union {NoOne}]
        /\ \A x \in Resources : lock'[x] # w
    BY <1>1, Releasing, Kinds
  <1>4. Typed'
    BY <1>1, <1>3, Kinds DEF Typed, DispatcherRecord, IdleDispatcher
  <1>5. RowsInv' /\ Respects(w)
    BY <1>3, TablesUntouched
  <1>6. OthersStay(w)
    BY <1>1 DEF OthersStay, Typed
  <1>7. DispatcherInv(w)'
    BY <1>2 DEF DispatcherInv, IdleDispatcher
  <1>8. ProcInv(w)'
    BY <1>3, <1>7, HoldsNothing, Kinds DEF ProcInv
  <1>. QED
    BY <1>4, <1>5, <1>6, <1>8, StepOfOne

-----------------------------------------------------------------------------
(* Steps of a run, up to their commit.                                     *)

LEMMA StepsOfTable ==
  ASSUME Typed, NEW r \in Runs, NEW to, MayStep(r, to)
  PROVE  /\ run[r].status \in {"QUEUED", "RUNNING", "WAITING_SIGNAL", "WAITING_CHILDREN"}
         /\ to \in {"QUEUED", "RUNNING", "WAITING_SIGNAL", "WAITING_CHILDREN", "COMPLETED",
                    "CANCELLED"}
         /\ to \in RunStatus /\ Live(r) /\ run[r].status # "absent"
         /\ to = "WAITING_CHILDREN" => run[r].status = "RUNNING" /\ ViaTenant(run[r].status, to)
  BY StatusTable, LiveStatus DEF MayStep, RunSteps, ViaTenant

LEMMA MayStepStays ==
  ASSUME run' = run, NEW r \in Runs, NEW to, MayStep(r, to)
  PROVE  MayStep(r, to)'
  BY DEF MayStep, Children, Live

LEMMA WorkerHolds ==
  ASSUME SessionsInv, NEW r \in Runs
  PROVE  /\ \A s \in SessionIds : lock[SessionRow(s)] # r
         /\ \A o \in Runs : lock[RunRow(o)] = r => o = r /\ worker[r].pc = "run"
         /\ \A e \in EventIds : lock[EventRow(e)] # r /\ lock[KeyRow(e)] # r
         /\ lock[TenantRow] = r => worker[r].pc # "idle"
  <1>1. HolderInv(r)
    BY Kinds DEF SessionsInv, ProcInv
  <1>. QED
    BY <1>1, Kinds DEF HolderInv, HoldsSession, HoldsRun, HoldsEvent, HoldsKey

\* A run whose step has been given up, or is done.
LEMMA WorkerLeaves ==
  ASSUME SessionsInv, NEW r \in Runs, RunStepEnds(r),
         UNCHANGED <<session, event, run, room, receiver, canceller, dispatcher>>
  PROVE  SessionsInv'
  <1>. USE DEF RunStepEnds
  <1>1. Typed
    BY DEF SessionsInv
  <1>2. worker'[r] = IdleWorker
    BY <1>1 DEF Typed
  <1>3. /\ LockRules(r) /\ lock' \in [Resources -> Procs \union {NoOne}]
        /\ \A x \in Resources : lock'[x] # r
    BY <1>1, Releasing, Kinds
  <1>4. Typed'
    BY <1>1, <1>3 DEF Typed, WorkerRecord, IdleWorker
  <1>5. RowsInv' /\ Respects(r)
    BY <1>3, TablesUntouched
  <1>6. OthersStay(r)
    BY <1>1 DEF OthersStay, Typed
  <1>7. WorkerInv(r)'
    BY <1>2 DEF WorkerInv, IdleWorker
  <1>8. ProcInv(r)'
    BY <1>3, <1>7, HoldsNothing, Kinds DEF ProcInv
  <1>. QED
    BY <1>4, <1>5, <1>6, <1>8, StepOfOne

\* A run that has one row more, and goes on.
LEMMA WorkerLocks ==
  ASSUME SessionsInv, NEW r \in Runs, NEW x, NEW pc, NEW to \in RunStatus,
         \/ x = TenantRow /\ pc = "tenant" /\ worker[r].pc = "idle"
         \/ /\ x = RunRow(r) /\ pc = "run"
            /\ worker[r].pc = "idle" => ~ViaTenant(run[r].status, to)
            /\ worker[r].pc \in {"idle", "tenant"},
         MayStep(r, to), Free(x), Acquire(r, {x}),
         worker' = [worker EXCEPT ![r] = [pc |-> pc, to |-> to]],
         UNCHANGED <<session, event, run, room, receiver, canceller, dispatcher>>
  PROVE  SessionsInv'
  <1>1. Typed /\ WorkerInv(r)
    BY Kinds DEF SessionsInv, ProcInv
  <1>2. worker'[r] = [pc |-> pc, to |-> to]
    BY <1>1 DEF Typed
  <1>3. /\ LockRules(r) /\ lock' \in [Resources -> Procs \union {NoOne}]
        /\ \A y \in Resources : lock'[y] = r <=> lock[y] = r \/ y \in {x}
    BY <1>1, Acquiring, Kinds
  <1>4. Typed'
    BY <1>1, <1>3 DEF Typed, WorkerRecord
  <1>5. RowsInv' /\ Respects(r)
    BY <1>3, TablesUntouched
  <1>6. OthersStay(r)
    BY <1>1 DEF OthersStay, Typed
  <1>7. HolderInv(r)'
    <2>1. \A s \in SessionIds : lock'[SessionRow(s)] # r
      BY <1>3, WorkerHolds, Tables
    <2>2. \A e \in EventIds : lock'[EventRow(e)] # r /\ lock'[KeyRow(e)] # r
      BY <1>3, WorkerHolds, Tables
    <2>3. ASSUME NEW o \in Runs, lock'[RunRow(o)] = r
          PROVE  HoldsRun(r, o)'
      BY <1>2, <1>3, <2>3, WorkerHolds, Tables DEF HoldsRun
    <2>. QED
      BY <1>2, <2>1, <2>2, <2>3 DEF HolderInv
  <1>8. MayStep(r, to)'
    BY MayStepStays
  <1>9. to = "WAITING_CHILDREN" => ViaTenant(run[r].status, to)
    BY <1>1, StepsOfTable
  <1>10. run[r].status # "absent"
    BY <1>1, StepsOfTable
  <1>11. WorkerInv(r)'
    BY <1>1, <1>2, <1>3, <1>8, <1>9, <1>10, Tables DEF WorkerInv, Delegates
  <1>12. ProcInv(r)'
    BY <1>7, <1>11, Kinds DEF ProcInv
  <1>. QED
    BY <1>4, <1>5, <1>6, <1>12, StepOfOne

LEMMA RunStepBeginsKeeps ==
  ASSUME SessionsInv, NEW r \in Runs, NEW to \in RunStatus, RunStepBegins(r, to)
  PROVE  SessionsInv'
  <1>1. CASE ViaTenant(run[r].status, to)
    BY <1>1, WorkerLocks DEF RunStepBegins
  <1>2. CASE ~ViaTenant(run[r].status, to)
    BY <1>2, WorkerLocks DEF RunStepBegins
  <1>. QED
    BY <1>1, <1>2

LEMMA RunStepLocksRunKeeps ==
  ASSUME SessionsInv, NEW r \in Runs, RunStepLocksRun(r)
  PROVE  SessionsInv'
  <1>1. Typed /\ WorkerInv(r)
    BY Kinds DEF SessionsInv, ProcInv
  <1>2. CASE MayStep(r, worker[r].to)
    <2>1. worker' = [worker EXCEPT ![r] = [pc |-> "run", to |-> worker[r].to]]
      <3>1. worker' = [worker EXCEPT ![r].pc = "run"]
        BY <1>2 DEF RunStepLocksRun
      <3>2. worker[r] = [pc |-> worker[r].pc, to |-> worker[r].to]
        BY <1>1 DEF Typed, WorkerRecord
      <3>3. [worker[r] EXCEPT !.pc = "run"] = [pc |-> "run", to |-> worker[r].to]
        BY <3>2
      <3>. QED
        BY <1>1, <3>1, <3>3 DEF Typed
    <2>2. worker[r].to \in RunStatus
      BY <1>1 DEF WorkerInv, RunStepLocksRun
    <2>. QED
      BY <1>2, <2>1, <2>2, WorkerLocks DEF RunStepLocksRun
  <1>3. CASE ~MayStep(r, worker[r].to)
    BY <1>3, WorkerLeaves DEF RunStepLocksRun
  <1>. QED
    BY <1>2, <1>3

-----------------------------------------------------------------------------
(* The deadlock detector, and the quota.                                   *)

LEMMA QuotaChangesKeeps ==
  ASSUME SessionsInv, QuotaChanges
  PROVE  SessionsInv'
  <1>. USE DEF QuotaChanges
  <1>1. Typed
    BY DEF SessionsInv
  <1>2. Typed'
    BY <1>1 DEF Typed
  <1>3. RowsInv' /\ Respects(NoOne)
    BY <1>1, KeepingLocks, TablesUntouched
  <1>4. OthersStay(NoOne)
    BY DEF OthersStay
  <1>. QED
    BY <1>2, <1>3, <1>4, StepOfOne, Kinds

\* A request that begins again, or is given up, is one that has just begun.
LEMMA CancellerLeaves ==
  ASSUME SessionsInv, NEW c \in Cancellers, canceller[c].pc # "idle", lock' = Released(c),
         canceller' = [canceller EXCEPT ![c] = CancelsAgain(canceller[c])],
         UNCHANGED <<session, event, run, room, receiver, dispatcher, worker>>
  PROVE  SessionsInv'
  <1>1. Typed /\ CancellerInv(c)
    BY Kinds DEF SessionsInv, ProcInv
  <1>2. /\ canceller[c].session \in SessionIds /\ canceller[c].attempt \in Nat
        /\ session[canceller[c].session].state # "absent"
    BY <1>1 DEF CancellerInv, Typed, CancellerRecord
  <1>3. canceller'[c] = CancelsAgain(canceller[c])
    BY <1>1 DEF Typed
  <1>4. /\ LockRules(c) /\ lock' \in [Resources -> Procs \union {NoOne}]
        /\ \A x \in Resources : lock'[x] # c
    BY <1>1, Releasing, Kinds
  <1>5. /\ CancelsAgain(canceller[c]) \in CancellerRecord
        /\ \/ CancelsAgain(canceller[c]) = IdleCanceller
           \/ /\ CancelsAgain(canceller[c]).pc = "begun"
              /\ CancelsAgain(canceller[c]).session = canceller[c].session
    BY <1>2 DEF CancelsAgain, IdleCanceller, CancellerRecord
  <1>6. Typed'
    BY <1>1, <1>4, <1>5 DEF Typed
  <1>7. RowsInv' /\ Respects(c)
    BY <1>4, TablesUntouched
  <1>8. OthersStay(c)
    BY <1>1 DEF OthersStay, Typed
  <1>9. CancellerInv(c)'
    BY <1>2, <1>3, <1>5 DEF CancellerInv, IdleCanceller
  <1>10. ProcInv(c)'
    BY <1>4, <1>9, HoldsNothing, Kinds DEF ProcInv
  <1>. QED
    BY <1>6, <1>7, <1>8, <1>10, StepOfOne

LEMMA ReceiverLeavesAgain ==
  ASSUME SessionsInv, NEW p \in Receivers, receiver[p].pc # "idle", lock' = Released(p),
         receiver' = [receiver EXCEPT ![p] = ReceivesAgain(receiver[p])],
         UNCHANGED <<session, event, run, room, canceller, dispatcher, worker>>
  PROVE  SessionsInv'
  <1>. DEFINE q == receiver[p]
  <1>1. Typed /\ ReceiverInv(p)
    BY Kinds DEF SessionsInv, ProcInv
  <1>2. /\ q.session \in SessionIds /\ q.event \in EventIds /\ q.attempt \in Nat
        /\ q.class \in {"current-run", "future-run"}
        /\ session[q.session].state # "absent"
    BY <1>1 DEF ReceiverInv, Typed, ReceiverRecord
  <1>3. receiver'[p] = ReceivesAgain(q)
    BY <1>1 DEF Typed
  <1>4. /\ LockRules(p) /\ lock' \in [Resources -> Procs \union {NoOne}]
        /\ \A x \in Resources : lock'[x] # p
    BY <1>1, Releasing, Kinds
  <1>5. /\ ReceivesAgain(q) \in ReceiverRecord
        /\ \/ ReceivesAgain(q) = IdleReceiver
           \/ /\ ReceivesAgain(q).pc = "begun" /\ ReceivesAgain(q).session = q.session
              /\ ReceivesAgain(q).event = q.event /\ ReceivesAgain(q).class = q.class
    BY <1>2 DEF ReceivesAgain, IdleReceiver, ReceiverRecord
  <1>6. Typed'
    BY <1>1, <1>4, <1>5 DEF Typed
  <1>7. RowsInv' /\ Respects(p)
    BY <1>4, TablesUntouched
  <1>8. OthersStay(p)
    BY <1>1 DEF OthersStay, Typed
  <1>9. ReceiverInv(p)'
    BY <1>2, <1>3, <1>5 DEF ReceiverInv, IdleReceiver
  <1>10. ProcInv(p)'
    BY <1>4, <1>9, HoldsNothing, Kinds DEF ProcInv
  <1>. QED
    BY <1>6, <1>7, <1>8, <1>10, StepOfOne

\* Who is on a cycle of waits is under way.
LEMMA WaitingIsOpen ==
  ASSUME NEW p \in Procs, Wanted(p) # {}
  PROVE  Open(p)
  BY Kinds DEF Wanted, Open, Procs

LEMMA DeadlockAbortsKeeps ==
  ASSUME SessionsInv, NEW p \in Procs, DeadlockAborts(p)
  PROVE  SessionsInv'
  <1>. USE DEF DeadlockAborts, RolledBack
  <1>1. Open(p)
    <2>1. Holders(p) # {}
      BY DEF Deadlocked
    <2>. QED
      BY <2>1, WaitingIsOpen DEF Holders
  <1>2. CASE p \in Receivers
    BY <1>1, <1>2, ReceiverLeavesAgain, Kinds DEF Open
  <1>3. CASE p \in Cancellers
    BY <1>1, <1>3, CancellerLeaves, Kinds DEF Open
  <1>4. CASE p \in Dispatchers
    BY <1>4, DispatcherCrashesKeeps, Kinds
  <1>5. CASE p \in Runs
    BY <1>5, WorkerLeaves, Kinds DEF RunStepEnds
  <1>. QED
    BY <1>2, <1>3, <1>4, <1>5 DEF Procs

-----------------------------------------------------------------------------
(* Steps that write the tables.                                            *)

\* What SessionShowsItsRun says of one session.
Shows(s) ==
  /\ \A r \in Runs : (run[r].session = s /\ run[r].parent = None /\ Live(r))
                       <=> r = session[s].current
  /\ IF session[s].current = None THEN session[s].state = "IDLE"
     ELSE session[s].state = ProjectedState(run[session[s].current].status)

Serving(s) == session[s].state \notin {"absent", "CANCELLED"}

LEMMA ShowsNow ==
  ASSUME Typed, SessionShowsItsRun, NEW s \in SessionIds, Serving(s)
  PROVE  Shows(s)
  <1>1. session[s].current \in Runs \union {None}
    BY DEF Typed, SessionRecord
  <1>. DEFINE top == {r \in RunsOf(s) : run[r].parent = None /\ Live(r)}
  <1>2. IF session[s].current = None
        THEN top = {} /\ session[s].state = "IDLE"
        ELSE /\ top = {session[s].current}
             /\ session[s].state = ProjectedState(run[session[s].current].status)
    BY DEF SessionShowsItsRun, Serving
  <1>3. \A r \in Runs : r \in top <=> run[r].session = s /\ run[r].parent = None /\ Live(r)
    BY DEF RunsOf
  <1>. HIDE DEF top
  <1>. QED
    BY <1>1, <1>2, <1>3, Kinds DEF Shows

LEMMA ShowsNext ==
  ASSUME Typed', \A s \in SessionIds : Serving(s)' => Shows(s)'
  PROVE  SessionShowsItsRun'
  <1>1. ASSUME NEW s \in SessionIds, session'[s].state \notin {"absent", "CANCELLED"},
               NEW top, top = {r \in RunsOf(s) : run[r].parent = None /\ Live(r)}'
        PROVE  IF session'[s].current = None
               THEN top = {} /\ session'[s].state = "IDLE"
               ELSE /\ top = {session'[s].current}
                    /\ session'[s].state = ProjectedState(run'[session'[s].current].status)
    <2>1. session'[s].current \in Runs \union {None}
      BY DEF Typed, SessionRecord
    <2>2. \A r : r \in top <=> r \in Runs /\ run'[r].session = s /\ run'[r].parent = None /\ Live(r)'
      BY <1>1 DEF RunsOf
    <2>3. Shows(s)'
      BY <1>1 DEF Serving
    <2>4. /\ \A r \in Runs : r \in top <=> r = session'[s].current
          /\ IF session'[s].current = None THEN session'[s].state = "IDLE"
             ELSE session'[s].state = ProjectedState(run'[session'[s].current].status)
      BY <2>2, <2>3 DEF Shows
    <2>5. top \subseteq Runs
      BY <2>2
    <2>. QED
      BY <2>1, <2>4, <2>5, Kinds
  <1>. QED
    BY <1>1 DEF SessionShowsItsRun

\* A session that shows its run and is idle has none.
LEMMA IdleHasNone ==
  ASSUME Typed, NEW s \in SessionIds, Shows(s)
  PROVE  /\ session[s].state = "IDLE" <=> session[s].current = None
         /\ session[s].current # None =>
              /\ session[s].current \in Runs /\ Live(session[s].current)
              /\ run[session[s].current].session = s /\ run[session[s].current].parent = None
  <1>1. CASE session[s].current = None
    BY <1>1 DEF Shows
  <1>2. CASE session[s].current # None
    <2>1. session[s].current \in Runs
      BY <1>2 DEF Typed, SessionRecord
    <2>2. /\ Live(session[s].current) /\ run[session[s].current].session = s
          /\ run[session[s].current].parent = None
      BY <2>1 DEF Shows
    <2>3. run[session[s].current].status \in RunStatus /\ ~isTerminal(run[session[s].current].status)
      BY <2>2 DEF Live
    <2>. QED
      BY <1>2, <2>1, <2>2, <2>3, ShownStates DEF Shows
  <1>. QED
    BY <1>1, <1>2

\* Only rows that are there are locked.
LEMMA LockedIsThere ==
  ASSUME SessionsInv
  PROVE  /\ \A s \in SessionIds : lock[SessionRow(s)] # NoOne => session[s].state # "absent"
         /\ \A r \in Runs : lock[RunRow(r)] # NoOne => run[r].status # "absent"
  <1>1. ASSUME NEW s \in SessionIds, lock[SessionRow(s)] # NoOne
        PROVE  session[s].state # "absent"
    <2>. DEFINE p == lock[SessionRow(s)]
    <2>1. p \in Procs /\ ProcInv(p)
      BY <1>1, Tables DEF SessionsInv, Typed
    <2>2. HoldsSession(p, s)
      BY <2>1 DEF ProcInv, HolderInv
    <2>. HIDE DEF p
    <2>3. CASE p \in Receivers
      BY <2>1, <2>2, <2>3, Kinds DEF HoldsSession, ProcInv, ReceiverInv
    <2>4. CASE p \in Cancellers
      BY <2>1, <2>2, <2>4, Kinds DEF HoldsSession, ProcInv, CancellerInv
    <2>5. CASE p \in Dispatchers
      BY <2>1, <2>2, <2>5, Kinds DEF HoldsSession, ProcInv, DispatcherInv
    <2>. QED
      BY <2>2, <2>3, <2>4, <2>5 DEF HoldsSession
  <1>2. ASSUME NEW r \in Runs, lock[RunRow(r)] # NoOne
        PROVE  run[r].status # "absent"
    <2>. DEFINE p == lock[RunRow(r)]
    <2>1. p \in Procs /\ ProcInv(p)
      BY <1>2, Tables DEF SessionsInv, Typed
    <2>2. HoldsRun(p, r)
      BY <2>1 DEF ProcInv, HolderInv
    <2>. HIDE DEF p
    <2>3. CASE p = r /\ worker[r].pc = "run"
      BY <2>1, <2>3 DEF ProcInv, WorkerInv
    <2>4. CASE p \in Cancellers /\ canceller[p].pc = "fencing" /\ canceller[p].session = run[r].session
      <3>1. run[r].session \in SessionIds
        BY <2>1, <2>4 DEF ProcInv, CancellerInv
      <3>2. run[r] # NoRun
        BY <3>1, Kinds DEF NoRun
      <3>. QED
        BY <3>2 DEF SessionsInv, RowsInv, Rows
    <2>. QED
      BY <2>2, <2>3, <2>4 DEF HoldsRun
  <1>. QED
    BY <1>1, <1>2

\* One more run of a session, not yet begun.
LEMMA RunCreated ==
  ASSUME SessionsInv, NEW s \in SessionIds, NEW parent \in Runs \union {None},
         NEW e \in EventIds \union {NoOne}, NEW n \in Runs, run[n] = NoRun,
         run' = [run EXCEPT ![n] = [session |-> s, parent |-> parent,
                                    status |-> "QUEUED", event |-> e]]
  PROVE  /\ run' \in [Runs -> RunRecord]
         /\ run'[n] = [session |-> s, parent |-> parent, status |-> "QUEUED", event |-> e]
         /\ \A r \in Runs \ {n} : run'[r] = run[r] /\ (Live(r)' <=> Live(r))
         /\ Live(n)' /\ ~Live(n) /\ lock[RunRow(n)] = NoOne
  <1>1. Typed
    BY DEF SessionsInv
  <1>2. /\ run' \in [Runs -> RunRecord]
        /\ run'[n] = [session |-> s, parent |-> parent, status |-> "QUEUED", event |-> e]
        /\ \A r \in Runs \ {n} : run'[r] = run[r]
    BY <1>1, StatusTable DEF Typed, RunRecord
  <1>3. Live(n)' /\ ~Live(n)
    BY <1>2, StatusTable DEF Live, NoRun
  <1>4. lock[RunRow(n)] = NoOne
    BY LockedIsThere DEF NoRun
  <1>. QED
    BY <1>2, <1>3, <1>4 DEF Live

LEMMA createManagedSessionKeeps ==
  ASSUME SessionsInv, NEW s \in SessionIds, NEW start \in BOOLEAN, createManagedSession(s, start)
  PROVE  SessionsInv'
  <1>. USE DEF createManagedSession
  <1>1. Typed /\ RowsInv /\ session[s].state = "absent"
    BY DEF SessionsInv, NoSession
  <1>2. \A r \in Runs : run[r].session # s
    BY <1>1, Kinds DEF RowsInv, Rows, NoRun
  <1>3. \A e \in EventIds : event[e].session # s
    BY <1>1, Kinds DEF RowsInv, Rows, NoEvent
  <1>4. lock[SessionRow(s)] = NoOne
    BY <1>1, LockedIsThere
  <1>5. OthersStay(NoOne)
    BY DEF OthersStay
  <1>6. LockRules(NoOne)
    BY DEF LockRules
  <1>7. CASE ~start
    <2>1. /\ session' = [session EXCEPT ![s] = [state |-> "IDLE", current |-> None, seq |-> 0]]
          /\ run' = run
      BY <1>7
    <2>2. Typed'
      BY <1>1, <2>1 DEF Typed, SessionRecord, SessionStates
    <2>3. Respects(NoOne)
      BY <1>1, <1>4, <1>6, <2>1 DEF Respects, Others, Typed, Live, LockRules
    <2>4. RowsInv'
      <3>1. Rows'
        BY <1>1, <1>2, <1>3, <2>1 DEF RowsInv, Rows, Typed
      <3>2. FewRuns'
        BY <1>1, <2>1 DEF RowsInv, FewRuns
      <3>3. CancelledSessionIsQuiet'
        BY <1>1, <2>1 DEF RowsInv, CancelledSessionIsQuiet, RunsOf, Live, Stale, Typed
      <3>4. ASSUME NEW t \in SessionIds, Serving(t)'
            PROVE  Shows(t)'
        <4>1. CASE t = s
          BY <1>1, <1>2, <2>1, <4>1, Kinds DEF Shows, Typed
        <4>2. CASE t # s
          <5>1. Serving(t) /\ session'[t] = session[t]
            BY <1>1, <2>1, <3>4, <4>2 DEF Serving, Typed
          <5>2. Shows(t)
            BY <1>1, <5>1, ShowsNow DEF RowsInv
          <5>. QED
            BY <2>1, <5>1, <5>2 DEF Shows, Live
        <4>. QED
          BY <4>1, <4>2
      <3>5. EventStartsOneRun'
        BY <1>1, <2>1 DEF RowsInv, EventStartsOneRun
      <3>. QED
        BY <2>2, <3>1, <3>2, <3>3, <3>4, <3>5, ShowsNext DEF RowsInv
    <2>. QED
      BY <1>5, <2>2, <2>3, <2>4, StepOfOne, Kinds
  <1>8. CASE start
    <2>1. PICK n \in Runs : n = NextRun /\ run[n] = NoRun
      BY <1>1, RunLeft DEF RowsInv
    <2>2. /\ session' = [session EXCEPT ![s] = [state |-> "ACTIVE", current |-> n, seq |-> 0]]
          /\ run' = [run EXCEPT ![n] = [session |-> s, parent |-> None,
                                        status |-> "QUEUED", event |-> NoOne]]
      BY <1>8, <2>1 DEF createRun
    <2>3. /\ run' \in [Runs -> RunRecord]
          /\ run'[n] = [session |-> s, parent |-> None, status |-> "QUEUED", event |-> NoOne]
          /\ \A r \in Runs \ {n} : run'[r] = run[r] /\ (Live(r)' <=> Live(r))
          /\ Live(n)' /\ ~Live(n) /\ lock[RunRow(n)] = NoOne
      <3>1. None \in Runs \union {None} /\ NoOne \in EventIds \union {NoOne}
        OBVIOUS
      <3>. QED
        BY <2>1, <2>2, <3>1, RunCreated
    <2>4. run[n].session = NoOne /\ run[n].parent = None /\ run[n].status = "absent"
          /\ run[n].event = NoOne
      BY <2>1 DEF NoRun
    <2>5. Typed'
      BY <1>1, <2>1, <2>2, <2>3 DEF Typed, SessionRecord, SessionStates
    <2>6. /\ session'[s] = [state |-> "ACTIVE", current |-> n, seq |-> 0]
          /\ \A t \in SessionIds \ {s} : session'[t] = session[t]
      BY <1>1, <2>2 DEF Typed
    <2>7. {c \in Runs : run'[c].parent # None} = {c \in Runs : run[c].parent # None}
      BY <2>3, <2>4
    <2>8. Respects(NoOne)
      BY <1>4, <1>6, <2>3, <2>4, <2>6, <2>7 DEF Respects, Others, LockRules
    <2>9. Rows'
      BY <1>1, <1>2, <2>3, <2>6 DEF RowsInv, Rows
    <2>10. FewRuns'
      <3>1. Cardinality({c \in Runs : run'[c].parent # None}) <= MaxChildren
        BY <1>1, <2>7 DEF RowsInv, FewRuns
      <3>2. \A r, o \in Runs :
              /\ run'[r].status # "absent" /\ run'[r].parent = None /\ run'[r].event = NoOne
              /\ run'[o].status # "absent" /\ run'[o].parent = None /\ run'[o].event = NoOne
              /\ run'[r].session = run'[o].session
              => r = o
        BY <1>1, <1>2, <2>3 DEF RowsInv, FewRuns
      <3>. QED
        BY <3>1, <3>2 DEF FewRuns
    <2>11. CancelledSessionIsQuiet'
      BY <1>1, <2>3, <2>6 DEF RowsInv, CancelledSessionIsQuiet, RunsOf, Stale
    <2>12. ASSUME NEW t \in SessionIds, Serving(t)'
           PROVE  Shows(t)'
      <3>1. CASE t = s
        <4>1. session'[s].current = n /\ n # None
          BY <2>1, <2>6, Kinds
        <4>2. session'[s].state = ProjectedState(run'[n].status)
          BY <2>3, <2>6, ShownStates, StatusTable
        <4>3. \A r \in Runs : (run'[r].session = s /\ run'[r].parent = None /\ Live(r)') <=> r = n
          BY <1>2, <2>1, <2>3
        <4>. QED
          BY <3>1, <4>1, <4>2, <4>3 DEF Shows
      <3>2. CASE t # s
        <4>1. Serving(t) /\ session'[t] = session[t]
          BY <2>6, <2>12, <3>2 DEF Serving
        <4>2. Shows(t)
          BY <1>1, <4>1, ShowsNow DEF RowsInv
        <4>3. session[t].current # n
          BY <2>1, <2>3, <4>2 DEF Shows
        <4>. QED
          BY <1>1, <2>3, <3>2, <4>1, <4>2, <4>3, IdleHasNone DEF Shows
      <3>. QED
        BY <3>1, <3>2
    <2>13. EventStartsOneRun'
      BY <1>1, <2>3, <2>4 DEF RowsInv, EventStartsOneRun
    <2>14. RowsInv'
      BY <2>5, <2>9, <2>10, <2>11, <2>12, <2>13, ShowsNext DEF RowsInv
    <2>. QED
      BY <1>5, <2>5, <2>8, <2>14, StepOfOne, Kinds
  <1>. QED
    BY <1>7, <1>8

\* A session that a step does not touch shows its run as before.
LEMMA ShowsSame ==
  ASSUME Typed, SessionShowsItsRun, NEW t \in SessionIds, Serving(t)', session'[t] = session[t],
         \A r \in Runs : run[r].session = t \/ run'[r].session = t => run'[r] = run[r]
  PROVE  Shows(t)'
  <1>1. Serving(t)
    BY DEF Serving
  <1>2. Shows(t)
    BY <1>1, ShowsNow
  <1>3. /\ session[t].current \in Runs \union {None}
        /\ session[t].current # None => run[session[t].current].session = t
    BY <1>2, IdleHasNone DEF Typed, SessionRecord
  <1>4. \A r \in Runs : (run'[r].session = t /\ run'[r].parent = None /\ Live(r)')
                          <=> (run[r].session = t /\ run[r].parent = None /\ Live(r))
    BY DEF Live
  <1>. QED
    BY <1>2, <1>3, <1>4 DEF Shows

\* The row that a receipt leaves behind.
LEMMA AcceptedIs ==
  ASSUME Typed, NEW p \in Receivers, NEW status \in {"PENDING", "CONSUMED"},
         NEW r \in Runs \union {None}, Accepted(p, status, r),
         receiver[p].session \in SessionIds, receiver[p].event \in EventIds
  PROVE  /\ event' \in [EventIds -> EventRecord]
         /\ event'[receiver[p].event].session = receiver[p].session
         /\ event'[receiver[p].event].class = receiver[p].class
         /\ event'[receiver[p].event].status = status
         /\ event'[receiver[p].event].seq = session[receiver[p].session].seq + 1
         /\ event'[receiver[p].event].after = receiver[p].time
         /\ \A e \in EventIds \ {receiver[p].event} : event'[e] = event[e]
  <1>. DEFINE s == receiver[p].session
              others == {e \in EventIds : event[e] # NoEvent}
              born == Cardinality(others) + 1
              n == session[s].seq + 1
              row == [session |-> s, class |-> receiver[p].class, status |-> status,
                      seq |-> n, run |-> r, after |-> receiver[p].time, born |-> born]
  <1>1. event' = [event EXCEPT ![receiver[p].event] = row]
    BY DEF Accepted
  <1>2. born \in Nat
    <2>1. IsFiniteSet(others)
      BY NumbersAssumption, FS_Subset
    <2>2. Cardinality(others) \in Nat
      BY <2>1, FS_CardinalityType
    <2>. HIDE DEF others
    <2>. QED
      BY <2>2
  <1>3. n \in Nat
    <2>1. session[s].seq \in Nat
      BY DEF Typed, SessionRecord
    <2>. QED
      BY <2>1
  <1>. HIDE DEF born, n
  <1>4. receiver[p].class \in {"none", "current-run", "future-run"} /\ receiver[p].time \in Int
    BY DEF Typed, ReceiverRecord
  <1>5. row \in EventRecord
    BY <1>2, <1>3, <1>4 DEF EventRecord
  <1>6. /\ row.session = s /\ row.class = receiver[p].class /\ row.status = status
        /\ row.seq = session[s].seq + 1 /\ row.after = receiver[p].time
    BY DEF n
  <1>. HIDE DEF row
  <1>. QED
    BY <1>1, <1>5, <1>6 DEF Typed

LEMMA ReceiveQueuesKeeps ==
  ASSUME SessionsInv, NEW p \in Receivers, ReceiveQueues(p)
  PROVE  SessionsInv'
  <1>. DEFINE s == receiver[p].session
              e == receiver[p].event
  <1>1. Typed /\ RowsInv /\ ReceiverInv(p)
    BY Kinds DEF SessionsInv, ProcInv
  <1>2. /\ s \in SessionIds /\ e \in EventIds /\ session[s].state \notin {"absent", "CANCELLED"}
        /\ event[e] = NoEvent /\ receiver[p].class = "future-run"
        /\ Free(SessionRow(s)) /\ Free(KeyRow(e))
    BY <1>1 DEF ReceiverInv, ReceiveQueues, ReceiveMayLock
  <1>3. /\ event' \in [EventIds -> EventRecord]
        /\ event'[e].session = s /\ event'[e].class = "future-run" /\ event'[e].status = "PENDING"
        /\ \A x \in EventIds \ {e} : event'[x] = event[x]
    <2>1. None \in Runs \union {None} /\ Accepted(p, "PENDING", None)
      BY DEF ReceiveQueues
    <2>. QED
      BY <1>1, <1>2, <2>1, AcceptedIs
  <1>4. session' = [session EXCEPT ![s] = Numbered(session[s], session[s].state)]
    BY DEF ReceiveQueues
  <1>5. /\ session' \in [SessionIds -> SessionRecord]
        /\ session'[s].state = session[s].state /\ session'[s].current = session[s].current
        /\ \A t \in SessionIds \ {s} : session'[t] = session[t]
    BY <1>1, <1>2, <1>4 DEF Typed, SessionRecord, Numbered
  <1>6. run' = run /\ lock' = lock /\ room' = room /\ receiver' = [receiver EXCEPT ![p] = IdleReceiver]
        /\ canceller' = canceller /\ dispatcher' = dispatcher /\ worker' = worker
    BY DEF ReceiveQueues, ReceiverDone
  <1>7. Typed'
    BY <1>1, <1>3, <1>5, <1>6, Kinds DEF Typed, ReceiverRecord, IdleReceiver
  <1>8. \A r \in Runs : Live(r)' <=> Live(r)
    BY <1>6 DEF Live
  <1>9. LockRules(p)
    BY <1>1, <1>6, KeepingLocks
  <1>10. Respects(p)
    BY <1>2, <1>3, <1>5, <1>6, <1>8, <1>9 DEF Respects, Others, LockRules, Free, NoEvent
  <1>11. OthersStay(p)
    BY <1>1, <1>6 DEF OthersStay, Typed
  <1>12. Rows'
    BY <1>1, <1>2, <1>3, <1>5, <1>6 DEF RowsInv, Rows
  <1>13. FewRuns'
    BY <1>1, <1>6 DEF RowsInv, FewRuns
  <1>14. CancelledSessionIsQuiet'
    <2>1. ASSUME NEW t \in SessionIds, session'[t].state = "CANCELLED"
          PROVE  (\A r \in RunsOf(t)' : ~Live(r)') /\ Stale(t)' = {}
      <3>1. t # s /\ session[t].state = "CANCELLED"
        BY <1>2, <1>5, <2>1
      <3>2. (\A r \in RunsOf(t) : ~Live(r)) /\ Stale(t) = {}
        BY <1>1, <3>1 DEF RowsInv, CancelledSessionIsQuiet
      <3>. QED
        BY <1>3, <1>6, <1>8, <3>1, <3>2 DEF RunsOf, Stale
    <2>. QED
      BY <2>1 DEF CancelledSessionIsQuiet
  <1>15. ASSUME NEW t \in SessionIds, Serving(t)'
         PROVE  Shows(t)'
    <2>1. CASE t = s
      <3>1. Shows(s)
        BY <1>1, <1>2, ShowsNow DEF RowsInv, Serving
      <3>. QED
        BY <1>5, <1>6, <1>8, <2>1, <3>1 DEF Shows
    <2>2. CASE t # s
      BY <1>1, <1>5, <1>6, <1>15, <2>2, ShowsSame DEF RowsInv
    <2>. QED
      BY <2>1, <2>2
  <1>16. EventStartsOneRun'
    BY <1>1, <1>2, <1>3, <1>6 DEF RowsInv, EventStartsOneRun, NoEvent, Typed, RunRecord
  <1>17. RowsInv'
    BY <1>7, <1>12, <1>13, <1>14, <1>15, <1>16, ShowsNext DEF RowsInv
  <1>18. \A x \in Resources : lock'[x] # p
    BY <1>6, BegunReceiverHoldsNothing DEF ReceiveQueues, ReceiveMayLock
  <1>19. ReceiverInv(p)'
    BY <1>1, <1>6 DEF ReceiverInv, IdleReceiver, Typed
  <1>20. ProcInv(p)'
    BY <1>18, <1>19, HoldsNothing, Kinds DEF ProcInv
  <1>. QED
    BY <1>7, <1>10, <1>11, <1>17, <1>20, StepOfOne

LEMMA ReceiveSignalsKeeps ==
  ASSUME SessionsInv, NEW p \in Receivers, ReceiveSignals(p)
  PROVE  SessionsInv'
  <1>1. Typed /\ RowsInv /\ ReceiverInv(p) /\ receiver[p].pc = "signal"
    BY Kinds DEF SessionsInv, ProcInv, ReceiveSignals
  <1>2. PICK s \in SessionIds : s = receiver[p].session
    BY <1>1 DEF ReceiverInv
  <1>3. PICK e \in EventIds : e = receiver[p].event
    BY <1>1 DEF ReceiverInv
  <1>4. /\ session[s].state \notin {"absent", "CANCELLED"} /\ session[s].current # None
        /\ event[e] = NoEvent /\ lock[SessionRow(s)] = p /\ lock[KeyRow(e)] = p
    BY <1>1, <1>2, <1>3 DEF ReceiverInv
  <1>5. Shows(s)
    BY <1>1, <1>4, ShowsNow DEF RowsInv, Serving
  <1>6. PICK r \in Runs : r = session[s].current
    BY <1>1, <1>4 DEF Typed, SessionRecord
  <1>7. run[r].session = s /\ run[r].parent = None /\ Live(r)
    BY <1>5, <1>6 DEF Shows
  <1>8. Free(RunRow(r)) /\ lock' = Released(p)
    BY <1>2, <1>6 DEF ReceiveSignals
  <1>9. CASE run[r].status # "WAITING_SIGNAL"
    <2>1. UNCHANGED <<session, event, run>>
      BY <1>2, <1>6, <1>9 DEF ReceiveSignals
    <2>. QED
      BY <1>8, <2>1, ReceiverLeaves DEF ReceiveSignals
  <1>10. CASE run[r].status = "WAITING_SIGNAL"
    <2>1. /\ event' \in [EventIds -> EventRecord]
          /\ event'[e].session = s /\ event'[e].status = "CONSUMED"
          /\ \A x \in EventIds \ {e} : event'[x] = event[x]
      <3>1. Accepted(p, "CONSUMED", r)
        BY <1>2, <1>6, <1>10 DEF ReceiveSignals
      <3>. QED
        BY <1>1, <1>2, <1>3, <3>1, AcceptedIs
    <2>2. /\ run' = [run EXCEPT ![r].status = "QUEUED"]
          /\ session' = [session EXCEPT ![s] = Numbered(session[s], ProjectedState("QUEUED"))]
      BY <1>2, <1>6, <1>10 DEF ReceiveSignals
    <2>3. ProjectedState("QUEUED") = "ACTIVE" /\ "QUEUED" \in RunStatus
      BY StatusTable, ShownStates
    <2>4. /\ session' \in [SessionIds -> SessionRecord]
          /\ session'[s].state = "ACTIVE" /\ session'[s].current = r
          /\ \A t \in SessionIds \ {s} : session'[t] = session[t]
      BY <1>1, <1>6, <2>2, <2>3 DEF Typed, SessionRecord, Numbered, SessionStates
    <2>5. /\ run' \in [Runs -> RunRecord]
          /\ run'[r].session = s /\ run'[r].parent = None /\ run'[r].status = "QUEUED"
          /\ run'[r].event = run[r].event
          /\ \A o \in Runs \ {r} : run'[o] = run[o]
      BY <1>1, <1>7, <2>2, <2>3 DEF Typed, RunRecord
    <2>6. \A o \in Runs : Live(o)' <=> Live(o)
      BY <1>7, <2>5, StatusTable DEF Live
    <2>7. /\ room' = room /\ receiver' = [receiver EXCEPT ![p] = IdleReceiver]
          /\ canceller' = canceller /\ dispatcher' = dispatcher /\ worker' = worker
      BY DEF ReceiveSignals, ReceiverDone
    <2>8. /\ LockRules(p) /\ lock' \in [Resources -> Procs \union {NoOne}]
          /\ \A x \in Resources : lock'[x] # p
      BY <1>1, <1>8, Releasing, Kinds
    <2>9. Typed'
      BY <1>1, <2>1, <2>4, <2>5, <2>7, <2>8, Kinds DEF Typed, ReceiverRecord, IdleReceiver
    <2>10. run[r].status # "absent" /\ {c \in Runs : run'[c].parent # None} = {c \in Runs : run[c].parent # None}
      BY <1>7, <1>10, <2>5
    <2>11. Respects(p)
      BY <1>4, <1>7, <1>8, <2>1, <2>4, <2>5, <2>6, <2>8, <2>10 DEF Respects, Others, LockRules, Free, NoEvent
    <2>12. OthersStay(p)
      BY <1>1, <2>7 DEF OthersStay, Typed
    <2>13. Rows'
      BY <1>1, <1>4, <1>7, <2>1, <2>4, <2>5, <2>10 DEF RowsInv, Rows
    <2>14. FewRuns'
      <3>1. Cardinality({c \in Runs : run'[c].parent # None}) <= MaxChildren
        BY <1>1, <2>10 DEF RowsInv, FewRuns
      <3>2. \A o, q \in Runs :
              /\ run'[o].status # "absent" /\ run'[o].parent = None /\ run'[o].event = NoOne
              /\ run'[q].status # "absent" /\ run'[q].parent = None /\ run'[q].event = NoOne
              /\ run'[o].session = run'[q].session
              => o = q
        BY <1>1, <1>7, <2>5, <2>10 DEF RowsInv, FewRuns
      <3>. QED
        BY <3>1, <3>2 DEF FewRuns
    <2>15. CancelledSessionIsQuiet'
      <3>1. ASSUME NEW t \in SessionIds, session'[t].state = "CANCELLED"
            PROVE  (\A o \in RunsOf(t)' : ~Live(o)') /\ Stale(t)' = {}
        <4>1. t # s /\ session[t].state = "CANCELLED"
          BY <2>4, <3>1
        <4>2. (\A o \in RunsOf(t) : ~Live(o)) /\ Stale(t) = {}
          BY <1>1, <4>1 DEF RowsInv, CancelledSessionIsQuiet
        <4>. QED
          BY <2>1, <2>5, <2>6, <4>1, <4>2 DEF RunsOf, Stale
      <3>. QED
        BY <3>1 DEF CancelledSessionIsQuiet
    <2>16. ASSUME NEW t \in SessionIds, Serving(t)'
           PROVE  Shows(t)'
      <3>1. CASE t = s
        <4>1. \A o \in Runs : (run'[o].session = s /\ run'[o].parent = None /\ Live(o)') <=> o = r
          BY <1>5, <1>6, <1>7, <2>5, <2>6 DEF Shows
        <4>. QED
          BY <1>4, <1>6, <2>3, <2>4, <2>5, <3>1, <4>1 DEF Shows
      <3>2. CASE t # s
        BY <1>1, <1>7, <2>4, <2>5, <2>16, <3>2, ShowsSame DEF RowsInv
      <3>. QED
        BY <3>1, <3>2
    <2>17. EventStartsOneRun'
      BY <1>1, <1>4, <2>1, <2>5 DEF RowsInv, EventStartsOneRun, NoEvent, Typed, RunRecord
    <2>18. RowsInv'
      BY <2>9, <2>13, <2>14, <2>15, <2>16, <2>17, ShowsNext DEF RowsInv
    <2>19. ReceiverInv(p)'
      BY <1>1, <2>7 DEF ReceiverInv, IdleReceiver, Typed
    <2>20. ProcInv(p)'
      BY <2>8, <2>19, HoldsNothing, Kinds DEF ProcInv
    <2>. QED
      BY <2>9, <2>11, <2>12, <2>18, <2>20, StepOfOne
  <1>. QED
    BY <1>9, <1>10

\* Runs that change their status only.
SameRuns ==
  \A r \in Runs : /\ run'[r].session = run[r].session /\ run'[r].parent = run[r].parent
                  /\ run'[r].event = run[r].event
                  /\ run'[r].status # "absent" <=> run[r].status # "absent"

LEMMA FewRunsSame ==
  ASSUME FewRuns, SameRuns
  PROVE  FewRuns' /\ {c \in Runs : run'[c].parent # None} = {c \in Runs : run[c].parent # None}
  <1>1. {c \in Runs : run'[c].parent # None} = {c \in Runs : run[c].parent # None}
    BY DEF SameRuns
  <1>2. Cardinality({c \in Runs : run'[c].parent # None}) <= MaxChildren
    BY <1>1 DEF FewRuns
  <1>3. \A o, q \in Runs :
          /\ run'[o].status # "absent" /\ run'[o].parent = None /\ run'[o].event = NoOne
          /\ run'[q].status # "absent" /\ run'[q].parent = None /\ run'[q].event = NoOne
          /\ run'[o].session = run'[q].session
          => o = q
    BY DEF FewRuns, SameRuns
  <1>. QED
    BY <1>1, <1>2, <1>3 DEF FewRuns

LEMMA CancelCommitsKeeps ==
  ASSUME SessionsInv, NEW c \in Cancellers, CancelCommits(c)
  PROVE  SessionsInv'
  <1>1. /\ Typed /\ RowsInv /\ CancellerInv(c) /\ HolderInv(c)
        /\ canceller[c].pc = "fencing" /\ canceller[c].todo = {}
    BY Kinds DEF SessionsInv, ProcInv, CancelCommits
  <1>2. PICK s \in SessionIds : s = canceller[c].session
    BY <1>1 DEF CancellerInv
  <1>3. /\ lock[SessionRow(s)] = c /\ session[s].state \notin {"absent", "CANCELLED"}
        /\ \A r \in RunsOf(s) : Live(r) => lock[RunRow(r)] = c
    BY <1>1, <1>2 DEF CancellerInv
  <1>4. PICK fenced \in SUBSET Runs : fenced = {r \in Runs : lock[RunRow(r)] = c /\ Live(r)}
    OBVIOUS
  <1>5. /\ run' = [r \in Runs |-> IF r \in fenced
                                  THEN [run[r] EXCEPT !.status = "CANCELLED"] ELSE run[r]]
        /\ event' = [e \in EventIds |-> IF e \in Stale(s)
                                        THEN [event[e] EXCEPT !.status = "STALE"] ELSE event[e]]
        /\ session' = [session EXCEPT ![s].state = "CANCELLED"]
        /\ lock' = Released(c) /\ room' = room /\ receiver' = receiver
        /\ dispatcher' = dispatcher /\ worker' = worker
        /\ canceller' = [canceller EXCEPT ![c] = IdleCanceller]
    BY <1>2, <1>4 DEF CancelCommits
  <1>6. \A r \in fenced : run[r].session = s /\ Live(r) /\ lock[RunRow(r)] = c
    BY <1>1, <1>2, <1>4, Kinds DEF HolderInv, HoldsRun
  <1>7. \A r \in Runs : Live(r) /\ run[r].session = s => r \in fenced
    BY <1>3, <1>4 DEF RunsOf
  <1>8. /\ run' \in [Runs -> RunRecord]
        /\ \A r \in fenced : /\ run'[r].status = "CANCELLED" /\ run'[r].session = run[r].session
                             /\ run'[r].parent = run[r].parent /\ run'[r].event = run[r].event
        /\ \A r \in Runs \ fenced : run'[r] = run[r]
    <2>1. "CANCELLED" \in RunStatus
      BY StatusTable
    <2>. QED
      BY <1>1, <1>5, <2>1 DEF Typed, RunRecord
  <1>9. /\ event' \in [EventIds -> EventRecord]
        /\ \A e \in Stale(s) : /\ event'[e].status = "STALE" /\ event'[e].session = event[e].session
                               /\ event'[e].class = event[e].class
        /\ \A e \in EventIds \ Stale(s) : event'[e] = event[e]
    <2>1. \A e \in EventIds : /\ [event[e] EXCEPT !.status = "STALE"] \in EventRecord
                              /\ [event[e] EXCEPT !.status = "STALE"].status = "STALE"
                              /\ [event[e] EXCEPT !.status = "STALE"].session = event[e].session
                              /\ [event[e] EXCEPT !.status = "STALE"].class = event[e].class
      BY <1>1 DEF Typed, EventRecord
    <2>2. Stale(s) \subseteq EventIds /\ \A e \in EventIds : event[e] \in EventRecord
      BY <1>1 DEF Stale, Typed
    <2>3. \A e \in EventIds : event'[e] = IF e \in Stale(s)
                                           THEN [event[e] EXCEPT !.status = "STALE"] ELSE event[e]
      BY <1>5
    <2>. QED
      BY <1>5, <2>1, <2>2, <2>3, Zenon
  <1>10. /\ session' \in [SessionIds -> SessionRecord]
         /\ session'[s].state = "CANCELLED"
         /\ \A t \in SessionIds \ {s} : session'[t] = session[t]
    BY <1>1, <1>5 DEF Typed, SessionRecord, SessionStates
  <1>11. SameRuns
    <2>1. \A r \in fenced : run[r].status # "absent"
      BY <1>6, StatusTable DEF Live
    <2>. QED
      BY <1>8, <2>1 DEF SameRuns
  <1>12. \A r \in Runs : Live(r)' <=> Live(r) /\ r \notin fenced
    BY <1>8, StatusTable DEF Live
  <1>13. /\ LockRules(c) /\ lock' \in [Resources -> Procs \union {NoOne}]
         /\ \A x \in Resources : lock'[x] # c
    BY <1>1, <1>5, Releasing, Kinds
  <1>14. Typed'
    BY <1>1, <1>5, <1>8, <1>9, <1>10, <1>13, Kinds DEF Typed, CancellerRecord, IdleCanceller
  <1>15. Respects(c)
    <2>1. {o \in Runs : run'[o].parent # None} = {o \in Runs : run[o].parent # None}
      BY <1>11 DEF SameRuns
    <2>2. ASSUME NEW r \in Runs
          PROVE  /\ run[r].status # "absent" =>
                      run'[r].status # "absent" /\ run'[r].session = run[r].session
                 /\ Others(c, RunRow(r)) => run'[r] = run[r]
                 /\ Live(r)' => /\ Live(r) /\ run'[r].session = run[r].session
                                /\ run'[r].parent = run[r].parent
      BY <1>6, <1>8, <1>11, <1>12 DEF SameRuns, Others
    <2>3. ASSUME NEW e \in EventIds
          PROVE  /\ event[e] = NoEvent => event'[e] = NoEvent
                 /\ event[e].status = "PENDING" /\ Others(c, SessionRow(event[e].session))
                    => event'[e] = event[e]
      BY <1>3, <1>9 DEF Stale, NoEvent, Others
    <2>4. ASSUME NEW t \in SessionIds
          PROVE  /\ session[t].state # "absent" => session'[t].state # "absent"
                 /\ Others(c, SessionRow(t)) => session'[t] = session[t]
      BY <1>3, <1>10 DEF Others
    <2>. QED
      BY <1>13, <2>1, <2>2, <2>3, <2>4 DEF Respects, LockRules
  <1>16. OthersStay(c)
    BY <1>1, <1>5 DEF OthersStay, Typed
  <1>17. Rows'
    <2>1. \A t \in SessionIds : session'[t].state = "absent" => session'[t] = NoSession
      BY <1>1, <1>10 DEF RowsInv, Rows
    <2>2. \A r \in Runs :
            IF run'[r].status = "absent" THEN run'[r] = NoRun
            ELSE run'[r].session \in SessionIds /\ session'[run'[r].session].state # "absent"
      BY <1>1, <1>8, <1>10, <1>11 DEF RowsInv, Rows, SameRuns
    <2>3. \A r \in Runs : run'[r].parent # None => run'[r].event = NoOne
      BY <1>1, <1>11 DEF RowsInv, Rows, SameRuns
    <2>4. \A e \in EventIds :
            /\ IF event'[e].status = "absent" THEN event'[e] = NoEvent
               ELSE event'[e].session \in SessionIds /\ session'[event'[e].session].state # "absent"
            /\ event'[e].status = "PENDING" => event'[e].class = "future-run"
      BY <1>1, <1>9, <1>10 DEF RowsInv, Rows, Stale
    <2>. QED
      BY <2>1, <2>2, <2>3, <2>4 DEF Rows
  <1>18. FewRuns'
    BY <1>1, <1>11, FewRunsSame DEF RowsInv
  <1>19. CancelledSessionIsQuiet'
    <2>1. ASSUME NEW t \in SessionIds, session'[t].state = "CANCELLED"
          PROVE  (\A r \in RunsOf(t)' : ~Live(r)') /\ Stale(t)' = {}
      <3>1. CASE t = s
        <4>1. \A r \in RunsOf(s)' : ~Live(r)'
          BY <1>7, <1>11, <1>12 DEF RunsOf, SameRuns
        <4>2. Stale(s)' = {}
          BY <1>9 DEF Stale
        <4>. QED
          BY <3>1, <4>1, <4>2
      <3>2. CASE t # s
        <4>1. (\A r \in RunsOf(t) : ~Live(r)) /\ Stale(t) = {}
          BY <1>1, <1>10, <2>1, <3>2 DEF RowsInv, CancelledSessionIsQuiet
        <4>2. \A r \in RunsOf(t)' : ~Live(r)'
          BY <1>11, <1>12, <4>1 DEF RunsOf, SameRuns
        <4>3. Stale(t)' = {}
          BY <1>9, <4>1 DEF Stale
        <4>. QED
          BY <4>2, <4>3
      <3>. QED
        BY <3>1, <3>2
    <2>. QED
      BY <2>1 DEF CancelledSessionIsQuiet
  <1>20. ASSUME NEW t \in SessionIds, Serving(t)'
         PROVE  Shows(t)'
    <2>1. t # s
      BY <1>10, <1>20 DEF Serving
    <2>2. \A r \in Runs : run[r].session = t \/ run'[r].session = t => run'[r] = run[r]
      BY <1>6, <1>8, <1>11, <2>1 DEF SameRuns
    <2>. QED
      BY <1>1, <1>10, <1>20, <2>1, <2>2, ShowsSame DEF RowsInv
  <1>21. EventStartsOneRun'
    <2>1. \A r \in Runs : run'[r].event = run[r].event
      BY <1>11 DEF SameRuns
    <2>2. \A e \in EventIds : event[e].status = "DISPATCHED" => event'[e] = event[e]
      BY <1>9 DEF Stale
    <2>3. \A r \in Runs : run[r].event # NoOne => run[r].event \in EventIds
      BY <1>1 DEF Typed, RunRecord
    <2>. QED
      BY <1>1, <2>1, <2>2, <2>3 DEF RowsInv, EventStartsOneRun
  <1>22. RowsInv'
    BY <1>14, <1>17, <1>18, <1>19, <1>20, <1>21, ShowsNext DEF RowsInv
  <1>23. CancellerInv(c)'
    BY <1>1, <1>5 DEF CancellerInv, IdleCanceller, Typed
  <1>24. ProcInv(c)'
    BY <1>13, <1>23, HoldsNothing, Kinds DEF ProcInv
  <1>. QED
    BY <1>14, <1>15, <1>16, <1>22, <1>24, StepOfOne

\* A step that gives events another time.
LaterEvents ==
  /\ event' \in [EventIds -> EventRecord]
  /\ \A e \in EventIds :
       \/ event'[e] = event[e]
       \/ /\ event[e].status = "PENDING" /\ event'[e].status = "PENDING"
          /\ event'[e].session = event[e].session /\ event'[e].class = event[e].class

LEMMA EventsWait ==
  ASSUME SessionsInv, LaterEvents, UNCHANGED <<session, run>>, Typed', NEW p, LockRules(p)
  PROVE  RowsInv' /\ Respects(p)
  <1>1. session' = session /\ run' = run /\ RowsInv /\ Typed
    BY DEF SessionsInv
  <1>2. \A r \in Runs : Live(r)' <=> Live(r)
    BY <1>1 DEF Live
  <1>3. \A e \in EventIds : event[e] = NoEvent => event'[e] = NoEvent
    BY DEF LaterEvents, NoEvent
  <1>4. Respects(p)
    BY <1>1, <1>2, <1>3 DEF Respects, LockRules, LaterEvents
  <1>5. Rows'
    BY <1>1 DEF RowsInv, Rows, LaterEvents
  <1>6. FewRuns'
    BY <1>1 DEF RowsInv, FewRuns
  <1>7. CancelledSessionIsQuiet'
    <2>1. \A t \in SessionIds : /\ RunsOf(t)' = RunsOf(t) /\ RunsOf(t) \subseteq Runs
                                /\ Stale(t)' = Stale(t)
      BY <1>1 DEF RunsOf, Stale, LaterEvents
    <2>. QED
      BY <1>1, <1>2, <2>1 DEF RowsInv, CancelledSessionIsQuiet
  <1>8. SessionShowsItsRun'
    BY <1>1, ShowsNext, ShowsSame DEF RowsInv
  <1>9. EventStartsOneRun'
    <2>1. \A e \in EventIds : event[e].status = "DISPATCHED" => event'[e] = event[e]
      BY DEF LaterEvents
    <2>2. \A r \in Runs : run[r].event # NoOne => run[r].event \in EventIds
      BY <1>1 DEF Typed, RunRecord
    <2>. QED
      BY <1>1, <2>1, <2>2 DEF RowsInv, EventStartsOneRun
  <1>. QED
    BY <1>4, <1>5, <1>6, <1>7, <1>8, <1>9 DEF RowsInv

LEMMA DeferSessionKeeps ==
  ASSUME SessionsInv, NEW w \in Dispatchers, DeferSession(w)
  PROVE  SessionsInv'
  <1>1. Typed /\ dispatcher[w].pc = "defer"
    BY DEF SessionsInv, DeferSession
  <1>2. /\ session' = session /\ run' = run /\ room' = room /\ lock' = lock
        /\ receiver' = receiver /\ canceller' = canceller /\ worker' = worker
        /\ NextCandidate(w) /\ DeferredEvents(w)
    BY DEF DeferSession
  <1>3. LaterEvents
    <2>1. PICK until \in Int : until = dispatcher[w].now + RetryDelay
      <3>1. dispatcher[w].now \in Int /\ RetryDelay \in Int
        BY <1>1, NumbersAssumption DEF Typed, DispatcherRecord
      <3>. QED
        BY <3>1
    <2>2. event' = [e \in EventIds |->
                      IF e \in Pending(Candidate(w)) /\ event[e].after < until
                      THEN [event[e] EXCEPT !.after = until] ELSE event[e]]
      BY <1>2, <2>1 DEF DeferredEvents
    <2>3. \A e \in EventIds : /\ event[e] \in EventRecord
                              /\ [event[e] EXCEPT !.after = until] \in EventRecord
                              /\ [event[e] EXCEPT !.after = until].status = event[e].status
                              /\ [event[e] EXCEPT !.after = until].session = event[e].session
                              /\ [event[e] EXCEPT !.after = until].class = event[e].class
      BY <1>1 DEF Typed, EventRecord
    <2>4. \A e \in Pending(Candidate(w)) : event[e].status = "PENDING"
      BY DEF Pending
    <2>. QED
      BY <2>2, <2>3, <2>4 DEF LaterEvents
  <1>4. /\ dispatcher' \in [Dispatchers -> DispatcherRecord]
        /\ dispatcher'[w].pc \in {"idle", "pass"}
        /\ dispatcher'[w].pc # "idle" => dispatcher'[w].todo # {}
        /\ \A q \in Dispatchers \ {w} : dispatcher'[q] = dispatcher[q]
    BY <1>1, <1>2, NextCandidateIs
  <1>5. Typed'
    BY <1>1, <1>2, <1>3, <1>4 DEF Typed, LaterEvents
  <1>6. RowsInv' /\ Respects(w)
    BY <1>1, <1>2, <1>3, <1>5, EventsWait, KeepingLocks
  <1>7. OthersStay(w)
    BY <1>2, <1>4 DEF OthersStay
  <1>8. \A x \in Resources : lock'[x] # w
    BY <1>1, <1>2, IdleDispatcherHoldsNothing
  <1>9. DispatcherInv(w)'
    BY <1>4 DEF DispatcherInv
  <1>10. ProcInv(w)'
    BY <1>8, <1>9, HoldsNothing, Kinds DEF ProcInv
  <1>. QED
    BY <1>5, <1>6, <1>7, <1>10, StepOfOne

LEMMA TickKeeps ==
  ASSUME SessionsInv, Tick
  PROVE  SessionsInv'
  <1>1. Typed
    BY DEF SessionsInv
  <1>2. /\ session' = session /\ run' = run /\ room' = room /\ lock' = lock
        /\ canceller' = canceller /\ worker' = worker
    BY DEF Tick
  <1>3. LaterEvents
    <2>1. event' = [e \in EventIds |-> IF event[e].status = "PENDING"
                                       THEN [event[e] EXCEPT !.after = Older(event[e].after)]
                                       ELSE event[e]]
      BY DEF Tick
    <2>2. ASSUME NEW e \in EventIds
          PROVE  /\ event[e] \in EventRecord
                 /\ [event[e] EXCEPT !.after = Older(event[e].after)] \in EventRecord
                 /\ [event[e] EXCEPT !.after = Older(event[e].after)].status = event[e].status
                 /\ [event[e] EXCEPT !.after = Older(event[e].after)].session = event[e].session
                 /\ [event[e] EXCEPT !.after = Older(event[e].after)].class = event[e].class
      <3>1. event[e].after \in Int /\ event[e] \in EventRecord
        BY <1>1 DEF Typed, EventRecord
      <3>2. PICK t \in Int : t = Older(event[e].after)
        BY <3>1 DEF Older
      <3>. QED
        BY <3>1, <3>2 DEF EventRecord
    <2>. QED
      BY <2>1, <2>2 DEF LaterEvents
  <1>4. /\ receiver' \in [Receivers -> ReceiverRecord]
        /\ \A p \in Receivers :
             /\ receiver'[p].pc = receiver[p].pc /\ receiver'[p].event = receiver[p].event
             /\ receiver'[p].session = receiver[p].session /\ receiver'[p].class = receiver[p].class
    <2>1. receiver' = [p \in Receivers |->
                         IF receiver[p].pc = "idle" THEN receiver[p]
                         ELSE [receiver[p] EXCEPT !.time = receiver[p].time - 1]]
      BY DEF Tick
    <2>2. ASSUME NEW p \in Receivers
          PROVE  /\ receiver'[p] \in ReceiverRecord
                 /\ receiver'[p].pc = receiver[p].pc /\ receiver'[p].event = receiver[p].event
                 /\ receiver'[p].session = receiver[p].session /\ receiver'[p].class = receiver[p].class
      <3>1. receiver[p] \in ReceiverRecord
        BY <1>1 DEF Typed
      <3>2. PICK t \in Int : t = receiver[p].time - 1
        BY <3>1 DEF ReceiverRecord
      <3>. QED
        BY <2>1, <3>1, <3>2 DEF ReceiverRecord
    <2>. QED
      BY <2>1, <2>2
  <1>5. /\ dispatcher' \in [Dispatchers -> DispatcherRecord]
        /\ \A w \in Dispatchers :
             /\ dispatcher'[w].pc = dispatcher[w].pc /\ dispatcher'[w].todo = dispatcher[w].todo
             /\ dispatcher'[w].event = dispatcher[w].event
    <2>1. dispatcher' = [w \in Dispatchers |->
                           IF dispatcher[w].pc = "idle" THEN dispatcher[w]
                           ELSE [dispatcher[w] EXCEPT !.now = dispatcher[w].now - 1]]
      BY DEF Tick
    <2>2. ASSUME NEW w \in Dispatchers
          PROVE  /\ dispatcher'[w] \in DispatcherRecord
                 /\ dispatcher'[w].pc = dispatcher[w].pc /\ dispatcher'[w].todo = dispatcher[w].todo
                 /\ dispatcher'[w].event = dispatcher[w].event
      <3>1. dispatcher[w] \in DispatcherRecord
        BY <1>1 DEF Typed
      <3>2. PICK t \in Int : t = dispatcher[w].now - 1
        BY <3>1 DEF DispatcherRecord
      <3>. QED
        BY <2>1, <3>1, <3>2 DEF DispatcherRecord
    <2>. QED
      BY <2>1, <2>2
  <1>6. Typed'
    BY <1>1, <1>2, <1>3, <1>4, <1>5 DEF Typed, LaterEvents
  <1>7. RowsInv' /\ Respects(NoOne)
    BY <1>1, <1>2, <1>3, <1>6, EventsWait, KeepingLocks
  <1>8. OthersStay(NoOne)
    BY <1>2, <1>4, <1>5 DEF OthersStay
  <1>. QED
    BY <1>6, <1>7, <1>8, StepOfOne, Kinds

LEMMA AdmitEventKeeps ==
  ASSUME SessionsInv, NEW w \in Dispatchers, AdmitEvent(w)
  PROVE  SessionsInv'
  <1>1. Typed /\ RowsInv /\ DispatcherInv(w) /\ dispatcher[w].pc = "admit"
    BY Kinds DEF SessionsInv, ProcInv, AdmitEvent
  <1>2. PICK s \in SessionIds : s = Candidate(w)
    BY <1>1, OldestIs DEF DispatcherInv, Candidate, Typed, DispatcherRecord
  <1>3. PICK e \in EventIds : e = dispatcher[w].event
    BY <1>1 DEF DispatcherInv, Pending
  <1>4. /\ lock[SessionRow(s)] = w /\ lock[EventRow(e)] = w /\ session[s].state = "IDLE"
        /\ event[e].session = s /\ event[e].status = "PENDING" /\ event[e].class = "future-run"
    BY <1>1, <1>2, <1>3 DEF DispatcherInv, Pending
  <1>5. /\ lock' = Released(w) /\ room' = room /\ receiver' = receiver
        /\ canceller' = canceller /\ worker' = worker
    BY DEF AdmitEvent
  <1>6. /\ LockRules(w) /\ lock' \in [Resources -> Procs \union {NoOne}]
        /\ \A x \in Resources : lock'[x] # w
    BY <1>1, <1>5, Releasing, Kinds
  <1>7. CASE ~room
    <2>1. /\ dispatcher' = [dispatcher EXCEPT ![w].pc = "defer"]
          /\ session' = session /\ event' = event /\ run' = run
      BY <1>7 DEF AdmitEvent
    <2>2. /\ dispatcher' \in [Dispatchers -> DispatcherRecord]
          /\ dispatcher'[w].pc = "defer" /\ dispatcher'[w].todo = dispatcher[w].todo
          /\ \A q \in Dispatchers \ {w} : dispatcher'[q] = dispatcher[q]
      BY <1>1, <2>1 DEF Typed, DispatcherRecord
    <2>3. Typed'
      BY <1>1, <1>5, <1>6, <2>1, <2>2 DEF Typed
    <2>4. RowsInv' /\ Respects(w)
      BY <1>6, <2>1, TablesUntouched
    <2>5. OthersStay(w)
      BY <1>5, <2>2 DEF OthersStay
    <2>6. DispatcherInv(w)'
      BY <1>1, <2>2 DEF DispatcherInv
    <2>7. ProcInv(w)'
      BY <1>6, <2>6, HoldsNothing, Kinds DEF ProcInv
    <2>. QED
      BY <2>3, <2>4, <2>5, <2>7, StepOfOne
  <1>8. CASE room
    <2>1. PICK n \in Runs : n = NextRun /\ run[n] = NoRun
      BY <1>1, <1>4, RunLeft DEF RowsInv
    <2>2. /\ session' = [session EXCEPT ![s] = ActiveRow(s, n)]
          /\ run' = [run EXCEPT ![n] = [session |-> s, parent |-> None,
                                        status |-> "QUEUED", event |-> e]]
          /\ event' = [event EXCEPT ![e] = DispatchedTo(event[e], n)]
          /\ NextCandidate(w)
      BY <1>2, <1>3, <1>8, <2>1 DEF AdmitEvent, createRun
    <2>3. /\ run' \in [Runs -> RunRecord]
          /\ run'[n] = [session |-> s, parent |-> None, status |-> "QUEUED", event |-> e]
          /\ \A r \in Runs \ {n} : run'[r] = run[r] /\ (Live(r)' <=> Live(r))
          /\ Live(n)' /\ ~Live(n) /\ lock[RunRow(n)] = NoOne
      <3>1. None \in Runs \union {None} /\ e \in EventIds \union {NoOne}
        OBVIOUS
      <3>. QED
        BY <2>1, <2>2, <3>1, RunCreated
    <2>4. run[n].session = NoOne /\ run[n].parent = None /\ run[n].status = "absent"
          /\ run[n].event = NoOne
      BY <2>1 DEF NoRun
    <2>5. /\ session' \in [SessionIds -> SessionRecord]
          /\ session'[s].state = "ACTIVE" /\ session'[s].current = n
          /\ \A t \in SessionIds \ {s} : session'[t] = session[t]
      BY <1>1, <2>1, <2>2 DEF Typed, SessionRecord, SessionStates, ActiveRow
    <2>6. /\ event' \in [EventIds -> EventRecord]
          /\ event'[e].status = "DISPATCHED" /\ event'[e].run = n /\ event'[e].session = s
          /\ \A x \in EventIds \ {e} : event'[x] = event[x]
      <3>1. event[e] \in EventRecord
        BY <1>1 DEF Typed
      <3>2. /\ DispatchedTo(event[e], n) \in EventRecord
            /\ DispatchedTo(event[e], n).status = "DISPATCHED"
            /\ DispatchedTo(event[e], n).run = n
            /\ DispatchedTo(event[e], n).session = s
        BY <1>4, <2>1, <3>1 DEF EventRecord, DispatchedTo
      <3>. QED
        BY <1>1, <2>2, <3>2 DEF Typed
    <2>7. /\ dispatcher' \in [Dispatchers -> DispatcherRecord]
          /\ dispatcher'[w].pc \in {"idle", "pass"}
          /\ dispatcher'[w].pc # "idle" => dispatcher'[w].todo # {}
          /\ \A q \in Dispatchers \ {w} : dispatcher'[q] = dispatcher[q]
      BY <1>1, <2>2, NextCandidateIs
    <2>8. Typed'
      BY <1>1, <1>5, <1>6, <2>3, <2>5, <2>6, <2>7 DEF Typed
    <2>9. {c \in Runs : run'[c].parent # None} = {c \in Runs : run[c].parent # None}
      BY <2>3, <2>4
    <2>10. Respects(w)
      <3>1. ASSUME NEW x \in EventIds
            PROVE  /\ event[x] = NoEvent => event'[x] = NoEvent
                   /\ event[x].status = "PENDING" /\ Others(w, EventRow(x)) => event'[x] = event[x]
        BY <1>4, <2>6 DEF Others, NoEvent
      <3>2. ASSUME NEW t \in SessionIds
            PROVE  /\ session[t].state # "absent" => session'[t].state # "absent"
                   /\ Others(w, SessionRow(t)) => session'[t] = session[t]
        BY <1>4, <2>5 DEF Others
      <3>3. ASSUME NEW r \in Runs
            PROVE  /\ run[r].status # "absent" =>
                        run'[r].status # "absent" /\ run'[r].session = run[r].session
                   /\ Others(w, RunRow(r)) => run'[r] = run[r]
                   /\ Live(r)' => \/ Live(r) /\ run'[r].session = run[r].session
                                     /\ run'[r].parent = run[r].parent
                                  \/ ~Others(w, SessionRow(run'[r].session)) /\ run'[r].parent = None
        BY <1>4, <2>3, <2>4 DEF Others
      <3>. QED
        BY <1>6, <2>9, <3>1, <3>2, <3>3 DEF Respects, LockRules
    <2>11. OthersStay(w)
      BY <1>5, <2>7 DEF OthersStay
    <2>12. Rows'
      BY <1>1, <2>3, <2>5, <2>6 DEF RowsInv, Rows
    <2>13. FewRuns'
      <3>1. Cardinality({c \in Runs : run'[c].parent # None}) <= MaxChildren
        BY <1>1, <2>9 DEF RowsInv, FewRuns
      <3>2. run'[n].event # NoOne
        BY <2>3, Kinds
      <3>3. \A o, q \in Runs :
              /\ run'[o].status # "absent" /\ run'[o].parent = None /\ run'[o].event = NoOne
              /\ run'[q].status # "absent" /\ run'[q].parent = None /\ run'[q].event = NoOne
              /\ run'[o].session = run'[q].session
              => o = q
        BY <1>1, <2>3, <3>2 DEF RowsInv, FewRuns
      <3>. QED
        BY <3>1, <3>3 DEF FewRuns
    <2>14. CancelledSessionIsQuiet'
      <3>1. ASSUME NEW t \in SessionIds, session'[t].state = "CANCELLED"
            PROVE  (\A o \in RunsOf(t)' : ~Live(o)') /\ Stale(t)' = {}
        <4>1. t # s /\ session[t].state = "CANCELLED"
          BY <2>5, <3>1
        <4>2. (\A o \in RunsOf(t) : ~Live(o)) /\ Stale(t) = {}
          BY <1>1, <4>1 DEF RowsInv, CancelledSessionIsQuiet
        <4>. QED
          BY <2>3, <2>6, <4>1, <4>2 DEF RunsOf, Stale
      <3>. QED
        BY <3>1 DEF CancelledSessionIsQuiet
    <2>15. ASSUME NEW t \in SessionIds, Serving(t)'
           PROVE  Shows(t)'
      <3>1. CASE t = s
        <4>1. Shows(s) /\ session[s].current = None
          BY <1>1, <1>4, ShowsNow, IdleHasNone DEF RowsInv, Serving
        <4>2. \A r \in Runs : (run'[r].session = s /\ run'[r].parent = None /\ Live(r)') <=> r = n
          BY <2>1, <2>3, <4>1, Kinds DEF Shows
        <4>3. ProjectedState(run'[n].status) = "ACTIVE"
          BY <2>3, ShownStates, StatusTable
        <4>. QED
          BY <2>1, <2>5, <3>1, <4>2, <4>3, Kinds DEF Shows
      <3>2. CASE t # s
        <4>1. \A r \in Runs : run[r].session = t \/ run'[r].session = t => run'[r] = run[r]
          BY <2>3, <2>4, <3>2, Kinds
        <4>. QED
          BY <1>1, <2>5, <2>15, <3>2, <4>1, ShowsSame DEF RowsInv
      <3>. QED
        BY <3>1, <3>2
    <2>16. EventStartsOneRun'
      <3>1. \A r \in Runs \ {n} : run'[r].event # NoOne =>
              /\ run'[r].event \in EventIds \ {e} /\ run[r].event = run'[r].event
              /\ event'[run'[r].event].status = "DISPATCHED" /\ event'[run'[r].event].run = r
        BY <1>1, <1>4, <2>3, <2>6 DEF RowsInv, EventStartsOneRun, Typed, RunRecord
      <3>2. run'[n].event = e /\ event'[e].status = "DISPATCHED" /\ event'[e].run = n
        BY <2>3, <2>6
      <3>. QED
        BY <1>1, <3>1, <3>2 DEF RowsInv, EventStartsOneRun
    <2>17. RowsInv'
      BY <2>8, <2>12, <2>13, <2>14, <2>15, <2>16, ShowsNext DEF RowsInv
    <2>18. DispatcherInv(w)'
      BY <2>7 DEF DispatcherInv
    <2>19. ProcInv(w)'
      BY <1>6, <2>18, HoldsNothing, Kinds DEF ProcInv
    <2>. QED
      BY <2>8, <2>10, <2>11, <2>17, <2>19, StepOfOne
  <1>. QED
    BY <1>7, <1>8

\* What a run's transition makes of its session's row.
LEMMA ProjectionIs ==
  ASSUME Typed, Rows, NEW r \in Runs, NEW s \in SessionIds, s = run[r].session,
         NEW to \in RunStatus, session[s].state # "absent",
         projectTopLevelRunStateToSession(r, to)
  PROVE  /\ session' \in [SessionIds -> SessionRecord]
         /\ \A t \in SessionIds \ {s} : session'[t] = session[t]
         /\ session'[s].state # "absent"
         /\ session'[s].state = "CANCELLED" <=> session[s].state = "CANCELLED"
         /\ ~Projects(r, to) => session'[s] = session[s]
         /\ Projects(r, to) =>
              /\ session'[s].state = ProjectedState(to)
              /\ session'[s].current = IF isTerminal(to) THEN None ELSE session[s].current
  <1>1. CASE ~Projects(r, to)
    BY <1>1 DEF projectTopLevelRunStateToSession, Typed
  <1>2. CASE Projects(r, to)
    <2>1. session' = [session EXCEPT ![s] = ProjectedRow(session[s], to)]
      BY <1>2 DEF projectTopLevelRunStateToSession
    <2>2. ProjectedState(to) \in SessionStates \ {"absent", "CANCELLED"}
      BY ShownStates
    <2>3. session[s].current \in Runs \union {None} /\ session[s].seq \in Nat
      BY DEF Typed, SessionRecord
    <2>4. /\ ProjectedRow(session[s], to) \in SessionRecord
          /\ ProjectedRow(session[s], to).state = ProjectedState(to)
          /\ ProjectedRow(session[s], to).current
               = IF isTerminal(to) THEN None ELSE session[s].current
      BY <2>2, <2>3 DEF ProjectedRow, SessionRecord
    <2>5. session[s].state # "CANCELLED"
      BY <1>2 DEF Projects
    <2>. QED
      BY <1>2, <2>1, <2>2, <2>4, <2>5 DEF Typed
  <1>. QED
    BY <1>1, <1>2

\* The session of a run that has taken a step shows it.
LEMMA StepIsShown ==
  ASSUME Typed, Rows, SessionShowsItsRun, NEW r \in Runs, NEW s \in SessionIds,
         s = run[r].session, NEW to \in RunStatus, session[s].state # "absent", Live(r),
         projectTopLevelRunStateToSession(r, to),
         run'[r].session = s, run'[r].parent = run[r].parent, run'[r].status = to,
         \A o \in Runs \ {r} : (run'[o].session = s /\ run'[o].parent = None /\ Live(o)')
                                 <=> (run[o].session = s /\ run[o].parent = None /\ Live(o)),
         \A o \in Runs \ {r} : Live(o) => run'[o].status = run[o].status,
         Serving(s)'
  PROVE  Shows(s)'
  <1>1. /\ session'[s].state = "CANCELLED" <=> session[s].state = "CANCELLED"
        /\ ~Projects(r, to) => session'[s] = session[s]
        /\ Projects(r, to) =>
              /\ session'[s].state = ProjectedState(to)
              /\ session'[s].current = IF isTerminal(to) THEN None ELSE session[s].current
    BY ProjectionIs
  <1>2. Shows(s) /\ session[s].state # "CANCELLED"
    BY <1>1, ShowsNow DEF Serving
  <1>3. Live(r)' <=> ~isTerminal(to)
    BY DEF Live
  <1>4. CASE run[r].parent # None
    <2>1. session'[s] = session[s] /\ session[s].current # r
      BY <1>1, <1>2, <1>4 DEF Projects, Shows
    <2>2. \A o \in Runs : (run'[o].session = s /\ run'[o].parent = None /\ Live(o)')
                            <=> o = session[s].current
      BY <1>2, <1>4 DEF Shows
    <2>3. session[s].current # None =>
            run'[session[s].current].status = run[session[s].current].status
      BY <1>2, <2>1, IdleHasNone
    <2>. QED
      BY <1>2, <2>1, <2>2, <2>3 DEF Shows
  <1>5. CASE run[r].parent = None
    <2>1. session[s].current = r /\ r # None
      BY <1>2, <1>5, Kinds DEF Shows
    <2>2. \A o \in Runs : (run'[o].session = s /\ run'[o].parent = None /\ Live(o)')
                            <=> o = r /\ ~isTerminal(to)
      BY <1>2, <1>3, <1>5, <2>1 DEF Shows
    <2>3. session'[s].state = ProjectedState(to)
      BY <1>1, <1>2, <1>5, <2>1 DEF Projects
    <2>4. session'[s].current = IF isTerminal(to) THEN None ELSE r
      BY <1>1, <1>2, <1>5, <2>1 DEF Projects
    <2>5. isTerminal(to) => ProjectedState(to) = "IDLE"
      BY ShownStates
    <2>. QED
      BY <2>1, <2>2, <2>3, <2>4, <2>5, Kinds DEF Shows
  <1>. QED
    BY <1>4, <1>5

LEMMA RunStepCommitsKeeps ==
  ASSUME SessionsInv, NEW r \in Runs, RunStepCommits(r)
  PROVE  SessionsInv'
  <1>1. Typed /\ RowsInv /\ WorkerInv(r) /\ worker[r].pc = "run"
    BY Kinds DEF SessionsInv, ProcInv, RunStepCommits
  <1>2. PICK to \in RunStatus : to = worker[r].to
    BY <1>1 DEF WorkerInv
  <1>3. PICK s \in SessionIds : s = run[r].session
    BY <1>1 DEF WorkerInv, RowsInv, Rows
  <1>4. /\ lock[RunRow(r)] = r /\ MayStep(r, to) /\ run[r].status # "absent"
        /\ Delegates(r) => lock[TenantRow] = r
        /\ session[s].state # "absent" /\ Live(r)
    BY <1>1, <1>2, <1>3, StepsOfTable DEF WorkerInv, RowsInv, Rows
  <1>5. /\ Delegates(r) \/ Projects(r, to) => lock[SessionRow(s)] = NoOne
        /\ RunStepEnds(r) /\ event' = event /\ room' = room /\ receiver' = receiver
        /\ canceller' = canceller /\ dispatcher' = dispatcher
    BY <1>2, <1>3 DEF RunStepCommits, WaitsForSession, Free
  <1>6. CASE Delegates(r) /\ ~(SessionAcceptsRuns(s) /\ room)
    <2>1. session' = session /\ run' = run
      BY <1>3, <1>6 DEF RunStepCommits
    <2>. QED
      BY <1>5, <2>1, WorkerLeaves
  <1>7. CASE ~(Delegates(r) /\ ~(SessionAcceptsRuns(s) /\ room))
    <2>1. projectTopLevelRunStateToSession(r, to)
      BY <1>2, <1>3, <1>7 DEF RunStepCommits
    <2>2. /\ session' \in [SessionIds -> SessionRecord]
          /\ \A t \in SessionIds \ {s} : session'[t] = session[t]
          /\ session'[s].state # "absent"
          /\ session'[s].state = "CANCELLED" <=> session[s].state = "CANCELLED"
          /\ ~Projects(r, to) => session'[s] = session[s]
      BY <1>1, <1>3, <1>4, <2>1, ProjectionIs DEF RowsInv
    <2>3. /\ LockRules(r) /\ lock' \in [Resources -> Procs \union {NoOne}]
          /\ \A x \in Resources : lock'[x] # r
      BY <1>1, <1>5, Releasing, Kinds DEF RunStepEnds
    <2>4. worker' = [worker EXCEPT ![r] = IdleWorker] /\ worker'[r] = IdleWorker
      BY <1>1, <1>5 DEF RunStepEnds, Typed
    <2>5. OthersStay(r)
      BY <1>1, <1>5, <2>4 DEF OthersStay, Typed
    <2>6. ProcInv(r)'
      <3>1. WorkerInv(r)'
        BY <2>4 DEF WorkerInv, IdleWorker
      <3>. QED
        BY <2>3, <3>1, HoldsNothing, Kinds DEF ProcInv
    <2>7. /\ \A t \in SessionIds : /\ session[t].state # "absent" => session'[t].state # "absent"
                                   /\ Others(r, SessionRow(t)) => session'[t] = session[t]
          /\ \A t \in SessionIds : session'[t].state = "absent" => session'[t] = NoSession
          /\ \A t \in SessionIds : session'[t].state = "CANCELLED" <=> session[t].state = "CANCELLED"
      BY <1>1, <1>5, <2>2 DEF Others, RowsInv, Rows
    <2>8. \A t \in SessionIds : Stale(t)' = Stale(t)
      BY <1>5 DEF Stale
    <2>9. \A t \in SessionIds : session[t].state = "CANCELLED" =>
            Stale(t) = {} /\ \A o \in Runs : run[o].session = t => ~Live(o)
      BY <1>1 DEF RowsInv, CancelledSessionIsQuiet, RunsOf
    <2>10. CASE ~Delegates(r)
      <3>1. run' = [run EXCEPT ![r].status = to]
        BY <1>2, <1>7, <2>10 DEF RunStepCommits
      <3>2. /\ run' \in [Runs -> RunRecord]
            /\ run'[r].session = s /\ run'[r].parent = run[r].parent /\ run'[r].status = to
            /\ run'[r].event = run[r].event
            /\ \A o \in Runs \ {r} : run'[o] = run[o] /\ (Live(o)' <=> Live(o))
        BY <1>1, <1>3, <3>1 DEF Typed, RunRecord, Live
      <3>3. Typed'
        BY <1>1, <1>5, <2>2, <2>3, <2>4, <3>2 DEF Typed, WorkerRecord, IdleWorker
      <3>4. to # "absent"
        BY StatusTable
      <3>5. SameRuns
        BY <1>3, <1>4, <3>2, <3>4 DEF SameRuns
      <3>6. FewRuns' /\ {c \in Runs : run'[c].parent # None} = {c \in Runs : run[c].parent # None}
        BY <1>1, <3>5, FewRunsSame DEF RowsInv
      <3>7. Respects(r)
        BY <1>3, <1>4, <1>5, <2>3, <2>7, <3>2, <3>5, <3>6 DEF Respects, Others, LockRules, SameRuns
      <3>8. Rows'
        BY <1>1, <1>3, <1>4, <1>5, <2>7, <3>2, <3>4 DEF RowsInv, Rows
      <3>9. CancelledSessionIsQuiet'
        <4>1. ASSUME NEW t \in SessionIds, session'[t].state = "CANCELLED"
              PROVE  (\A o \in RunsOf(t)' : ~Live(o)') /\ Stale(t)' = {}
          <5>1. Stale(t) = {} /\ \A o \in Runs : run[o].session = t => ~Live(o)
            BY <2>7, <2>9, <4>1
          <5>2. t # s
            BY <1>3, <1>4, <5>1
          <5>. QED
            BY <2>8, <3>2, <5>1, <5>2 DEF RunsOf
        <4>. QED
          BY <4>1 DEF CancelledSessionIsQuiet
      <3>10. ASSUME NEW t \in SessionIds, Serving(t)'
             PROVE  Shows(t)'
        <4>1. CASE t = s
          BY <1>1, <1>3, <1>4, <2>1, <3>2, <3>10, <4>1, StepIsShown DEF RowsInv
        <4>2. CASE t # s
          <5>1. \A o \in Runs : run[o].session = t \/ run'[o].session = t => run'[o] = run[o]
            BY <1>3, <3>2, <4>2
          <5>. QED
            BY <1>1, <2>2, <3>10, <4>2, <5>1, ShowsSame DEF RowsInv
        <4>. QED
          BY <4>1, <4>2
      <3>11. EventStartsOneRun'
        BY <1>1, <1>5, <3>5 DEF RowsInv, EventStartsOneRun, SameRuns
      <3>12. RowsInv'
        BY <3>3, <3>6, <3>8, <3>9, <3>10, <3>11, ShowsNext DEF RowsInv
      <3>. QED
        BY <2>5, <2>6, <3>3, <3>7, <3>12, StepOfOne
    <2>11. CASE Delegates(r)
      <3>1. /\ to = "WAITING_CHILDREN" /\ lock[TenantRow] = r /\ lock[SessionRow(s)] = NoOne
            /\ session[s].state # "CANCELLED"
        BY <1>2, <1>4, <1>5, <1>7, <2>11 DEF Delegates, SessionAcceptsRuns
      <3>2. PICK kids : kids = {c \in Runs : run[c].parent # None}
        OBVIOUS
      <3>3. Cardinality(kids) < MaxChildren /\ IsFiniteSet(kids) /\ Cardinality(kids) \in Nat
        <4>1. IsFiniteSet(Runs)
          BY RunsAreNumbers, FS_Interval DEF Runs
        <4>. QED
          BY <1>4, <3>1, <3>2, <4>1, FS_Subset, FS_CardinalityType DEF MayStep
      <3>4. PICK n \in Runs : n = NextRun /\ run[n] = NoRun
        BY <1>1, <3>2, <3>3, RunLeft DEF RowsInv
      <3>5. run[n].session = NoOne /\ run[n].parent = None /\ run[n].status = "absent"
            /\ run[n].event = NoOne /\ n # r /\ ~Live(n) /\ lock[RunRow(n)] = NoOne
        BY <1>4, <3>4, LockedIsThere, StatusTable DEF NoRun, Live
      <3>6. run' = [run EXCEPT ![r].status = to,
                               ![n] = [session |-> s, parent |-> r,
                                       status |-> "QUEUED", event |-> NoOne]]
        BY <1>2, <1>3, <1>7, <2>11, <3>4 DEF RunStepCommits
      <3>7. /\ run' \in [Runs -> RunRecord]
            /\ run'[r].session = s /\ run'[r].parent = run[r].parent /\ run'[r].status = to
            /\ run'[r].event = run[r].event
            /\ run'[n].session = s /\ run'[n].parent = r /\ run'[n].status = "QUEUED"
            /\ run'[n].event = NoOne
            /\ \A o \in Runs \ {r, n} : run'[o] = run[o]
        BY <1>1, <1>3, <3>5, <3>6, StatusTable DEF Typed, RunRecord
      <3>8. \A o \in Runs \ {r, n} : Live(o)' <=> Live(o)
        BY <3>7 DEF Live
      <3>9. Typed'
        BY <1>1, <1>5, <2>2, <2>3, <2>4, <3>7 DEF Typed, WorkerRecord, IdleWorker
      <3>10. r # None /\ \A o \in Runs \ {n} : run'[o].session = run[o].session
                          /\ run'[o].parent = run[o].parent /\ run'[o].event = run[o].event
                          /\ (run'[o].status # "absent" <=> run[o].status # "absent")
        BY <1>3, <1>4, <3>1, <3>7, Kinds
      <3>11. Respects(r)
        <4>1. ASSUME NEW o \in Runs
              PROVE  /\ run[o].status # "absent" =>
                          run'[o].status # "absent" /\ run'[o].session = run[o].session
                     /\ Others(r, RunRow(o)) => run'[o] = run[o]
                     /\ Live(o)' => \/ Live(o) /\ run'[o].session = run[o].session
                                       /\ run'[o].parent = run[o].parent
                                    \/ ~Others(r, SessionRow(run'[o].session)) /\ run'[o].parent = r
          BY <1>3, <1>4, <3>1, <3>5, <3>7, <3>8, <3>10 DEF Others
        <4>2. ~Others(r, TenantRow)
          BY <3>1 DEF Others
        <4>. QED
          BY <1>5, <2>3, <2>7, <4>1, <4>2 DEF Respects, LockRules
      <3>12. Rows'
        <4>1. \A o \in Runs :
                /\ IF run'[o].status = "absent" THEN run'[o] = NoRun
                   ELSE run'[o].session \in SessionIds /\ session'[run'[o].session].state # "absent"
                /\ run'[o].parent # None => run'[o].event = NoOne
          BY <1>1, <1>3, <1>4, <2>2, <2>7, <3>1, <3>7 DEF RowsInv, Rows
        <4>2. \A e \in EventIds :
                /\ IF event'[e].status = "absent" THEN event'[e] = NoEvent
                   ELSE event'[e].session \in SessionIds /\ session'[event'[e].session].state # "absent"
                /\ event'[e].status = "PENDING" => event'[e].class = "future-run"
          BY <1>1, <1>5, <2>7 DEF RowsInv, Rows
        <4>. QED
          BY <2>7, <4>1, <4>2 DEF Rows
      <3>13. FewRuns'
        <4>1. {c \in Runs : run'[c].parent # None} = kids \union {n}
          BY <3>2, <3>4, <3>7, <3>10
        <4>2. Cardinality(kids \union {n}) = Cardinality(kids) + 1
          <5>1. n \notin kids
            BY <3>2, <3>5
          <5>. QED
            BY <3>3, <5>1, FS_AddElement
        <4>3. Cardinality({c \in Runs : run'[c].parent # None}) <= MaxChildren
          <5>1. MaxChildren \in Nat
            BY NumbersAssumption
          <5>2. Cardinality(kids \union {n}) <= MaxChildren
            BY <3>3, <4>2, <5>1
          <5>. QED
            BY <4>1, <5>2, Zenon
        <4>4. \A o, q \in Runs :
                /\ run'[o].status # "absent" /\ run'[o].parent = None /\ run'[o].event = NoOne
                /\ run'[q].status # "absent" /\ run'[q].parent = None /\ run'[q].event = NoOne
                /\ run'[o].session = run'[q].session
                => o = q
          BY <1>1, <3>7, <3>10 DEF RowsInv, FewRuns
        <4>. QED
          BY <4>3, <4>4 DEF FewRuns
      <3>14. CancelledSessionIsQuiet'
        <4>1. ASSUME NEW t \in SessionIds, session'[t].state = "CANCELLED"
              PROVE  (\A o \in RunsOf(t)' : ~Live(o)') /\ Stale(t)' = {}
          <5>1. Stale(t) = {} /\ \A o \in Runs : run[o].session = t => ~Live(o)
            BY <2>7, <2>9, <4>1
          <5>2. t # s
            BY <1>3, <1>4, <5>1
          <5>. QED
            BY <2>8, <3>7, <3>8, <5>1, <5>2 DEF RunsOf
        <4>. QED
          BY <4>1 DEF CancelledSessionIsQuiet
      <3>15. ASSUME NEW t \in SessionIds, Serving(t)'
             PROVE  Shows(t)'
        <4>1. CASE t = s
          <5>1. \A o \in Runs \ {r} : (run'[o].session = s /\ run'[o].parent = None /\ Live(o)')
                                         <=> (run[o].session = s /\ run[o].parent = None /\ Live(o))
            BY <3>5, <3>7, <3>8, <3>10
          <5>2. \A o \in Runs \ {r} : Live(o) => run'[o].status = run[o].status
            BY <3>5, <3>7
          <5>. QED
            BY <1>1, <1>3, <1>4, <2>1, <3>7, <3>15, <4>1, <5>1, <5>2, StepIsShown DEF RowsInv
        <4>2. CASE t # s
          <5>1. \A o \in Runs : run[o].session = t \/ run'[o].session = t => run'[o] = run[o]
            BY <1>3, <3>5, <3>7, <4>2, Kinds
          <5>. QED
            BY <1>1, <2>2, <3>15, <4>2, <5>1, ShowsSame DEF RowsInv
        <4>. QED
          BY <4>1, <4>2
      <3>16. EventStartsOneRun'
        <4>1. \A o \in Runs : run'[o].event # NoOne => o # n /\ run'[o].event = run[o].event
          BY <3>7, <3>10
        <4>. QED
          BY <1>1, <1>5, <4>1 DEF RowsInv, EventStartsOneRun
      <3>17. RowsInv'
        BY <3>9, <3>12, <3>13, <3>14, <3>15, <3>16, ShowsNext DEF RowsInv
      <3>. QED
        BY <2>5, <2>6, <3>9, <3>11, <3>17, StepOfOne
    <2>. QED
      BY <2>10, <2>11
  <1>. QED
    BY <1>6, <1>7

-----------------------------------------------------------------------------
(* The invariant holds.                                                    *)

LEMMA InitHolds ==
  ASSUME Init
  PROVE  SessionsInv
  <1>. USE DEF Init
  <1>1. Typed
    <2>1. /\ NoSession \in SessionRecord /\ NoEvent \in EventRecord /\ NoRun \in RunRecord
          /\ IdleReceiver \in ReceiverRecord /\ IdleCanceller \in CancellerRecord
          /\ IdleDispatcher \in DispatcherRecord /\ IdleWorker \in WorkerRecord
      BY DEF NoSession, SessionRecord, SessionStates, NoEvent, EventRecord, NoRun, RunRecord,
             IdleReceiver, ReceiverRecord, IdleCanceller, CancellerRecord, IdleDispatcher,
             DispatcherRecord, IdleWorker, WorkerRecord
    <2>. QED
      BY <2>1 DEF Typed
  <1>2. \A r \in Runs : run[r] = NoRun /\ ~Live(r)
    BY StatusTable DEF Live, NoRun
  <1>3. \A s \in SessionIds : session[s] = NoSession
    OBVIOUS
  <1>4. \A e \in EventIds : event[e] = NoEvent
    OBVIOUS
  <1>5. Rows
    BY <1>2, <1>3, <1>4 DEF Rows, NoRun, NoSession, NoEvent
  <1>6. FewRuns
    <2>1. {c \in Runs : run[c].parent # None} = {}
      BY <1>2 DEF NoRun
    <2>2. Cardinality({c \in Runs : run[c].parent # None}) = 0
      BY <2>1, FS_EmptySet
    <2>3. MaxChildren \in Nat
      BY NumbersAssumption
    <2>. QED
      BY <1>2, <2>2, <2>3 DEF FewRuns, NoRun
  <1>7. CancelledSessionIsQuiet /\ SessionShowsItsRun
    BY <1>3 DEF CancelledSessionIsQuiet, SessionShowsItsRun, NoSession
  <1>8. EventStartsOneRun
    BY <1>2 DEF EventStartsOneRun, NoRun
  <1>9. ASSUME NEW p \in Procs
        PROVE  ProcInv(p)
    <2>1. \A x \in Resources : lock[x] = NoOne /\ NoOne # p
      BY Kinds
    <2>2. HolderInv(p)
      BY <2>1, Tables DEF HolderInv
    <2>3. /\ p \in Receivers => ReceiverInv(p)
          /\ p \in Cancellers => CancellerInv(p)
          /\ p \in Dispatchers => DispatcherInv(p)
          /\ p \in Runs => WorkerInv(p)
      BY DEF ReceiverInv, IdleReceiver, CancellerInv, IdleCanceller, DispatcherInv,
             IdleDispatcher, WorkerInv, IdleWorker
    <2>. QED
      BY <2>2, <2>3 DEF ProcInv
  <1>. QED
    BY <1>1, <1>5, <1>6, <1>7, <1>8, <1>9 DEF SessionsInv, RowsInv

LEMMA NextKeeps ==
  ASSUME SessionsInv, [Next]_vars
  PROVE  SessionsInv'
  <1>1. ASSUME NEW s \in SessionIds, NEW start \in BOOLEAN, createManagedSession(s, start)
        PROVE  SessionsInv'
    BY <1>1, createManagedSessionKeeps
  <1>2. ASSUME NEW p \in Receivers, NEW s \in SessionIds, NEW e \in EventIds,
               NEW class \in {"current-run", "future-run"}, ReceiveBegins(p, s, e, class)
        PROVE  SessionsInv'
    BY <1>2, ReceiveBeginsKeeps
  <1>3. ASSUME NEW p \in Receivers, Receive(p)
        PROVE  SessionsInv'
    BY <1>3, ReceiveAnswersKeeps, ReceiveFindsConflictKeeps, ReceiveRefusesConflictKeeps,
       ReceiveQueuesKeeps, ReceiveFindsWaitKeeps, ReceiveSignalsKeeps DEF Receive
  <1>4. ASSUME NEW c \in Cancellers, NEW s \in SessionIds, CancelBegins(c, s)
        PROVE  SessionsInv'
    BY <1>4, CancelBeginsKeeps
  <1>5. ASSUME NEW c \in Cancellers, Cancel(c)
        PROVE  SessionsInv'
    BY <1>5, CancelLocksSessionKeeps, CancelLocksRunKeeps, CancelCommitsKeeps DEF Cancel
  <1>6. ASSUME NEW w \in Dispatchers, Dispatch(w)
        PROVE  SessionsInv'
    BY <1>6, PassBeginsKeeps, SelectEventKeeps, AdmitEventKeeps, DeferSessionKeeps DEF Dispatch
  <1>7. ASSUME NEW w \in Dispatchers, DispatcherCrashes(w)
        PROVE  SessionsInv'
    BY <1>7, DispatcherCrashesKeeps DEF DispatcherCrashes
  <1>8. ASSUME NEW r \in Runs, NEW to \in RunStatus, RunStepBegins(r, to)
        PROVE  SessionsInv'
    BY <1>8, RunStepBeginsKeeps
  <1>9. ASSUME NEW r \in Runs, RunStep(r)
        PROVE  SessionsInv'
    BY <1>9, RunStepLocksRunKeeps, RunStepCommitsKeeps DEF RunStep
  <1>10. ASSUME NEW p \in Procs, DeadlockAborts(p)
         PROVE  SessionsInv'
    BY <1>10, DeadlockAbortsKeeps
  <1>11. QuotaChanges \/ Tick => SessionsInv'
    BY QuotaChangesKeeps, TickKeeps
  <1>12. CASE UNCHANGED vars
    <2>1. Typed /\ Typed'
      BY <1>12 DEF vars, SessionsInv, Typed
    <2>2. RowsInv' /\ Respects(NoOne)
      BY <1>12, <2>1, KeepingLocks, TablesUntouched DEF vars
    <2>3. OthersStay(NoOne)
      BY <1>12 DEF vars, OthersStay
    <2>. QED
      BY <2>1, <2>2, <2>3, StepOfOne, Kinds
  <1>. QED
    BY <1>1, <1>2, <1>3, <1>4, <1>5, <1>6, <1>7, <1>8, <1>9, <1>10, <1>11, <1>12 DEF Next

\* The rows, the locks and the transactions go together in every state.
THEOREM SessionsInductive == Spec => []SessionsInv
  <1>1. Init => SessionsInv
    BY InitHolds
  <1>2. SessionsInv /\ [Next]_vars => SessionsInv'
    BY NextKeeps
  <1>. QED
    BY <1>1, <1>2, PTL DEF Spec

\* A cancelled session has no live run and no event that looks like work,
\* however cancellation (fenceManagedSessionRuns), delegation, dispatch and
\* receipt interleave.
THEOREM SessionStaysQuiet == Spec => []CancelledSessionIsQuiet
  <1>1. SessionsInv => CancelledSessionIsQuiet
    BY DEF SessionsInv, RowsInv
  <1>. QED
    BY <1>1, SessionsInductive, PTL

\* A session's row names its one live top-level run and shows its status:
\* the two rows that transitionRun writes agree in every committed state.
THEOREM SessionAlwaysShowsItsRun == Spec => []SessionShowsItsRun
  <1>1. SessionsInv => SessionShowsItsRun
    BY DEF SessionsInv, RowsInv
  <1>. QED
    BY <1>1, SessionsInductive, PTL

\* dispatchPendingSessionEvents starts one run for an event, or none, however
\* many workers pass over the queue at once.
THEOREM EventNeverStartsTwoRuns == Spec => []EventStartsOneRun
  <1>1. SessionsInv => EventStartsOneRun
    BY DEF SessionsInv, RowsInv
  <1>. QED
    BY <1>1, SessionsInductive, PTL

-----------------------------------------------------------------------------
(* Waits end.                                                              *)

\* What ends a wait, and what is at most one or two holders away from it.
Ends(q) == Deadlocked(q) \/ (Open(q) /\ Holders(q) = {})
EndsNear(q) == Ends(q) \/ \E o \in Holders(q) : Ends(o)
EndsBehind(q) == EndsNear(q) \/ \E o \in Holders(q) : EndsNear(o)

\* What each transaction wants, and of what.
LEMMA ReceiverWants ==
  ASSUME SessionsInv, NEW p \in Receivers
  PROVE  \/ Wanted(p) = {}
         \/ \E s \in SessionIds, r \in Runs :
              Wanted(p) = {RunRow(r)} /\ run[r].session = s /\ lock[SessionRow(s)] = p
  <1>1. Typed /\ RowsInv /\ ReceiverInv(p)
    BY Kinds DEF SessionsInv, ProcInv
  <1>2. CASE receiver[p].pc # "signal"
    BY <1>2, Kinds DEF Wanted
  <1>3. CASE receiver[p].pc = "signal"
    <2>1. PICK s \in SessionIds : s = receiver[p].session
      BY <1>1, <1>3 DEF ReceiverInv
    <2>2. /\ lock[SessionRow(s)] = p /\ session[s].current # None
          /\ session[s].state \notin {"absent", "CANCELLED"}
      BY <1>1, <1>3, <2>1 DEF ReceiverInv
    <2>3. Shows(s)
      BY <1>1, <2>2, ShowsNow DEF RowsInv, Serving
    <2>4. session[s].current \in Runs /\ run[session[s].current].session = s
      BY <1>1, <2>2, <2>3, IdleHasNone
    <2>5. Wanted(p) = {RunRow(session[s].current)}
      BY <1>3, <2>1, Kinds DEF Wanted
    <2>. QED
      BY <2>2, <2>4, <2>5
  <1>. QED
    BY <1>2, <1>3

LEMMA CancellerWants ==
  ASSUME SessionsInv, NEW c \in Cancellers
  PROVE  \/ Wanted(c) = {}
         \/ \E s \in SessionIds, r \in Runs :
              Wanted(c) = {RunRow(r)} /\ run[r].session = s /\ lock[SessionRow(s)] = c
  <1>1. Typed /\ CancellerInv(c) /\ c \notin Receivers
    BY Kinds DEF SessionsInv, ProcInv
  <1>2. CASE ~(canceller[c].pc = "fencing" /\ canceller[c].todo # {})
    BY <1>1, <1>2, Kinds DEF Wanted
  <1>3. CASE canceller[c].pc = "fencing" /\ canceller[c].todo # {}
    <2>1. PICK s \in SessionIds : s = canceller[c].session
      BY <1>1, <1>3 DEF CancellerInv
    <2>2. canceller[c].todo \in SUBSET Runs
      BY <1>1 DEF Typed, CancellerRecord
    <2>3. NextToFence(c) \in canceller[c].todo
      BY <1>3, <2>2, NextToFenceIs
    <2>4. NextToFence(c) \in Runs /\ run[NextToFence(c)].session = s /\ lock[SessionRow(s)] = c
      BY <1>1, <1>3, <2>1, <2>2, <2>3 DEF CancellerInv, RunsOf
    <2>5. Wanted(c) = {RunRow(NextToFence(c))}
      BY <1>1, <1>3, Kinds DEF Wanted
    <2>. QED
      BY <2>4, <2>5
  <1>. QED
    BY <1>2, <1>3

LEMMA WorkerWants ==
  ASSUME SessionsInv, NEW r \in Runs
  PROVE  /\ worker[r].pc = "idle" => Wanted(r) = {}
         /\ worker[r].pc = "tenant" => Wanted(r) = {RunRow(r)}
         /\ worker[r].pc = "run" =>
              /\ run[r].session \in SessionIds
              /\ Wanted(r) = IF WaitsForSession(r) THEN {SessionRow(run[r].session)} ELSE {}
  <1>1. RowsInv /\ WorkerInv(r) /\ r \notin Receivers /\ r \notin Cancellers /\ r \notin Dispatchers
    BY Kinds DEF SessionsInv, ProcInv
  <1>2. worker[r].pc # "idle" => run[r].session \in SessionIds
    BY <1>1 DEF WorkerInv, RowsInv, Rows
  <1>. QED
    BY <1>1, <1>2 DEF Wanted

\* Who wants a run's row and holds its session's waits for the run's worker,
\* and the worker for nobody else.
LEMMA SessionThenRun ==
  ASSUME SessionsInv, NEW p \in Receivers \union Cancellers, Open(p)
  PROVE  EndsNear(p)
  <1>1. CASE Wanted(p) = {}
    BY <1>1 DEF EndsNear, Ends, Holders
  <1>2. CASE Wanted(p) # {}
    <2>1. PICK s \in SessionIds, r \in Runs :
            Wanted(p) = {RunRow(r)} /\ run[r].session = s /\ lock[SessionRow(s)] = p
      BY <1>2, ReceiverWants, CancellerWants
    <2>2. Holders(p) = {lock[RunRow(r)]} \ {NoOne}
      BY <2>1 DEF Holders
    <2>3. CASE lock[RunRow(r)] = NoOne
      BY <2>2, <2>3 DEF EndsNear, Ends
    <2>4. CASE lock[RunRow(r)] # NoOne
      <3>1. PICK q \in Procs : q = lock[RunRow(r)] /\ q # NoOne
        BY <2>4, Tables DEF SessionsInv, Typed
      <3>2. Holders(p) = {q} /\ HolderInv(q) /\ ProcInv(q)
        BY <2>2, <3>1 DEF SessionsInv, ProcInv
      <3>3. HoldsRun(q, r)
        BY <3>1, <3>2 DEF HolderInv
      <3>4. CASE q \in Cancellers /\ canceller[q].pc = "fencing" /\ canceller[q].session = run[r].session
        <4>1. lock[SessionRow(s)] = q
          BY <2>1, <3>2, <3>4 DEF ProcInv, CancellerInv
        <4>. QED
          BY <2>1, <3>2, <4>1 DEF EndsNear, Ends, Deadlocked
      <3>5. CASE q = r /\ worker[r].pc = "run"
        <4>1. Open(r)
          BY <3>5, Kinds DEF Open
        <4>2. CASE WaitsForSession(r)
          <5>1. Wanted(r) = {SessionRow(s)}
            BY <2>1, <3>5, <4>2, WorkerWants
          <5>2. p # NoOne
            BY Kinds
          <5>3. p \in Holders(r)
            BY <2>1, <5>1, <5>2 DEF Holders
          <5>. QED
            BY <3>2, <3>5, <5>3 DEF EndsNear, Ends, Deadlocked
        <4>3. CASE ~WaitsForSession(r)
          <5>1. Holders(r) = {}
            BY <3>5, <4>3, WorkerWants DEF Holders
          <5>. QED
            BY <3>2, <3>5, <4>1, <5>1 DEF EndsNear, Ends
        <4>. QED
          BY <4>2, <4>3
      <3>. QED
        BY <3>3, <3>4, <3>5 DEF HoldsRun
    <2>. QED
      BY <2>3, <2>4
  <1>. QED
    BY <1>1, <1>2

\* A worker waits for a request, or for a dispatch pass that waits for it.
LEMMA RunThenSession ==
  ASSUME SessionsInv, NEW r \in Runs, Open(r)
  PROVE  EndsBehind(r)
  <1>1. Typed /\ RowsInv /\ WorkerInv(r) /\ worker[r].pc \in {"tenant", "run"}
    BY Kinds DEF SessionsInv, ProcInv, Open, Typed, WorkerRecord
  <1>2. CASE Holders(r) = {}
    BY <1>2 DEF EndsBehind, EndsNear, Ends
  <1>3. CASE worker[r].pc = "tenant" /\ Holders(r) # {}
    <2>1. Holders(r) = {lock[RunRow(r)]} \ {NoOne}
      BY <1>3, WorkerWants DEF Holders
    <2>2. PICK q \in Procs : q = lock[RunRow(r)] /\ Holders(r) = {q}
      BY <1>3, <2>1, Tables DEF SessionsInv, Typed
    <2>3. HoldsRun(q, r)
      BY <2>2 DEF SessionsInv, ProcInv, HolderInv
    <2>4. q \in Cancellers /\ Open(q)
      BY <1>3, <2>3, Kinds DEF HoldsRun, Open
    <2>. QED
      BY <2>2, <2>4, SessionThenRun DEF EndsBehind
  <1>4. CASE worker[r].pc = "run" /\ Holders(r) # {}
    <2>1. PICK s \in SessionIds : s = run[r].session
      BY <1>4, WorkerWants
    <2>2. WaitsForSession(r) /\ Wanted(r) = {SessionRow(s)}
      BY <1>4, <2>1, WorkerWants DEF Holders
    <2>3. PICK q \in Procs : q = lock[SessionRow(s)] /\ Holders(r) = {q}
      <3>1. Holders(r) = {lock[SessionRow(s)]} \ {NoOne}
        BY <2>2 DEF Holders
      <3>. QED
        BY <1>4, <3>1, Tables DEF SessionsInv, Typed
    <2>4. HoldsSession(q, s) /\ ProcInv(q)
      BY <2>3 DEF SessionsInv, ProcInv, HolderInv
    <2>5. CASE q \in Receivers \union Cancellers
      <3>1. Open(q)
        BY <2>4, <2>5, Kinds DEF HoldsSession, Open
      <3>. QED
        BY <2>3, <2>5, <3>1, SessionThenRun DEF EndsBehind
    <2>6. CASE q \in Dispatchers
      <3>1. dispatcher[q].pc = "admit" /\ session[s].state = "IDLE"
        BY <2>4, <2>6, Kinds DEF HoldsSession, ProcInv, DispatcherInv
      <3>2. Shows(s) /\ session[s].current = None
        BY <1>1, <3>1, ShowsNow, IdleHasNone DEF RowsInv, Serving
      <3>3. ~Projects(r, worker[r].to)
        BY <2>1, <3>2, Kinds DEF Projects
      <3>4. lock[TenantRow] = r
        BY <1>1, <1>4, <2>2, <3>3 DEF WaitsForSession, WorkerInv
      <3>5. Wanted(q) = {TenantRow}
        BY <2>6, <3>1, Kinds DEF Wanted
      <3>6. r \in Holders(q)
        <4>1. r # NoOne
          BY Kinds
        <4>. QED
          BY <3>4, <3>5, <4>1 DEF Holders
      <3>7. Deadlocked(r)
        BY <2>3, <3>6 DEF Deadlocked
      <3>. QED
        BY <3>7 DEF EndsBehind, EndsNear, Ends
    <2>. QED
      BY <2>4, <2>5, <2>6 DEF HoldsSession
  <1>. QED
    BY <1>1, <1>2, <1>3, <1>4

\* What ends a wait is behind the transaction that waits.
LEMMA BehindIsReached ==
  ASSUME NEW p, Open(p), EndsBehind(p) \/ \E o \in Holders(p) : EndsBehind(o)
  PROVE  \E q \in WaitsBehind(p) \union {p} :
           \/ Deadlocked(q)
           \/ (q # p => Open(q)) /\ Holders(q) = {}
  <1>1. /\ p \in WaitsBehind(p)
        /\ \A q \in Holders(p) :
             /\ q \in WaitsBehind(p)
             /\ \A o \in Holders(q) : /\ o \in WaitsBehind(p)
                                      /\ \A u \in Holders(o) : u \in WaitsBehind(p)
    BY DEF WaitsBehind
  <1>2. \E q \in WaitsBehind(p) : Ends(q)
    BY <1>1 DEF EndsBehind, EndsNear
  <1>. QED
    BY <1>2 DEF Ends

\* Every wait for a row ends: behind every waiting transaction of the event
\* routes, the cancellation, the dispatch passes and transitionRun there is
\* one that waits for nobody, or that is on a cycle the database breaks.
THEOREM EveryWaitEnds == Spec => []WaitsEnd
  <1>1. ASSUME SessionsInv, NEW p \in Procs, Wanted(p) # {}
        PROVE  \E q \in WaitsBehind(p) \union {p} :
                 \/ Deadlocked(q)
                 \/ (q # p => Open(q)) /\ Holders(q) = {}
    <2>1. Open(p)
      BY <1>1, WaitingIsOpen
    <2>2. CASE p \in Receivers \union Cancellers
      BY <1>1, <2>1, <2>2, SessionThenRun, BehindIsReached DEF EndsBehind
    <2>3. CASE p \in Runs
      BY <1>1, <2>1, <2>3, RunThenSession, BehindIsReached
    <2>4. CASE p \in Dispatchers
      <3>1. Wanted(p) = {TenantRow}
        BY <1>1, <2>4, Kinds DEF Wanted
      <3>2. CASE lock[TenantRow] = NoOne
        <4>1. Holders(p) = {}
          BY <3>1, <3>2 DEF Holders
        <4>. QED
          BY <4>1
      <3>3. CASE lock[TenantRow] # NoOne
        <4>1. PICK r \in Procs : r = lock[TenantRow] /\ r \in Holders(p)
          BY <1>1, <3>1, <3>3, Tables DEF SessionsInv, Typed, Holders
        <4>2. r \in Runs /\ worker[r].pc # "idle"
          BY <1>1, <4>1 DEF SessionsInv, ProcInv, HolderInv
        <4>3. EndsBehind(r)
          BY <1>1, <4>2, RunThenSession, Kinds DEF Open
        <4>. QED
          BY <2>1, <4>1, <4>3, BehindIsReached
      <3>. QED
        BY <3>2, <3>3
    <2>. QED
      BY <2>2, <2>3, <2>4 DEF Procs
  <1>2. SessionsInv => WaitsEnd
    BY <1>1 DEF WaitsEnd
  <1>. QED
    BY <1>2, SessionsInductive, PTL

-----------------------------------------------------------------------------
(* Numbers and times of the events.                                        *)

EventsOf(s) == {e \in EventIds : event[e].session = s}

\* A session has numbered its events one after the other.
NumbersInv ==
  /\ \A s \in SessionIds : session[s].seq = Cardinality(EventsOf(s))
  /\ \A s \in SessionIds : \A e \in EventsOf(s) :
       /\ event[e].seq <= session[s].seq
       /\ \A f \in EventsOf(s) : event[f].seq = event[e].seq => f = e

\* No receipt and no pass is older than MaxAge, and no event waits for longer
\* than a delay from now.
TimesInv ==
  /\ \A e \in EventIds : event[e].after \in -MaxAge..RetryDelay
  /\ \A p \in Receivers : receiver[p].time \in -MaxAge..0
  /\ \A w \in Dispatchers : dispatcher[w].now \in -MaxAge..0

\* A step that numbers no event, and a receipt.
SameNumbers ==
  /\ \A s \in SessionIds : session'[s].seq = session[s].seq
  /\ \A e \in EventIds : event'[e].session = event[e].session /\ event'[e].seq = event[e].seq

Receipt(p, s, e) ==
  /\ event[e] = NoEvent
  /\ event'[e].session = s /\ event'[e].seq = session[s].seq + 1
  /\ event'[e].after = receiver[p].time /\ event'[e].status # "DISPATCHED"
  /\ \A f \in EventIds \ {e} : event'[f] = event[f]
  /\ session'[s].seq = session[s].seq + 1
  /\ \A t \in SessionIds \ {s} : session'[t].seq = session[t].seq

LEMMA ReceiptIs ==
  ASSUME SessionsInv, NEW p \in Receivers, NEW status \in {"PENDING", "CONSUMED"},
         NEW r \in Runs \union {None}, Accepted(p, status, r), NEW state \in SessionStates,
         receiver[p].pc # "idle", event[receiver[p].event] = NoEvent,
         session' = [session EXCEPT ![receiver[p].session]
                       = Numbered(session[receiver[p].session], state)]
  PROVE  \E s \in SessionIds, e \in EventIds : Receipt(p, s, e)
  <1>1. Typed /\ ReceiverInv(p)
    BY Kinds DEF SessionsInv, ProcInv
  <1>2. PICK s \in SessionIds : s = receiver[p].session
    BY <1>1 DEF ReceiverInv
  <1>3. PICK e \in EventIds : e = receiver[p].event
    BY <1>1 DEF ReceiverInv
  <1>4. /\ event'[e].session = s /\ event'[e].seq = session[s].seq + 1
        /\ event'[e].after = receiver[p].time /\ event'[e].status # "DISPATCHED"
        /\ \A f \in EventIds \ {e} : event'[f] = event[f]
    BY <1>1, <1>2, <1>3, AcceptedIs
  <1>5. /\ session'[s].seq = session[s].seq + 1
        /\ \A t \in SessionIds \ {s} : session'[t] = session[t]
    BY <1>1, <1>2 DEF Typed, Numbered
  <1>. QED
    BY <1>2, <1>3, <1>4, <1>5 DEF Receipt

\* A request writes a receipt with its answer, or nothing.
LEMMA ReceiveNumbers ==
  ASSUME SessionsInv, NEW p \in Receivers, Receive(p)
  PROVE  \/ session' = session /\ event' = event
         \/ ReceiverDone(p) /\ \E s \in SessionIds, e \in EventIds : Receipt(p, s, e)
  <1>1. Typed
    BY DEF SessionsInv
  <1>2. CASE ReceiveQueues(p)
    <2>1. /\ None \in Runs \union {None} /\ Accepted(p, "PENDING", None)
          /\ receiver[p].pc # "idle" /\ event[receiver[p].event] = NoEvent
      BY <1>2 DEF ReceiveQueues, ReceiveMayLock
    <2>2. session[receiver[p].session].state \in SessionStates
      BY <1>1, <2>1, Kinds DEF SessionsInv, ProcInv, ReceiverInv, Typed, SessionRecord
    <2>3. session' = [session EXCEPT ![receiver[p].session]
                        = Numbered(session[receiver[p].session], session[receiver[p].session].state)]
      BY <1>2 DEF ReceiveQueues
    <2>4. \E s \in SessionIds, e \in EventIds : Receipt(p, s, e)
      BY <2>1, <2>2, <2>3, ReceiptIs
    <2>. QED
      BY <1>2, <2>4 DEF ReceiveQueues
  <1>3. CASE ReceiveSignals(p) /\ ~(session' = session /\ event' = event)
    <2>1. receiver[p].pc = "signal" /\ ReceiverInv(p)
      BY <1>3, Kinds DEF ReceiveSignals, SessionsInv, ProcInv
    <2>2. PICK r \in Runs : r = session[receiver[p].session].current
      BY <1>1, <2>1 DEF ReceiverInv, Typed, SessionRecord
    <2>3. /\ Accepted(p, "CONSUMED", r)
          /\ session' = [session EXCEPT ![receiver[p].session]
                           = Numbered(session[receiver[p].session], ProjectedState("QUEUED"))]
      BY <1>3, <2>2 DEF ReceiveSignals
    <2>4. ProjectedState("QUEUED") \in SessionStates
      BY StatusTable, ShownStates
    <2>5. event[receiver[p].event] = NoEvent
      BY <2>1 DEF ReceiverInv
    <2>6. \E s \in SessionIds, e \in EventIds : Receipt(p, s, e)
      BY <2>1, <2>2, <2>3, <2>4, <2>5, ReceiptIs
    <2>. QED
      BY <1>3, <2>6 DEF ReceiveSignals
  <1>4. CASE ReceiveAnswers(p) \/ ReceiveFindsConflict(p) \/ ReceiveRefusesConflict(p)
             \/ ReceiveFindsWait(p)
    BY <1>4 DEF ReceiveAnswers, ReceiveFindsConflict, ReceiveRefusesConflict, ReceiveFindsWait
  <1>. QED
    BY <1>2, <1>3, <1>4 DEF Receive

LEMMA ProjectionNumbersNothing ==
  ASSUME Typed, NEW r, NEW to, projectTopLevelRunStateToSession(r, to)
  PROVE  \A s \in SessionIds : session'[s].seq = session[s].seq
  BY DEF projectTopLevelRunStateToSession, ProjectedRow, Typed

\* What each step does to the numbers.
LEMMA StepNumbers ==
  ASSUME SessionsInv, Next
  PROVE  SameNumbers \/ \E p \in Receivers, s \in SessionIds, e \in EventIds : Receipt(p, s, e)
  <1>. USE DEF SameNumbers
  <1>1. Typed
    BY DEF SessionsInv
  <1>2. ASSUME session' = session, event' = event
        PROVE  SameNumbers
    BY <1>2
  <1>3. ASSUME NEW s \in SessionIds, NEW start \in BOOLEAN, createManagedSession(s, start)
        PROVE  SameNumbers
    <2>1. PICK state, current :
            session' = [session EXCEPT ![s] = [state |-> state, current |-> current, seq |-> 0]]
      BY <1>3 DEF createManagedSession
    <2>2. session[s].seq = 0 /\ event' = event
      BY <1>3 DEF createManagedSession, NoSession
    <2>. QED
      BY <1>1, <2>1, <2>2 DEF Typed
  <1>4. ASSUME NEW c \in Cancellers, CancelCommits(c)
        PROVE  SameNumbers
    <2>1. PICK s : /\ event' = [e \in EventIds |-> IF e \in Stale(s)
                                  THEN [event[e] EXCEPT !.status = "STALE"] ELSE event[e]]
                   /\ session' = [session EXCEPT ![s].state = "CANCELLED"]
      BY <1>4 DEF CancelCommits
    <2>. QED
      BY <1>1, <2>1 DEF Typed, SessionRecord, EventRecord
  <1>5. ASSUME NEW w \in Dispatchers, AdmitEvent(w), session' # session \/ event' # event
        PROVE  SameNumbers
    <2>1. PICK s, e, n : /\ session' = [session EXCEPT ![s] = ActiveRow(s, n)]
                         /\ event' = [event EXCEPT ![e] = DispatchedTo(event[e], n)]
      BY <1>5 DEF AdmitEvent
    <2>. QED
      BY <1>1, <2>1 DEF Typed, ActiveRow, DispatchedTo, EventRecord
  <1>6. ASSUME NEW w \in Dispatchers, DeferSession(w)
        PROVE  SameNumbers
    <2>1. PICK until, es : event' = [e \in EventIds |->
                             IF e \in es /\ event[e].after < until
                             THEN [event[e] EXCEPT !.after = until] ELSE event[e]]
      BY <1>6 DEF DeferSession, DeferredEvents
    <2>2. session' = session
      BY <1>6 DEF DeferSession
    <2>. QED
      BY <1>1, <2>1, <2>2 DEF Typed, EventRecord
  <1>7. ASSUME NEW r \in Runs, RunStepCommits(r)
        PROVE  SameNumbers
    <2>1. event' = event /\ (session' = session \/ projectTopLevelRunStateToSession(r, worker[r].to))
      BY <1>7 DEF RunStepCommits
    <2>. QED
      BY <1>1, <2>1, ProjectionNumbersNothing
  <1>8. ASSUME Tick
         PROVE  SameNumbers
    <2>1. event' = [e \in EventIds |-> IF event[e].status = "PENDING"
                                       THEN [event[e] EXCEPT !.after = Older(event[e].after)]
                                       ELSE event[e]]
      BY <1>8 DEF Tick
    <2>2. session' = session
      BY <1>8 DEF Tick
    <2>. QED
      BY <1>1, <2>1, <2>2 DEF Typed, EventRecord
  <1>. HIDE DEF SameNumbers
  <1>9. ASSUME NEW p \in Receivers, Receive(p)
         PROVE  SameNumbers \/ \E s \in SessionIds, e \in EventIds : Receipt(p, s, e)
    BY <1>2, <1>9, ReceiveNumbers
  <1>10. ASSUME NEW c \in Cancellers, Cancel(c)
         PROVE  SameNumbers
    BY <1>2, <1>4, <1>10 DEF Cancel, CancelLocksSession, CancelLocksRun
  <1>11. ASSUME NEW w \in Dispatchers, Dispatch(w) \/ DispatcherCrashes(w)
         PROVE  SameNumbers
    BY <1>2, <1>5, <1>6, <1>11 DEF Dispatch, DispatcherCrashes, PassBegins, SelectEvent
  <1>12. ASSUME NEW r \in Runs, RunStep(r) \/ \E to \in RunStatus : RunStepBegins(r, to)
         PROVE  SameNumbers
    BY <1>2, <1>7, <1>12 DEF RunStep, RunStepLocksRun, RunStepBegins
  <1>13. ASSUME \/ QuotaChanges
                \/ \E p \in Receivers, s \in SessionIds, e \in EventIds,
                      class \in {"current-run", "future-run"} : ReceiveBegins(p, s, e, class)
                \/ \E c \in Cancellers, s \in SessionIds : CancelBegins(c, s)
                \/ \E p \in Procs : DeadlockAborts(p)
         PROVE  SameNumbers
    BY <1>2, <1>13 DEF QuotaChanges, ReceiveBegins, CancelBegins, DeadlockAborts
  <1>. QED
    BY <1>3, <1>8, <1>9, <1>10, <1>11, <1>12, <1>13 DEF Next

LEMMA NumbersKept ==
  ASSUME SessionsInv, SessionsInv', NumbersInv,
         SameNumbers \/ \E p \in Receivers, s \in SessionIds, e \in EventIds : Receipt(p, s, e)
  PROVE  NumbersInv'
  <1>1. CASE SameNumbers
    <2>1. \A s \in SessionIds : EventsOf(s)' = EventsOf(s)
      BY <1>1 DEF SameNumbers, EventsOf
    <2>2. \A s \in SessionIds : \A e \in EventsOf(s) : e \in EventIds
      BY DEF EventsOf
    <2>. QED
      BY <1>1, <2>1, <2>2 DEF NumbersInv, SameNumbers
  <1>2. ASSUME NEW p \in Receivers, NEW s \in SessionIds, NEW e \in EventIds, Receipt(p, s, e)
        PROVE  NumbersInv'
    <2>. USE <1>2 DEF Receipt
    <2>1. event[e].session = NoOne /\ NoOne # s
      BY Kinds DEF NoEvent
    <2>2. EventsOf(s)' = EventsOf(s) \union {e} /\ e \notin EventsOf(s)
      BY <2>1 DEF EventsOf
    <2>3. \A t \in SessionIds \ {s} : EventsOf(t)' = EventsOf(t) /\ e \notin EventsOf(t)
      BY <2>1, Kinds DEF EventsOf
    <2>4. /\ session[s].seq \in Nat
          /\ \A f \in EventsOf(s) : f \in EventIds \ {e} /\ event[f].seq \in Nat
          /\ \A t \in SessionIds \ {s} : \A f \in EventsOf(t) : f \in EventIds \ {e}
      BY <2>2, <2>3 DEF SessionsInv, Typed, SessionRecord, EventRecord, EventsOf
    <2>5. Cardinality(EventsOf(s) \union {e}) = Cardinality(EventsOf(s)) + 1
      <3>1. EventsOf(s) \subseteq EventIds
        BY DEF EventsOf
      <3>2. IsFiniteSet(EventsOf(s))
        BY <3>1, NumbersAssumption, FS_Subset
      <3>. QED
        BY <2>2, <3>2, FS_AddElement
    <2>6. session'[s].seq = Cardinality(EventsOf(s)')
      BY <2>2, <2>5 DEF NumbersInv
    <2>7. \A f \in EventsOf(s)' :
            /\ event'[f].seq <= session'[s].seq
            /\ \A g \in EventsOf(s)' : event'[g].seq = event'[f].seq => g = f
      <3>1. \A f \in EventsOf(s) :
              /\ event'[f].seq = event[f].seq /\ event[f].seq \in Nat
              /\ event[f].seq <= session[s].seq
              /\ \A g \in EventsOf(s) : event[g].seq = event[f].seq => g = f
        BY <2>4 DEF NumbersInv
      <3>2. event'[e].seq = session[s].seq + 1 /\ session'[s].seq = session[s].seq + 1
        OBVIOUS
      <3>. QED
        BY <2>2, <2>4, <3>1, <3>2
    <2>8. ASSUME NEW t \in SessionIds \ {s}
          PROVE  /\ session'[t].seq = Cardinality(EventsOf(t)')
                 /\ \A f \in EventsOf(t)' :
                      /\ event'[f].seq <= session'[t].seq
                      /\ \A g \in EventsOf(t)' : event'[g].seq = event'[f].seq => g = f
      BY <2>3, <2>4 DEF NumbersInv
    <2>. QED
      BY <2>6, <2>7, <2>8 DEF NumbersInv
  <1>. QED
    BY <1>1, <1>2

\* Times that a step leaves alone, or sets to now.
SameTimes ==
  /\ \A e \in EventIds : event'[e].after = event[e].after
  /\ \A p \in Receivers : receiver'[p].time \in {receiver[p].time, 0}
  /\ \A w \in Dispatchers : dispatcher'[w].now \in {dispatcher[w].now, 0}

LEMMA Intervals ==
  /\ MaxAge \in Nat /\ RetryDelay \in Nat
  /\ 0 \in -MaxAge..0 /\ 0 \in -MaxAge..RetryDelay
  /\ \A t \in -MaxAge..0 : t \in Int /\ t \in -MaxAge..RetryDelay /\ -MaxAge <= t /\ t <= 0
  /\ \A t \in -MaxAge..RetryDelay : t \in Int /\ -MaxAge <= t /\ t <= RetryDelay
  <1>1. MaxAge \in Nat /\ RetryDelay \in Nat
    BY NumbersAssumption
  <1>. QED
    BY <1>1

LEMMA TimesStay ==
  ASSUME TimesInv, SameTimes
  PROVE  TimesInv'
  <1>1. 0 \in -MaxAge..0
    BY Intervals
  <1>. QED
    BY <1>1 DEF TimesInv, SameTimes

LEMMA ReceiptIsInTime ==
  ASSUME SessionsInv, TimesInv, NEW p \in Receivers, NEW s \in SessionIds, NEW e \in EventIds,
         Receipt(p, s, e), receiver' = [receiver EXCEPT ![p] = IdleReceiver],
         dispatcher' = dispatcher
  PROVE  TimesInv'
  <1>1. \A f \in EventIds : event'[f].after \in -MaxAge..RetryDelay
    BY Intervals DEF TimesInv, Receipt
  <1>2. \A q \in Receivers : receiver'[q].time \in -MaxAge..0
    BY Intervals DEF TimesInv, SessionsInv, Typed, IdleReceiver
  <1>. QED
    BY <1>1, <1>2 DEF TimesInv

\* The pass goes on with its own time.
LEMMA NextCandidateIsInTime ==
  ASSUME Typed, NEW w \in Dispatchers, NextCandidate(w)
  PROVE  \A q \in Dispatchers : dispatcher'[q].now \in {dispatcher[q].now, 0}
  <1>1. CASE dispatcher[w].todo \ {Oldest(dispatcher[w].todo)} # {}
    BY <1>1 DEF NextCandidate, Typed
  <1>2. CASE dispatcher[w].todo \ {Oldest(dispatcher[w].todo)} = {}
    BY <1>2 DEF NextCandidate, Typed, IdleDispatcher
  <1>. QED
    BY <1>1, <1>2

LEMMA DeferIsInTime ==
  ASSUME SessionsInv, TimesInv, NEW w \in Dispatchers, DeferSession(w)
  PROVE  TimesInv'
  <1>1. Typed /\ receiver' = receiver
    BY DEF SessionsInv, DeferSession
  <1>2. \A q \in Dispatchers : dispatcher'[q].now \in -MaxAge..0
    BY <1>1, NextCandidateIsInTime, Intervals DEF TimesInv, DeferSession
  <1>3. \A e \in EventIds : event'[e].after \in -MaxAge..RetryDelay
    <2>1. PICK until \in Int : until = dispatcher[w].now + RetryDelay /\ until <= RetryDelay
      <3>1. dispatcher[w].now \in Int /\ dispatcher[w].now <= 0 /\ RetryDelay \in Nat
        BY Intervals DEF TimesInv
      <3>. QED
        BY <3>1
    <2>2. event' = [e \in EventIds |->
                      IF e \in Pending(Candidate(w)) /\ event[e].after < until
                      THEN [event[e] EXCEPT !.after = until] ELSE event[e]]
      BY <2>1 DEF DeferSession, DeferredEvents
    <2>3. ASSUME NEW e \in EventIds
          PROVE  event'[e].after \in -MaxAge..RetryDelay
      <3>1. /\ event[e].after \in -MaxAge..RetryDelay /\ event[e].after \in Int
            /\ -MaxAge <= event[e].after /\ MaxAge \in Nat /\ RetryDelay \in Nat
        BY Intervals DEF TimesInv
      <3>2. event[e] \in EventRecord
        BY <1>1 DEF Typed
      <3>3. CASE e \in Pending(Candidate(w)) /\ event[e].after < until
        <4>1. event'[e].after = until
          BY <2>2, <3>2, <3>3 DEF EventRecord
        <4>. QED
          BY <2>1, <3>1, <3>3, <4>1
      <3>4. CASE ~(e \in Pending(Candidate(w)) /\ event[e].after < until)
        BY <2>2, <3>1, <3>4
      <3>. QED
        BY <3>3, <3>4
    <2>. QED
      BY <2>3
  <1>. QED
    BY <1>1, <1>2, <1>3 DEF TimesInv

LEMMA TickIsInTime ==
  ASSUME SessionsInv, TimesInv, Tick
  PROVE  TimesInv'
  <1>1. Typed
    BY DEF SessionsInv
  <1>2. ASSUME NEW e \in EventIds
        PROVE  event'[e].after \in -MaxAge..RetryDelay
    <2>1. event'[e] = IF event[e].status = "PENDING"
                      THEN [event[e] EXCEPT !.after = Older(event[e].after)] ELSE event[e]
      BY DEF Tick
    <2>2. /\ event[e].after \in -MaxAge..RetryDelay /\ event[e].after \in Int
          /\ -MaxAge <= event[e].after /\ event[e].after <= RetryDelay
          /\ MaxAge \in Nat /\ RetryDelay \in Nat
      BY Intervals DEF TimesInv
    <2>3. Older(event[e].after) \in -MaxAge..RetryDelay
      BY <2>2 DEF Older
    <2>4. event'[e].after \in {event[e].after, Older(event[e].after)}
      BY <1>1, <2>1 DEF Typed, EventRecord
    <2>. QED
      BY <2>2, <2>3, <2>4
  <1>3. ASSUME NEW p \in Receivers
        PROVE  receiver'[p].time \in -MaxAge..0
    <2>1. receiver'[p] = IF receiver[p].pc = "idle" THEN receiver[p]
                         ELSE [receiver[p] EXCEPT !.time = receiver[p].time - 1]
      BY DEF Tick
    <2>2. /\ receiver[p].time \in -MaxAge..0 /\ receiver[p].time \in Int
          /\ receiver[p].time <= 0 /\ MaxAge \in Nat
      BY Intervals DEF TimesInv
    <2>3. CASE receiver[p].pc = "idle"
      BY <2>1, <2>2, <2>3
    <2>4. CASE receiver[p].pc # "idle"
      <3>1. receiver[p].time > -MaxAge
        BY <2>4 DEF Tick
      <3>2. receiver'[p].time = receiver[p].time - 1
        BY <1>1, <2>1, <2>4 DEF Typed, ReceiverRecord
      <3>. QED
        BY <2>2, <3>1, <3>2
    <2>. QED
      BY <2>3, <2>4
  <1>4. ASSUME NEW w \in Dispatchers
        PROVE  dispatcher'[w].now \in -MaxAge..0
    <2>1. dispatcher'[w] = IF dispatcher[w].pc = "idle" THEN dispatcher[w]
                           ELSE [dispatcher[w] EXCEPT !.now = dispatcher[w].now - 1]
      BY DEF Tick
    <2>2. /\ dispatcher[w].now \in -MaxAge..0 /\ dispatcher[w].now \in Int
          /\ dispatcher[w].now <= 0 /\ MaxAge \in Nat
      BY Intervals DEF TimesInv
    <2>3. CASE dispatcher[w].pc = "idle"
      BY <2>1, <2>2, <2>3
    <2>4. CASE dispatcher[w].pc # "idle"
      <3>1. dispatcher[w].now > -MaxAge
        BY <2>4 DEF Tick
      <3>2. dispatcher'[w].now = dispatcher[w].now - 1
        BY <1>1, <2>1, <2>4 DEF Typed, DispatcherRecord
      <3>. QED
        BY <2>2, <3>1, <3>2
    <2>. QED
      BY <2>3, <2>4
  <1>. QED
    BY <1>2, <1>3, <1>4 DEF TimesInv

LEMMA RequestStaysInTime ==
  ASSUME TimesInv, NEW p \in Receivers, event' = event, dispatcher' = dispatcher,
         receiver'[p].time \in {0, receiver[p].time},
         \A q \in Receivers : q # p => receiver'[q] = receiver[q]
  PROVE  TimesInv'
  <1>1. SameTimes
    BY DEF SameTimes
  <1>. QED
    BY <1>1, TimesStay

LEMMA TimesKept ==
  ASSUME SessionsInv, TimesInv, Next
  PROVE  TimesInv'
  <1>1. Typed
    BY DEF SessionsInv
  <1>2. ASSUME event' = event, receiver' = receiver, dispatcher' = dispatcher
        PROVE  TimesInv'
    BY <1>2 DEF TimesInv
  <1>3. ASSUME NEW p \in Receivers, Receive(p)
        PROVE  TimesInv'
    <2>1. CASE event' = event /\ ReceiverDone(p) /\ dispatcher' = dispatcher
      <3>1. receiver'[p].time = 0 /\ \A q \in Receivers : q # p => receiver'[q] = receiver[q]
        BY <1>1, <2>1 DEF ReceiverDone, IdleReceiver, Typed
      <3>. QED
        BY <2>1, <3>1, RequestStaysInTime
    <2>2. CASE ReceiveFindsConflict(p) \/ ReceiveFindsWait(p)
      <3>1. PICK pc : receiver' = [receiver EXCEPT ![p].pc = pc]
        BY <2>2 DEF ReceiveFindsConflict, ReceiveFindsWait
      <3>2. /\ receiver'[p].time = receiver[p].time
            /\ \A q \in Receivers : q # p => receiver'[q] = receiver[q]
        BY <1>1, <3>1 DEF Typed, ReceiverRecord
      <3>3. event' = event /\ dispatcher' = dispatcher
        BY <2>2 DEF ReceiveFindsConflict, ReceiveFindsWait
      <3>. QED
        BY <3>2, <3>3, RequestStaysInTime
    <2>3. CASE ReceiverDone(p) /\ \E s \in SessionIds, e \in EventIds : Receipt(p, s, e)
      BY <1>3, <2>3, ReceiptIsInTime DEF ReceiverDone, Receive, ReceiveAnswers,
         ReceiveFindsConflict, ReceiveRefusesConflict, ReceiveQueues, ReceiveFindsWait,
         ReceiveSignals
    <2>. QED
      BY <1>3, <2>1, <2>2, <2>3, ReceiveNumbers DEF Receive, ReceiveAnswers,
         ReceiveRefusesConflict, ReceiveQueues, ReceiveSignals
  <1>4. ASSUME NEW p \in Receivers, NEW s \in SessionIds, NEW e \in EventIds,
               NEW class \in {"current-run", "future-run"}, ReceiveBegins(p, s, e, class)
        PROVE  TimesInv'
    <2>1. PICK row : row = [pc |-> "begun", event |-> e, session |-> s, class |-> class,
                            time |-> 0, attempt |-> 1]
      OBVIOUS
    <2>2. row.time = 0
      BY <2>1
    <2>3. receiver' = [receiver EXCEPT ![p] = row] /\ event' = event /\ dispatcher' = dispatcher
      BY <1>4, <2>1 DEF ReceiveBegins
    <2>4. receiver'[p].time = 0 /\ \A q \in Receivers : q # p => receiver'[q] = receiver[q]
      BY <1>1, <2>2, <2>3 DEF Typed
    <2>. QED
      BY <2>3, <2>4, RequestStaysInTime
  <1>5. ASSUME NEW c \in Cancellers, CancelCommits(c)
        PROVE  TimesInv'
    <2>1. event' = [e \in EventIds |-> IF e \in Stale(canceller[c].session)
                      THEN [event[e] EXCEPT !.status = "STALE"] ELSE event[e]]
      BY <1>5 DEF CancelCommits
    <2>2. SameTimes
      BY <1>1, <1>5, <2>1 DEF SameTimes, Typed, EventRecord, CancelCommits
    <2>. QED
      BY <2>2, TimesStay
  <1>6. ASSUME NEW w \in Dispatchers, Dispatch(w) \/ DispatcherCrashes(w)
        PROVE  TimesInv'
    <2>1. CASE receiver' = receiver /\ event' = event
               /\ \A q \in Dispatchers : dispatcher'[q].now \in {dispatcher[q].now, 0}
      BY <2>1, TimesStay DEF SameTimes
    <2>2. CASE NextCandidate(w) /\ receiver' = receiver /\ event' = event
      BY <1>1, <2>1, <2>2, NextCandidateIsInTime
    <2>3. CASE PassBegins(w) \/ DispatcherCrashes(w)
      BY <1>1, <2>1, <2>3 DEF PassBegins, DispatcherCrashes, IdleDispatcher, Typed
    <2>4. CASE SelectEvent(w) /\ ~NextCandidate(w)
      <3>1. PICK todo, e : dispatcher' = [dispatcher EXCEPT
              ![w] = [pc |-> "admit", now |-> dispatcher[w].now, todo |-> todo, event |-> e]]
        BY <2>4 DEF SelectEvent
      <3>. QED
        BY <1>1, <2>1, <2>4, <3>1 DEF SelectEvent, Typed
    <2>5. CASE AdmitEvent(w)
      <3>1. CASE room
        <4>1. PICK e, n : event' = [event EXCEPT ![e] = DispatchedTo(event[e], n)]
          BY <2>5, <3>1 DEF AdmitEvent
        <4>2. SameTimes
          BY <1>1, <2>5, <3>1, <4>1, NextCandidateIsInTime
             DEF SameTimes, Typed, EventRecord, DispatchedTo, AdmitEvent
        <4>. QED
          BY <4>2, TimesStay
      <3>2. CASE ~room
        <4>1. dispatcher' = [dispatcher EXCEPT ![w].pc = "defer"] /\ event' = event /\ receiver' = receiver
          BY <2>5, <3>2 DEF AdmitEvent
        <4>. QED
          BY <1>1, <2>1, <4>1 DEF Typed, DispatcherRecord
      <3>. QED
        BY <3>1, <3>2
    <2>. QED
      BY <1>6, <2>2, <2>3, <2>4, <2>5, DeferIsInTime DEF Dispatch, SelectEvent
  <1>7. ASSUME NEW p \in Procs, DeadlockAborts(p)
        PROVE  TimesInv'
    <2>1. CASE p \in Receivers
      <3>1. ReceivesAgain(receiver[p]).time = 0
        BY DEF ReceivesAgain, IdleReceiver
      <3>. QED
        <4>1. /\ receiver' = [receiver EXCEPT ![p] = ReceivesAgain(receiver[p])]
              /\ event' = event /\ dispatcher' = dispatcher
          BY <1>7, <2>1, Kinds DEF DeadlockAborts
        <4>2. receiver'[p].time = 0 /\ \A q \in Receivers : q # p => receiver'[q] = receiver[q]
          BY <1>1, <2>1, <3>1, <4>1 DEF Typed
        <4>. QED
          BY <2>1, <4>1, <4>2, RequestStaysInTime
    <2>2. CASE p \in Dispatchers
      <3>1. SameTimes
        BY <1>1, <1>7, <2>2, Kinds DEF DeadlockAborts, SameTimes, Typed, IdleDispatcher
      <3>. QED
        BY <3>1, TimesStay
    <2>3. CASE p \notin Receivers /\ p \notin Dispatchers
      BY <1>2, <1>7, <2>3 DEF DeadlockAborts
    <2>. QED
      BY <2>1, <2>2, <2>3
  <1>8. ASSUME \/ \E s \in SessionIds, start \in BOOLEAN : createManagedSession(s, start)
               \/ \E c \in Cancellers, s \in SessionIds : CancelBegins(c, s)
               \/ \E c \in Cancellers : CancelLocksSession(c) \/ CancelLocksRun(c)
               \/ \E r \in Runs, to \in RunStatus : RunStepBegins(r, to)
               \/ \E r \in Runs : RunStep(r)
               \/ QuotaChanges
        PROVE  TimesInv'
    BY <1>2, <1>8 DEF createManagedSession, CancelBegins, CancelLocksSession, CancelLocksRun,
       RunStepBegins, RunStep, RunStepLocksRun, RunStepCommits, QuotaChanges
  <1>. QED
    BY <1>3, <1>4, <1>5, <1>6, <1>7, <1>8, TickIsInTime DEF Next, Cancel

\* The numbers and the times hold in every state.
QueueInv == NumbersInv /\ TimesInv

THEOREM QueueInductive == Spec => []QueueInv
  <1>1. ASSUME Init
        PROVE  QueueInv
    <2>2. \A s \in SessionIds : EventsOf(s) = {} /\ session[s].seq = 0
      <3>1. \A e \in EventIds : event[e].session = NoOne
        BY <1>1 DEF Init, NoEvent
      <3>2. \A s \in SessionIds : session[s].seq = 0
        BY <1>1 DEF Init, NoSession
      <3>. QED
        BY <3>1, <3>2, Kinds DEF EventsOf
    <2>3. NumbersInv
      BY <2>2, FS_EmptySet DEF NumbersInv
    <2>4. TimesInv
      <3>1. \A e \in EventIds : event[e].after = 0
        BY <1>1 DEF Init, NoEvent
      <3>2. \A p \in Receivers : receiver[p].time = 0
        BY <1>1 DEF Init, IdleReceiver
      <3>3. \A w \in Dispatchers : dispatcher[w].now = 0
        BY <1>1 DEF Init, IdleDispatcher
      <3>. QED
        BY <3>1, <3>2, <3>3, Intervals DEF TimesInv
    <2>. QED
      BY <2>3, <2>4 DEF QueueInv
  <1>2. SessionsInv /\ SessionsInv' /\ QueueInv /\ [Next]_vars => QueueInv'
    <2>1. ASSUME SessionsInv, SessionsInv', QueueInv, Next
          PROVE  QueueInv'
      BY <2>1, StepNumbers, NumbersKept, TimesKept DEF QueueInv
    <2>2. ASSUME QueueInv, UNCHANGED vars
          PROVE  QueueInv'
      BY <2>2 DEF QueueInv, NumbersInv, TimesInv, EventsOf, vars
    <2>. QED
      BY <2>1, <2>2
  <1>. QED
    BY <1>1, <1>2, SessionsInductive, PTL DEF Spec

\* The rows keep their types: the states and statuses of their tables, event
\* times within the bounds of the model, and no more numbers than events.
THEOREM SessionsTyped == Spec => []TypeOK
  <1>1. ASSUME SessionsInv, QueueInv
        PROVE  TypeOK
    <2>1. Typed /\ NumbersInv /\ TimesInv
      BY <1>1 DEF SessionsInv, QueueInv
    <2>2. \A s \in SessionIds : session[s].seq \in 0..Cardinality(EventIds)
      <3>1. ASSUME NEW s \in SessionIds
            PROVE  session[s].seq \in 0..Cardinality(EventIds)
        <4>1. EventsOf(s) \subseteq EventIds
          BY DEF EventsOf
        <4>2. /\ Cardinality(EventsOf(s)) \in Nat /\ Cardinality(EventIds) \in Nat
              /\ Cardinality(EventsOf(s)) <= Cardinality(EventIds)
          BY <4>1, NumbersAssumption, FS_Subset, FS_CardinalityType
        <4>. QED
          BY <2>1, <4>2 DEF NumbersInv
      <3>. QED
        BY <3>1
    <2>3. session \in [SessionIds -> [state : SessionStates, current : Runs \union {None},
                                      seq : 0..Cardinality(EventIds)]]
      BY <2>1, <2>2 DEF Typed, SessionRecord
    <2>. QED
      BY <2>1, <2>3 DEF TypeOK, Typed, TimesInv, EventRecord, RunRecord
  <1>. QED
    BY <1>1, SessionsInductive, QueueInductive, PTL

-----------------------------------------------------------------------------
(* One worker serves one session.                                          *)

Alone(s0, w0) ==
  /\ \A s \in SessionIds : s # s0 => session[s] = NoSession
  /\ \A w \in Dispatchers : w # w0 => dispatcher[w] = IdleDispatcher

\* The event of a session that is next.
First(e, s) ==
  /\ e \in Pending(s)
  /\ \A f \in Pending(s) : event[e].seq <= event[f].seq

\* A pass has the session's next event in sight, and it is due for the pass,
\* unless the session is cancelled; an admission is of the next event.
PassInv(s0, w0) ==
  /\ \A row \in dispatcher[w0].todo : row.session = s0
  /\ \A a, b \in dispatcher[w0].todo : a = b
  /\ dispatcher[w0].pc = "pass" /\ session[s0].state # "CANCELLED" =>
       \E e \in EventIds : First(e, s0) /\ event[e].after <= dispatcher[w0].now
  /\ dispatcher[w0].pc = "admit" => First(dispatcher[w0].event, s0)

OrderInv(s0, w0) ==
  /\ Alone(s0, w0)
  /\ \A p \in Receivers : receiver[p].pc # "conflict"
  /\ NewerEventsDoNotOvertake
  /\ PassInv(s0, w0)

\* Every row and every request is of the one session.
LEMMA OneSession ==
  ASSUME SessionsInv, NEW s0 \in SessionIds, NEW w0 \in Dispatchers, Alone(s0, w0)
  PROVE  /\ \A s \in SessionIds : session[s].state # "absent" => s = s0
         /\ \A e \in EventIds : event[e].status # "absent" => event[e].session = s0
         /\ \A e \in EventIds : event[e].status = "absent" => event[e] = NoEvent
         /\ \A p \in Receivers : receiver[p].pc # "idle" => receiver[p].session = s0
         /\ \A c \in Cancellers : canceller[c].pc # "idle" => canceller[c].session = s0
  <1>1. \A s \in SessionIds : session[s].state # "absent" => s = s0
    BY DEF Alone, NoSession
  <1>2. \A e \in EventIds : IF event[e].status = "absent" THEN event[e] = NoEvent
          ELSE event[e].session \in SessionIds /\ session[event[e].session].state # "absent"
    BY DEF SessionsInv, RowsInv, Rows
  <1>3. \A p \in Receivers : ReceiverInv(p)
    BY Kinds DEF SessionsInv, ProcInv
  <1>4. \A c \in Cancellers : CancellerInv(c)
    BY Kinds DEF SessionsInv, ProcInv
  <1>. QED
    BY <1>1, <1>2, <1>3, <1>4 DEF ReceiverInv, CancellerInv

\* A step of the one worker's pass, and a step that is not.
LEMMA OneWorker ==
  ASSUME SessionsInv, NEW s0 \in SessionIds, NEW w0 \in Dispatchers,
         Alone(s0, w0), Alone(s0, w0)', NEW w \in Dispatchers,
         Dispatch(w) \/ DispatcherCrashes(w)
  PROVE  w = w0
  <1>1. SUFFICES ASSUME w # w0 PROVE FALSE
    OBVIOUS
  <1>2. dispatcher[w].pc = "idle" /\ dispatcher'[w].pc = "idle"
    BY <1>1 DEF Alone, IdleDispatcher
  <1>3. PassBegins(w) => dispatcher'[w].pc = "pass"
    BY DEF PassBegins, SessionsInv, Typed
  <1>. QED
    BY <1>2, <1>3 DEF Dispatch, SelectEvent, AdmitEvent, DeferSession, DispatcherCrashes

\* The only candidate is the last one.
LEMMA PassEnds ==
  ASSUME Typed, NEW s0 \in SessionIds, NEW w0 \in Dispatchers, PassInv(s0, w0),
         dispatcher[w0].todo # {}, NextCandidate(w0)
  PROVE  dispatcher'[w0] = IdleDispatcher
  <1>1. dispatcher[w0].todo \in SUBSET CandidateRecord
    BY DEF Typed, DispatcherRecord
  <1>2. Oldest(dispatcher[w0].todo) \in dispatcher[w0].todo
    BY <1>1, OldestIs
  <1>3. dispatcher[w0].todo \ {Oldest(dispatcher[w0].todo)} = {}
    BY <1>2 DEF PassInv
  <1>. QED
    BY <1>3 DEF NextCandidate, Typed

\* A pass that is over has nothing left to keep.
LEMMA IdlePass ==
  ASSUME NEW s0, NEW w0, dispatcher'[w0] = IdleDispatcher
  PROVE  PassInv(s0, w0)'
  BY DEF PassInv, IdleDispatcher

\* A step that leaves the receipts alone leaves their order alone.
LEMMA SameEvents ==
  ASSUME event' = event
  PROVE  /\ NewerEventsDoNotOvertake => NewerEventsDoNotOvertake'
         /\ \A s : Pending(s)' = Pending(s)
         /\ \A e, s : First(e, s) => First(e, s)'
  BY DEF NewerEventsDoNotOvertake, Pending, First

\* So does one that makes none of them pending or dispatched.
LEMMA NoneIsNew ==
  ASSUME NewerEventsDoNotOvertake,
         \A e \in EventIds :
           /\ event'[e].session = event[e].session /\ event'[e].seq = event[e].seq
           /\ event'[e].class = event[e].class
           /\ event'[e].status = "PENDING" => event[e].status = "PENDING"
           /\ event'[e].status = "DISPATCHED" => event[e].status = "DISPATCHED"
  PROVE  NewerEventsDoNotOvertake'
  BY DEF NewerEventsDoNotOvertake

\* A cancelled session stays cancelled.
LEMMA CancelledStays ==
  ASSUME SessionsInv, Next, NEW s \in SessionIds, session[s].state = "CANCELLED"
  PROVE  session'[s].state = "CANCELLED"
  <1>1. Typed
    BY DEF SessionsInv
  <1>2. ASSUME NEW t \in SessionIds, NEW start \in BOOLEAN, createManagedSession(t, start)
        PROVE  session'[s].state = "CANCELLED"
    <2>1. s # t
      BY <1>2 DEF createManagedSession, NoSession
    <2>. QED
      BY <1>1, <1>2, <2>1 DEF createManagedSession, Typed
  <1>3. ASSUME NEW p \in Receivers, Receive(p)
        PROVE  session'[s].state = "CANCELLED"
    <2>1. CASE session' = session
      BY <2>1
    <2>2. CASE ReceiveQueues(p)
      BY <1>1, <2>2 DEF ReceiveQueues, Typed
    <2>3. CASE ReceiveSignals(p) /\ session' # session
      <3>1. session[receiver[p].session].state # "CANCELLED"
        BY <2>3, Kinds DEF ReceiveSignals, SessionsInv, ProcInv, ReceiverInv
      <3>. QED
        BY <1>1, <2>3, <3>1 DEF ReceiveSignals, Typed
    <2>. QED
      BY <1>3, <2>1, <2>2, <2>3 DEF Receive, ReceiveAnswers, ReceiveFindsConflict,
         ReceiveRefusesConflict, ReceiveFindsWait
  <1>4. ASSUME NEW c \in Cancellers, CancelCommits(c)
        PROVE  session'[s].state = "CANCELLED"
    BY <1>1, <1>4 DEF CancelCommits, Typed, SessionRecord
  <1>5. ASSUME NEW w \in Dispatchers, AdmitEvent(w)
        PROVE  session'[s].state = "CANCELLED"
    <2>1. session[Candidate(w)].state = "IDLE"
      BY <1>5, Kinds DEF AdmitEvent, SessionsInv, ProcInv, DispatcherInv
    <2>. QED
      BY <1>1, <1>5, <2>1 DEF AdmitEvent, Typed
  <1>6. ASSUME NEW r \in Runs, RunStepCommits(r)
        PROVE  session'[s].state = "CANCELLED"
    <2>1. session' = session \/ projectTopLevelRunStateToSession(r, worker[r].to)
      BY <1>6 DEF RunStepCommits
    <2>. QED
      BY <1>1, <2>1 DEF projectTopLevelRunStateToSession, Projects, Typed
  <1>7. CASE session' = session
    BY <1>7
  <1>. QED
    BY <1>2, <1>3, <1>4, <1>5, <1>6, <1>7 DEF Next, ReceiveBegins, CancelBegins, Cancel,
       CancelLocksSession, CancelLocksRun, Dispatch, PassBegins, SelectEvent, DeferSession,
       DispatcherCrashes, RunStepBegins, RunStep, RunStepLocksRun, DeadlockAborts,
       QuotaChanges, Tick

\* Without the events of two sessions no request is in conflict.
LEMMA NoConflict ==
  ASSUME SessionsInv, Next, NEW s0 \in SessionIds, NEW w0 \in Dispatchers, OrderInv(s0, w0)
  PROVE  \A p \in Receivers : receiver'[p].pc # "conflict"
  <1>1. Typed /\ \A p \in Receivers : receiver[p].pc # "conflict"
    BY DEF SessionsInv, OrderInv
  <1>2. ASSUME NEW p \in Receivers, NEW row, row.pc # "conflict",
               receiver' = [receiver EXCEPT ![p] = row]
        PROVE  \A q \in Receivers : receiver'[q].pc # "conflict"
    BY <1>1, <1>2 DEF Typed
  <1>3. \A p \in Receivers : ~ReceiveFindsConflict(p)
    <2>1. SUFFICES ASSUME NEW p \in Receivers, ReceiveFindsConflict(p)
                   PROVE  FALSE
      OBVIOUS
    <2>2. receiver[p].pc # "idle" /\ event[receiver[p].event].session \notin {NoOne, receiver[p].session}
      BY <2>1 DEF ReceiveFindsConflict, ReceiveMayLock
    <2>3. receiver[p].event \in EventIds
      BY <2>2, Kinds DEF SessionsInv, ProcInv, ReceiverInv
    <2>. QED
      BY <2>2, <2>3, OneSession DEF OrderInv, NoEvent
  <1>4. ASSUME NEW p \in Receivers, Receive(p)
        PROVE  \A q \in Receivers : receiver'[q].pc # "conflict"
    <2>1. CASE ReceiverDone(p)
      BY <1>1, <2>1 DEF ReceiverDone, IdleReceiver, Typed
    <2>2. CASE ReceiveFindsWait(p)
      BY <1>1, <2>2 DEF ReceiveFindsWait, Typed, ReceiverRecord
    <2>. QED
      BY <1>3, <1>4, <2>1, <2>2 DEF Receive, ReceiveAnswers, ReceiveRefusesConflict,
         ReceiveQueues, ReceiveSignals
  <1>5. ASSUME NEW p \in Receivers, NEW s \in SessionIds, NEW e \in EventIds,
               NEW class \in {"current-run", "future-run"}, ReceiveBegins(p, s, e, class)
        PROVE  \A q \in Receivers : receiver'[q].pc # "conflict"
    BY <1>1, <1>5 DEF ReceiveBegins, Typed
  <1>6. ASSUME NEW p \in Procs, DeadlockAborts(p)
        PROVE  \A q \in Receivers : receiver'[q].pc # "conflict"
    BY <1>1, <1>6 DEF DeadlockAborts, ReceivesAgain, IdleReceiver, Typed
  <1>7. ASSUME Tick
        PROVE  \A q \in Receivers : receiver'[q].pc # "conflict"
    BY <1>1, <1>7 DEF Tick, Typed, ReceiverRecord
  <1>8. CASE receiver' = receiver
    BY <1>1, <1>8
  <1>. QED
    BY <1>4, <1>5, <1>6, <1>7, <1>8 DEF Next, createManagedSession, CancelBegins, Cancel,
       CancelLocksSession, CancelLocksRun, CancelCommits, Dispatch, PassBegins, SelectEvent,
       AdmitEvent, DeferSession, DispatcherCrashes, RunStepBegins, RunStep, RunStepLocksRun,
       RunStepCommits, QuotaChanges

\* What the worker's pass and the order need of a step.
InOrder(s0, w0) == NewerEventsDoNotOvertake /\ PassInv(s0, w0)

\* The pass is left alone, and so are the events.
LEMMA NothingMoves ==
  ASSUME SessionsInv, Next, NEW s0 \in SessionIds, NEW w0 \in Dispatchers,
         InOrder(s0, w0), event' = event,
         dispatcher'[w0] \in {dispatcher[w0], IdleDispatcher}
  PROVE  InOrder(s0, w0)'
  <1>1. NewerEventsDoNotOvertake'
    BY SameEvents DEF InOrder
  <1>2. CASE dispatcher'[w0] = IdleDispatcher
    BY <1>1, <1>2, IdlePass DEF InOrder
  <1>3. CASE dispatcher'[w0] = dispatcher[w0]
    <2>1. session[s0].state = "CANCELLED" => session'[s0].state = "CANCELLED"
      BY CancelledStays
    <2>2. PassInv(s0, w0)'
      BY <1>3, <2>1, SameEvents DEF InOrder, PassInv
    <2>. QED
      BY <1>1, <2>2 DEF InOrder
  <1>. QED
    BY <1>2, <1>3

\* A new event has the last number.
LEMMA NewEventIsLast ==
  ASSUME SessionsInv, SessionsInv', NumbersInv, Next,
         NEW s0 \in SessionIds, NEW w0 \in Dispatchers, Alone(s0, w0), Alone(s0, w0)',
         InOrder(s0, w0), dispatcher' = dispatcher,
         NEW p \in Receivers, NEW s \in SessionIds, NEW e \in EventIds, Receipt(p, s, e)
  PROVE  InOrder(s0, w0)'
  <1>. USE DEF Receipt
  <1>1. s = s0
    <2>1. event'[e].status # "absent"
      <3>1. event'[e].status = "absent" => event'[e] = NoEvent
        BY DEF SessionsInv, RowsInv, Rows
      <3>. QED
        BY <3>1, Kinds DEF NoEvent
    <2>2. session'[s].state # "absent"
      BY <2>1 DEF SessionsInv, RowsInv, Rows
    <2>. QED
      BY <2>2 DEF Alone, NoSession
  <1>2. /\ session[s0].seq \in Nat
        /\ \A f \in EventsOf(s0) : event[f].seq \in Nat /\ event[f].seq <= session[s0].seq
    BY DEF NumbersInv, EventsOf, SessionsInv, Typed, SessionRecord, EventRecord
  <1>3. \A f \in EventIds : event[f].session = s0 => f # e /\ event'[f] = event[f] /\ event[f].seq < event'[e].seq
    <2>1. event[e].session # s0
      BY Kinds DEF NoEvent
    <2>. QED
      BY <1>1, <1>2, <2>1 DEF EventsOf
  <1>4. \A f \in EventIds : event[f].session \in {s0, NoOne}
    BY OneSession DEF NoEvent
  <1>5. NewerEventsDoNotOvertake'
    <2>1. SUFFICES ASSUME NEW x \in EventIds, NEW f \in EventIds,
                          event'[x].session = event'[f].session, event'[x].seq < event'[f].seq,
                          event'[x].class = "future-run", event'[x].status = "PENDING",
                          event'[f].status = "DISPATCHED"
                   PROVE  FALSE
      BY DEF NewerEventsDoNotOvertake
    <2>2. f # e /\ event'[f] = event[f]
      BY <2>1
    <2>3. event[f].session = s0
      BY <1>4, <2>1, <2>2, OneSession
    <2>4. x # e
      <3>1. x = e => event[f].seq < event'[e].seq
        BY <1>3, <2>3
      <3>2. event[f].seq \in Nat /\ event'[e].seq \in Nat
        BY DEF SessionsInv, Typed, EventRecord
      <3>. QED
        BY <2>1, <2>2, <3>1, <3>2
    <2>. QED
      BY <2>1, <2>2, <2>4 DEF InOrder, NewerEventsDoNotOvertake
  <1>6. \A f \in EventIds : First(f, s0) => First(f, s0)' /\ event'[f] = event[f]
    <2>1. SUFFICES ASSUME NEW f \in EventIds, First(f, s0)
                   PROVE  First(f, s0)' /\ event'[f] = event[f]
      OBVIOUS
    <2>2. event[f].session = s0
      BY <2>1 DEF First, Pending
    <2>3. event'[f] = event[f] /\ event[f].seq < event'[e].seq
      BY <1>3, <2>2
    <2>4. f \in Pending(s0)'
      BY <2>1, <2>3 DEF First, Pending
    <2>5. ASSUME NEW g \in Pending(s0)'
          PROVE  event'[f].seq <= event'[g].seq
      <3>1. g \in EventIds
        BY DEF Pending
      <3>2. CASE g = e
        <4>1. event[f].seq \in Nat /\ event'[e].seq \in Nat
          BY DEF SessionsInv, Typed, EventRecord
        <4>. QED
          BY <2>3, <3>2, <4>1
      <3>3. CASE g # e
        <4>1. event'[g] = event[g]
          BY <3>1, <3>3
        <4>2. g \in Pending(s0)
          BY <3>1, <4>1 DEF Pending
        <4>. QED
          BY <2>1, <2>3, <4>1, <4>2 DEF First
      <3>. QED
        BY <3>2, <3>3
    <2>. QED
      BY <2>3, <2>4, <2>5 DEF First
  <1>7. session[s0].state = "CANCELLED" => session'[s0].state = "CANCELLED"
    BY CancelledStays
  <1>8. dispatcher[w0].pc = "admit" => dispatcher[w0].event \in EventIds
    BY Kinds DEF SessionsInv, ProcInv, DispatcherInv, Pending
  <1>9. PassInv(s0, w0)'
    BY <1>6, <1>7, <1>8 DEF InOrder, PassInv
  <1>. QED
    BY <1>5, <1>9 DEF InOrder

\* A cancellation leaves nothing to dispatch.
LEMMA CancellationKeepsOrder ==
  ASSUME SessionsInv, NEW s0 \in SessionIds, NEW w0 \in Dispatchers, Alone(s0, w0),
         InOrder(s0, w0), NEW c \in Cancellers, CancelCommits(c)
  PROVE  InOrder(s0, w0)'
  <1>1. Typed /\ CancellerInv(c) /\ canceller[c].session = s0
    BY OneSession, Kinds DEF SessionsInv, ProcInv, CancelCommits
  <1>2. event' = [e \in EventIds |-> IF e \in Stale(s0)
                    THEN [event[e] EXCEPT !.status = "STALE"] ELSE event[e]]
    BY <1>1 DEF CancelCommits
  <1>3. NewerEventsDoNotOvertake'
    <2>1. \A e \in EventIds :
            /\ event'[e].session = event[e].session /\ event'[e].seq = event[e].seq
            /\ event'[e].class = event[e].class
            /\ event'[e].status = "PENDING" => event[e].status = "PENDING"
            /\ event'[e].status = "DISPATCHED" => event[e].status = "DISPATCHED"
      BY <1>1, <1>2 DEF Typed, EventRecord
    <2>. QED
      BY <2>1, NoneIsNew DEF InOrder
  <1>4. session'[s0].state = "CANCELLED" /\ dispatcher' = dispatcher
    BY <1>1 DEF CancelCommits, Typed, SessionRecord
  <1>5. dispatcher[w0].pc # "admit"
    <2>1. dispatcher[w0].pc = "admit" => lock[SessionRow(Candidate(w0))] = w0
      BY Kinds DEF SessionsInv, ProcInv, DispatcherInv
    <2>2. lock[SessionRow(s0)] = c
      BY <1>1 DEF CancellerInv, CancelCommits
    <2>3. dispatcher[w0].pc = "admit" => Candidate(w0) = s0
      <3>1. dispatcher[w0].pc = "admit" => dispatcher[w0].todo # {}
        BY Kinds DEF SessionsInv, ProcInv, DispatcherInv
      <3>2. dispatcher[w0].todo \in SUBSET CandidateRecord
        BY <1>1 DEF Typed, DispatcherRecord
      <3>. QED
        BY <3>1, <3>2, OldestIs DEF InOrder, PassInv, Candidate
    <2>. QED
      BY <2>1, <2>2, <2>3, Kinds
  <1>6. PassInv(s0, w0)'
    BY <1>4, <1>5 DEF InOrder, PassInv
  <1>. QED
    BY <1>3, <1>6 DEF InOrder

\* The earliest of the pending events of a session is its next event.
LEMMA EarliestIsFirst ==
  ASSUME Typed, NEW s, Pending(s) # {}
  PROVE  First(Earliest(Pending(s)), s) /\ Earliest(Pending(s)) \in EventIds
  <1>1. Pending(s) \in SUBSET EventIds
    BY DEF Pending
  <1>. QED
    BY <1>1, EarliestIs DEF First

LEMMA PassBeginsInOrder ==
  ASSUME SessionsInv, NEW s0 \in SessionIds, NEW w0 \in Dispatchers, Alone(s0, w0),
         InOrder(s0, w0), PassBegins(w0)
  PROVE  InOrder(s0, w0)'
  <1>1. /\ dispatcher'[w0] = [pc |-> "pass", now |-> 0, todo |-> Candidates, event |-> NoOne]
        /\ event' = event /\ session' = session /\ Typed
    BY DEF PassBegins, SessionsInv, Typed
  <1>2. ASSUME NEW row \in Candidates
        PROVE  /\ row = [session |-> s0, born |-> event[Earliest(Pending(s0))].born]
               /\ Pending(s0) # {} /\ event[Earliest(Pending(s0))].after <= 0
    <2>1. PICK s \in SessionIds :
            /\ session[s].state = "IDLE" /\ Pending(s) # {}
            /\ event[Earliest(Pending(s))].after <= 0
            /\ row = [session |-> s, born |-> event[Earliest(Pending(s))].born]
      BY DEF Candidates
    <2>2. s = s0
      BY <2>1, OneSession
    <2>. QED
      BY <2>1, <2>2
  <1>3. Pending(s0) # {} /\ event[Earliest(Pending(s0))].after <= 0
    BY <1>2 DEF PassBegins
  <1>4. PICK e \in EventIds : First(e, s0) /\ event[e].after <= 0
    BY <1>1, <1>3, EarliestIsFirst
  <1>5. PassInv(s0, w0)'
    BY <1>1, <1>2, <1>4, SameEvents DEF PassInv
  <1>. QED
    BY <1>1, <1>5, SameEvents DEF InOrder

\* The next event is due and nobody has its row, so the pass selects it.
LEMMA SelectionInOrder ==
  ASSUME SessionsInv, Next, NEW s0 \in SessionIds, NEW w0 \in Dispatchers,
         OrderInv(s0, w0), SelectEvent(w0)
  PROVE  InOrder(s0, w0)'
  <1>1. /\ Typed /\ Alone(s0, w0) /\ PassInv(s0, w0) /\ event' = event /\ session' = session
        /\ dispatcher[w0].pc = "pass" /\ dispatcher[w0].todo # {} /\ InOrder(s0, w0)
    BY Kinds DEF SessionsInv, ProcInv, DispatcherInv, OrderInv, InOrder, SelectEvent
  <1>2. Candidate(w0) = s0
    <2>1. dispatcher[w0].todo \in SUBSET CandidateRecord
      BY <1>1 DEF Typed, DispatcherRecord
    <2>. QED
      BY <1>1, <2>1, OldestIs DEF PassInv, Candidate
  <1>3. CASE NextCandidate(w0)
    <2>1. dispatcher'[w0] = IdleDispatcher
      BY <1>1, <1>3, PassEnds
    <2>. QED
      BY <1>1, <2>1, NothingMoves
  <1>4. CASE SessionSelectable(s0) /\ Selectable(w0) # {}
    <2>1. session[s0].state # "CANCELLED"
      BY <1>4 DEF SessionSelectable
    <2>2. PICK e \in EventIds : First(e, s0) /\ event[e].after <= dispatcher[w0].now
      BY <1>1, <2>1 DEF PassInv
    <2>3. Free(EventRow(e))
      <3>1. SUFFICES ASSUME lock[EventRow(e)] # NoOne PROVE FALSE
        BY DEF Free
      <3>2. PICK p \in Procs : p = lock[EventRow(e)]
        BY <1>1, <3>1, Tables DEF Typed
      <3>3. HoldsEvent(p, e)
        BY <3>2 DEF SessionsInv, ProcInv, HolderInv
      <3>4. p \in Dispatchers => dispatcher[p].pc # "admit"
        BY <1>1 DEF Alone, IdleDispatcher
      <3>. QED
        BY <3>3, <3>4 DEF HoldsEvent, OrderInv
    <2>4. e \in Selectable(w0) /\ Selectable(w0) \subseteq Pending(s0)
      BY <1>2, <2>2, <2>3 DEF Selectable, First
    <2>5. PICK f : f = Earliest(Selectable(w0))
      OBVIOUS
    <2>6. First(f, s0)
      <3>1. Selectable(w0) \in SUBSET EventIds
        BY <2>4 DEF Pending
      <3>2. f \in Pending(s0) /\ event[f].seq <= event[e].seq
        BY <1>1, <2>4, <2>5, <3>1, EarliestIs
      <3>3. \A g \in Pending(s0) : event[e].seq <= event[g].seq /\ event[g].seq \in Int
        BY <1>1, <2>2 DEF First, Pending, Typed, EventRecord
      <3>4. \A g \in Pending(s0) : event[f].seq <= event[g].seq
        <4>1. event[f].seq \in Int /\ event[e].seq \in Int
          BY <2>2, <3>2, <3>3 DEF First
        <4>. QED
          BY <3>2, <3>3, <4>1
      <3>. QED
        BY <3>2, <3>4 DEF First
    <2>7. dispatcher'[w0] = [pc |-> "admit", now |-> dispatcher[w0].now,
                             todo |-> dispatcher[w0].todo, event |-> f]
      BY <1>1, <1>2, <1>4, <2>5 DEF SelectEvent, Typed
    <2>8. PassInv(s0, w0)'
      BY <1>1, <2>6, <2>7, SameEvents DEF PassInv
    <2>. QED
      BY <1>1, <2>8, SameEvents DEF InOrder
  <1>. QED
    BY <1>2, <1>3, <1>4 DEF SelectEvent

\* The next event becomes a run, or the pass goes on to delay it.
LEMMA AdmissionInOrder ==
  ASSUME SessionsInv, Next, NEW s0 \in SessionIds, NEW w0 \in Dispatchers,
         OrderInv(s0, w0), AdmitEvent(w0)
  PROVE  InOrder(s0, w0)'
  <1>1. /\ Typed /\ Alone(s0, w0) /\ PassInv(s0, w0) /\ NewerEventsDoNotOvertake
        /\ dispatcher[w0].pc = "admit" /\ dispatcher[w0].todo # {}
    BY Kinds DEF SessionsInv, ProcInv, DispatcherInv, OrderInv, AdmitEvent
  <1>2. First(dispatcher[w0].event, s0)
    BY <1>1 DEF PassInv
  <1>3. CASE ~room
    <2>1. event' = event /\ dispatcher' = [dispatcher EXCEPT ![w0].pc = "defer"]
      BY <1>3 DEF AdmitEvent
    <2>2. dispatcher'[w0].pc = "defer" /\ dispatcher'[w0].todo = dispatcher[w0].todo
      BY <1>1, <2>1 DEF Typed, DispatcherRecord
    <2>3. PassInv(s0, w0)'
      BY <1>1, <2>2 DEF PassInv
    <2>. QED
      BY <1>1, <2>1, <2>3, SameEvents DEF InOrder
  <1>4. CASE room
    <2>1. PICK e \in EventIds : e = dispatcher[w0].event /\ First(e, s0)
      BY <1>2 DEF First, Pending
    <2>2. PICK n : event' = [event EXCEPT ![e] = DispatchedTo(event[e], n)]
      BY <1>4, <2>1 DEF AdmitEvent
    <2>3. /\ \A x \in EventIds : x # e => event'[x] = event[x]
          /\ event'[e].session = event[e].session /\ event'[e].seq = event[e].seq
          /\ event'[e].status = "DISPATCHED"
      BY <1>1, <2>2 DEF Typed, EventRecord, DispatchedTo
    <2>4. NewerEventsDoNotOvertake'
      <3>1. SUFFICES ASSUME NEW x \in EventIds, NEW f \in EventIds,
                            event'[x].session = event'[f].session, event'[x].seq < event'[f].seq,
                            event'[x].class = "future-run", event'[x].status = "PENDING",
                            event'[f].status = "DISPATCHED"
                     PROVE  FALSE
        BY DEF NewerEventsDoNotOvertake
      <3>2. x # e /\ event'[x] = event[x]
        BY <2>3, <3>1
      <3>3. CASE f # e
        BY <1>1, <2>3, <3>1, <3>2, <3>3 DEF NewerEventsDoNotOvertake
      <3>4. CASE f = e
        <4>1. x \in Pending(s0)
          BY <2>1, <2>3, <3>1, <3>2, <3>4 DEF First, Pending
        <4>2. event[e].seq <= event[x].seq /\ event[x].seq < event[e].seq
          BY <2>1, <2>3, <3>1, <3>2, <3>4, <4>1 DEF First
        <4>3. event[e].seq \in Nat /\ event[x].seq \in Nat
          BY <1>1 DEF Typed, EventRecord
        <4>. QED
          BY <4>2, <4>3
      <3>. QED
        BY <3>3, <3>4
    <2>5. NextCandidate(w0)
      BY <1>4 DEF AdmitEvent
    <2>. QED
      BY <1>1, <2>4, <2>5, PassEnds, IdlePass DEF InOrder
  <1>. QED
    BY <1>3, <1>4

LEMMA DeferralInOrder ==
  ASSUME SessionsInv, NEW s0 \in SessionIds, NEW w0 \in Dispatchers,
         InOrder(s0, w0), DeferSession(w0)
  PROVE  InOrder(s0, w0)'
  <1>1. /\ Typed /\ dispatcher[w0].todo # {} /\ NextCandidate(w0)
    BY Kinds DEF SessionsInv, ProcInv, DispatcherInv, DeferSession
  <1>2. PICK until, es : event' = [e \in EventIds |->
                           IF e \in es /\ event[e].after < until
                           THEN [event[e] EXCEPT !.after = until] ELSE event[e]]
    BY DEF DeferSession, DeferredEvents
  <1>3. \A e \in EventIds :
          /\ event'[e].session = event[e].session /\ event'[e].seq = event[e].seq
          /\ event'[e].class = event[e].class /\ event'[e].status = event[e].status
    BY <1>1, <1>2 DEF Typed, EventRecord
  <1>4. NewerEventsDoNotOvertake'
    BY <1>3, NoneIsNew DEF InOrder
  <1>. QED
    BY <1>1, <1>4, PassEnds, IdlePass DEF InOrder

\* What is due for a pass stays due while time passes.
LEMMA TimeKeepsOrder ==
  ASSUME SessionsInv, TimesInv, NEW s0 \in SessionIds, NEW w0 \in Dispatchers,
         InOrder(s0, w0), Tick
  PROVE  InOrder(s0, w0)'
  <1>1. Typed
    BY DEF SessionsInv
  <1>2. ASSUME NEW e \in EventIds
        PROVE  /\ event'[e].session = event[e].session /\ event'[e].seq = event[e].seq
               /\ event'[e].class = event[e].class /\ event'[e].status = event[e].status
               /\ event[e].status = "PENDING" => event'[e].after = Older(event[e].after)
    <2>1. event'[e] = IF event[e].status = "PENDING"
                      THEN [event[e] EXCEPT !.after = Older(event[e].after)] ELSE event[e]
      BY DEF Tick
    <2>. QED
      BY <1>1, <2>1 DEF Typed, EventRecord
  <1>3. NewerEventsDoNotOvertake'
    BY <1>2, NoneIsNew DEF InOrder
  <1>4. Pending(s0)' = Pending(s0) /\ Pending(s0) \subseteq EventIds
    BY <1>2 DEF Pending
  <1>5. \A e : First(e, s0) => First(e, s0)'
    BY <1>2, <1>4 DEF First
  <1>6. session' = session
    BY DEF Tick
  <1>7. CASE dispatcher[w0].pc = "idle"
    <2>1. dispatcher'[w0] = dispatcher[w0]
      BY <1>7 DEF Tick
    <2>. QED
      BY <1>3, <1>7, <2>1 DEF InOrder, PassInv
  <1>8. CASE dispatcher[w0].pc # "idle"
    <2>1. dispatcher'[w0] = [dispatcher[w0] EXCEPT !.now = dispatcher[w0].now - 1]
      BY <1>8 DEF Tick
    <2>2. /\ dispatcher'[w0].now = dispatcher[w0].now - 1
          /\ dispatcher'[w0].pc = dispatcher[w0].pc /\ dispatcher'[w0].todo = dispatcher[w0].todo
          /\ dispatcher'[w0].event = dispatcher[w0].event
      BY <1>1, <2>1 DEF Typed, DispatcherRecord
    <2>3. ASSUME NEW e \in EventIds, First(e, s0), event[e].after <= dispatcher[w0].now
          PROVE  event'[e].after <= dispatcher'[w0].now
      <3>1. event'[e].after = Older(event[e].after)
        BY <1>2, <2>3 DEF First, Pending
      <3>2. /\ event[e].after \in Int /\ -MaxAge <= event[e].after
            /\ dispatcher[w0].now \in Int /\ MaxAge \in Nat
        BY Intervals DEF TimesInv
      <3>3. dispatcher[w0].now > -MaxAge
        BY <1>8 DEF Tick
      <3>. QED
        BY <2>2, <2>3, <3>1, <3>2, <3>3 DEF Older
    <2>4. PassInv(s0, w0)'
      BY <1>5, <1>6, <2>2, <2>3 DEF InOrder, PassInv
    <2>. QED
      BY <1>3, <2>4 DEF InOrder
  <1>. QED
    BY <1>7, <1>8

LEMMA OrderKept ==
  ASSUME SessionsInv, SessionsInv', QueueInv, Next, NEW s0 \in SessionIds, NEW w0 \in Dispatchers,
         OrderInv(s0, w0), Alone(s0, w0)'
  PROVE  OrderInv(s0, w0)'
  <1>1. /\ Alone(s0, w0) /\ InOrder(s0, w0) /\ NumbersInv /\ TimesInv
    BY DEF OrderInv, InOrder, QueueInv
  <1>2. ASSUME event' = event, dispatcher'[w0] \in {dispatcher[w0], IdleDispatcher}
        PROVE  InOrder(s0, w0)'
    BY <1>1, <1>2, NothingMoves
  <1>3. ASSUME NEW p \in Receivers, Receive(p)
        PROVE  InOrder(s0, w0)'
    <2>1. dispatcher' = dispatcher
      BY <1>3 DEF Receive, ReceiveAnswers, ReceiveFindsConflict, ReceiveRefusesConflict,
         ReceiveQueues, ReceiveFindsWait, ReceiveSignals
    <2>. QED
      BY <1>1, <1>2, <1>3, <2>1, ReceiveNumbers, NewEventIsLast
  <1>4. ASSUME NEW w \in Dispatchers, Dispatch(w) \/ DispatcherCrashes(w)
        PROVE  InOrder(s0, w0)'
    <2>1. w = w0
      BY <1>1, <1>4, OneWorker
    <2>2. CASE DispatcherCrashes(w0)
      <3>1. event' = event /\ dispatcher'[w0] = IdleDispatcher
        BY <2>2 DEF DispatcherCrashes, SessionsInv, Typed
      <3>. QED
        BY <1>2, <3>1
    <2>. QED
      BY <1>1, <1>4, <2>1, <2>2, PassBeginsInOrder, SelectionInOrder, AdmissionInOrder,
         DeferralInOrder DEF Dispatch
  <1>5. ASSUME NEW c \in Cancellers, Cancel(c)
        PROVE  InOrder(s0, w0)'
    <2>1. CASE CancelCommits(c)
      BY <1>1, <2>1, CancellationKeepsOrder
    <2>. QED
      BY <1>2, <1>5, <2>1 DEF Cancel, CancelLocksSession, CancelLocksRun
  <1>6. ASSUME NEW p \in Procs, DeadlockAborts(p)
        PROVE  InOrder(s0, w0)'
    <2>1. event' = event /\ dispatcher'[w0] \in {dispatcher[w0], IdleDispatcher}
      BY <1>6 DEF DeadlockAborts, SessionsInv, Typed
    <2>. QED
      BY <1>2, <2>1
  <1>7. InOrder(s0, w0)'
    BY <1>1, <1>2, <1>3, <1>4, <1>5, <1>6, TimeKeepsOrder DEF Next, createManagedSession,
       ReceiveBegins, CancelBegins, RunStepBegins, RunStep, RunStepLocksRun, RunStepCommits,
       QuotaChanges
  <1>8. \A p \in Receivers : receiver'[p].pc # "conflict"
    BY NoConflict
  <1>. QED
    BY <1>7, <1>8 DEF OrderInv, InOrder

\* A set of one element.
LEMMA OneOf ==
  ASSUME NEW S, IsFiniteSet(S), NEW T, Cardinality(S \ T) = 1
  PROVE  \E x \in S : S \ T = {x}
  <1>1. IsFiniteSet(S \ T)
    BY FS_Subset
  <1>2. \E x : S \ T = {x}
    BY <1>1, FS_Singleton
  <1>. QED
    BY <1>2

ServesInOrder ==
  \A s0 \in SessionIds, w0 \in Dispatchers :
    SessionIds \ absent = {s0} /\ Dispatchers \ absent = {w0} => OrderInv(s0, w0)

\* The events of a session become runs in the order of their numbers when one
\* worker runs dispatchPendingSessionEvents for it, in spite of deferral, late
\* receipts, cancellation and lost passes.
THEOREM OneWorkerKeepsOrder == MCSpec => []OrderedByOneWorker
  <1>1. MCInit => Init
    BY DEF MCInit
  <1>2. [MCNext]_<<vars, absent>> => [Next]_vars
    BY DEF MCNext
  <1>3. ASSUME MCInit PROVE ServesInOrder
    <2>1. /\ \A s \in SessionIds : session[s] = NoSession
          /\ \A w \in Dispatchers : dispatcher[w] = IdleDispatcher
          /\ \A p \in Receivers : receiver[p].pc = "idle"
          /\ \A e \in EventIds : event[e].class = "none"
      BY <1>1, <1>3 DEF Init, NoEvent, IdleReceiver
    <2>2. NewerEventsDoNotOvertake
      BY <2>1 DEF NewerEventsDoNotOvertake
    <2>3. \A s0 \in SessionIds, w0 \in Dispatchers : PassInv(s0, w0)
      BY <2>1 DEF PassInv, IdleDispatcher
    <2>. QED
      BY <2>1, <2>2, <2>3 DEF ServesInOrder, OrderInv, Alone
  <1>4. ASSUME SessionsInv, SessionsInv', QueueInv, ServesInOrder, MCNext
        PROVE  ServesInOrder'
    <2>1. SUFFICES ASSUME NEW s0 \in SessionIds, NEW w0 \in Dispatchers,
                          SessionIds \ absent' = {s0}, Dispatchers \ absent' = {w0}
                   PROVE  OrderInv(s0, w0)'
      BY DEF ServesInOrder
    <2>2. /\ absent' = absent /\ Next
          /\ \A s \in SessionIds : s \in absent => session'[s] = NoSession
          /\ \A w \in Dispatchers : w \in absent => dispatcher'[w] = IdleDispatcher
      BY <1>4 DEF MCNext
    <2>3. Alone(s0, w0)' /\ OrderInv(s0, w0)
      BY <1>4, <2>1, <2>2 DEF Alone, ServesInOrder
    <2>. QED
      BY <1>4, <2>2, <2>3, OrderKept
  <1>5. ASSUME ServesInOrder, UNCHANGED <<vars, absent>>
        PROVE  ServesInOrder'
    BY <1>5 DEF ServesInOrder, OrderInv, Alone, NewerEventsDoNotOvertake, PassInv, First,
       Pending, vars
  <1>6. ServesInOrder => OrderedByOneWorker
    <2>1. SUFFICES ASSUME ServesInOrder, Cardinality(SessionIds \ absent) = 1,
                          Cardinality(Dispatchers \ absent) = 1
                   PROVE  NewerEventsDoNotOvertake
      BY DEF OrderedByOneWorker
    <2>2. PICK s0 \in SessionIds : SessionIds \ absent = {s0}
      BY <2>1, NumbersAssumption, OneOf
    <2>3. PICK w0 \in Dispatchers : Dispatchers \ absent = {w0}
      BY <2>1, WorkersAssumption, OneOf
    <2>. QED
      BY <2>1, <2>2, <2>3 DEF ServesInOrder, OrderInv
  <1>7. MCSpec => Spec
    BY <1>1, <1>2, PTL DEF MCSpec, Spec
  <1>8. MCSpec => []ServesInOrder
    BY <1>3, <1>4, <1>5, <1>7, SessionsInductive, QueueInductive, PTL DEF MCSpec
  <1>. QED
    BY <1>6, <1>8, PTL

=============================================================================
