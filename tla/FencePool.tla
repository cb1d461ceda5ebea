----------------------------- MODULE FencePool -----------------------------
(***************************************************************************)
(* The connections of one worker process.  A governed action holds one for *)
(* the session lock of its key and needs a second one inside; a model call *)
(* holds one for the lock of its run; a transaction takes one and gives it *)
(* back.  Permits keep the actions from taking the whole pool, and the     *)
(* loss of a session that owns a lock aborts the request it guards.        *)
(*                                                                         *)
(* The pool serves those who wait in any order.  What an action or a call  *)
(* does with its lock is GovernedAction's and Checkpoints' subject.        *)
(***************************************************************************)
EXTENDS Naturals, Sequences, FiniteSets, SequencesExt

CONSTANTS
  Actions,      \* governed actions
  ModelCalls,   \* model invocations
  Transactions, \* other users of the pool
  LockOf,       \* the key of an action's lock, the run of a call's
  PoolMax       \* pool.options.max

PoolUsers == Actions \cup ModelCalls \cup Transactions

\* The locks of actions and of model calls have seeds of their own (locks.ts).
ASSUME FencePoolAssumption ==
  /\ PoolMax \in Nat /\ PoolMax >= 2
  /\ Actions \cap ModelCalls = {} /\ Transactions \cap (Actions \cup ModelCalls) = {}
  /\ DOMAIN LockOf = Actions \cup ModelCalls
  /\ \A a \in Actions, m \in ModelCalls : LockOf[a] # LockOf[m]
  /\ IsFiniteSet(PoolUsers)

VARIABLES
  user,        \* where each user of the pool is
  session,     \* whether the session of a user's lock lives, and whether it knows
  permits,     \* PoolAdmission.active
  waiters      \* PoolAdmission.waiters

fencePoolVars == <<user, session, permits, waiters>>

FencePoolInit ==
  /\ user = [u \in PoolUsers |-> "out"]
  /\ session = [u \in PoolUsers |-> "none"]
  /\ permits = 0
  /\ waiters = <<>>

Held1 == {"connected", "fenced", "needs"}
InUse == Cardinality({u \in PoolUsers : user[u] \in Held1})
         + Cardinality({u \in PoolUsers : user[u] = "working"})
         + 2 * Cardinality({u \in PoolUsers : user[u] = "inner"})
PoolHasFree == InUse < PoolMax

LockIsFree(u) ==
  \A v \in DOMAIN LockOf : LockOf[v] = LockOf[u] => session[v] # "locked"
-----------------------------------------------------------------------------
(* Permits: acquireFenceAdmission *)

\* Faulty variant: no connection is kept back.
WholePool == PoolMax

PermitLimit == IF PoolMax > 1 THEN PoolMax - 1 ELSE 1

AskPermit(u) ==
  /\ u \in Actions /\ user[u] = "out"
  /\ IF permits >= PermitLimit
     THEN /\ waiters' = Append(waiters, u)
          /\ user' = [user EXCEPT ![u] = "queued"]
          /\ UNCHANGED permits
     ELSE /\ permits' = permits + 1
          /\ user' = [user EXCEPT ![u] = "admitted"]
          /\ UNCHANGED waiters
  /\ UNCHANGED session

\* The permit passes to the first waiter, without being free in between.
ReleasePermit(u) ==
  IF waiters # <<>>
  THEN /\ user' = [user EXCEPT ![u] = "out", ![Head(waiters)] = "admitted"]
       /\ waiters' = Tail(waiters)
       /\ UNCHANGED permits
  ELSE /\ user' = [user EXCEPT ![u] = "out"]
       /\ permits' = permits - 1
       /\ UNCHANGED waiters

LeavePool(u) ==
  IF u \in Actions THEN ReleasePermit(u)
  ELSE user' = [user EXCEPT ![u] = "out"] /\ UNCHANGED <<permits, waiters>>
-----------------------------------------------------------------------------
(* Connections and locks *)

\* pool.connect() of a user that holds nothing.
TakeConnection(u) ==
  /\ user[u] = (IF u \in Actions THEN "admitted" ELSE "out") /\ PoolHasFree
  /\ user' = [user EXCEPT ![u] = IF u \in Transactions THEN "working" ELSE "connected"]
  /\ UNCHANGED <<session, permits, waiters>>

ConnectFails(u) ==
  /\ u \in Actions /\ user[u] = "admitted"
  /\ LeavePool(u)
  /\ UNCHANGED session

\* pg_advisory_lock: waits for the other session.
TakeLock(u) ==
  /\ user[u] = "connected" /\ LockIsFree(u)
  /\ session' = [session EXCEPT ![u] = "locked"]
  /\ user' = [user EXCEPT ![u] = "fenced"]
  /\ UNCHANGED <<permits, waiters>>

\* A credential broker or another service inside the fence asks the pool.
NeedSecond(u) ==
  /\ u \in Actions /\ user[u] = "fenced"
  /\ user' = [user EXCEPT ![u] = "needs"]
  /\ UNCHANGED <<session, permits, waiters>>

TakeSecond(u) ==
  /\ user[u] = "needs" /\ PoolHasFree
  /\ user' = [user EXCEPT ![u] = "inner"]
  /\ UNCHANGED <<session, permits, waiters>>
GiveSecond(u) ==
  /\ user[u] = "inner"
  /\ user' = [user EXCEPT ![u] = "fenced"]
  /\ UNCHANGED <<session, permits, waiters>>

\* The end of the fence: unlock, or destroy the session that cannot unlock.
Unfence(u) ==
  /\ user[u] = "fenced"
  /\ session' = [session EXCEPT ![u] = "none"]
  /\ LeavePool(u)

EndTransaction(u) ==
  /\ user[u] = "working"
  /\ LeavePool(u)
  /\ UNCHANGED session

\* The database drops the session and with it the lock; the process hears of it
\* later, aborts the request and destroys the client.
LoseSession(u) ==
  /\ session[u] = "locked"
  /\ session' = [session EXCEPT ![u] = "lost"]
  /\ UNCHANGED <<user, permits, waiters>>

NoticeLoss(u) ==
  /\ session[u] = "lost"
  /\ session' = [session EXCEPT ![u] = "none"]
  /\ LeavePool(u)

FencePoolNext ==
  \E u \in PoolUsers :
    \/ AskPermit(u) \/ TakeConnection(u) \/ ConnectFails(u) \/ TakeLock(u)
    \/ NeedSecond(u) \/ TakeSecond(u) \/ GiveSecond(u) \/ Unfence(u)
    \/ EndTransaction(u) \/ LoseSession(u) \/ NoticeLoss(u)

FencePoolSpec == FencePoolInit /\ [][FencePoolNext]_fencePoolVars
-----------------------------------------------------------------------------
(* Properties *)

\* The type of the state.  The pool never lends more than it has, and every
\* permit has its holder (governedAction.ts:125-136).
FencePoolTypeOK ==
  /\ user \in [PoolUsers -> {"out", "queued", "admitted", "connected", "fenced", "needs",
                             "inner", "working"}]
  /\ session \in [PoolUsers -> {"none", "locked", "lost"}]
  /\ InUse <= PoolMax
  /\ permits = Cardinality({u \in Actions : user[u] \notin {"out", "queued"}})
  /\ ToSet(waiters) = {u \in Actions : user[u] = "queued"}

IsBlocked(u) ==
  \/ user[u] = "queued"
  \/ user[u] \in {"admitted", "needs"} /\ ~PoolHasFree
  \/ user[u] = "connected" /\ ~LockIsFree(u)

\* "N concurrent actions can starve an N-connection pool permanently"
\* (governedAction.ts:110-113): with one connection kept back, some user that is
\* under way can always go on, whatever locks and connections the others wait for.
PoolIsNeverWedged ==
  (\E u \in PoolUsers : user[u] # "out") =>
    \E u \in PoolUsers : user[u] # "out" /\ ~IsBlocked(u)
=============================================================================
