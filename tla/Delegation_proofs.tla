-------------------------- MODULE Delegation_proofs --------------------------
(***************************************************************************)
(* Proofs about Delegation, for any number of runs, workers and attempts,  *)
(* every fan-out, window and replacement cap, and every tenant's limits:   *)
(* a subtask has one current run, its outcome is final, its runs together  *)
(* stay within what it was given, and a tenant within what it may have.    *)
(* Of MCDelegation: the one of two parents that only waits to be resolved  *)
(* is passed over once.                                                    *)
(***************************************************************************)
EXTENDS MCDelegation, FiniteFacts

-----------------------------------------------------------------------------
(* The functions the model is built from.                                  *)

\* The statuses of the table, and the three without a way out.
LEMMA StatusTable ==
  /\ RunStatus = {"CREATED", "RESOLVING", "QUEUED", "STARTING", "RUNNING",
                  "WAITING_APPROVAL", "WAITING_SIGNAL", "WAITING_CHILDREN",
                  "SLEEPING", "SUSPENDED", "RETRY_PENDING", "VERIFYING",
                  "COMPLETED", "FAILED", "CANCELLED"}
  /\ \A s \in RunStatus :
       isTerminal(s) <=> s \in {"COMPLETED", "FAILED", "CANCELLED"}
  BY DEF RunStatus, isTerminal, TRANSITIONS

\* The larger and the smaller of two numbers.
LEMMA MaxMin ==
  ASSUME NEW a \in Int, NEW b \in Int
  PROVE  /\ Max({a, b}) = IF a < b THEN b ELSE a
         /\ Min({a, b}) = IF a < b THEN a ELSE b
  BY DEF Max, Min

\* The sum over S as its recursion defines it.
Summed(S, f) == CHOOSE sum : sum = [n \in 0..MaxRuns |->
                  IF n = 0 THEN 0 ELSE sum[n - 1] + (IF n \in S THEN f[n] ELSE 0)]

\* There is such a function.
LEMMA SumExists ==
  ASSUME NEW S, NEW f
  PROVE  /\ SumOver(S, f) = Summed(S, f)[MaxRuns]
         /\ Summed(S, f) = [n \in 0..MaxRuns |-> IF n = 0 THEN 0
              ELSE Summed(S, f)[n - 1] + (IF n \in S THEN f[n] ELSE 0)]
  <1>1. SumOver(S, f) = Summed(S, f)[MaxRuns]
    BY DEF SumOver, Summed
  <1>. DEFINE Term(n) == IF n \in S THEN f[n] ELSE 0
              Sums(g, k) == g = [n \in 0..k |-> IF n = 0 THEN 0 ELSE g[n - 1] + Term(n)]
              bad == {k \in Nat : ~ \E g : Sums(g, k)}
  <1>. HIDE DEF Term
  <1>2. bad = {}
    <2>1. SUFFICES ASSUME bad # {} PROVE FALSE
      OBVIOUS
    <2>2. PICK k \in bad : \A j \in bad : k <= j
      <3>1. bad \in SUBSET Nat
        OBVIOUS
      <3>. HIDE DEF bad
      <3>. QED
        BY <2>1, <3>1, SmallestExists
    <2>3. Sums([n \in 0..0 |-> 0], 0)
      OBVIOUS
    <2>4. k # 0
      BY <2>2, <2>3
    <2>5. k - 1 \in Nat /\ k - 1 \notin bad
      <3>1. k \in Nat
        BY <2>2
      <3>2. k - 1 \in Nat /\ ~(k <= k - 1)
        BY <2>4, <3>1
      <3>. HIDE DEF bad
      <3>. QED
        BY <2>2, <3>2
    <2>6. PICK g : Sums(g, k - 1)
      BY <2>5
    <2>. DEFINE h == [n \in 0..k |-> IF n = k THEN g[k - 1] + Term(k) ELSE g[n]]
    <2>7. Sums(h, k)
      <3>1. \A n \in 0..k - 1 : h[n] = g[n] /\ g[n] = IF n = 0 THEN 0 ELSE g[n - 1] + Term(n)
        BY <2>5, <2>6
      <3>2. \A n \in 0..k : n # k /\ n # 0 => n \in 0..k - 1 /\ n - 1 \in 0..k - 1
        BY <2>5
      <3>3. k - 1 \in 0..k - 1 /\ 0 \in 0..k - 1
        BY <2>5
      <3>4. \A n \in 0..k : h[n] = IF n = 0 THEN 0 ELSE h[n - 1] + Term(n)
        BY <2>4, <3>1, <3>2, <3>3
      <3>. QED
        BY <3>4
    <2>. QED
      BY <2>2, <2>7
  <1>3. MaxRuns \in Nat
    BY DelegationAssumption
  <1>4. \E g : Sums(g, MaxRuns)
    BY <1>2, <1>3
  <1>. QED
    BY <1>1, <1>4 DEF Summed, Term

\* What u adds to the sum.
Term(S, f, u) == IF u \in S /\ u \in Runs THEN f[u] ELSE 0

\* The terms of S and f and those of T and g differ at u at most.
SameBut(S, T, f, g, u) == \A r \in Runs \ {u} :
  /\ r \in S <=> r \in T
  /\ r \in S => f[r] = g[r]

\* The sum is a number and is that of the terms before u, u's, and those after.
LEMMA SumAfterMove ==
  ASSUME NEW S, NEW T, NEW f \in [Runs -> Int], NEW g \in [Runs -> Int], NEW u,
         SameBut(S, T, f, g, u)
  PROVE  /\ SumOver(S, f) \in Int /\ SumOver(T, g) \in Int
         /\ SumOver(T, g) + Term(S, f, u) = SumOver(S, f) + Term(T, g, u)
  <1>. DEFINE F == Summed(S, f)
              G == Summed(T, g)
              a(n) == IF n \in S THEN f[n] ELSE 0
              b(n) == IF n \in T THEN g[n] ELSE 0
              A(n) == IF u \in Runs /\ u <= n THEN a(u) ELSE 0
              B(n) == IF u \in Runs /\ u <= n THEN b(u) ELSE 0
              Right(n) == F[n] \in Int /\ G[n] \in Int /\ G[n] + A(n) = F[n] + B(n)
              bad == {n \in 0..MaxRuns : ~Right(n)}
  <1>0. MaxRuns \in Nat
    BY DelegationAssumption
  <1>1. \A n \in 0..MaxRuns : /\ F[n] = IF n = 0 THEN 0 ELSE F[n - 1] + a(n)
                              /\ G[n] = IF n = 0 THEN 0 ELSE G[n - 1] + b(n)
    <2>1. /\ F = [n \in 0..MaxRuns |-> IF n = 0 THEN 0 ELSE F[n - 1] + a(n)]
          /\ G = [n \in 0..MaxRuns |-> IF n = 0 THEN 0 ELSE G[n - 1] + b(n)]
      BY SumExists
    <2>. HIDE DEF F, G, a, b
    <2>. QED
      BY <2>1
  <1>2. \A n \in Runs : /\ a(n) \in Int /\ b(n) \in Int
                        /\ n # u => a(n) = b(n)
    BY DEF SameBut
  <1>. HIDE DEF F, G, a, b
  <1>3. bad = {}
    <2>1. SUFFICES ASSUME bad # {} PROVE FALSE
      OBVIOUS
    <2>2. PICK k \in bad : \A j \in bad : k <= j
      <3>1. bad \in SUBSET Nat
        BY <1>0
      <3>. HIDE DEF bad
      <3>. QED
        BY <2>1, <3>1, SmallestExists
    <2>3. k # 0
      <3>1. 0 \in 0..MaxRuns
        BY <1>0
      <3>2. F[0] = 0 /\ G[0] = 0
        BY <1>1, <3>1
      <3>3. A(0) = 0 /\ B(0) = 0
        BY DEF Runs
      <3>. QED
        BY <2>2, <3>2, <3>3
    <2>4. k \in Runs /\ k - 1 \in 0..MaxRuns /\ k - 1 \notin bad
      BY <1>0, <2>2, <2>3 DEF Runs
    <2>5. Right(k - 1)
      BY <2>4
    <2>6. F[k] = F[k - 1] + a(k) /\ G[k] = G[k - 1] + b(k)
      BY <1>1, <2>2, <2>3
    <2>7. A(k) = A(k - 1) + (IF u = k THEN a(k) ELSE 0)
      BY <1>0, <1>2, <2>4 DEF Runs
    <2>8. B(k) = B(k - 1) + (IF u = k THEN b(k) ELSE 0)
      BY <1>0, <1>2, <2>4 DEF Runs
    <2>9. A(k - 1) \in Int /\ B(k - 1) \in Int
      BY <1>2
    <2>. HIDE DEF A, B
    <2>10. Right(k)
      BY <1>2, <2>4, <2>5, <2>6, <2>7, <2>8, <2>9
    <2>. QED
      BY <2>2, <2>10
  <1>4. Right(MaxRuns)
    BY <1>0, <1>3
  <1>5. u \in Runs => u <= MaxRuns
    BY DEF Runs
  <1>6. SumOver(S, f) = F[MaxRuns] /\ SumOver(T, g) = G[MaxRuns]
    BY SumExists DEF F, G
  <1>. QED
    BY <1>4, <1>5, <1>6 DEF a, b, Term

\* Nothing adds up to nothing.
LEMMA SumOfNone ==
  ASSUME NEW S, NEW f \in [Runs -> Int], \A r \in Runs : r \in S => f[r] = 0
  PROVE  SumOver(S, f) = 0
  <1>. DEFINE F == Summed(S, f)
              bad == {n \in 0..MaxRuns : F[n] # 0}
  <1>0. MaxRuns \in Nat
    BY DelegationAssumption
  <1>1. \A n \in 0..MaxRuns : F[n] = IF n = 0 THEN 0 ELSE F[n - 1] + (IF n \in S THEN f[n] ELSE 0)
    <2>1. F = [n \in 0..MaxRuns |-> IF n = 0 THEN 0
                 ELSE F[n - 1] + (IF n \in S THEN f[n] ELSE 0)]
      BY SumExists
    <2>. HIDE DEF F
    <2>. QED
      BY <2>1
  <1>. HIDE DEF F
  <1>2. bad = {}
    <2>1. SUFFICES ASSUME bad # {} PROVE FALSE
      OBVIOUS
    <2>2. PICK k \in bad : \A j \in bad : k <= j
      <3>1. bad \in SUBSET Nat
        BY <1>0
      <3>. HIDE DEF bad
      <3>. QED
        BY <2>1, <3>1, SmallestExists
    <2>3. k # 0
      BY <1>0, <1>1, <2>2
    <2>4. k \in Runs /\ k - 1 \in 0..MaxRuns /\ k - 1 \notin bad
      BY <1>0, <2>2, <2>3 DEF Runs
    <2>5. F[k] = F[k - 1] + (IF k \in S THEN f[k] ELSE 0) /\ F[k - 1] = 0
      BY <1>1, <2>2, <2>3, <2>4
    <2>. QED
      BY <2>2, <2>4, <2>5
  <1>. QED
    BY <1>0, <1>2, SumExists DEF F

\* The elements of a finite set of numbers, each at one place.
LEMMA InOrderLists ==
  ASSUME NEW T \in SUBSET Nat, IsFiniteSet(T)
  PROVE  /\ Cardinality(T) \in Nat
         /\ InOrder(T) \in [1..Cardinality(T) -> T]
         /\ \A i, j \in 1..Cardinality(T) : InOrder(T)[i] = InOrder(T)[j] => i = j
         /\ \A n \in T : \E i \in 1..Cardinality(T) : InOrder(T)[i] = n
  <1>. DEFINE Rank(m) == Cardinality({k \in T : k < m})
              At(i) == CHOOSE m \in T : Rank(m) = i - 1
  <1>1. Cardinality(T) \in Nat
    BY FS_CardinalityType
  <1>2. \A i \in 1..Cardinality(T) : \E m \in T : Rank(m) = i - 1
    BY RankIsTaken
  <1>3. \A m \in T : /\ Rank(m) \in Nat /\ Rank(m) < Cardinality(T)
                     /\ \A l \in T : Rank(l) = Rank(m) => l = m
    BY RankIsOfOne
  <1>4. InOrder(T) = [i \in 1..Cardinality(T) |-> At(i)]
    BY DEF InOrder
  <1>. HIDE DEF Rank
  <1>5. \A i \in 1..Cardinality(T) : At(i) \in T /\ Rank(At(i)) = i - 1
    BY <1>2
  <1>6. \A m \in T : Rank(m) + 1 \in 1..Cardinality(T) /\ (Rank(m) + 1) - 1 = Rank(m)
    BY <1>1, <1>3
  <1>7. \A m \in T : At(Rank(m) + 1) = m
    <2>1. SUFFICES ASSUME NEW m \in T PROVE At(Rank(m) + 1) = m
      OBVIOUS
    <2>2. Rank(At(Rank(m) + 1)) = Rank(m) /\ At(Rank(m) + 1) \in T
      BY <1>5, <1>6
    <2>. HIDE DEF At
    <2>. QED
      BY <1>3, <2>2
  <1>. HIDE DEF At
  <1>8. \A i, j \in 1..Cardinality(T) : At(i) = At(j) => i = j
    <2>1. SUFFICES ASSUME NEW i \in 1..Cardinality(T), NEW j \in 1..Cardinality(T), At(i) = At(j)
                   PROVE  i = j
      OBVIOUS
    <2>2. i - 1 = j - 1
      BY <1>5, <2>1
    <2>. QED
      BY <1>1, <2>2
  <1>. QED
    BY <1>1, <1>4, <1>5, <1>6, <1>7, <1>8

\* A selection from a sequence of runs is one, of the elements at those places.
LEMMA PickedFrom ==
  ASSUME NEW s \in Seq(Runs), NEW places \in SUBSET (DOMAIN s)
  PROVE  /\ Picked(s, places) \in Seq(Runs)
         /\ ToSet(Picked(s, places)) = {s[i] : i \in places}
         /\ Picked(s, places) # <<>> => places # {}
  <1>1. places \in SUBSET Nat /\ IsFiniteSet(places)
    <2>1. DOMAIN s = 1..Len(s) /\ Len(s) \in Nat
      OBVIOUS
    <2>2. IsFiniteSet(1..Len(s))
      BY <2>1, FS_Interval
    <2>. QED
      BY <2>1, <2>2, FS_Subset
  <1>2. PICK c \in Nat : c = Cardinality(places)
    BY <1>1, InOrderLists
  <1>3. /\ InOrder(places) \in [1..c -> places]
        /\ \A n \in places : \E i \in 1..c : InOrder(places)[i] = n
    BY <1>1, <1>2, InOrderLists
  <1>4. Picked(s, places) = [i \in 1..c |-> s[InOrder(places)[i]]]
    BY <1>2 DEF Picked
  <1>5. \A i \in 1..c : InOrder(places)[i] \in places /\ s[InOrder(places)[i]] \in Runs
    BY <1>3
  <1>6. Picked(s, places) \in [1..c -> Runs]
    BY <1>4, <1>5
  <1>7. ToSet(Picked(s, places)) = {s[i] : i \in places}
    BY <1>3, <1>4, <1>5 DEF ToSet
  <1>8. places = {} => c = 0
    BY <1>2, FS_EmptySet
  <1>. QED
    BY <1>4, <1>6, <1>7, <1>8

\* Taking a run out of a sequence, and moving it to the end.
LEMMA WithoutOne ==
  ASSUME NEW s \in Seq(Runs), NEW p
  PROVE  /\ Without(s, p) \in Seq(Runs)
         /\ ToSet(Without(s, p)) = ToSet(s) \ {p}
         /\ p \in Runs => /\ Append(Without(s, p), p) \in Seq(Runs)
                          /\ ToSet(Append(Without(s, p), p)) = ToSet(s) \union {p}
  <1>1. /\ Without(s, p) \in Seq(Runs)
        /\ ToSet(Without(s, p)) = {s[i] : i \in {i \in DOMAIN s : s[i] # p}}
    BY PickedFrom DEF Without
  <1>2. ToSet(Without(s, p)) = ToSet(s) \ {p}
    BY <1>1 DEF ToSet
  <1>3. ASSUME NEW q \in Seq(Runs), p \in Runs
        PROVE  Append(q, p) \in Seq(Runs) /\ ToSet(Append(q, p)) = ToSet(q) \union {p}
    <2>1. DOMAIN Append(q, p) = 1..Len(q) + 1 /\ DOMAIN q = 1..Len(q) /\ Len(q) \in Nat
      BY <1>3
    <2>2. \A i \in 1..Len(q) : Append(q, p)[i] = q[i]
      BY <1>3
    <2>3. Append(q, p)[Len(q) + 1] = p
      BY <1>3
    <2>. QED
      BY <1>3, <2>1, <2>2, <2>3 DEF ToSet
  <1>. QED
    BY <1>1, <1>2, <1>3

-----------------------------------------------------------------------------
(* The rows of the runs and their lineages.  What follows is about a table *)
(* R of runs, since a transaction that creates several goes through        *)
(* tables that no state has.                                               *)

Rows == [status : RunStatus \union {"absent"}, parent : Nat, replaces : Nat,
         generation : 0..MaxChildReplacements, budget : Nat \union {Null},
         used : Nat, attempt : 0..MaxClaims]

Present(R) == {r \in Runs : R[r].status \in RunStatus}
LiveIn(R) == {r \in Runs : R[r].status \in RunStatus /\ ~isTerminal(R[r].status)}
SupersededIn(R) == {r \in Runs : \E s \in Runs : R[s].replaces = r}
ChildrenIn(R, p) == {c \in Present(R) : R[c].parent = p}

RootsOf(R) == CHOOSE roots : roots = [r \in Runs |->
                IF R[r].replaces \in 1..(r - 1) THEN roots[R[r].replaces] ELSE r]

\* The recursion of rootOf defines a function, and a root is not above its run.
LEMMA RootsExist ==
  ASSUME NEW R
  PROVE  /\ RootsOf(R) \in [Runs -> Runs]
         /\ \A r \in Runs :
              /\ RootsOf(R)[r] = IF R[r].replaces \in 1..(r - 1)
                                 THEN RootsOf(R)[R[r].replaces] ELSE r
              /\ RootsOf(R)[r] <= r
  <1>. DEFINE Up(r) == R[r].replaces \in 1..(r - 1)
              Roots(f, k) == f = [r \in 1..k |-> IF Up(r) THEN f[R[r].replaces] ELSE r]
              bad == {k \in Nat : ~ \E f : Roots(f, k)}
  <1>0. MaxRuns \in Nat
    BY DelegationAssumption
  <1>1. bad = {}
    <2>1. SUFFICES ASSUME bad # {} PROVE FALSE
      OBVIOUS
    <2>2. PICK k \in bad : \A j \in bad : k <= j
      <3>1. bad \in SUBSET Nat
        OBVIOUS
      <3>. HIDE DEF bad
      <3>. QED
        BY <2>1, <3>1, SmallestExists
    <2>3. Roots(<<>>, 0)
      OBVIOUS
    <2>4. k # 0
      BY <2>2, <2>3
    <2>5. k - 1 \in Nat /\ k - 1 \notin bad
      <3>1. k \in Nat
        BY <2>2
      <3>2. k - 1 \in Nat /\ ~(k <= k - 1)
        BY <2>4, <3>1
      <3>. HIDE DEF bad
      <3>. QED
        BY <2>2, <3>2
    <2>6. PICK f : Roots(f, k - 1)
      BY <2>5
    <2>. DEFINE h == [r \in 1..k |-> IF r = k THEN (IF Up(k) THEN f[R[k].replaces] ELSE k)
                                     ELSE f[r]]
    <2>7. \A r \in 1..k - 1 : h[r] = f[r] /\ f[r] = IF Up(r) THEN f[R[r].replaces] ELSE r
      BY <2>5, <2>6
    <2>8. \A r \in 1..k : r # k => r \in 1..k - 1
      BY <2>5
    <2>9. \A r \in 1..k : Up(r) => R[r].replaces \in 1..k - 1
      BY <2>5
    <2>10. \A r \in 1..k : h[r] = IF Up(r) THEN h[R[r].replaces] ELSE r
      <3>1. SUFFICES ASSUME NEW r \in 1..k PROVE h[r] = IF Up(r) THEN h[R[r].replaces] ELSE r
        OBVIOUS
      <3>2. CASE r = k
        <4>1. h[r] = IF Up(r) THEN f[R[r].replaces] ELSE r
          BY <3>2
        <4>. HIDE DEF h
        <4>. QED
          BY <4>1, <2>7, <2>9
      <3>3. CASE r # k
        <4>. HIDE DEF h
        <4>. QED
          BY <2>7, <2>8, <2>9, <3>3
      <3>. QED
        BY <3>2, <3>3
    <2>11. Roots(h, k)
      BY <2>10
    <2>. QED
      BY <2>2, <2>11
  <1>2. \E f : Roots(f, MaxRuns)
    BY <1>0, <1>1
  <1>3. Roots(RootsOf(R), MaxRuns)
    BY <1>2 DEF RootsOf, Runs
  <1>. DEFINE root == RootsOf(R)
  <1>. HIDE DEF root, Up
  <1>4. \A r \in Runs : root[r] = IF Up(r) THEN root[R[r].replaces] ELSE r
    BY <1>3 DEF root, Runs
  <1>. DEFINE wrong == {r \in Runs : ~(root[r] \in Runs /\ root[r] <= r)}
  <1>5. wrong = {}
    <2>1. SUFFICES ASSUME wrong # {} PROVE FALSE
      OBVIOUS
    <2>2. PICK k \in wrong : \A j \in wrong : k <= j
      <3>1. wrong \in SUBSET Nat
        BY DEF Runs
      <3>. HIDE DEF wrong
      <3>. QED
        BY <2>1, <3>1, SmallestExists
    <2>3. CASE ~Up(k)
      BY <1>4, <2>2, <2>3 DEF Runs
    <2>4. CASE Up(k)
      <3>. DEFINE m == R[k].replaces
      <3>1. m \in 1..(k - 1)
        BY <2>4 DEF Up
      <3>. HIDE DEF m
      <3>2. m \in Runs /\ m < k
        BY <1>0, <2>2, <3>1 DEF Runs
      <3>3. m \notin wrong
        <4>1. ~(k <= m)
          BY <2>2, <3>2 DEF Runs
        <4>. QED
          BY <2>2, <4>1
      <3>4. root[k] = root[m]
        BY <1>4, <2>2, <2>4 DEF m
      <3>. QED
        BY <2>2, <3>2, <3>3, <3>4 DEF Runs
    <2>. QED
      BY <2>3, <2>4
  <1>6. root \in [Runs -> Runs]
    BY <1>3, <1>5 DEF root, Runs
  <1>. QED
    BY <1>4, <1>5, <1>6 DEF root, Up

\* The roots of a table are the model's, when it is the state's.
LEMMA RootsOfState == rootOf = RootsOf(run)
  BY DEF rootOf, RootsOf

\* Roots depend on what the runs replace; another run that none replaces
\* changes only its own.
LEMMA RootsAgree ==
  ASSUME NEW R, NEW Q, NEW n \in 0..MaxRuns,
         \A r \in Runs \ {n} : R[r].replaces = Q[r].replaces,
         \A r \in Runs : n # 0 => R[r].replaces # n
  PROVE  \A r \in Runs \ {n} : RootsOf(R)[r] = RootsOf(Q)[r]
  <1>. DEFINE f == RootsOf(R)
              g == RootsOf(Q)
              bad == {r \in Runs \ {n} : f[r] # g[r]}
  <1>0. MaxRuns \in Nat
    BY DelegationAssumption
  <1>1. \A r \in Runs : /\ f[r] = IF R[r].replaces \in 1..(r - 1) THEN f[R[r].replaces] ELSE r
                        /\ g[r] = IF Q[r].replaces \in 1..(r - 1) THEN g[Q[r].replaces] ELSE r
    BY RootsExist
  <1>. HIDE DEF f, g
  <1>2. bad = {}
    <2>1. SUFFICES ASSUME bad # {} PROVE FALSE
      OBVIOUS
    <2>2. PICK k \in bad : \A j \in bad : k <= j
      <3>1. bad \in SUBSET Nat
        BY DEF Runs
      <3>. HIDE DEF bad
      <3>. QED
        BY <2>1, <3>1, SmallestExists
    <2>. DEFINE m == R[k].replaces
    <2>3. Q[k].replaces = m
      BY <2>2
    <2>4. m \in 1..(k - 1) => m # n
      BY <2>2 DEF Runs
    <2>. HIDE DEF m
    <2>5. m \in 1..(k - 1) => m \in Runs /\ ~(k <= m)
      BY <1>0, <2>2 DEF Runs
    <2>6. m \in 1..(k - 1) => f[m] = g[m]
      BY <2>2, <2>4, <2>5
    <2>. QED
      BY <1>1, <2>2, <2>3, <2>6 DEF m
  <1>. QED
    BY <1>2 DEF f, g

\* Runs are created in the order of their numbers; a run replaces one that
\* failed, once, with its parent and the next generation; and of the runs of
\* one subtask all but the newest are replaced.
LineageInv(R) ==
  /\ \A r \in Runs : /\ R[r].status = "absent" => R[r] = NoRun
                     /\ R[r].parent \in 0..(r - 1) /\ R[r].replaces \in 0..(r - 1)
  /\ \A r, s \in Runs : r < s /\ s \in Present(R) => r \in Present(R)
  /\ \A r \in Runs : R[r].replaces # None =>
       /\ R[R[r].replaces].status = "FAILED"
       /\ R[r].generation = R[R[r].replaces].generation + 1
       /\ R[r].parent = R[R[r].replaces].parent
  /\ \A r, s \in Runs : R[r].replaces # None /\ R[s].replaces = R[r].replaces => r = s
  /\ \A r, s \in Present(R) :
       r < s /\ RootsOf(R)[r] = RootsOf(R)[s] => r \in SupersededIn(R)

\* A live run of R changes: its status or what it used.
Moved(R, Q, u) ==
  /\ u \in LiveIn(R)
  /\ \A r \in Runs \ {u} : Q[r] = R[r]
  /\ Q[u].status \in RunStatus
  /\ /\ Q[u].parent = R[u].parent /\ Q[u].replaces = R[u].replaces
     /\ Q[u].generation = R[u].generation /\ Q[u].budget = R[u].budget

\* A live run has not been replaced, and of one subtask there is one run that
\* has not.
LEMMA CurrentIsOne ==
  ASSUME NEW R \in [Runs -> Rows], LineageInv(R)
  PROVE  /\ LiveIn(R) \cap SupersededIn(R) = {}
         /\ LiveIn(R) \subseteq Present(R) /\ SupersededIn(R) \subseteq Present(R)
         /\ \A c, d \in Present(R) \ SupersededIn(R) :
              RootsOf(R)[c] = RootsOf(R)[d] => c = d
  <1>1. \A r \in Runs : r \in SupersededIn(R) => R[r].status = "FAILED"
    BY DEF LineageInv, SupersededIn, Runs, None
  <1>2. "FAILED" \in RunStatus /\ isTerminal("FAILED")
    BY StatusTable
  <1>3. \A c, d \in Runs : c < d \/ d < c \/ c = d
    BY DelegationAssumption DEF Runs
  <1>. QED
    BY <1>1, <1>2, <1>3 DEF LiveIn, Present, LineageInv, SupersededIn

\* The lineages stay as they are when a live run moves.
LEMMA LineageMove ==
  ASSUME NEW R \in [Runs -> Rows], NEW Q \in [Runs -> Rows], NEW u,
         LineageInv(R), Moved(R, Q, u)
  PROVE  /\ LineageInv(Q)
         /\ Present(Q) = Present(R) /\ SupersededIn(Q) = SupersededIn(R)
         /\ \A r \in Runs : RootsOf(Q)[r] = RootsOf(R)[r]
         /\ \A p : ChildrenIn(Q, p) = ChildrenIn(R, p)
  <1>1. /\ u \in Runs /\ R[u].status \in RunStatus
        /\ R[u].status \notin {"COMPLETED", "FAILED", "CANCELLED", "absent"}
        /\ Q[u].status # "absent"
    BY StatusTable DEF Moved, LiveIn
  <1>2. \A r \in Runs : /\ Q[r].parent = R[r].parent /\ Q[r].replaces = R[r].replaces
                        /\ Q[r].generation = R[r].generation
                        /\ Q[r].status \in RunStatus <=> R[r].status \in RunStatus
                        /\ Q[r].status = "absent" => Q[r] = R[r] /\ R[r].status = "absent"
                        /\ R[r].status = "FAILED" => Q[r].status = "FAILED"
    BY <1>1 DEF Moved
  <1>3. Present(Q) = Present(R) /\ SupersededIn(Q) = SupersededIn(R)
    BY <1>2 DEF Present, SupersededIn
  <1>4. \A r \in Runs : RootsOf(Q)[r] = RootsOf(R)[r]
    <2>1. 0 \in 0..MaxRuns /\ 0 \notin Runs
      BY DelegationAssumption DEF Runs
    <2>. QED
      BY <1>2, <2>1, RootsAgree
  <1>5. \A p : ChildrenIn(Q, p) = ChildrenIn(R, p)
    BY <1>2, <1>3 DEF ChildrenIn, Present
  <1>6. \A r \in Runs : R[r].replaces # None => R[r].replaces \in Runs
    BY DelegationAssumption DEF LineageInv, Runs, None
  <1>7. Present(R) \subseteq Runs
    BY DEF Present
  <1>8. LineageInv(Q)
    <2>1. \A r \in Runs : /\ Q[r].status = "absent" => Q[r] = NoRun
                          /\ Q[r].parent \in 0..(r - 1) /\ Q[r].replaces \in 0..(r - 1)
      BY <1>2 DEF LineageInv
    <2>2. \A r, s \in Runs : r < s /\ s \in Present(Q) => r \in Present(Q)
      BY <1>3 DEF LineageInv
    <2>3. \A r \in Runs : Q[r].replaces # None =>
             /\ Q[Q[r].replaces].status = "FAILED"
             /\ Q[r].generation = Q[Q[r].replaces].generation + 1
             /\ Q[r].parent = Q[Q[r].replaces].parent
      BY <1>2, <1>6 DEF LineageInv
    <2>4. \A r, s \in Runs : Q[r].replaces # None /\ Q[s].replaces = Q[r].replaces => r = s
      BY <1>2 DEF LineageInv
    <2>5. \A r, s \in Present(Q) :
            r < s /\ RootsOf(Q)[r] = RootsOf(Q)[s] => r \in SupersededIn(Q)
      BY <1>3, <1>4, <1>7 DEF LineageInv
    <2>. QED
      BY <2>1, <2>2, <2>3, <2>4, <2>5 DEF LineageInv
  <1>. QED
    BY <1>3, <1>4, <1>5, <1>8

-----------------------------------------------------------------------------
(* Tokens.                                                                 *)

LineageIn(R, r) == {s \in Present(R) : RootsOf(R)[s] = RootsOf(R)[r]}
UsedIn(R) == [r \in Runs |-> R[r].used]
LeftIn(R) == [r \in Runs |-> Max({R[r].budget - R[r].used, 0})]
GivenIn(R, r) == R[RootsOf(R)[r]].budget

\* What the runs of a subtask used and what its current run may still use is
\* what the subtask was given.
BudgetInv(R) ==
  \A c \in Present(R) \ SupersededIn(R) : GivenIn(R, c) # Null =>
    /\ R[c].budget # Null
    /\ SumOver(LineageIn(R, c), UsedIn(R)) + R[c].budget = GivenIn(R, c) + R[c].used

\* Exactly the live runs hold a reservation, of their budget; with a daily
\* budget every run has one; and the tenant's limits hold.
AdmissionInv(R, A, day) ==
  /\ \A r \in Runs :
       /\ A[r].state = "active" <=> r \in LiveIn(R)
       /\ r \in LiveIn(R) =>
            A[r].reserved = IF R[r].budget = Null THEN 0 ELSE R[r].budget
       /\ R[r].budget # Null => R[r].used <= R[r].budget
       /\ r \in Present(R) /\ DailyBudget # Null => R[r].budget # Null
  /\ MaxConcurrent # Null => Cardinality(LiveIn(R)) <= MaxConcurrent
  /\ DailyBudget # Null => day + SumOver(LiveIn(R), LeftIn(R)) <= DailyBudget

Admissions == [state : {"none", "active", "released"}, reserved : Nat]

\* The tables of numbers are typed, and what is left is not negative.
LEMMA UsedAndLeft ==
  ASSUME NEW R \in [Runs -> Rows]
  PROVE  /\ UsedIn(R) \in [Runs -> Int]
         /\ LeftIn(R) \in [Runs -> Int]
         /\ \A r \in Runs :
              /\ LeftIn(R)[r] >= 0
              /\ R[r].budget # Null /\ R[r].used <= R[r].budget =>
                   LeftIn(R)[r] = R[r].budget - R[r].used
  <1>1. \A r \in Runs : R[r].used \in Nat /\ R[r].budget \in Nat \union {-1}
    BY DEF Rows, Null
  <1>2. \A r \in Runs : R[r].budget - R[r].used \in Int
    BY <1>1
  <1>3. \A r \in Runs : Max({R[r].budget - R[r].used, 0})
           = IF R[r].budget - R[r].used < 0 THEN 0 ELSE R[r].budget - R[r].used
    BY <1>2, MaxMin
  <1>. QED
    BY <1>1, <1>2, <1>3 DEF UsedIn, LeftIn

\* Runs are finitely many.
LEMMA RunsFinite ==
  ASSUME NEW S \in SUBSET Runs
  PROVE  IsFiniteSet(S) /\ Cardinality(S) \in Nat /\ S \in SUBSET Nat
  <1>1. IsFiniteSet(Runs)
    <2>1. 1 \in Int /\ MaxRuns \in Int
      BY DelegationAssumption
    <2>. QED
      BY <2>1, FS_Interval DEF Runs
  <1>2. IsFiniteSet(S)
    BY <1>1, FS_Subset
  <1>3. Runs \subseteq Nat
    BY DEF Runs
  <1>. QED
    BY <1>2, <1>3, FS_CardinalityType

\* A live run may use more of what its subtask was given.
LEMMA BudgetMove ==
  ASSUME NEW R \in [Runs -> Rows], NEW Q \in [Runs -> Rows], NEW u,
         LineageInv(R), BudgetInv(R), Moved(R, Q, u)
  PROVE  BudgetInv(Q)
  <1>. SUFFICES ASSUME NEW c \in Present(Q) \ SupersededIn(Q), GivenIn(Q, c) # Null
                PROVE  /\ Q[c].budget # Null
                       /\ SumOver(LineageIn(Q, c), UsedIn(Q)) + Q[c].budget
                            = GivenIn(Q, c) + Q[c].used
    BY DEF BudgetInv
  <1>1. /\ Present(Q) = Present(R) /\ SupersededIn(Q) = SupersededIn(R)
        /\ \A r \in Runs : RootsOf(Q)[r] = RootsOf(R)[r]
        /\ c \in Runs /\ Present(R) \subseteq Runs
    BY LineageMove DEF Present
  <1>2. \A r \in Runs : Q[r].budget = R[r].budget
    BY DEF Moved
  <1>3. GivenIn(Q, c) = GivenIn(R, c) /\ GivenIn(R, c) \in Nat \union {-1}
    BY <1>1, <1>2, RootsExist DEF GivenIn, Rows, Null
  <1>4. LineageIn(Q, c) = LineageIn(R, c)
    BY <1>1 DEF LineageIn
  <1>5. /\ R[c].budget # Null
        /\ SumOver(LineageIn(R, c), UsedIn(R)) + R[c].budget = GivenIn(R, c) + R[c].used
    BY <1>1, <1>3 DEF BudgetInv
  <1>6. /\ R[c].used \in Nat /\ Q[c].used \in Nat /\ R[c].budget \in Nat \union {-1}
        /\ u \in Runs /\ R[u].used \in Nat /\ Q[u].used \in Nat
    BY <1>1 DEF Rows, Null, Moved, LiveIn
  <1>7. u \in LineageIn(R, c) <=> u = c
    BY <1>1, CurrentIsOne DEF LineageIn, Moved
  <1>. DEFINE L == LineageIn(R, c)
  <1>8. /\ SumOver(L, UsedIn(R)) \in Int /\ SumOver(L, UsedIn(Q)) \in Int
        /\ SumOver(L, UsedIn(Q)) + Term(L, UsedIn(R), u)
             = SumOver(L, UsedIn(R)) + Term(L, UsedIn(Q), u)
    <2>1. UsedIn(R) \in [Runs -> Int] /\ UsedIn(Q) \in [Runs -> Int]
      BY UsedAndLeft
    <2>2. SameBut(L, L, UsedIn(R), UsedIn(Q), u)
      BY DEF UsedIn, Moved, SameBut
    <2>. HIDE DEF L
    <2>. QED
      BY <2>1, <2>2, SumAfterMove
  <1>9. UsedIn(R)[u] = R[u].used /\ UsedIn(Q)[u] = Q[u].used
    BY <1>6 DEF UsedIn
  <1>10. c # u => Q[c] = R[c]
    BY <1>1 DEF Moved
  <1>. QED
    BY <1>2, <1>3, <1>4, <1>5, <1>6, <1>7, <1>8, <1>9, <1>10 DEF Term

\* What a live run uses is counted today; a run that ends gives up what it has
\* left.
LEMMA AdmissionMove ==
  ASSUME NEW R \in [Runs -> Rows], NEW Q \in [Runs -> Rows], NEW u,
         NEW A, NEW B, NEW d \in Nat, NEW e \in Nat,
         AdmissionInv(R, A, d), Moved(R, Q, u),
         \A r \in Runs : /\ B[r].reserved = A[r].reserved
                         /\ r # u => B[r].state = A[r].state,
         B[u].state = "active" <=> u \in LiveIn(Q),
         Q[u].budget # Null => Q[u].used <= Q[u].budget,
         Q[u].used - R[u].used = e - d
  PROVE  AdmissionInv(Q, B, e)
  <1>1. /\ u \in Runs /\ u \in LiveIn(R) /\ \A r \in Runs \ {u} : Q[r] = R[r]
        /\ Q[u].budget = R[u].budget
    BY DEF Moved, LiveIn
  <1>2. \A r \in Runs \ {u} : r \in LiveIn(Q) <=> r \in LiveIn(R)
    BY <1>1 DEF LiveIn
  <1>3. LiveIn(Q) \subseteq LiveIn(R) /\ LiveIn(R) \subseteq Runs
    BY <1>1, <1>2 DEF LiveIn
  <1>4. \A r \in Runs :
       /\ B[r].state = "active" <=> r \in LiveIn(Q)
       /\ r \in LiveIn(Q) =>
            B[r].reserved = IF Q[r].budget = Null THEN 0 ELSE Q[r].budget
       /\ Q[r].budget # Null => Q[r].used <= Q[r].budget
       /\ r \in Present(Q) /\ DailyBudget # Null => Q[r].budget # Null
    <2>1. ASSUME NEW r \in Runs, r # u
          PROVE /\ B[r].state = "active" <=> r \in LiveIn(Q)
                /\ r \in LiveIn(Q) =>
                     B[r].reserved = IF Q[r].budget = Null THEN 0 ELSE Q[r].budget
                /\ Q[r].budget # Null => Q[r].used <= Q[r].budget
                /\ r \in Present(Q) /\ DailyBudget # Null => Q[r].budget # Null
      BY <1>1, <1>2, <2>1 DEF AdmissionInv, Present
    <2>2. u \in Present(R)
      BY <1>1 DEF LiveIn, Present
    <2>3. /\ u \in LiveIn(Q) =>
               B[u].reserved = IF Q[u].budget = Null THEN 0 ELSE Q[u].budget
          /\ DailyBudget # Null => Q[u].budget # Null
      BY <1>1, <2>2 DEF AdmissionInv
    <2>. QED
      BY <2>1, <2>3
  <1>5. MaxConcurrent # Null => Cardinality(LiveIn(Q)) <= MaxConcurrent
    <2>1. /\ Cardinality(LiveIn(Q)) \in Nat /\ Cardinality(LiveIn(R)) \in Nat
          /\ Cardinality(LiveIn(Q)) <= Cardinality(LiveIn(R))
      BY <1>3, RunsFinite, FS_Subset
    <2>2. MaxConcurrent # Null => MaxConcurrent \in Nat
      BY DelegationAssumption
    <2>. QED
      BY <2>1, <2>2 DEF AdmissionInv
  <1>6. DailyBudget # Null => e + SumOver(LiveIn(Q), LeftIn(Q)) <= DailyBudget
    <2>1. SUFFICES ASSUME DailyBudget # Null
                   PROVE  e + SumOver(LiveIn(Q), LeftIn(Q)) <= DailyBudget
      OBVIOUS
    <2>2. LeftIn(R) \in [Runs -> Int] /\ LeftIn(Q) \in [Runs -> Int] /\ LeftIn(Q)[u] >= 0
      BY <1>1, UsedAndLeft
    <2>3. SameBut(LiveIn(R), LiveIn(Q), LeftIn(R), LeftIn(Q), u)
      BY <1>1, <1>2 DEF LeftIn, SameBut
    <2>4. /\ SumOver(LiveIn(R), LeftIn(R)) \in Int /\ SumOver(LiveIn(Q), LeftIn(Q)) \in Int
          /\ SumOver(LiveIn(Q), LeftIn(Q)) + Term(LiveIn(R), LeftIn(R), u)
              = SumOver(LiveIn(R), LeftIn(R)) + Term(LiveIn(Q), LeftIn(Q), u)
      BY <2>2, <2>3, SumAfterMove
    <2>5. R[u].budget # Null /\ R[u].used <= R[u].budget
      BY <1>1, <2>1 DEF AdmissionInv, LiveIn, Present
    <2>6. LeftIn(R)[u] = R[u].budget - R[u].used /\ LeftIn(Q)[u] = Q[u].budget - Q[u].used
      BY <1>1, <2>5, UsedAndLeft
    <2>7. /\ R[u].used \in Nat /\ Q[u].used \in Nat /\ R[u].budget \in Nat \union {-1}
          /\ DailyBudget \in Nat
      BY <1>1, <2>1, DelegationAssumption DEF Rows, Null
    <2>8. d + SumOver(LiveIn(R), LeftIn(R)) <= DailyBudget
      BY <2>1 DEF AdmissionInv
    <2>. QED
      BY <1>1, <2>2, <2>4, <2>6, <2>7, <2>8 DEF Term
  <1>. QED
    BY <1>4, <1>5, <1>6 DEF AdmissionInv

-----------------------------------------------------------------------------
(* Creation.                                                               *)

Rejections == {"tenant_unavailable", "concurrency_exhausted", "token_capacity_exhausted"}
TableType == [run : [Runs -> Rows], admission : [Runs -> Admissions],
              rejected : Rejections \union {"none"}]
News == [parent : Nat, replaces : Nat, generation : 0..MaxChildReplacements,
         budget : Nat \union {Null}]

\* The run asked for: a child of a run there is, and if it replaces one, of
\* one that failed, in its place and with what it has left.
Fits(R, new) ==
  /\ new \in News
  /\ new.parent = None \/ new.parent \in Present(R)
  /\ new.replaces # None => LET c == new.replaces IN
       /\ c \in Present(R) \ SupersededIn(R)
       /\ R[c].status = "FAILED"
       /\ new.generation = R[c].generation + 1 /\ new.parent = R[c].parent
       /\ new.budget = IF R[c].budget = Null THEN Null ELSE R[c].budget - R[c].used

\* Q is R with the run n, the first that there is not in R, of budget b.
Added(R, Q, n, new, b) ==
  /\ n \in Runs /\ R[n] = NoRun
  /\ \A s \in Runs : R[s] = NoRun => n <= s
  /\ \A r \in Runs \ {n} : Q[r] = R[r]
  /\ Q[n].status = "QUEUED" /\ Q[n].parent = new.parent /\ Q[n].replaces = new.replaces
  /\ Q[n].generation = new.generation /\ Q[n].budget = b
  /\ Q[n].used = 0 /\ Q[n].attempt = 0
  /\ new.budget # Null => b = new.budget

\* A run is added behind the others, and its lineage is that of the run it
\* replaces or its own.
LEMMA LineageAdd ==
  ASSUME NEW R \in [Runs -> Rows], NEW Q \in [Runs -> Rows], NEW n, NEW new, NEW b,
         LineageInv(R), Fits(R, new), Added(R, Q, n, new, b)
  PROVE  /\ LineageInv(Q)
         /\ Present(Q) = Present(R) \union {n} /\ n \notin Present(R)
         /\ SupersededIn(Q) = SupersededIn(R) \union ({new.replaces} \ {None})
         /\ n \notin SupersededIn(Q)
         /\ \A r \in Runs : r # n => RootsOf(Q)[r] = RootsOf(R)[r]
         /\ RootsOf(Q)[n] = IF new.replaces = None THEN n ELSE RootsOf(R)[new.replaces]
         /\ \A r \in Present(R) : r < n
         /\ \A r \in Runs : R[r].replaces # n /\ R[r].parent # n
  <1>0. n \in Runs /\ Runs \subseteq Nat /\ 0 \notin Runs /\ MaxRuns \in Nat
    BY DelegationAssumption DEF Added, Runs
  <1>1. n \notin Present(R) /\ R[n].replaces = 0 /\ R[n].parent = 0
    BY StatusTable DEF Added, Present, NoRun, None
  <1>2. \A r \in Runs : r \notin Present(R) => R[r] = NoRun
    BY DEF LineageInv, Present, Rows
  <1>3. \A r \in Present(R) : r \in Runs /\ r < n
    <2>1. SUFFICES ASSUME NEW r \in Present(R) PROVE r \in Runs /\ r < n
      OBVIOUS
    <2>2. r \in Runs /\ r # n
      BY <1>1 DEF Present
    <2>3. ~(n < r)
      BY <1>0, <1>1, <2>2 DEF LineageInv
    <2>. QED
      BY <1>0, <2>2, <2>3
  <1>4. \A r \in Runs : R[r].replaces # n /\ R[r].parent # n
    <2>1. SUFFICES ASSUME NEW r \in Runs PROVE R[r].replaces # n /\ R[r].parent # n
      OBVIOUS
    <2>2. CASE r \in Present(R)
      BY <1>0, <1>3, <2>2 DEF LineageInv
    <2>3. CASE r \notin Present(R)
      BY <1>0, <1>2, <2>3 DEF NoRun, None
    <2>. QED
      BY <2>2, <2>3
  <1>5. "QUEUED" \in RunStatus /\ "FAILED" \in RunStatus /\ "absent" \notin RunStatus
    BY StatusTable
  <1>6. Present(Q) = Present(R) \union {n}
    BY <1>0, <1>5 DEF Present, Added
  <1>7. new.replaces = 0 \/ (new.replaces \in Present(R) /\ new.replaces \in Runs /\ new.replaces < n)
    BY <1>3 DEF Fits, None
  <1>8. SupersededIn(Q) = SupersededIn(R) \union ({new.replaces} \ {None})
    <2>1. \A r \in Runs : r \in SupersededIn(Q) <=> r \in SupersededIn(R) \/ r = new.replaces
      <3>1. \A r, s \in Runs : s # n => (Q[s].replaces = r <=> R[s].replaces = r)
        BY DEF Added
      <3>2. \A r \in Runs : Q[n].replaces = r <=> r = new.replaces
        BY DEF Added
      <3>3. \A r \in Runs : R[n].replaces # r
        BY <1>0, <1>1
      <3>. QED
        BY <1>0, <3>1, <3>2, <3>3 DEF SupersededIn
    <2>2. SupersededIn(Q) \subseteq Runs /\ SupersededIn(R) \subseteq Runs
      BY DEF SupersededIn
    <2>. QED
      BY <1>0, <1>7, <2>1, <2>2 DEF None
  <1>9. n \notin SupersededIn(Q)
    BY <1>0, <1>4, <1>7, <1>8 DEF SupersededIn, None
  <1>10. \A r \in Runs : r # n => RootsOf(Q)[r] = RootsOf(R)[r]
    <2>1. n \in 0..MaxRuns
      BY <1>0 DEF Runs
    <2>2. \A r \in Runs \ {n} : R[r].replaces = Q[r].replaces
      BY DEF Added
    <2>3. \A r \in Runs : n # 0 => R[r].replaces # n
      BY <1>4
    <2>. QED
      BY <2>1, <2>2, <2>3, RootsAgree
  <1>11. RootsOf(Q)[n] = IF new.replaces = None THEN n ELSE RootsOf(R)[new.replaces]
    <2>1. RootsOf(Q)[n] = IF new.replaces \in 1..(n - 1) THEN RootsOf(Q)[new.replaces] ELSE n
      BY <1>0, RootsExist DEF Added
    <2>2. CASE new.replaces = 0
      BY <2>1, <2>2 DEF None
    <2>3. CASE new.replaces # 0
      <3>1. new.replaces \in 1..(n - 1) /\ new.replaces \in Runs /\ new.replaces # n
        BY <1>0, <1>7, <2>3 DEF Runs
      <3>. QED
        BY <1>10, <2>1, <2>3, <3>1 DEF None
    <2>. QED
      BY <2>2, <2>3
  <1>12. LineageInv(Q)
    <2>1. ASSUME NEW r \in Runs
          PROVE  /\ Q[r].status = "absent" => Q[r] = NoRun
                 /\ Q[r].parent \in 0..(r - 1) /\ Q[r].replaces \in 0..(r - 1)
      <3>1. CASE r # n
        BY <3>1 DEF LineageInv, Added
      <3>2. CASE r = n
        <4>1. new.parent = 0 \/ (new.parent \in Nat /\ new.parent < n)
          BY <1>0, <1>3 DEF Fits, None
        <4>2. new.replaces = 0 \/ (new.replaces \in Nat /\ new.replaces < n)
          BY <1>0, <1>7
        <4>3. Q[r].status # "absent" /\ Q[r].parent = new.parent /\ Q[r].replaces = new.replaces
          BY <3>2 DEF Added
        <4>4. n \in Nat /\ n > 0
          BY <1>0 DEF Runs
        <4>. QED
          BY <3>2, <4>1, <4>2, <4>3, <4>4
      <3>. QED
        BY <3>1, <3>2
    <2>2. ASSUME NEW r \in Runs, NEW s \in Runs, r < s, s \in Present(Q)
          PROVE  r \in Present(Q)
      <3>1. CASE s # n
        BY <1>6, <2>2, <3>1 DEF LineageInv
      <3>2. CASE s = n
        BY <1>0, <1>2, <1>6, <2>2, <3>2 DEF Added
      <3>. QED
        BY <3>1, <3>2
    <2>3. ASSUME NEW r \in Runs, Q[r].replaces # None
          PROVE  /\ Q[Q[r].replaces].status = "FAILED"
                 /\ Q[r].generation = Q[Q[r].replaces].generation + 1
                 /\ Q[r].parent = Q[Q[r].replaces].parent
      <3>1. CASE r # n
        <4>1. Q[r] = R[r] /\ R[r].replaces # n
          BY <1>4, <3>1 DEF Added
        <4>2. R[r].replaces \in Runs
          BY <1>0, <2>3, <4>1 DEF LineageInv, Runs, None
        <4>. QED
          BY <2>3, <4>1, <4>2 DEF LineageInv, Added
      <3>2. CASE r = n
        <4>1. Q[r].replaces = new.replaces /\ Q[r].generation = new.generation
              /\ Q[r].parent = new.parent
          BY <3>2 DEF Added
        <4>2. new.replaces \in Runs /\ new.replaces # n
          BY <1>0, <1>7, <2>3, <4>1 DEF None
        <4>3. Q[new.replaces] = R[new.replaces]
          BY <4>2 DEF Added
        <4>. QED
          BY <2>3, <4>1, <4>3 DEF Fits
      <3>. QED
        BY <3>1, <3>2
    <2>4. ASSUME NEW r \in Runs, NEW s \in Runs, Q[r].replaces # None,
                 Q[s].replaces = Q[r].replaces
          PROVE  r = s
      <3>1. CASE r # n /\ s # n
        <4>1. Q[r] = R[r] /\ Q[s] = R[s]
          BY <3>1 DEF Added
        <4>. QED
          BY <2>4, <4>1 DEF LineageInv
      <3>2. ASSUME NEW x \in Runs, x # n, Q[x].replaces = new.replaces,
                   new.replaces # None
            PROVE  FALSE
        <4>1. R[x].replaces = new.replaces
          BY <3>2 DEF Added
        <4>2. new.replaces \in SupersededIn(R)
          BY <1>7, <3>2, <4>1 DEF SupersededIn, None
        <4>. QED
          BY <3>2, <4>2 DEF Fits
      <3>3. Q[n].replaces = new.replaces
        BY DEF Added
      <3>. QED
        BY <2>4, <3>1, <3>2, <3>3
    <2>5. ASSUME NEW r \in Present(Q), NEW s \in Present(Q), r < s,
                 RootsOf(Q)[r] = RootsOf(Q)[s]
          PROVE  r \in SupersededIn(Q)
      <3>1. r \in Runs /\ s \in Runs
        BY DEF Present
      <3>2. r # n
        BY <1>0, <1>3, <1>6, <2>5, <3>1
      <3>3. CASE s # n
        BY <1>6, <1>8, <1>10, <2>5, <3>1, <3>2, <3>3 DEF LineageInv
      <3>4. CASE s = n
        <4>1. new.replaces # None
          <5>1. RootsOf(R)[r] <= r /\ RootsOf(R)[r] \in Runs
            BY <3>1, RootsExist
          <5>. QED
            BY <1>0, <1>10, <1>11, <2>5, <3>1, <3>2, <3>4, <5>1
        <4>. DEFINE c == new.replaces
        <4>2. c \in Present(R) \ SupersededIn(R) /\ c \in Runs
          BY <1>7, <4>1 DEF Fits, None
        <4>3. RootsOf(R)[r] = RootsOf(R)[c]
          BY <1>10, <1>11, <2>5, <3>1, <3>2, <3>4, <4>1
        <4>4. c \in SupersededIn(Q)
          BY <1>8, <4>1
        <4>5. r \in Present(R)
          BY <1>6, <3>2
        <4>. HIDE DEF c
        <4>6. r < c => r \in SupersededIn(R)
          BY <4>2, <4>3, <4>5 DEF LineageInv
        <4>7. ~(c < r)
          BY <4>2, <4>3, <4>5 DEF LineageInv
        <4>8. r < c \/ c < r \/ r = c
          BY <1>0, <3>1, <4>2
        <4>. QED
          BY <1>8, <4>4, <4>6, <4>7, <4>8
      <3>. QED
        BY <3>3, <3>4
    <2>. QED
      BY <2>1, <2>2, <2>3, <2>4, <2>5 DEF LineageInv
  <1>. QED
    BY <1>1, <1>3, <1>4, <1>6, <1>8, <1>9, <1>10, <1>11, <1>12

\* A new subtask has used nothing of its budget; a replacement goes on with
\* what is left of the one it replaces.
LEMMA BudgetAdd ==
  ASSUME NEW R \in [Runs -> Rows], NEW Q \in [Runs -> Rows], NEW n, NEW new,
         NEW b \in Nat \union {Null},
         LineageInv(R), BudgetInv(R), Fits(R, new), Added(R, Q, n, new, b),
         \A r \in Runs : R[r].budget # Null => R[r].used <= R[r].budget
  PROVE  BudgetInv(Q)
  <1>. SUFFICES ASSUME NEW c \in Present(Q) \ SupersededIn(Q), GivenIn(Q, c) # Null
                PROVE  /\ Q[c].budget # Null
                       /\ SumOver(LineageIn(Q, c), UsedIn(Q)) + Q[c].budget
                            = GivenIn(Q, c) + Q[c].used
    BY DEF BudgetInv
  <1>0. n \in Runs /\ Runs \subseteq Nat /\ 0 \notin Runs /\ MaxRuns \in Nat
    BY DelegationAssumption DEF Added, Runs
  <1>1. /\ Present(Q) = Present(R) \union {n} /\ n \notin Present(R)
        /\ SupersededIn(Q) = SupersededIn(R) \union ({new.replaces} \ {None})
        /\ n \notin SupersededIn(Q)
        /\ \A r \in Runs : r # n => RootsOf(Q)[r] = RootsOf(R)[r]
        /\ RootsOf(Q)[n] = IF new.replaces = None THEN n ELSE RootsOf(R)[new.replaces]
        /\ \A r \in Present(R) : r < n
    BY LineageAdd
  <1>2. \A r \in Runs : RootsOf(R)[r] <= r /\ RootsOf(R)[r] \in Runs
    BY RootsExist
  <1>3. Present(R) \subseteq Runs /\ c \in Runs
    BY <1>0, <1>1 DEF Present
  <1>4. \A r \in Present(R) : RootsOf(R)[r] < n /\ RootsOf(R)[r] \in Runs
    <2>1. ASSUME NEW r \in Present(R) PROVE RootsOf(R)[r] < n /\ RootsOf(R)[r] \in Runs
      <3>1. r \in Nat /\ RootsOf(R)[r] \in Nat /\ RootsOf(R)[r] <= r /\ r < n /\ n \in Nat
        BY <1>0, <1>1, <1>2, <1>3
      <3>. QED
        BY <1>2, <1>3, <3>1
    <2>. QED
      BY <2>1
  <1>5. \A r \in Runs \ {n} : Q[r] = R[r]
    BY DEF Added
  <1>6. UsedIn(R) \in [Runs -> Int] /\ UsedIn(Q) \in [Runs -> Int]
    BY UsedAndLeft
  <1>7. CASE c # n
    <2>1. c \in Present(R) \ SupersededIn(R) /\ Q[c] = R[c]
      BY <1>1, <1>3, <1>5, <1>7
    <2>2. RootsOf(Q)[c] = RootsOf(R)[c] /\ RootsOf(R)[c] < n /\ RootsOf(R)[c] \in Runs
      BY <1>1, <1>3, <1>4, <1>7, <2>1
    <2>3. GivenIn(Q, c) = GivenIn(R, c)
      <3>1. RootsOf(R)[c] # n
        BY <1>0, <2>2
      <3>. QED
        BY <1>5, <2>2, <3>1 DEF GivenIn
    <2>4. RootsOf(Q)[n] # RootsOf(Q)[c]
      <3>1. CASE new.replaces = None
        BY <1>0, <1>1, <2>2, <3>1
      <3>2. CASE new.replaces # None
        <4>. DEFINE d == new.replaces
        <4>1. d \in Present(R) \ SupersededIn(R) /\ c # d
          BY <1>1, <3>2 DEF Fits
        <4>. HIDE DEF d
        <4>2. RootsOf(R)[d] # RootsOf(R)[c]
          BY <2>1, <4>1, CurrentIsOne
        <4>. QED
          BY <1>1, <2>2, <3>2, <4>2 DEF d
      <3>. QED
        BY <3>1, <3>2
    <2>5. LineageIn(Q, c) = LineageIn(R, c)
      BY <1>1, <1>3, <1>7, <2>4 DEF LineageIn
    <2>. DEFINE L == LineageIn(R, c)
    <2>6. n \notin L
      BY <1>1 DEF LineageIn
    <2>7. SameBut(L, L, UsedIn(R), UsedIn(Q), n)
      BY <1>5 DEF SameBut, UsedIn
    <2>. HIDE DEF L
    <2>8. /\ SumOver(L, UsedIn(R)) \in Int /\ SumOver(L, UsedIn(Q)) \in Int
          /\ SumOver(L, UsedIn(Q)) + Term(L, UsedIn(R), n)
               = SumOver(L, UsedIn(R)) + Term(L, UsedIn(Q), n)
      BY <1>6, <2>7, SumAfterMove
    <2>9. SumOver(L, UsedIn(Q)) = SumOver(L, UsedIn(R))
      BY <2>6, <2>8 DEF Term
    <2>. QED
      BY <2>1, <2>3, <2>5, <2>9 DEF BudgetInv, L
  <1>8. CASE c = n /\ new.replaces = None
    <2>1. RootsOf(Q)[n] = n
      BY <1>1, <1>8
    <2>2. LineageIn(Q, n) = {n}
      <3>1. \A r \in Present(R) : RootsOf(Q)[r] # n
        <4>1. \A r \in Present(R) : /\ RootsOf(Q)[r] = RootsOf(R)[r]
                                   /\ RootsOf(R)[r] < n /\ RootsOf(R)[r] \in Nat /\ n \in Nat
          BY <1>0, <1>1, <1>3, <1>4
        <4>. QED
          BY <4>1
      <3>. QED
        BY <1>1, <2>1, <3>1 DEF LineageIn
    <2>3. UsedIn(Q)[n] = 0
      BY <1>0 DEF UsedIn, Added
    <2>4. SumOver({n}, UsedIn(Q)) = 0
      BY <1>6, <2>3, SumOfNone
    <2>5. GivenIn(Q, n) = b /\ Q[n].budget = b /\ Q[n].used = 0
      BY <2>1 DEF GivenIn, Added
    <2>. QED
      BY <1>8, <2>2, <2>4, <2>5
  <1>9. CASE c = n /\ new.replaces # None
    <2>. DEFINE d == new.replaces
    <2>1. d \in Present(R) \ SupersededIn(R) /\ d \in Runs /\ d # n
      BY <1>1, <1>3, <1>9 DEF Fits
    <2>2. RootsOf(Q)[n] = RootsOf(R)[d] /\ RootsOf(Q)[d] = RootsOf(R)[d]
      BY <1>1, <1>9, <2>1
    <2>3. GivenIn(Q, n) = GivenIn(R, d)
      <3>1. RootsOf(R)[d] \in Runs /\ RootsOf(R)[d] # n
        BY <1>0, <1>4, <2>1
      <3>. QED
        BY <1>5, <2>2, <3>1 DEF GivenIn
    <2>4. /\ R[d].budget # Null
          /\ SumOver(LineageIn(R, d), UsedIn(R)) + R[d].budget = GivenIn(R, d) + R[d].used
      BY <1>9, <2>1, <2>3 DEF BudgetInv
    <2>5. new.budget = R[d].budget - R[d].used
      BY <1>9, <2>4 DEF Fits
    <2>6. new.budget # Null => b = new.budget
      BY DEF Added
    <2>7. new.budget # Null
      <3>1. R[d].used \in Nat /\ R[d].budget \in Nat /\ R[d].used <= R[d].budget
        BY <2>1, <2>4 DEF Rows
      <3>. QED
        BY <2>5, <3>1 DEF Null
    <2>. DEFINE S == LineageIn(R, d)
                T == LineageIn(Q, n)
    <2>8. n \notin S /\ n \in T
      BY <1>1 DEF LineageIn
    <2>9. SameBut(S, T, UsedIn(R), UsedIn(Q), n)
      <3>1. \A r \in Runs \ {n} : r \in S <=> r \in T
        BY <1>1, <1>3, <2>2 DEF LineageIn
      <3>. QED
        BY <1>5, <3>1 DEF SameBut, UsedIn
    <2>. HIDE DEF S, T, d
    <2>10. /\ SumOver(S, UsedIn(R)) \in Int /\ SumOver(T, UsedIn(Q)) \in Int
           /\ SumOver(T, UsedIn(Q)) + Term(S, UsedIn(R), n)
                = SumOver(S, UsedIn(R)) + Term(T, UsedIn(Q), n)
      BY <1>6, <2>9, SumAfterMove
    <2>11. UsedIn(Q)[n] = 0 /\ Q[n].used = 0 /\ Q[n].budget = b
      BY <1>0 DEF UsedIn, Added
    <2>12. SumOver(T, UsedIn(Q)) = SumOver(S, UsedIn(R))
      BY <2>8, <2>10, <2>11 DEF Term
    <2>13. R[d].used \in Nat /\ R[d].budget \in Nat
      BY <2>1, <2>4 DEF Rows
    <2>14. GivenIn(R, d) \in Nat
      <3>1. RootsOf(R)[d] \in Runs
        BY <1>2, <2>1
      <3>2. R[RootsOf(R)[d]] \in Rows
        BY <3>1
      <3>. QED
        BY <1>9, <2>3, <3>2 DEF GivenIn, Rows
    <2>15. b = R[d].budget - R[d].used
      BY <2>5, <2>6, <2>7
    <2>16. SumOver(S, UsedIn(R)) + R[d].budget = GivenIn(R, d) + R[d].used
      BY <2>4 DEF S
    <2>17. SumOver(T, UsedIn(Q)) + b = GivenIn(R, d) + 0
      <3>1. PICK x \in Int : x = SumOver(S, UsedIn(R))
        BY <2>10
      <3>2. PICK y \in Nat, z \in Nat, g \in Nat :
              y = R[d].budget /\ z = R[d].used /\ g = GivenIn(R, d)
        BY <2>13, <2>14
      <3>3. x + y = g + z /\ b = y - z
        BY <2>15, <2>16, <3>1, <3>2
      <3>4. x + b = g + 0
        BY <3>3
      <3>. QED
        BY <2>12, <3>1, <3>2, <3>4
    <2>18. T = LineageIn(Q, n)
      BY DEF T
    <2>. QED
      BY <1>9, <2>3, <2>11, <2>17, <2>18, <2>13, <2>7, <2>6
  <1>. QED
    BY <1>7, <1>8, <1>9

\* A run is admitted within what is left of today's tokens and of the runs the
\* tenant may have.
LEMMA AdmissionAdd ==
  ASSUME NEW t \in TableType, NEW Q \in [Runs -> Rows], NEW B \in [Runs -> Admissions],
         NEW n, NEW new, NEW b \in Nat \union {Null},
         usedToday \in Nat, AdmissionInv(t.run, t.admission, usedToday),
         Fits(t.run, new), Added(t.run, Q, n, new, b),
         \A r \in Runs \ {n} : B[r] = t.admission[r],
         B[n].state = "active", B[n].reserved = IF b = Null THEN 0 ELSE b,
         MaxConcurrent # Null => Cardinality(ActiveIn(t)) < MaxConcurrent,
         DailyBudget # Null => b \in 1..Available(t)
  PROVE  AdmissionInv(Q, B, usedToday)
  <1>. DEFINE R == t.run
              A == t.admission
  <1>0. R \in [Runs -> Rows] /\ A \in [Runs -> Admissions]
    BY DEF TableType
  <1>1. /\ AdmissionInv(R, A, usedToday) /\ Added(R, Q, n, new, b)
        /\ \A r \in Runs \ {n} : B[r] = A[r]
    OBVIOUS
  <1>2. ActiveIn(t) = LiveIn(R)
    <2>1. ActiveIn(t) = {r \in Runs : A[r].state = "active" /\ ~isTerminal(R[r].status)}
      BY DEF ActiveIn
    <2>. HIDE DEF R, A
    <2>. QED
      BY <1>1, <2>1 DEF LiveIn, AdmissionInv
  <1>. DEFINE F == [r \in Runs |-> Max({A[r].reserved - R[r].used, 0})]
  <1>3. Available(t) = DailyBudget - usedToday - SumOver(LiveIn(R), F)
    BY <1>2 DEF Available
  <1>. HIDE DEF R, A
  <1>4. /\ n \in Runs /\ \A r \in Runs \ {n} : Q[r] = R[r]
        /\ n \in LiveIn(Q) /\ n \notin LiveIn(R) /\ n \in Present(Q)
        /\ Q[n].budget = b /\ Q[n].used = 0
    BY <1>1, StatusTable DEF Added, LiveIn, Present, NoRun
  <1>5. \A r \in Runs \ {n} : r \in LiveIn(Q) <=> r \in LiveIn(R)
    BY <1>4 DEF LiveIn
  <1>6. LiveIn(Q) = LiveIn(R) \union {n} /\ LiveIn(R) \in SUBSET Runs
    BY <1>4, <1>5 DEF LiveIn
  <1>7. ASSUME NEW r \in Runs
        PROVE  /\ B[r].state = "active" <=> r \in LiveIn(Q)
               /\ r \in LiveIn(Q) =>
                    B[r].reserved = IF Q[r].budget = Null THEN 0 ELSE Q[r].budget
               /\ Q[r].budget # Null => Q[r].used <= Q[r].budget
               /\ r \in Present(Q) /\ DailyBudget # Null => Q[r].budget # Null
    <2>1. CASE r # n
      <3>1. B[r] = A[r] /\ Q[r] = R[r]
        BY <1>1, <1>4, <2>1
      <3>. QED
        BY <1>1, <1>5, <2>1, <3>1 DEF AdmissionInv, Present
    <2>2. CASE r = n
      <3>1. b # Null => 0 <= b
        BY DEF Null
      <3>2. DailyBudget # Null => b # Null
        BY DEF Null
      <3>. QED
        BY <1>4, <2>2, <3>1, <3>2
    <2>. QED
      BY <2>1, <2>2
  <1>8. MaxConcurrent # Null => Cardinality(LiveIn(Q)) <= MaxConcurrent
    <2>1. SUFFICES ASSUME MaxConcurrent # Null PROVE Cardinality(LiveIn(Q)) <= MaxConcurrent
      OBVIOUS
    <2>2. IsFiniteSet(LiveIn(R)) /\ Cardinality(LiveIn(R)) \in Nat
      BY <1>6, RunsFinite
    <2>3. Cardinality(LiveIn(Q)) = Cardinality(LiveIn(R)) + 1
      BY <1>4, <1>6, <2>2, FS_AddElement
    <2>4. MaxConcurrent \in Nat /\ Cardinality(LiveIn(R)) < MaxConcurrent
      BY <1>2, <2>1, DelegationAssumption
    <2>. QED
      BY <2>2, <2>3, <2>4
  <1>9. DailyBudget # Null => usedToday + SumOver(LiveIn(Q), LeftIn(Q)) <= DailyBudget
    <2>1. SUFFICES ASSUME DailyBudget # Null
                   PROVE  usedToday + SumOver(LiveIn(Q), LeftIn(Q)) <= DailyBudget
      OBVIOUS
    <2>2. \A r \in Runs : A[r].reserved \in Nat /\ R[r].used \in Nat
                          /\ R[r].budget \in Nat \union {-1}
      BY <1>0 DEF Admissions, Rows, Null
    <2>3. \A r \in Runs : Max({A[r].reserved - R[r].used, 0}) \in Int
      <3>1. ASSUME NEW r \in Runs PROVE Max({A[r].reserved - R[r].used, 0}) \in Int
        <4>1. A[r].reserved - R[r].used \in Int
          BY <2>2
        <4>. QED
          BY <4>1, MaxMin
      <3>. QED
        BY <3>1
    <2>4. F \in [Runs -> Int] /\ LeftIn(R) \in [Runs -> Int] /\ LeftIn(Q) \in [Runs -> Int]
      BY <1>0, <2>3, UsedAndLeft
    <2>5. SameBut(LiveIn(R), LiveIn(R), LeftIn(R), F, 0)
      <3>1. ASSUME NEW r \in LiveIn(R) PROVE LeftIn(R)[r] = F[r]
        <4>1. r \in Runs /\ r \in Present(R)
          BY DEF LiveIn, Present
        <4>2. A[r].reserved = R[r].budget
          BY <1>1, <2>1, <4>1 DEF AdmissionInv
        <4>. QED
          BY <4>1, <4>2 DEF LeftIn
      <3>. HIDE DEF F
      <3>. QED
        BY <3>1 DEF SameBut
    <2>. HIDE DEF F
    <2>6. /\ SumOver(LiveIn(R), LeftIn(R)) \in Int /\ SumOver(LiveIn(R), F) \in Int
          /\ SumOver(LiveIn(R), F) + Term(LiveIn(R), LeftIn(R), 0)
               = SumOver(LiveIn(R), LeftIn(R)) + Term(LiveIn(R), F, 0)
      BY <2>4, <2>5, SumAfterMove
    <2>7. SumOver(LiveIn(R), F) = SumOver(LiveIn(R), LeftIn(R))
      <3>1. 0 \notin Runs
        BY DEF Runs
      <3>. QED
        BY <2>6, <3>1 DEF Term
    <2>8. SameBut(LiveIn(R), LiveIn(Q), LeftIn(R), LeftIn(Q), n)
      BY <1>4, <1>5 DEF SameBut, LeftIn
    <2>9. /\ SumOver(LiveIn(Q), LeftIn(Q)) \in Int
          /\ SumOver(LiveIn(Q), LeftIn(Q)) + Term(LiveIn(R), LeftIn(R), n)
               = SumOver(LiveIn(R), LeftIn(R)) + Term(LiveIn(Q), LeftIn(Q), n)
      BY <2>4, <2>8, SumAfterMove
    <2>10. b \in Nat /\ b <= DailyBudget - usedToday - SumOver(LiveIn(R), F)
           /\ DailyBudget \in Nat
      BY <1>3, <2>1, DelegationAssumption DEF Null
    <2>11. LeftIn(Q)[n] = b
      <3>1. Q[n].budget # Null /\ Q[n].used <= Q[n].budget
        BY <1>4, <2>10 DEF Null
      <3>2. LeftIn(Q)[n] = Q[n].budget - Q[n].used
        BY <1>4, <3>1, UsedAndLeft
      <3>. QED
        BY <1>4, <2>10, <3>2
    <2>12. SumOver(LiveIn(Q), LeftIn(Q)) = SumOver(LiveIn(R), LeftIn(R)) + b
      BY <1>4, <2>6, <2>9, <2>10, <2>11 DEF Term
    <2>. QED
      BY <2>6, <2>7, <2>10, <2>12
  <1>. QED
    BY <1>7, <1>8, <1>9 DEF AdmissionInv

\* What an admitted run is in both tables.
AdmittedAs(t, u, n, new, b) ==
  \E row \in Rows, adm \in Admissions :
    /\ row.status = "QUEUED" /\ row.parent = new.parent /\ row.replaces = new.replaces
    /\ row.generation = new.generation /\ row.budget = b
    /\ row.used = 0 /\ row.attempt = 0
    /\ adm.state = "active" /\ adm.reserved = IF b = Null THEN 0 ELSE b
    /\ u.run = [t.run EXCEPT ![n] = row] /\ u.admission = [t.admission EXCEPT ![n] = adm]
    /\ new.budget # Null => b = new.budget
    /\ MaxConcurrent # Null => Cardinality(ActiveIn(t)) < MaxConcurrent
    /\ DailyBudget # Null => b \in 1..Available(t)

\* createRun says why not, or adds the run to both tables, of a budget that the
\* admission found room for.
LEMMA CreateShape ==
  ASSUME NEW t \in TableType, NEW new \in News, usedToday \in Nat, t.rejected = "none"
  PROVE  /\ createRun(t, new) \in TableType
         /\ createRun(t, new).rejected = "none" =>
              \E b \in Nat \union {Null} : AdmittedAs(t, createRun(t, new), NextRun(t), new, b)
  <1>1. PICK n : n = NextRun(t)
    OBVIOUS
  <1>2. PICK b : b = Reservation(t, new.budget)
    OBVIOUS
  <1>3. PICK reason : reason = prepareRunAdmission(t, new.budget)
    OBVIOUS
  <1>. DEFINE row == [NoRun EXCEPT !.status = "QUEUED", !.parent = new.parent,
                                   !.replaces = new.replaces, !.budget = b,
                                   !.generation = new.generation]
              adm == [state |-> "active", reserved |-> IF b = Null THEN 0 ELSE b]
  <1>4. createRun(t, new) = IF reason # "none" THEN [t EXCEPT !.rejected = reason]
                            ELSE [t EXCEPT !.run[n] = row, !.admission[n] = adm]
    BY <1>1, <1>2, <1>3 DEF createRun
  <1>. SUFFICES ASSUME reason = "none"
                PROVE  /\ createRun(t, new) \in TableType
                       /\ \E c \in Nat \union {Null} :
                            AdmittedAs(t, createRun(t, new), n, new, c)
    <2>1. reason \in Rejections \union {"none"}
      BY <1>3 DEF prepareRunAdmission, Rejections
    <2>2. ASSUME reason # "none"
          PROVE  createRun(t, new) \in TableType /\ createRun(t, new).rejected # "none"
      <3>1. createRun(t, new) = [t EXCEPT !.rejected = reason]
        BY <1>4, <2>2
      <3>. QED
        BY <2>1, <2>2, <3>1 DEF TableType
    <2>. QED
      BY <1>1, <2>2
  <1>5. reason = "none"
    OBVIOUS
  <1>6. /\ MaxConcurrent # Null => ~(Cardinality(ActiveIn(t)) >= MaxConcurrent)
        /\ ~(DailyBudget # Null /\ b \notin 1..Available(t))
    BY <1>2, <1>3, <1>5 DEF prepareRunAdmission
  <1>7. b \in Nat \union {Null} /\ (new.budget # Null => b = new.budget)
    <2>1. CASE new.budget = Null /\ DailyBudget # Null
      BY <1>2, <1>6, <2>1
    <2>2. CASE ~(new.budget = Null /\ DailyBudget # Null)
      BY <1>2, <2>2 DEF Reservation, News
    <2>. QED
      BY <2>1, <2>2
  <1>8. row \in Rows /\ adm \in Admissions
    <2>1. /\ NoRun.used = 0 /\ NoRun.attempt = 0 /\ "QUEUED" \in RunStatus
          /\ 0 \in 0..MaxClaims /\ 0 \in Nat
      BY StatusTable, DelegationAssumption DEF NoRun
    <2>2. /\ new.parent \in Nat /\ new.replaces \in Nat
          /\ new.generation \in 0..MaxChildReplacements
      BY DEF News
    <2>. QED
      BY <1>7, <2>1, <2>2 DEF Rows, Admissions, NoRun, None, Null
  <1>9. /\ row.status = "QUEUED" /\ row.parent = new.parent /\ row.replaces = new.replaces
        /\ row.generation = new.generation /\ row.budget = b /\ row.used = 0
        /\ row.attempt = 0
        /\ adm.state = "active" /\ adm.reserved = IF b = Null THEN 0 ELSE b
    BY DEF NoRun
  <1>. HIDE DEF row, adm
  <1>10. /\ t.run \in [Runs -> Rows] /\ t.admission \in [Runs -> Admissions]
         /\ t = [run |-> t.run, admission |-> t.admission, rejected |-> t.rejected]
    BY DEF TableType
  <1>11. /\ createRun(t, new).run = [t.run EXCEPT ![n] = row]
         /\ createRun(t, new).admission = [t.admission EXCEPT ![n] = adm]
         /\ createRun(t, new) \in TableType
    <2>. DEFINE u == [t EXCEPT !.run[n] = row, !.admission[n] = adm]
    <2>1. createRun(t, new) = u
      BY <1>4, <1>5
    <2>2. u = [run |-> [t.run EXCEPT ![n] = row],
               admission |-> [t.admission EXCEPT ![n] = adm], rejected |-> t.rejected]
      <3>. DEFINE rows == [t.run EXCEPT ![n] = row]
                  v == [t EXCEPT !.run = rows]
      <3>1. u = [v EXCEPT !.admission = [v.admission EXCEPT ![n] = adm]]
        OBVIOUS
      <3>. HIDE DEF rows, u
      <3>2. v = [run |-> rows, admission |-> t.admission, rejected |-> t.rejected]
        BY <1>10
      <3>. HIDE DEF v
      <3>3. v.admission = t.admission
        BY <3>2
      <3>. DEFINE adms == [t.admission EXCEPT ![n] = adm]
      <3>. HIDE DEF adms
      <3>4. u = [v EXCEPT !.admission = adms]
        BY <3>1, <3>3 DEF adms
      <3>5. u = [run |-> rows, admission |-> adms, rejected |-> t.rejected]
        BY <3>2, <3>4
      <3>. QED
        BY <3>5 DEF rows, adms
    <2>3. /\ [t.run EXCEPT ![n] = row] \in [Runs -> Rows]
          /\ [t.admission EXCEPT ![n] = adm] \in [Runs -> Admissions]
          /\ t.rejected \in Rejections \union {"none"}
      BY <1>8, <1>10 DEF TableType
    <2>. HIDE DEF u
    <2>. QED
      BY <2>1, <2>2, <2>3 DEF TableType
  <1>12. MaxConcurrent # Null => Cardinality(ActiveIn(t)) < MaxConcurrent
    <2>1. Cardinality(ActiveIn(t)) \in Nat
      BY RunsFinite DEF ActiveIn
    <2>2. MaxConcurrent # Null => MaxConcurrent \in Nat
      BY DelegationAssumption
    <2>. QED
      BY <1>6, <2>1, <2>2
  <1>13. AdmittedAs(t, createRun(t, new), n, new, b)
    BY <1>6, <1>7, <1>8, <1>9, <1>11, <1>12 DEF AdmittedAs
  <1>. QED
    BY <1>7, <1>11, <1>13

\* With a free number the run is the first that there is not.
LEMMA CreateRow ==
  ASSUME NEW t \in TableType, NEW new \in News, usedToday \in Nat,
         t.rejected = "none", createRun(t, new).rejected = "none",
         \E r \in Runs : t.run[r] = NoRun
  PROVE  \E n \in Runs, b \in Nat \union {Null} :
           /\ createRun(t, new) \in TableType
           /\ Added(t.run, createRun(t, new).run, n, new, b)
           /\ \A r \in Runs \ {n} : createRun(t, new).admission[r] = t.admission[r]
           /\ createRun(t, new).admission[n].state = "active"
           /\ createRun(t, new).admission[n].reserved = IF b = Null THEN 0 ELSE b
           /\ MaxConcurrent # Null => Cardinality(ActiveIn(t)) < MaxConcurrent
           /\ DailyBudget # Null => b \in 1..Available(t)
  <1>1. PICK n \in Runs : /\ n = NextRun(t) /\ t.run[n] = NoRun
                          /\ \A s \in Runs : t.run[s] = NoRun => n <= s
    <2>. DEFINE free == {r \in Runs : t.run[r] = NoRun}
    <2>1. free \in SUBSET Nat /\ free # {}
      BY DEF Runs
    <2>. HIDE DEF free
    <2>2. \E x \in free : \A y \in free : x <= y
      BY <2>1, SmallestExists
    <2>3. \E r \in Runs : t.run[r] = NoRun /\ \A s \in Runs : t.run[s] = NoRun => r <= s
      BY <2>2 DEF free
    <2>. QED
      BY <2>3 DEF NextRun
  <1>. DEFINE u == createRun(t, new)
  <1>2. PICK b \in Nat \union {Null} : AdmittedAs(t, u, n, new, b)
    BY <1>1, CreateShape
  <1>3. u \in TableType
    BY CreateShape
  <1>. HIDE DEF u
  <1>4. t.run \in [Runs -> Rows] /\ t.admission \in [Runs -> Admissions]
    BY DEF TableType
  <1>5. PICK row \in Rows, adm \in Admissions :
          /\ row.status = "QUEUED" /\ row.parent = new.parent /\ row.replaces = new.replaces
          /\ row.generation = new.generation /\ row.budget = b
          /\ row.used = 0 /\ row.attempt = 0
          /\ adm.state = "active" /\ adm.reserved = IF b = Null THEN 0 ELSE b
          /\ u.run = [t.run EXCEPT ![n] = row] /\ u.admission = [t.admission EXCEPT ![n] = adm]
    BY <1>2 DEF AdmittedAs
  <1>6. /\ new.budget # Null => b = new.budget
        /\ MaxConcurrent # Null => Cardinality(ActiveIn(t)) < MaxConcurrent
        /\ DailyBudget # Null => b \in 1..Available(t)
    BY <1>2 DEF AdmittedAs
  <1>7. /\ \A r \in Runs \ {n} : u.run[r] = t.run[r]
        /\ u.run[n] = row
        /\ \A r \in Runs \ {n} : u.admission[r] = t.admission[r]
        /\ u.admission[n] = adm
    BY <1>4, <1>5
  <1>8. Added(t.run, u.run, n, new, b)
    BY <1>1, <1>5, <1>6, <1>7 DEF Added
  <1>9. /\ u.admission[n].state = "active"
        /\ u.admission[n].reserved = IF b = Null THEN 0 ELSE b
    BY <1>5, <1>7
  <1>. QED
    BY <1>3, <1>6, <1>7, <1>8, <1>9 DEF u

-----------------------------------------------------------------------------
(* Transactions that create several runs.                                  *)

TableInv(R, A, day) == LineageInv(R) /\ BudgetInv(R) /\ AdmissionInv(R, A, day)
Free(R) == {r \in Runs : R[r] = NoRun}

\* Q has the runs of R and new ones, queued, each as one of the first i asked.
Grown(R, Q, news, i) ==
  /\ \A r \in Present(R) : Q[r] = R[r]
  /\ \A r \in Present(Q) \ Present(R) :
       /\ Q[r].status = "QUEUED"
       /\ \E j \in 1..i : Q[r].parent = news[j].parent /\ Q[r].replaces = news[j].replaces

\* The tables after the first i creations of a transaction.
TraceInv(t, news, i) ==
  /\ t \in TableType
  /\ TableInv(t.run, t.admission, usedToday)
  /\ Cardinality(Free(t.run)) + i = Cardinality(Free(run))
  /\ Grown(run, t.run, news, i)

TraceOf(news) == CHOOSE t : t = [i \in 0..Len(news) |->
                   IF i = 0 THEN Tables ELSE createRun(t[i - 1], news[i])]

\* The tables a transaction goes through, one creation after the other.
LEMMA TraceExists ==
  ASSUME NEW news, Len(news) \in Nat
  PROVE  /\ createRuns(news) = TraceOf(news)[Len(news)]
         /\ \A i \in 0..Len(news) : TraceOf(news)[i]
              = IF i = 0 THEN Tables ELSE createRun(TraceOf(news)[i - 1], news[i])
  <1>1. createRuns(news) = TraceOf(news)[Len(news)]
    BY DEF createRuns, TraceOf
  <1>. DEFINE Trace(g, k) == g = [i \in 0..k |->
                IF i = 0 THEN Tables ELSE createRun(g[i - 1], news[i])]
              bad == {k \in Nat : ~ \E g : Trace(g, k)}
  <1>2. bad = {}
    <2>1. SUFFICES ASSUME bad # {} PROVE FALSE
      OBVIOUS
    <2>2. PICK k \in bad : \A j \in bad : k <= j
      <3>1. bad \in SUBSET Nat
        OBVIOUS
      <3>. HIDE DEF bad
      <3>. QED
        BY <2>1, <3>1, SmallestExists
    <2>3. Trace([i \in 0..0 |-> Tables], 0)
      OBVIOUS
    <2>4. k # 0
      BY <2>2, <2>3
    <2>5. k - 1 \in Nat /\ k - 1 \notin bad
      <3>1. k \in Nat
        BY <2>2
      <3>2. k - 1 \in Nat /\ ~(k <= k - 1)
        BY <2>4, <3>1
      <3>. HIDE DEF bad
      <3>. QED
        BY <2>2, <3>2
    <2>6. PICK g : Trace(g, k - 1)
      BY <2>5
    <2>. DEFINE h == [i \in 0..k |-> IF i = k THEN createRun(g[k - 1], news[k]) ELSE g[i]]
    <2>7. Trace(h, k)
      <3>1. \A i \in 0..k - 1 :
              h[i] = g[i] /\ g[i] = IF i = 0 THEN Tables ELSE createRun(g[i - 1], news[i])
        BY <2>5, <2>6
      <3>2. \A i \in 0..k : i # k /\ i # 0 => i \in 0..k - 1 /\ i - 1 \in 0..k - 1
        BY <2>5
      <3>3. k - 1 \in 0..k - 1 /\ 0 \in 0..k - 1
        BY <2>5
      <3>4. \A i \in 0..k : h[i] = IF i = 0 THEN Tables ELSE createRun(h[i - 1], news[i])
        BY <2>4, <3>1, <3>2, <3>3
      <3>. QED
        BY <3>4
    <2>. QED
      BY <2>2, <2>7
  <1>3. \E g : Trace(g, Len(news))
    BY <1>2
  <1>4. Trace(TraceOf(news), Len(news))
    BY <1>3 DEF TraceOf
  <1>. DEFINE tr == TraceOf(news)
  <1>5. tr = [i \in 0..Len(news) |-> IF i = 0 THEN Tables ELSE createRun(tr[i - 1], news[i])]
    BY <1>4
  <1>. HIDE DEF tr
  <1>6. \A i \in 0..Len(news) : tr[i] = IF i = 0 THEN Tables ELSE createRun(tr[i - 1], news[i])
    BY <1>5
  <1>. QED
    BY <1>1, <1>6 DEF tr

\* The transaction ends with tables or with a reason; when it is not rejected,
\* none of its creations was.
LEMMA TraceTypes ==
  ASSUME NEW news \in Seq(News), usedToday \in Nat,
         run \in [Runs -> Rows], admission \in [Runs -> Admissions]
  PROVE  /\ createRuns(news) \in TableType
         /\ createRuns(news).rejected = "none" =>
              \A i \in 0..Len(news) : TraceOf(news)[i].rejected = "none"
  <1>. DEFINE tr == TraceOf(news)
              N == Len(news)
  <1>1. N \in Nat /\ \A i \in 1..N : news[i] \in News
    OBVIOUS
  <1>2. /\ createRuns(news) = tr[N]
        /\ \A i \in 0..N : tr[i] = IF i = 0 THEN Tables ELSE createRun(tr[i - 1], news[i])
    BY <1>1, TraceExists
  <1>. HIDE DEF tr, N
  <1>. DEFINE bad == {i \in 0..N : tr[i] \notin TableType}
  <1>3. bad = {}
    <2>1. SUFFICES ASSUME bad # {} PROVE FALSE
      OBVIOUS
    <2>2. PICK k \in bad : \A j \in bad : k <= j
      <3>1. bad \in SUBSET Nat
        BY <1>1
      <3>. HIDE DEF bad
      <3>. QED
        BY <2>1, <3>1, SmallestExists
    <2>3. k # 0
      <3>1. Tables \in TableType
        BY DEF Tables, TableType
      <3>. QED
        BY <1>2, <2>2, <3>1
    <2>4. k \in 1..N /\ k - 1 \in 0..N /\ ~(k <= k - 1)
      BY <1>1, <2>2, <2>3
    <2>5. tr[k - 1] \in TableType
      BY <2>2, <2>4
    <2>6. tr[k] = createRun(tr[k - 1], news[k]) /\ news[k] \in News
      BY <1>1, <1>2, <2>2, <2>3, <2>4
    <2>7. CASE tr[k - 1].rejected # "none"
      <3>1. tr[k] = tr[k - 1]
        BY <2>6, <2>7 DEF createRun
      <3>. QED
        BY <2>2, <2>5, <3>1
    <2>8. CASE tr[k - 1].rejected = "none"
      <3>1. createRun(tr[k - 1], news[k]) \in TableType
        BY <2>5, <2>6, <2>8, CreateShape
      <3>. QED
        BY <2>2, <2>6, <3>1
    <2>. QED
      BY <2>7, <2>8
  <1>4. ASSUME tr[N].rejected = "none"
        PROVE  \A i \in 0..N : tr[i].rejected = "none"
    <2>. DEFINE late == {i \in 0..N : tr[i].rejected # "none"}
    <2>1. SUFFICES ASSUME late # {} PROVE FALSE
      OBVIOUS
    <2>2. PICK k \in late : \A j \in late : j <= k
      <3>1. late \in SUBSET (0..N)
        OBVIOUS
      <3>. HIDE DEF late
      <3>. QED
        BY <1>1, <2>1, <3>1, LargestExists
    <2>3. k # N
      BY <1>4, <2>2
    <2>4. k + 1 \in 0..N /\ k + 1 # 0 /\ (k + 1) - 1 = k /\ ~(k + 1 <= k)
      BY <1>1, <2>2, <2>3
    <2>5. tr[k + 1] = createRun(tr[k], news[k + 1])
      BY <1>2, <2>4
    <2>6. tr[k + 1] = tr[k]
      BY <2>2, <2>5 DEF createRun
    <2>. QED
      BY <2>2, <2>4, <2>6
  <1>5. N \in 0..N
    BY <1>1
  <1>. QED
    BY <1>2, <1>3, <1>4, <1>5 DEF tr, N

\* One creation of a transaction.
LEMMA TraceStep ==
  ASSUME NEW t \in TableType, NEW news \in Seq(News), NEW i \in 1..Len(news),
         usedToday \in Nat, run \in [Runs -> Rows], LineageInv(run),
         TraceInv(t, news, i - 1), Cardinality(Free(run)) >= i,
         t.rejected = "none", createRun(t, news[i]).rejected = "none",
         \A j \in 1..Len(news) : Fits(run, news[j]),
         \A j, k \in 1..Len(news) :
           news[j].replaces # None /\ news[k].replaces = news[j].replaces => j = k
  PROVE  TraceInv(createRun(t, news[i]), news, i)
  <1>. DEFINE u == createRun(t, news[i])
              new == news[i]
              R == t.run
              Q == u.run
  <1>1. /\ R \in [Runs -> Rows] /\ LineageInv(R) /\ BudgetInv(R)
        /\ AdmissionInv(R, t.admission, usedToday)
        /\ Cardinality(Free(R)) + (i - 1) = Cardinality(Free(run))
        /\ Grown(run, R, news, i - 1)
    BY DEF TraceInv, TableInv, TableType
  <1>2. i \in Nat /\ i >= 1 /\ i <= Len(news) /\ Len(news) \in Nat /\ new \in News
    OBVIOUS
  <1>3. /\ IsFiniteSet(Free(R)) /\ Cardinality(Free(R)) \in Nat
        /\ Cardinality(Free(run)) \in Nat
    BY RunsFinite DEF Free
  <1>4. \E r \in Runs : R[r] = NoRun
    <2>1. Cardinality(Free(R)) # 0
      BY <1>1, <1>2, <1>3
    <2>2. Free(R) # {}
      BY <2>1, FS_EmptySet
    <2>. QED
      BY <2>2 DEF Free
  <1>5. PICK n \in Runs, b \in Nat \union {Null} :
           /\ u \in TableType
           /\ Added(R, Q, n, new, b)
           /\ \A r \in Runs \ {n} : u.admission[r] = t.admission[r]
           /\ u.admission[n].state = "active"
           /\ u.admission[n].reserved = IF b = Null THEN 0 ELSE b
           /\ MaxConcurrent # Null => Cardinality(ActiveIn(t)) < MaxConcurrent
           /\ DailyBudget # Null => b \in 1..Available(t)
    <2>. HIDE DEF new
    <2>. QED
      BY <1>2, <1>4, CreateRow DEF new
  <1>6. Q \in [Runs -> Rows] /\ u.admission \in [Runs -> Admissions]
    BY <1>5 DEF TableType
  <1>7. Fits(R, new)
    <2>1. Fits(run, new) /\ new \in News
      BY <1>2
    <2>2. \A r \in Present(run) : R[r] = run[r] /\ r \in Present(R)
      BY <1>1 DEF Grown, Present
    <2>3. ASSUME new.replaces # None
          PROVE  new.replaces \notin SupersededIn(R)
      <3>1. SUFFICES ASSUME NEW s \in Runs, R[s].replaces = new.replaces
                     PROVE  FALSE
        BY DEF SupersededIn
      <3>2. CASE s \in Present(run)
        <4>1. run[s].replaces = new.replaces
          BY <2>2, <3>1, <3>2
        <4>2. new.replaces \in Runs
          BY <2>1, <2>3 DEF Fits, Present
        <4>. QED
          BY <2>1, <2>3, <4>1, <4>2 DEF Fits, SupersededIn
      <3>3. CASE s \notin Present(run) /\ s \in Present(R)
        <4>1. PICK j \in 1..(i - 1) : R[s].replaces = news[j].replaces
          BY <1>1, <3>3 DEF Grown
        <4>2. j \in 1..Len(news) /\ j # i
          BY <1>2
        <4>. QED
          BY <2>3, <3>1, <4>1, <4>2
      <3>4. CASE s \notin Present(R)
        <4>1. R[s].replaces = None
          BY <1>1, <3>4 DEF LineageInv, Present, NoRun, Rows
        <4>. QED
          BY <2>3, <3>1, <4>1
      <3>. QED
        BY <3>2, <3>3, <3>4
    <2>. HIDE DEF new, R
    <2>. QED
      BY <2>1, <2>2, <2>3 DEF Fits
  <1>8. LineageInv(Q) /\ Present(Q) = Present(R) \union {n} /\ n \notin Present(R)
    <2>. HIDE DEF R, Q, new
    <2>. QED
      BY <1>1, <1>5, <1>6, <1>7, LineageAdd
  <1>9. BudgetInv(Q)
    <2>1. \A r \in Runs : R[r].budget # Null => R[r].used <= R[r].budget
      BY <1>1 DEF AdmissionInv
    <2>. HIDE DEF R, Q, new
    <2>. QED
      BY <1>1, <1>5, <1>6, <1>7, <2>1, BudgetAdd
  <1>10. AdmissionInv(Q, u.admission, usedToday)
    <2>. HIDE DEF Q, new, u
    <2>. QED
      BY <1>1, <1>5, <1>6, <1>7, AdmissionAdd
  <1>11. Cardinality(Free(Q)) + i = Cardinality(Free(run))
    <2>1. Free(Q) = Free(R) \ {n} /\ n \in Free(R)
      <3>1. Q[n] # NoRun
        BY <1>5, StatusTable DEF Added, NoRun
      <3>. HIDE DEF R, Q
      <3>. QED
        BY <1>5, <3>1 DEF Free, Added
    <2>2. Cardinality(Free(Q)) = Cardinality(Free(R)) - 1
      <3>. HIDE DEF R, Q
      <3>1. Cardinality(Free(R) \ {n}) = Cardinality(Free(R)) - 1
        BY <1>3, <2>1, FS_RemoveElement
      <3>. QED
        BY <2>1, <3>1
    <2>. QED
      BY <1>1, <1>2, <1>3, <2>2
  <1>12. Grown(run, Q, news, i)
    <2>1. ASSUME NEW r \in Present(run) PROVE Q[r] = run[r]
      <3>1. R[r] = run[r] /\ r \in Present(R) /\ r \in Runs
        BY <1>1 DEF Grown, Present
      <3>. QED
        BY <1>5, <1>8, <3>1 DEF Added
    <2>2. ASSUME NEW r \in Present(Q) \ Present(run)
          PROVE  /\ Q[r].status = "QUEUED"
                 /\ \E j \in 1..i : Q[r].parent = news[j].parent
                                    /\ Q[r].replaces = news[j].replaces
      <3>1. CASE r = n
        <4>1. i \in 1..i /\ Q[r].status = "QUEUED"
              /\ Q[r].parent = news[i].parent /\ Q[r].replaces = news[i].replaces
          BY <1>2, <1>5, <3>1 DEF Added
        <4>. QED
          BY <4>1
      <3>2. CASE r # n
        <4>1. r \in Present(R) \ Present(run) /\ Q[r] = R[r]
          BY <1>5, <1>8, <3>2 DEF Added, Present
        <4>2. /\ R[r].status = "QUEUED"
              /\ \E j \in 1..(i - 1) : R[r].parent = news[j].parent
                                       /\ R[r].replaces = news[j].replaces
          BY <1>1, <4>1 DEF Grown
        <4>3. 1..(i - 1) \subseteq 1..i
          BY <1>2
        <4>. QED
          BY <4>1, <4>2, <4>3
      <3>. QED
        BY <3>1, <3>2
    <2>. HIDE DEF Q
    <2>. QED
      BY <2>1, <2>2 DEF Grown
  <1>13. u \in TableType
    BY <1>5
  <1>. HIDE DEF u, R
  <1>14. TableInv(u.run, u.admission, usedToday)
    BY <1>8, <1>9, <1>10 DEF TableInv
  <1>. QED
    BY <1>11, <1>12, <1>13, <1>14 DEF TraceInv, u

\* A transaction that is not rejected keeps what holds of the tables, and adds
\* what it was asked to.
LEMMA CreateTrace ==
  ASSUME NEW news \in Seq(News), usedToday \in Nat,
         run \in [Runs -> Rows], admission \in [Runs -> Admissions],
         TableInv(run, admission, usedToday), Room(Len(news)),
         \A j \in 1..Len(news) : Fits(run, news[j]),
         \A j, k \in 1..Len(news) :
           news[j].replaces # None /\ news[k].replaces = news[j].replaces => j = k,
         createRuns(news).rejected = "none"
  PROVE  TraceInv(createRuns(news), news, Len(news))
  <1>. DEFINE tr == TraceOf(news)
              N == Len(news)
              bad == {i \in 0..N : ~TraceInv(tr[i], news, i)}
  <1>1. N \in Nat /\ N \in 0..N
    OBVIOUS
  <1>2. /\ createRuns(news) = tr[N]
        /\ \A i \in 0..N : tr[i] = IF i = 0 THEN Tables ELSE createRun(tr[i - 1], news[i])
        /\ \A i \in 0..N : tr[i].rejected = "none"
    BY <1>1, TraceExists, TraceTypes
  <1>3. Cardinality(Free(run)) \in Nat /\ Cardinality(Free(run)) >= N
    <2>1. Cardinality(Free(run)) \in Nat
      BY RunsFinite DEF Free
    <2>. QED
      BY <2>1 DEF Room, Free
  <1>. HIDE DEF tr, N
  <1>4. bad = {}
    <2>1. SUFFICES ASSUME bad # {} PROVE FALSE
      OBVIOUS
    <2>2. PICK k \in bad : \A j \in bad : k <= j
      <3>1. bad \in SUBSET Nat
        BY <1>1
      <3>. HIDE DEF bad
      <3>. QED
        BY <2>1, <3>1, SmallestExists
    <2>3. k # 0
      <3>1. TraceInv(Tables, news, 0)
        <4>1. Tables \in TableType /\ Tables.run = run /\ Tables.admission = admission
          BY DEF Tables, TableType
        <4>2. Grown(run, run, news, 0)
          BY DEF Grown
        <4>. QED
          BY <1>3, <4>1, <4>2 DEF TraceInv
      <3>2. tr[0] = Tables
        BY <1>1, <1>2
      <3>. QED
        BY <2>2, <3>1, <3>2
    <2>4. k \in 1..N /\ k - 1 \in 0..N /\ ~(k <= k - 1)
      BY <1>1, <2>2, <2>3
    <2>5. TraceInv(tr[k - 1], news, k - 1) /\ tr[k - 1].rejected = "none"
          /\ tr[k].rejected = "none"
      BY <1>2, <2>2, <2>4
    <2>6. tr[k] = createRun(tr[k - 1], news[k])
      BY <1>2, <2>2, <2>3
    <2>7. tr[k - 1] \in TableType /\ LineageInv(run)
      BY <2>5 DEF TraceInv, TableInv
    <2>8. Cardinality(Free(run)) >= k
      BY <1>1, <1>3, <2>4
    <2>9. k \in 1..Len(news)
      BY <2>4 DEF N
    <2>10. TraceInv(createRun(tr[k - 1], news[k]), news, k)
      BY <2>5, <2>6, <2>7, <2>8, <2>9, TraceStep
    <2>. QED
      BY <2>2, <2>6, <2>10
  <1>. QED
    BY <1>1, <1>2, <1>4 DEF N
-----------------------------------------------------------------------------
(* The invariant.                                                          *)

Passes == [pc : {"idle", "listed", "locked"}, todo : Seq(Runs)]
Looks == [attempt : Claims, used : Nat]

\* The types of the rows, and the waiting parents are those in the queue.
RunTypes ==
  /\ run \in [Runs -> Rows] /\ admission \in [Runs -> Admissions] /\ usedToday \in Nat
  /\ updated \in Seq(Runs)
  /\ \A r \in Runs : /\ run[r].status = "RUNNING" => run[r].attempt # 0
                     /\ run[r].status = "WAITING_CHILDREN" <=> r \in ToSet(updated)

\* The types of the other variables; a worker in a pass has a candidate.
OtherTypes ==
  /\ tenantActive \in BOOLEAN
  /\ call \in [Runs -> Nat \union {NoCall}]
  /\ looked \in [Runs -> SUBSET Looks]
  /\ resolved \in [Runs -> Seq(SUBSET Runs)]
  /\ longLedger \subseteq LongLedgers /\ unseen \subseteq longLedger
  /\ deferred \in [Runs -> SUBSET Rejections]
  /\ resolver \in [Workers -> Passes]
  /\ \A w \in Workers : resolver[w].pc # "idle" => resolver[w].todo # <<>>

\* A call is a live run's and within what it has left.
CallInv(R, limit) ==
  \A r \in Runs : limit[r] # NoCall =>
    r \in LiveIn(R) /\ (R[r].budget # Null => R[r].used + limit[r] <= R[r].budget)

\* A run that failed and may be replaced.
MayBeReplaced(row) ==
  /\ row.status = "FAILED" /\ row.generation < MaxChildReplacements
  /\ row.budget = Null \/ row.budget > row.used

\* The outcomes a parent was given are of children that ended, that nothing
\* replaces and nothing can, and a parent that goes on has all of them.
ResolvedInv(R, res) ==
  \A p \in Runs :
    /\ \A i \in DOMAIN res[p] : \A c \in res[p][i] :
         /\ c \in ChildrenIn(R, p) \ SupersededIn(R)
         /\ isTerminal(R[c].status) /\ ~MayBeReplaced(R[c])
    /\ R[p].status \in {"QUEUED", "RUNNING"} /\ ChildrenIn(R, p) # {} =>
         res[p] # <<>> /\ Last(res[p]) = ChildrenIn(R, p) \ SupersededIn(R)

\* The inductive invariant.
DelegationIndInv ==
  /\ RunTypes
  /\ OtherTypes
  /\ TableInv(run, admission, usedToday)
  /\ CallInv(run, call)
  /\ ResolvedInv(run, resolved)

\* The model's words for the tables.
LEMMA StateTables ==
  ASSUME NEW r \in Runs
  PROVE  /\ Exists(r) <=> r \in Present(run)
         /\ Live(r) <=> r \in LiveIn(run)
         /\ Superseded(r) <=> r \in SupersededIn(run)
         /\ ChildrenOf(r) = ChildrenIn(run, r)
         /\ Selected(r) = ChildrenIn(run, r) \ SupersededIn(run)
         /\ Replaceable(r) = {c \in Selected(r) : MayBeReplaced(run[c])}
  <1>1. \A c \in Runs : /\ Exists(c) <=> c \in Present(run)
                        /\ Live(c) <=> c \in LiveIn(run)
                        /\ Superseded(c) <=> c \in SupersededIn(run)
    BY DEF Exists, Live, Superseded, Present, LiveIn, SupersededIn
  <1>2. ChildrenOf(r) = ChildrenIn(run, r)
    BY DEF ChildrenOf, ChildrenIn, Present, Exists
  <1>3. ChildrenOf(r) \subseteq Runs
    BY DEF ChildrenOf
  <1>4. Selected(r) = ChildrenIn(run, r) \ SupersededIn(run)
    BY <1>1, <1>2, <1>3 DEF Selected
  <1>5. Replaceable(r) = {c \in Selected(r) : MayBeReplaced(run[c])}
    BY DEF Replaceable, MayBeReplaced
  <1>. QED
    BY <1>1, <1>2, <1>4, <1>5

\* What keeps the outcomes: ended runs stay as they are, only a run that may be
\* replaced is, and a parent that goes on gets no new children.
LEMMA ResolvedKeeps ==
  ASSUME NEW R \in [Runs -> Rows], NEW Q \in [Runs -> Rows],
         NEW res, ResolvedInv(R, res),
         \A c \in Present(R) : /\ isTerminal(R[c].status) => Q[c] = R[c]
                               /\ c \in Present(Q),
         \A c \in SupersededIn(Q) \ SupersededIn(R) : MayBeReplaced(R[c]),
         \A p \in Runs : Q[p].status \in {"QUEUED", "RUNNING"} /\ ChildrenIn(Q, p) # {} =>
           /\ R[p].status \in {"QUEUED", "RUNNING"} /\ ChildrenIn(R, p) # {}
           /\ ChildrenIn(Q, p) \ SupersededIn(Q) = ChildrenIn(R, p) \ SupersededIn(R)
  PROVE  ResolvedInv(Q, res)
  <1>1. ASSUME NEW p \in Runs, NEW i \in DOMAIN res[p], NEW c \in res[p][i]
        PROVE  /\ c \in ChildrenIn(Q, p) \ SupersededIn(Q)
               /\ isTerminal(Q[c].status) /\ ~MayBeReplaced(Q[c])
    <2>1. /\ c \in ChildrenIn(R, p) /\ c \notin SupersededIn(R)
          /\ isTerminal(R[c].status) /\ ~MayBeReplaced(R[c])
      BY DEF ResolvedInv
    <2>2. Q[c] = R[c] /\ c \in Present(Q) /\ R[c].parent = p
      BY <2>1 DEF ChildrenIn
    <2>. QED
      BY <2>1, <2>2 DEF ChildrenIn
  <1>2. ASSUME NEW p \in Runs, Q[p].status \in {"QUEUED", "RUNNING"}, ChildrenIn(Q, p) # {}
        PROVE  res[p] # <<>> /\ Last(res[p]) = ChildrenIn(Q, p) \ SupersededIn(Q)
    BY <1>2 DEF ResolvedInv
  <1>. QED
    BY <1>1, <1>2 DEF ResolvedInv

\* A live run moves and does not come out of a wait for its children.
LEMMA ResolvedMove ==
  ASSUME NEW R \in [Runs -> Rows], NEW Q \in [Runs -> Rows], NEW u, NEW res,
         LineageInv(R), ResolvedInv(R, res), Moved(R, Q, u),
         Q[u].status \in {"QUEUED", "RUNNING"} => R[u].status \in {"QUEUED", "RUNNING"}
  PROVE  ResolvedInv(Q, res)
  <1>1. /\ Present(Q) = Present(R) /\ SupersededIn(Q) = SupersededIn(R)
        /\ \A p : ChildrenIn(Q, p) = ChildrenIn(R, p)
    BY LineageMove
  <1>2. \A c \in Present(R) : /\ isTerminal(R[c].status) => Q[c] = R[c]
                              /\ c \in Present(Q)
    BY <1>1 DEF Moved, LiveIn, Present
  <1>3. \A c \in SupersededIn(Q) \ SupersededIn(R) : MayBeReplaced(R[c])
    BY <1>1
  <1>4. \A p \in Runs : Q[p].status \in {"QUEUED", "RUNNING"} /\ ChildrenIn(Q, p) # {} =>
           /\ R[p].status \in {"QUEUED", "RUNNING"} /\ ChildrenIn(R, p) # {}
           /\ ChildrenIn(Q, p) \ SupersededIn(Q) = ChildrenIn(R, p) \ SupersededIn(R)
    BY <1>1 DEF Moved
  <1>. QED
    BY <1>2, <1>3, <1>4, ResolvedKeeps

-----------------------------------------------------------------------------
(* Steps of one run.                                                       *)

\* A transition keeps the tables, the calls and the types.
LEMMA Transition ==
  ASSUME DelegationIndInv, NEW r \in Runs, NEW from, NEW to \in RunStatus,
         to \notin {"RUNNING", "WAITING_CHILDREN"},
         transitionRun(r, from, to), UNCHANGED <<usedToday, call>>
  PROVE  /\ RunTypes' /\ TableInv(run, admission, usedToday)' /\ CallInv(run, call)'
         /\ Moved(run, run', r) /\ run'[r].status = to
  <1>. DEFINE Q == [run EXCEPT ![r].status = to]
  <1>1. /\ run \in [Runs -> Rows] /\ admission \in [Runs -> Admissions]
        /\ usedToday \in Nat /\ updated \in Seq(Runs)
        /\ LineageInv(run) /\ BudgetInv(run) /\ AdmissionInv(run, admission, usedToday)
    BY DEF DelegationIndInv, RunTypes, TableInv
  <1>2. run' = Q /\ r \in LiveIn(run) /\ (isTerminal(to) => call[r] = NoCall)
    BY DEF transitionRun, MayMove, Live, LiveIn, Exists
  <1>3. /\ Q \in [Runs -> Rows] /\ \A x \in Runs \ {r} : Q[x] = run[x]
        /\ Q[r].status = to /\ Q[r].parent = run[r].parent
        /\ Q[r].replaces = run[r].replaces /\ Q[r].generation = run[r].generation
        /\ Q[r].budget = run[r].budget /\ Q[r].used = run[r].used
        /\ Q[r].attempt = run[r].attempt
    BY <1>1 DEF Rows
  <1>. HIDE DEF Q
  <1>4. Moved(run, Q, r)
    BY <1>2, <1>3 DEF Moved
  <1>5. /\ admission' \in [Runs -> Admissions]
        /\ \A x \in Runs : /\ admission'[x].reserved = admission[x].reserved
                           /\ x # r => admission'[x].state = admission[x].state
        /\ admission'[r].state = "active" <=> r \in LiveIn(Q)
    <2>1. r \in LiveIn(Q) <=> ~isTerminal(to)
      BY <1>3 DEF LiveIn
    <2>2. admission[r].state = "active"
      BY <1>1, <1>2 DEF AdmissionInv
    <2>3. admission' = IF isTerminal(to) THEN [admission EXCEPT ![r].state = "released"]
                       ELSE admission
      BY DEF transitionRun, AdmissionAfter
    <2>4. CASE isTerminal(to)
      <3>1. admission' = [admission EXCEPT ![r].state = "released"]
        BY <2>3, <2>4
      <3>. QED
        BY <1>1, <2>1, <2>4, <3>1 DEF Admissions
    <2>5. CASE ~isTerminal(to)
      BY <1>1, <2>1, <2>2, <2>3, <2>5
    <2>. QED
      BY <2>4, <2>5
  <1>6. LineageInv(Q) /\ BudgetInv(Q)
    BY <1>1, <1>3, <1>4, LineageMove, BudgetMove
  <1>7. AdmissionInv(Q, admission', usedToday)
    <2>1. Q[r].budget # Null => Q[r].used <= Q[r].budget
      BY <1>1, <1>3 DEF AdmissionInv
    <2>2. Q[r].used - run[r].used = usedToday - usedToday
      BY <1>1, <1>3 DEF Rows
    <2>. QED
      BY <1>1, <1>3, <1>4, <1>5, <2>1, <2>2, AdmissionMove
  <1>8. CallInv(Q, call)
    <2>1. ASSUME NEW x \in Runs, call[x] # NoCall
          PROVE  x \in LiveIn(Q) /\ (Q[x].budget # Null => Q[x].used + call[x] <= Q[x].budget)
      <3>1. /\ x \in LiveIn(run)
            /\ run[x].budget # Null => run[x].used + call[x] <= run[x].budget
        BY <2>1 DEF DelegationIndInv, CallInv
      <3>2. CASE x # r
        BY <1>3, <3>1, <3>2 DEF LiveIn
      <3>3. CASE x = r
        BY <1>2, <1>3, <2>1, <3>1, <3>3 DEF LiveIn
      <3>. QED
        BY <3>2, <3>3
    <2>. QED
      BY <2>1 DEF CallInv
  <1>9. RunTypes'
    <2>1. updated' = Without(updated, r)
      BY DEF transitionRun
    <2>2. updated' \in Seq(Runs) /\ ToSet(updated') = ToSet(updated) \ {r}
      BY <1>1, <2>1, WithoutOne
    <2>3. \A x \in Runs : /\ Q[x].status = "RUNNING" => Q[x].attempt # 0
                          /\ Q[x].status = "WAITING_CHILDREN" <=> x \in ToSet(updated')
      BY <1>3, <2>2 DEF DelegationIndInv, RunTypes
    <2>. QED
      BY <1>1, <1>2, <1>3, <1>5, <2>2, <2>3 DEF RunTypes
  <1>. QED
    BY <1>2, <1>3, <1>4, <1>6, <1>7, <1>8, <1>9 DEF TableInv

\* A step that leaves the runs, their admissions and outcomes alone.
LEMMA RunsRest ==
  ASSUME DelegationIndInv, UNCHANGED <<run, admission, usedToday, call, resolved, updated>>
  PROVE  /\ RunTypes' /\ TableInv(run, admission, usedToday)'
         /\ CallInv(run, call)' /\ ResolvedInv(run, resolved)'
  BY DEF DelegationIndInv, RunTypes

\* The transitions out of QUEUED and RUNNING, and a cancellation.
LEMMA EndsAndRetries ==
  ASSUME DelegationIndInv, NEW r \in Runs, NEW from, NEW to \in RunStatus,
         to \notin {"RUNNING", "WAITING_CHILDREN"}, transitionRun(r, from, to),
         to = "QUEUED" => from = {"RUNNING"},
         UNCHANGED <<tenantActive, usedToday, call, ledgerVars, resolver>>
  PROVE  DelegationIndInv'
  <1>1. /\ RunTypes' /\ TableInv(run, admission, usedToday)' /\ CallInv(run, call)'
        /\ Moved(run, run', r) /\ run'[r].status = to
    BY Transition
  <1>2. ResolvedInv(run, resolved)'
    <2>1. /\ run \in [Runs -> Rows] /\ run' \in [Runs -> Rows] /\ LineageInv(run)
          /\ ResolvedInv(run, resolved) /\ resolved' = resolved
      BY <1>1 DEF DelegationIndInv, RunTypes, TableInv, ledgerVars
    <2>2. run'[r].status \in {"QUEUED", "RUNNING"} => run[r].status \in {"QUEUED", "RUNNING"}
      BY <1>1 DEF transitionRun
    <2>3. ResolvedInv(run', resolved)
      BY <1>1, <2>1, <2>2, ResolvedMove
    <2>. QED
      BY <2>1, <2>3
  <1>3. OtherTypes'
    BY DEF DelegationIndInv, OtherTypes, ledgerVars
  <1>. QED
    BY <1>1, <1>2, <1>3 DEF DelegationIndInv

\* A claim, or the usage of a call: a live run changes and stays what it is.
LEMMA LiveRunChanges ==
  ASSUME DelegationIndInv, NEW r \in Runs, NEW q \in Rows, r \in LiveIn(run),
         q.status \in RunStatus, ~isTerminal(q.status),
         q.status \in {"QUEUED", "RUNNING"} => run[r].status \in {"QUEUED", "RUNNING"},
         q.status = "RUNNING" => q.attempt # 0,
         q.status = "WAITING_CHILDREN" <=> run[r].status = "WAITING_CHILDREN",
         q.parent = run[r].parent, q.replaces = run[r].replaces,
         q.generation = run[r].generation, q.budget = run[r].budget,
         q.budget # Null => q.used <= q.budget,
         run' = [run EXCEPT ![r] = q],
         usedToday' \in Nat, q.used - run[r].used = usedToday' - usedToday,
         call' \in [Runs -> Nat \union {NoCall}],
         \A x \in Runs \ {r} : call'[x] = call[x],
         call'[r] # NoCall /\ q.budget # Null => q.used + call'[r] <= q.budget,
         UNCHANGED <<admission, tenantActive, ledgerVars, updated, resolver>>
  PROVE  DelegationIndInv'
  <1>. DEFINE Q == [run EXCEPT ![r] = q]
  <1>1. /\ run \in [Runs -> Rows] /\ admission \in [Runs -> Admissions]
        /\ usedToday \in Nat /\ updated \in Seq(Runs)
        /\ LineageInv(run) /\ BudgetInv(run) /\ AdmissionInv(run, admission, usedToday)
        /\ ResolvedInv(run, resolved) /\ CallInv(run, call)
    BY DEF DelegationIndInv, RunTypes, TableInv
  <1>2. Q \in [Runs -> Rows] /\ Q[r] = q /\ \A x \in Runs \ {r} : Q[x] = run[x]
    BY <1>1
  <1>3. run' = Q
    OBVIOUS
  <1>. HIDE DEF Q
  <1>4. Moved(run, Q, r) /\ r \in LiveIn(Q)
    BY <1>2 DEF Moved, LiveIn
  <1>5. LineageInv(Q) /\ BudgetInv(Q)
    BY <1>1, <1>2, <1>4, LineageMove, BudgetMove
  <1>6. AdmissionInv(Q, admission, usedToday')
    <2>1. /\ \A x \in Runs : /\ admission[x].reserved = admission[x].reserved
                             /\ x # r => admission[x].state = admission[x].state
          /\ admission[r].state = "active" <=> r \in LiveIn(Q)
      BY <1>1, <1>4 DEF AdmissionInv
    <2>2. Q[r].budget # Null => Q[r].used <= Q[r].budget
      BY <1>2
    <2>3. Q[r].used - run[r].used = usedToday' - usedToday
      BY <1>2
    <2>. QED
      BY <1>1, <1>2, <1>4, <2>1, <2>2, <2>3, AdmissionMove
  <1>7. CallInv(Q, call')
    <2>1. ASSUME NEW x \in Runs, call'[x] # NoCall
          PROVE  /\ x \in LiveIn(Q)
                 /\ Q[x].budget # Null => Q[x].used + call'[x] <= Q[x].budget
      <3>1. CASE x # r
        BY <1>1, <1>2, <2>1, <3>1 DEF LiveIn, CallInv
      <3>2. CASE x = r
        BY <1>2, <1>4, <2>1, <3>2
      <3>. QED
        BY <3>1, <3>2
    <2>. QED
      BY <2>1 DEF CallInv
  <1>8. ResolvedInv(Q, resolved)
    <2>1. Q[r].status \in {"QUEUED", "RUNNING"} => run[r].status \in {"QUEUED", "RUNNING"}
      BY <1>2
    <2>. QED
      BY <1>1, <1>2, <1>4, <2>1, ResolvedMove
  <1>9. RunTypes'
    <2>1. \A x \in Runs : /\ Q[x].status = "RUNNING" => Q[x].attempt # 0
                          /\ Q[x].status = "WAITING_CHILDREN" <=> x \in ToSet(updated)
      BY <1>1, <1>2 DEF DelegationIndInv, RunTypes
    <2>. QED
      BY <1>1, <1>2, <1>3, <2>1 DEF RunTypes
  <1>10. OtherTypes'
    BY DEF DelegationIndInv, OtherTypes, ledgerVars
  <1>11. resolved' = resolved /\ admission' = admission
    BY DEF ledgerVars
  <1>. QED
    BY <1>3, <1>5, <1>6, <1>7, <1>8, <1>9, <1>10, <1>11 DEF DelegationIndInv, TableInv

\* claimRun, AttemptFails, Cancel, Finish, the model call, and the looks of an
\* epoch keep the invariant.
LEMMA RunMovesStep ==
  ASSUME DelegationIndInv, NEW r \in Runs
  PROVE  /\ claimRun(r) \/ AttemptFails(r) \/ Cancel(r) => DelegationIndInv'
         /\ (\E to \in {"COMPLETED", "FAILED"} : Finish(r, to)) => DelegationIndInv'
         /\ beginModelInvocation(r) \/ InvocationLost(r) => DelegationIndInv'
         /\ (\E tokens \in 1..call[r] : completeModelInvocation(r, tokens))
              => DelegationIndInv'
         /\ LedgerGrows(r) \/ DelegateLooks(r) => DelegationIndInv'
         /\ (\E l \in looked[r] : DelegationThrows(r, l)) => DelegationIndInv'
  <1>1. /\ run \in [Runs -> Rows] /\ run[r] \in Rows /\ usedToday \in Nat
        /\ run[r].used \in Nat /\ run[r].budget \in Nat \union {Null}
        /\ run[r].attempt \in 0..MaxClaims
        /\ call \in [Runs -> Nat \union {NoCall}] /\ looked \in [Runs -> SUBSET Looks]
        /\ AdmissionInv(run, admission, usedToday) /\ CallInv(run, call)
    BY DEF DelegationIndInv, RunTypes, OtherTypes, TableInv, Rows
  <1>2. {"QUEUED", "RUNNING", "COMPLETED", "FAILED", "CANCELLED"} \subseteq RunStatus
        /\ ~isTerminal("QUEUED") /\ ~isTerminal("RUNNING")
    BY StatusTable
  <1>3. run[r].budget # Null => run[r].used <= run[r].budget
    BY <1>1 DEF AdmissionInv
  <1>4. ASSUME claimRun(r) PROVE DelegationIndInv'
    <2>. DEFINE q == [run[r] EXCEPT !.status = "RUNNING", !.attempt = run[r].attempt + 1]
    <2>1. /\ run[r].status = "QUEUED" /\ run[r].attempt < MaxClaims
          /\ UNCHANGED <<admission, tenantActive, usedToday, call, ledgerVars, updated, resolver>>
      BY <1>4 DEF claimRun
    <2>2. run' = [run EXCEPT ![r] = q]
      BY <1>1, <1>4 DEF claimRun
    <2>3. run[r].attempt + 1 \in 0..MaxClaims /\ run[r].attempt + 1 # 0 /\ MaxClaims \in Nat
      BY <1>1, <2>1, DelegationAssumption
    <2>4. /\ q \in Rows /\ q.status = "RUNNING" /\ q.attempt = run[r].attempt + 1
          /\ q.parent = run[r].parent /\ q.replaces = run[r].replaces
          /\ q.generation = run[r].generation /\ q.budget = run[r].budget
          /\ q.used = run[r].used
      BY <1>1, <1>2, <2>3 DEF Rows
    <2>. HIDE DEF q
    <2>5. r \in LiveIn(run)
      BY <1>2, <2>1 DEF LiveIn
    <2>6. /\ usedToday' \in Nat /\ q.used - run[r].used = usedToday' - usedToday
          /\ call' \in [Runs -> Nat \union {NoCall}]
          /\ \A x \in Runs \ {r} : call'[x] = call[x]
          /\ call'[r] # NoCall /\ q.budget # Null => q.used + call'[r] <= q.budget
      BY <1>1, <2>1, <2>4 DEF CallInv
    <2>. QED
      BY <1>2, <1>3, <2>1, <2>2, <2>3, <2>4, <2>5, <2>6, LiveRunChanges
  <1>5. ASSUME AttemptFails(r) PROVE DelegationIndInv'
    <2>1. PICK to : to = IF run[r].attempt >= MaxAttempts THEN "FAILED" ELSE "QUEUED"
      OBVIOUS
    <2>2. /\ transitionRun(r, {"RUNNING"}, to)
          /\ UNCHANGED <<tenantActive, usedToday, call, ledgerVars, resolver>>
      BY <1>5, <2>1 DEF AttemptFails
    <2>3. to \in RunStatus /\ to \notin {"RUNNING", "WAITING_CHILDREN"}
      BY <1>2, <2>1
    <2>. QED
      BY <2>2, <2>3, EndsAndRetries
  <1>6. ASSUME Cancel(r) PROVE DelegationIndInv'
    <2>1. /\ transitionRun(r, RunStatus, "CANCELLED")
          /\ UNCHANGED <<tenantActive, usedToday, call, ledgerVars, resolver>>
      BY <1>6 DEF Cancel
    <2>. QED
      BY <1>2, <2>1, EndsAndRetries
  <1>7. ASSUME NEW to \in {"COMPLETED", "FAILED"}, Finish(r, to) PROVE DelegationIndInv'
    <2>1. /\ transitionRun(r, {"RUNNING"}, to)
          /\ UNCHANGED <<tenantActive, usedToday, call, ledgerVars, resolver>>
      BY <1>7 DEF Finish
    <2>2. to \in RunStatus /\ to \notin {"RUNNING", "WAITING_CHILDREN", "QUEUED"}
      BY <1>2
    <2>. QED
      BY <2>1, <2>2, EndsAndRetries
  <1>8. ASSUME beginModelInvocation(r) PROVE DelegationIndInv'
    <2>1. PICK m : m = limitModelInvocation(r)
      OBVIOUS
    <2>2. /\ run[r].status = "RUNNING" /\ m # Null /\ call' = [call EXCEPT ![r] = m]
          /\ UNCHANGED <<run, admission, tenantActive, usedToday, ledgerVars, updated, resolver>>
      BY <1>8, <2>1 DEF beginModelInvocation
    <2>3. m \in Nat /\ (run[r].budget # Null => run[r].used + m <= run[r].budget)
      <3>1. InputCeiling \in Nat /\ OutputCap \in Nat
        BY DelegationAssumption
      <3>2. CASE run[r].budget = Null
        BY <2>1, <3>1, <3>2 DEF limitModelInvocation
      <3>3. CASE run[r].budget # Null
        <4>. DEFINE capacity == run[r].budget - run[r].used - InputCeiling
        <4>1. capacity \in Int /\ run[r].budget \in Nat
          BY <1>1, <3>1, <3>3
        <4>2. m = IF capacity <= 0 THEN Null ELSE InputCeiling + Min({OutputCap, capacity})
          BY <2>1, <3>3 DEF limitModelInvocation
        <4>. HIDE DEF capacity
        <4>3. Min({OutputCap, capacity}) = IF OutputCap < capacity THEN OutputCap ELSE capacity
          <5>1. OutputCap \in Int /\ capacity \in Int
            BY <3>1, <4>1
          <5>. QED
            BY <5>1, MaxMin
        <4>4. capacity > 0 /\ m = InputCeiling + (IF OutputCap < capacity THEN OutputCap ELSE capacity)
          BY <2>2, <4>1, <4>2, <4>3
        <4>. QED
          BY <1>1, <3>1, <4>1, <4>4 DEF capacity
      <3>. QED
        BY <3>2, <3>3
    <2>4. call' \in [Runs -> Nat \union {NoCall}]
      BY <1>1, <2>2, <2>3
    <2>5. CallInv(run, call')
      <3>1. r \in LiveIn(run)
        BY <1>2, <2>2 DEF LiveIn
      <3>2. call'[r] = m /\ \A x \in Runs \ {r} : call'[x] = call[x]
        BY <1>1, <2>2
      <3>. QED
        BY <1>1, <2>3, <3>1, <3>2 DEF CallInv
    <2>6. OtherTypes'
      BY <2>2, <2>4 DEF DelegationIndInv, OtherTypes, ledgerVars
    <2>. QED
      BY <2>2, <2>5, <2>6 DEF DelegationIndInv, RunTypes, ledgerVars
  <1>9. ASSUME InvocationLost(r) PROVE DelegationIndInv'
    <2>1. /\ call' = [call EXCEPT ![r] = NoCall]
          /\ UNCHANGED <<run, admission, tenantActive, usedToday, ledgerVars, updated, resolver>>
      BY <1>9 DEF InvocationLost
    <2>2. call' \in [Runs -> Nat \union {NoCall}] /\ CallInv(run, call')
      BY <1>1, <2>1 DEF CallInv
    <2>3. OtherTypes'
      BY <2>1, <2>2 DEF DelegationIndInv, OtherTypes, ledgerVars
    <2>. QED
      BY <2>1, <2>2, <2>3 DEF DelegationIndInv, RunTypes, ledgerVars
  <1>10. ASSUME NEW tokens \in 1..call[r], completeModelInvocation(r, tokens)
         PROVE  DelegationIndInv'
    <2>. DEFINE q == [run[r] EXCEPT !.used = run[r].used + tokens]
    <2>1. /\ call[r] # NoCall /\ usedToday' = usedToday + tokens
          /\ call' = [call EXCEPT ![r] = NoCall]
          /\ UNCHANGED <<admission, tenantActive, ledgerVars, updated, resolver>>
      BY <1>10 DEF completeModelInvocation
    <2>2. run' = [run EXCEPT ![r] = q]
      BY <1>1, <1>10 DEF completeModelInvocation
    <2>3. tokens \in Nat /\ call[r] \in Nat /\ tokens <= call[r]
      BY <1>1, <2>1
    <2>4. run[r].used + tokens \in Nat
      BY <1>1, <2>3
    <2>5. /\ q \in Rows /\ q.status = run[r].status /\ q.attempt = run[r].attempt
          /\ q.parent = run[r].parent /\ q.replaces = run[r].replaces
          /\ q.generation = run[r].generation /\ q.budget = run[r].budget
          /\ q.used = run[r].used + tokens
      BY <1>1, <2>4 DEF Rows
    <2>. HIDE DEF q
    <2>6. /\ r \in LiveIn(run)
          /\ run[r].budget # Null => run[r].used + call[r] <= run[r].budget
      BY <1>1, <2>1 DEF CallInv
    <2>7. /\ usedToday' \in Nat /\ q.used - run[r].used = usedToday' - usedToday
          /\ q.budget # Null => q.used <= q.budget
      BY <1>1, <2>1, <2>3, <2>5, <2>6
    <2>8. /\ call' \in [Runs -> Nat \union {NoCall}] /\ call'[r] = NoCall
          /\ \A x \in Runs \ {r} : call'[x] = call[x]
      BY <1>1, <2>1
    <2>9. /\ q.status \in RunStatus /\ ~isTerminal(q.status)
          /\ q.status = "RUNNING" => q.attempt # 0
      BY <2>5, <2>6 DEF LiveIn, DelegationIndInv, RunTypes
    <2>. QED
      BY <2>1, <2>2, <2>5, <2>6, <2>7, <2>8, <2>9, LiveRunChanges
  <1>11. ASSUME LedgerGrows(r) PROVE DelegationIndInv'
    <2>1. OtherTypes'
      BY <1>11 DEF LedgerGrows, DelegationIndInv, OtherTypes
    <2>. QED
      BY <1>11, <2>1, RunsRest DEF LedgerGrows, DelegationIndInv
  <1>12. ASSUME DelegateLooks(r) PROVE DelegationIndInv'
    <2>1. run[r].attempt \in Claims /\ [attempt |-> run[r].attempt, used |-> run[r].used] \in Looks
      BY <1>1, <1>12 DEF DelegateLooks, DelegationIndInv, RunTypes, Claims, Looks
    <2>2. looked' \in [Runs -> SUBSET Looks]
      BY <1>1, <1>12, <2>1 DEF DelegateLooks
    <2>3. OtherTypes'
      BY <1>12, <2>2 DEF DelegateLooks, DelegationIndInv, OtherTypes
    <2>. QED
      BY <1>12, <2>3, RunsRest DEF DelegateLooks, DelegationIndInv
  <1>13. ASSUME NEW l \in looked[r], DelegationThrows(r, l) PROVE DelegationIndInv'
    <2>1. looked' \in [Runs -> SUBSET Looks]
      BY <1>1, <1>13 DEF DelegationThrows
    <2>2. OtherTypes'
      BY <1>13, <2>1 DEF DelegationThrows, DelegationIndInv, OtherTypes
    <2>. QED
      BY <1>13, <2>2, RunsRest DEF DelegationThrows, DelegationIndInv
  <1>. QED
    BY <1>4, <1>5, <1>6, <1>7, <1>8, <1>9, <1>10, <1>11, <1>12, <1>13

-----------------------------------------------------------------------------
(* Steps that create runs.                                                 *)

\* What runs created for p leave as it was.
LEMMA AfterCreation ==
  ASSUME DelegationIndInv, NEW news \in Seq(News), NEW p, p \in Runs \union {None},
         \A j \in 1..Len(news) : Fits(run, news[j]) /\ news[j].parent = p,
         \A j, k \in 1..Len(news) :
           news[j].replaces # None /\ news[k].replaces = news[j].replaces => j = k,
         Room(Len(news)), createRuns(news).rejected = "none",
         NEW Q, Q = createRuns(news).run
  PROVE  /\ Q \in [Runs -> Rows] /\ createRuns(news).admission \in [Runs -> Admissions]
         /\ TableInv(Q, createRuns(news).admission, usedToday)
         /\ \A r \in Present(run) : Q[r] = run[r] /\ r \in Present(Q)
         /\ \A r \in Runs : r \notin Present(run) =>
              Q[r].status \in {"QUEUED", "absent"} /\ ChildrenIn(Q, r) = {}
         /\ \A q \in Runs : q # p =>
              /\ ChildrenIn(Q, q) = ChildrenIn(run, q)
              /\ ChildrenIn(Q, q) \ SupersededIn(Q) = ChildrenIn(run, q) \ SupersededIn(run)
         /\ \A c \in SupersededIn(Q) \ SupersededIn(run) :
              \E j \in 1..Len(news) : c = news[j].replaces
         /\ CallInv(Q, call)
  <1>. DEFINE t == createRuns(news)
  <1>1. /\ run \in [Runs -> Rows] /\ admission \in [Runs -> Admissions] /\ usedToday \in Nat
        /\ TableInv(run, admission, usedToday) /\ LineageInv(run) /\ CallInv(run, call)
    BY DEF DelegationIndInv, RunTypes, TableInv
  <1>2. TraceInv(t, news, Len(news))
    BY <1>1, CreateTrace
  <1>. HIDE DEF t
  <1>3. /\ Q \in [Runs -> Rows] /\ t.admission \in [Runs -> Admissions]
        /\ TableInv(Q, t.admission, usedToday) /\ LineageInv(Q)
        /\ Grown(run, Q, news, Len(news))
    BY <1>2 DEF TraceInv, TableType, TableInv, t
  <1>4. \A r \in Present(run) : Q[r] = run[r] /\ r \in Present(Q) /\ r \in Runs
    BY <1>3 DEF Grown, Present
  <1>5. \A r \in Present(Q) \ Present(run) :
          /\ Q[r].status = "QUEUED" /\ Q[r].parent = p
          /\ \E j \in 1..Len(news) : Q[r].replaces = news[j].replaces
    BY <1>3 DEF Grown
  <1>6. \A r \in Runs : /\ r \notin Present(run) => run[r] = NoRun
                        /\ r \notin Present(Q) => Q[r] = NoRun /\ Q[r].status = "absent"
    <2>1. ASSUME NEW R \in [Runs -> Rows], LineageInv(R)
          PROVE  \A r \in Runs : r \notin Present(R) => R[r] = NoRun /\ R[r].status = "absent"
      BY <2>1 DEF LineageInv, Present, Rows
    <2>. QED
      BY <1>1, <1>3, <2>1
  <1>7. 0 \notin Runs /\ Runs \subseteq Nat
    BY DEF Runs
  <1>8. \A q \in Runs : q # p => ChildrenIn(Q, q) = ChildrenIn(run, q)
    <2>1. SUFFICES ASSUME NEW q \in Runs, q # p
                   PROVE  ChildrenIn(Q, q) = ChildrenIn(run, q)
      OBVIOUS
    <2>2. ASSUME NEW c \in ChildrenIn(Q, q) PROVE c \in ChildrenIn(run, q)
      BY <1>4, <1>5, <2>1, <2>2 DEF ChildrenIn
    <2>3. ASSUME NEW c \in ChildrenIn(run, q) PROVE c \in ChildrenIn(Q, q)
      BY <1>4, <2>3 DEF ChildrenIn
    <2>. QED
      BY <2>2, <2>3
  <1>9. ASSUME NEW c \in SupersededIn(Q) \ SupersededIn(run)
        PROVE  /\ c \in Runs /\ \E j \in 1..Len(news) : c = news[j].replaces
               /\ run[c].parent = p
    <2>1. PICK s \in Runs : c \in Runs /\ Q[s].replaces = c /\ run[s].replaces # c
      BY <1>9 DEF SupersededIn
    <2>2. s \in Present(Q) \ Present(run)
      <3>1. s \notin Present(run)
        BY <1>4, <2>1
      <3>2. Q[s] # NoRun
        BY <1>7, <2>1 DEF NoRun, None
      <3>. QED
        BY <1>6, <2>1, <3>1, <3>2
    <2>3. PICK j \in 1..Len(news) : c = news[j].replaces
      BY <1>5, <2>1, <2>2
    <2>4. Fits(run, news[j]) /\ news[j].parent = p /\ c # None
      BY <1>7, <2>1, <2>3 DEF None
    <2>. QED
      BY <2>1, <2>3, <2>4 DEF Fits
  <1>10. \A q \in Runs : q # p =>
           ChildrenIn(Q, q) \ SupersededIn(Q) = ChildrenIn(run, q) \ SupersededIn(run)
    <2>1. SUFFICES ASSUME NEW q \in Runs, q # p, NEW c \in ChildrenIn(run, q)
                   PROVE  c \in SupersededIn(Q) <=> c \in SupersededIn(run)
      BY <1>8
    <2>2. c \in SupersededIn(Q) => c \in SupersededIn(run)
      BY <1>9, <2>1 DEF ChildrenIn
    <2>3. ASSUME c \in SupersededIn(run) PROVE c \in SupersededIn(Q)
      <3>1. PICK s \in Runs : run[s].replaces = c /\ c \in Runs
        BY <2>3 DEF SupersededIn
      <3>2. s \in Present(run)
        BY <1>6, <1>7, <3>1 DEF NoRun, None
      <3>. QED
        BY <1>4, <3>1, <3>2 DEF SupersededIn
    <2>. QED
      BY <2>2, <2>3
  <1>11. ASSUME NEW r \in Runs, r \notin Present(run)
         PROVE  Q[r].status \in {"QUEUED", "absent"} /\ ChildrenIn(Q, r) = {}
    <2>1. Q[r].status \in {"QUEUED", "absent"}
      BY <1>5, <1>6, <1>11
    <2>2. ASSUME NEW c \in ChildrenIn(Q, r) PROVE FALSE
      <3>1. c \in Present(Q) /\ Q[c].parent = r /\ c \in Runs
        BY DEF ChildrenIn, Present
      <3>2. CASE c \in Present(run)
        <4>1. r < c
          BY <1>1, <1>4, <1>7, <3>1, <3>2 DEF LineageInv
        <4>. QED
          BY <1>1, <1>11, <3>1, <3>2, <4>1 DEF LineageInv
      <3>3. CASE c \notin Present(run)
        <4>1. p = r /\ \E j \in 1..Len(news) : TRUE
          BY <1>5, <3>1, <3>3
        <4>2. r \in Present(run)
          BY <1>7, <4>1 DEF Fits, None
        <4>. QED
          BY <1>11, <4>2
      <3>. QED
        BY <3>2, <3>3
    <2>. QED
      BY <2>1, <2>2
  <1>12. CallInv(Q, call)
    <2>1. ASSUME NEW x \in Runs, call[x] # NoCall
          PROVE  x \in LiveIn(Q) /\ (Q[x].budget # Null => Q[x].used + call[x] <= Q[x].budget)
      <3>1. /\ x \in LiveIn(run)
            /\ run[x].budget # Null => run[x].used + call[x] <= run[x].budget
        BY <1>1, <2>1 DEF CallInv
      <3>2. x \in Present(run)
        BY <3>1 DEF LiveIn, Present
      <3>3. Q[x] = run[x]
        BY <1>4, <3>2
      <3>. QED
        BY <3>1, <3>3 DEF LiveIn
    <2>. QED
      BY <2>1 DEF CallInv
  <1>. QED
    BY <1>3, <1>4, <1>8, <1>9, <1>10, <1>11, <1>12 DEF t

\* POST /runs and POST /fork.
LEMMA CreateDirectRunStep ==
  ASSUME DelegationIndInv, NEW budget \in Nat \union {Null}, CreateDirectRun(budget)
  PROVE  DelegationIndInv'
  <1>. DEFINE new == [parent |-> None, replaces |-> None, generation |-> 0, budget |-> budget]
              news == <<new>>
              Q == createRuns(news).run
  <1>1. new \in News /\ new.parent = None /\ new.replaces = None
    BY DelegationAssumption DEF News, None
  <1>. HIDE DEF new
  <1>2. news \in Seq(News) /\ Len(news) = 1 /\ news[1] = new
    BY <1>1
  <1>. HIDE DEF news
  <1>3. createRuns(news) = createRun(Tables, new)
    <2>1. 1 \in 0..Len(news) /\ 0 \in 0..Len(news) /\ 1 - 1 = 0
      BY <1>2
    <2>. QED
      BY <1>2, <2>1, TraceExists
  <1>4. /\ Room(1) /\ createRuns(news).rejected = "none"
        /\ run' = Q /\ admission' = createRuns(news).admission
        /\ UNCHANGED <<tenantActive, usedToday, call, ledgerVars, updated, resolver>>
    BY <1>3 DEF CreateDirectRun, Creates, new
  <1>5. \A j \in 1..Len(news) : Fits(run, news[j]) /\ news[j].parent = None
    BY <1>1, <1>2 DEF Fits
  <1>6. \A j, k \in 1..Len(news) :
           news[j].replaces # None /\ news[k].replaces = news[j].replaces => j = k
    BY <1>1, <1>2
  <1>7. Room(Len(news))
    BY <1>2, <1>4
  <1>8. None \in Runs \union {None}
    OBVIOUS
  <1>9. /\ Q \in [Runs -> Rows] /\ createRuns(news).admission \in [Runs -> Admissions]
        /\ TableInv(Q, createRuns(news).admission, usedToday)
        /\ \A r \in Present(run) : Q[r] = run[r] /\ r \in Present(Q)
        /\ \A r \in Runs : r \notin Present(run) =>
             Q[r].status \in {"QUEUED", "absent"} /\ ChildrenIn(Q, r) = {}
        /\ \A q \in Runs : q # None =>
             /\ ChildrenIn(Q, q) = ChildrenIn(run, q)
             /\ ChildrenIn(Q, q) \ SupersededIn(Q) = ChildrenIn(run, q) \ SupersededIn(run)
        /\ \A c \in SupersededIn(Q) \ SupersededIn(run) :
             \E j \in 1..Len(news) : c = news[j].replaces
        /\ CallInv(Q, call)
    BY <1>2, <1>4, <1>5, <1>6, <1>7, <1>8, AfterCreation
  <1>. HIDE DEF Q
  <1>10. 0 \notin Runs
    BY DEF Runs
  <1>11. ResolvedInv(Q, resolved)
    <2>1. \A c \in SupersededIn(Q) \ SupersededIn(run) : MayBeReplaced(run[c])
      <3>1. \A c \in SupersededIn(Q) : c # None
        BY <1>10 DEF SupersededIn, None
      <3>. QED
        BY <1>1, <1>2, <1>9, <3>1
    <2>2. \A p \in Runs : Q[p].status \in {"QUEUED", "RUNNING"} /\ ChildrenIn(Q, p) # {} =>
           /\ run[p].status \in {"QUEUED", "RUNNING"} /\ ChildrenIn(run, p) # {}
           /\ ChildrenIn(Q, p) \ SupersededIn(Q) = ChildrenIn(run, p) \ SupersededIn(run)
      BY <1>9, <1>10 DEF None
    <2>3. run \in [Runs -> Rows] /\ ResolvedInv(run, resolved)
      BY DEF DelegationIndInv, RunTypes
    <2>4. \A c \in Present(run) : /\ isTerminal(run[c].status) => Q[c] = run[c]
                                  /\ c \in Present(Q)
      BY <1>9
    <2>5. Q \in [Runs -> Rows]
      BY <1>9
    <2>. QED
      BY <2>1, <2>2, <2>3, <2>4, <2>5, ResolvedKeeps
  <1>12. RunTypes'
    <2>1. \A r \in Runs : /\ Q[r].status = "RUNNING" => Q[r].attempt # 0
                          /\ Q[r].status = "WAITING_CHILDREN" <=> r \in ToSet(updated)
      <3>1. ASSUME NEW r \in Runs
            PROVE  /\ Q[r].status = "RUNNING" => Q[r].attempt # 0
                   /\ Q[r].status = "WAITING_CHILDREN" <=> r \in ToSet(updated)
        <4>1. /\ run[r].status = "RUNNING" => run[r].attempt # 0
              /\ run[r].status = "WAITING_CHILDREN" <=> r \in ToSet(updated)
          BY DEF DelegationIndInv, RunTypes
        <4>2. CASE r \in Present(run)
          BY <1>9, <4>1, <4>2
        <4>3. CASE r \notin Present(run)
          BY <1>9, <4>1, <4>3, StatusTable DEF Present
        <4>. QED
          BY <4>2, <4>3
      <3>. QED
        BY <3>1
    <2>. QED
      BY <1>4, <1>9, <2>1 DEF DelegationIndInv, RunTypes
  <1>13. OtherTypes'
    BY <1>4 DEF DelegationIndInv, OtherTypes, ledgerVars
  <1>14. resolved' = resolved /\ call' = call /\ usedToday' = usedToday
    BY <1>4 DEF ledgerVars
  <1>. QED
    BY <1>4, <1>9, <1>11, <1>12, <1>13, <1>14 DEF DelegationIndInv

\* The subtasks asked for by a delegation.
SubtasksAsked(r, l, n) ==
  [i \in 1..n |-> [parent |-> r, replaces |-> None, generation |-> 0,
                   budget |-> childBudget(r, l.used, n)]]

\* spawnChildren: the children, and the wait of their parent.
LEMMA SpawnStep ==
  ASSUME DelegationIndInv, NEW r \in Runs, NEW l \in looked[r], NEW n \in 1..FanOut,
         spawnChildren(r, l, n)
  PROVE  DelegationIndInv'
  <1>. DEFINE news == SubtasksAsked(r, l, n)
              Q == createRuns(news).run
              P == [Q EXCEPT ![r].status = "WAITING_CHILDREN"]
  <1>1. /\ run \in [Runs -> Rows] /\ run[r] \in Rows /\ looked \in [Runs -> SUBSET Looks]
        /\ l \in Looks /\ n \in Nat \ {0} /\ updated \in Seq(Runs) /\ usedToday \in Nat
        /\ ResolvedInv(run, resolved) /\ LineageInv(run)
    BY DelegationAssumption DEF DelegationIndInv, RunTypes, OtherTypes, TableInv
  <1>2. childBudget(r, l.used, n) \in Nat \union {Null}
    <2>1. CASE run[r].budget = Null
      BY <2>1 DEF childBudget
    <2>2. CASE run[r].budget # Null
      <3>1. run[r].budget - l.used \in Int
        BY <1>1, <2>2 DEF Rows, Looks
      <3>2. PICK rest \in Nat : rest = Max({0, run[r].budget - l.used})
        <4>1. 0 \in Int
          OBVIOUS
        <4>2. Max({0, run[r].budget - l.used})
                = IF 0 < run[r].budget - l.used THEN run[r].budget - l.used ELSE 0
          BY <3>1, <4>1, MaxMin
        <4>. QED
          BY <3>1, <4>2
      <3>3. rest \div n \in Int
        BY <1>1
      <3>4. Max({1, rest \div n}) = IF 1 < rest \div n THEN rest \div n ELSE 1
        <4>1. 1 \in Int
          OBVIOUS
        <4>. QED
          BY <3>3, <4>1, MaxMin
      <3>5. Max({1, rest \div n}) \in Nat
        BY <3>3, <3>4
      <3>. QED
        BY <2>2, <3>2, <3>5 DEF childBudget
    <2>. QED
      BY <2>1, <2>2
  <1>3. /\ news \in Seq(News) /\ Len(news) = n
        /\ \A j \in 1..n : news[j] \in News /\ news[j].parent = r /\ news[j].replaces = None
    <2>1. PICK b \in Nat \union {Null} : b = childBudget(r, l.used, n)
      BY <1>2
    <2>. DEFINE new == [parent |-> r, replaces |-> None, generation |-> 0, budget |-> b]
    <2>2. r \in Nat /\ None \in Nat /\ 0 \in 0..MaxChildReplacements
      BY DelegationAssumption DEF None, Runs
    <2>3. new \in News /\ new.parent = r /\ new.replaces = None
      BY <2>2 DEF News
    <2>4. news = [i \in 1..n |-> new]
      BY <2>1 DEF SubtasksAsked
    <2>. HIDE DEF new, news
    <2>. QED
      BY <1>1, <2>3, <2>4
  <1>4. createRuns(news) = Spawned(r, l, n)
    BY DEF Spawned, SubtasksAsked
  <1>. HIDE DEF news
  <1>5. /\ Room(n) /\ run[r].status = "RUNNING" /\ createRuns(news).rejected = "none"
        /\ updated' = Append(updated, r) /\ looked' = [looked EXCEPT ![r] = @ \ {l}]
        /\ UNCHANGED <<tenantActive, usedToday, call, resolved, longLedger, unseen,
                       deferred, resolver>>
    BY <1>4 DEF spawnChildren
  <1>6. createRuns(news) \in TableType
    BY <1>3, TraceTypes DEF DelegationIndInv, RunTypes
  <1>7. run' = P /\ admission' = createRuns(news).admission
    <2>1. PICK t \in TableType : t = createRuns(news)
      BY <1>6
    <2>2. /\ run' = [t EXCEPT !.run[r].status = "WAITING_CHILDREN"].run
          /\ admission' = [t EXCEPT !.run[r].status = "WAITING_CHILDREN"].admission
      BY <1>4, <2>1 DEF spawnChildren, Creates
    <2>3. /\ run' = [t.run EXCEPT ![r].status = "WAITING_CHILDREN"]
          /\ admission' = t.admission
      BY <2>2 DEF TableType
    <2>. QED
      BY <2>1, <2>3
  <1>8. r \in Present(run) /\ r \in LiveIn(run)
    BY <1>5, StatusTable DEF Present, LiveIn
  <1>9. \A j \in 1..Len(news) : Fits(run, news[j]) /\ news[j].parent = r
    BY <1>3, <1>8 DEF Fits
  <1>10. \A j, k \in 1..Len(news) :
           news[j].replaces # None /\ news[k].replaces = news[j].replaces => j = k
    BY <1>3
  <1>11. Room(Len(news)) /\ r \in Runs \union {None}
    BY <1>3, <1>5
  <1>12. /\ Q \in [Runs -> Rows] /\ createRuns(news).admission \in [Runs -> Admissions]
         /\ TableInv(Q, createRuns(news).admission, usedToday)
         /\ \A x \in Present(run) : Q[x] = run[x] /\ x \in Present(Q)
         /\ \A x \in Runs : x \notin Present(run) =>
              Q[x].status \in {"QUEUED", "absent"} /\ ChildrenIn(Q, x) = {}
         /\ \A q \in Runs : q # r =>
              /\ ChildrenIn(Q, q) = ChildrenIn(run, q)
              /\ ChildrenIn(Q, q) \ SupersededIn(Q) = ChildrenIn(run, q) \ SupersededIn(run)
         /\ \A c \in SupersededIn(Q) \ SupersededIn(run) :
              \E j \in 1..Len(news) : c = news[j].replaces
         /\ CallInv(Q, call)
    BY <1>3, <1>5, <1>9, <1>10, <1>11, AfterCreation
  <1>. HIDE DEF Q
  <1>13. /\ P \in [Runs -> Rows] /\ \A x \in Runs \ {r} : P[x] = Q[x]
         /\ P[r].status = "WAITING_CHILDREN" /\ P[r].parent = Q[r].parent
         /\ P[r].replaces = Q[r].replaces /\ P[r].generation = Q[r].generation
         /\ P[r].budget = Q[r].budget /\ P[r].used = Q[r].used
         /\ "WAITING_CHILDREN" \in RunStatus /\ ~isTerminal("WAITING_CHILDREN")
    <2>. DEFINE q == [Q[r] EXCEPT !.status = "WAITING_CHILDREN"]
    <2>1. "WAITING_CHILDREN" \in RunStatus /\ ~isTerminal("WAITING_CHILDREN")
      BY StatusTable
    <2>2. Q \in [Runs -> Rows] /\ Q[r] \in Rows
      BY <1>12
    <2>3. /\ q \in Rows /\ q.status = "WAITING_CHILDREN" /\ q.parent = Q[r].parent
          /\ q.replaces = Q[r].replaces /\ q.generation = Q[r].generation
          /\ q.budget = Q[r].budget /\ q.used = Q[r].used
      BY <2>1, <2>2 DEF Rows
    <2>4. P = [Q EXCEPT ![r] = q]
      BY <2>2
    <2>. HIDE DEF q, P
    <2>5. P \in [Runs -> Rows] /\ P[r] = q /\ \A x \in Runs \ {r} : P[x] = Q[x]
      BY <2>2, <2>3, <2>4
    <2>. QED
      BY <2>1, <2>3, <2>5
  <1>. HIDE DEF P
  <1>14. Q[r] = run[r] /\ r \in LiveIn(Q) /\ r \in LiveIn(P) /\ Q[r] \in Rows
    BY <1>8, <1>12, <1>13 DEF LiveIn
  <1>15. Moved(Q, P, r)
    BY <1>13, <1>14 DEF Moved
  <1>16. /\ LineageInv(Q) /\ BudgetInv(Q)
         /\ AdmissionInv(Q, createRuns(news).admission, usedToday)
    BY <1>12 DEF TableInv
  <1>17. /\ LineageInv(P) /\ BudgetInv(P)
         /\ Present(P) = Present(Q) /\ SupersededIn(P) = SupersededIn(Q)
         /\ \A x : ChildrenIn(P, x) = ChildrenIn(Q, x)
    BY <1>12, <1>13, <1>15, <1>16, LineageMove, BudgetMove
  <1>18. AdmissionInv(P, createRuns(news).admission, usedToday)
    <2>. DEFINE A == createRuns(news).admission
    <2>. HIDE DEF A
    <2>1. A \in [Runs -> Admissions] /\ AdmissionInv(Q, A, usedToday)
      BY <1>12, <1>16 DEF A
    <2>2. /\ \A x \in Runs : A[x].reserved = A[x].reserved
                             /\ (x # r => A[x].state = A[x].state)
          /\ A[r].state = "active" <=> r \in LiveIn(P)
      BY <1>14, <2>1 DEF AdmissionInv
    <2>3. P[r].budget # Null => P[r].used <= P[r].budget
      BY <1>13, <2>1 DEF AdmissionInv
    <2>4. P[r].used - Q[r].used = usedToday - usedToday
      BY <1>1, <1>13, <1>14 DEF Rows
    <2>5. AdmissionInv(P, A, usedToday)
      BY <1>1, <1>12, <1>13, <1>15, <2>1, <2>2, <2>3, <2>4, AdmissionMove
    <2>. QED
      BY <2>5 DEF A
  <1>19. CallInv(P, call)
    <2>1. ASSUME NEW x \in Runs, call[x] # NoCall
          PROVE  x \in LiveIn(P) /\ (P[x].budget # Null => P[x].used + call[x] <= P[x].budget)
      <3>1. /\ x \in LiveIn(Q)
            /\ Q[x].budget # Null => Q[x].used + call[x] <= Q[x].budget
        BY <1>12, <2>1 DEF CallInv
      <3>2. CASE x # r
        BY <1>13, <3>1, <3>2 DEF LiveIn
      <3>3. CASE x = r
        BY <1>13, <1>14, <3>1, <3>3
      <3>. QED
        BY <3>2, <3>3
    <2>. QED
      BY <2>1 DEF CallInv
  <1>20. ResolvedInv(P, resolved)
    <2>1. \A c \in SupersededIn(P) \ SupersededIn(run) : MayBeReplaced(run[c])
      <3>1. \A c \in SupersededIn(P) : c # None
        BY DEF SupersededIn, None, Runs
      <3>. QED
        BY <1>3, <1>12, <1>17, <3>1
    <2>2. \A c \in Present(run) : /\ isTerminal(run[c].status) => P[c] = run[c]
                                  /\ c \in Present(P)
      BY <1>8, <1>12, <1>13, <1>17 DEF LiveIn, Present
    <2>3. \A p \in Runs : P[p].status \in {"QUEUED", "RUNNING"} /\ ChildrenIn(P, p) # {} =>
           /\ run[p].status \in {"QUEUED", "RUNNING"} /\ ChildrenIn(run, p) # {}
           /\ ChildrenIn(P, p) \ SupersededIn(P) = ChildrenIn(run, p) \ SupersededIn(run)
      <3>1. SUFFICES ASSUME NEW p \in Runs, P[p].status \in {"QUEUED", "RUNNING"},
                            ChildrenIn(P, p) # {}
                     PROVE  /\ run[p].status \in {"QUEUED", "RUNNING"} /\ ChildrenIn(run, p) # {}
                            /\ ChildrenIn(P, p) \ SupersededIn(P)
                                 = ChildrenIn(run, p) \ SupersededIn(run)
        OBVIOUS
      <3>2. p # r /\ P[p] = Q[p]
        BY <1>13, <3>1
      <3>3. p \in Present(run)
        BY <1>12, <1>17, <3>1
      <3>. QED
        BY <1>12, <1>17, <3>1, <3>2, <3>3
    <2>. QED
      BY <1>1, <1>13, <2>1, <2>2, <2>3, ResolvedKeeps
  <1>21. RunTypes'
    <2>1. updated' \in Seq(Runs) /\ ToSet(updated') = ToSet(updated) \union {r}
      <3>1. DOMAIN updated' = 1..Len(updated) + 1 /\ DOMAIN updated = 1..Len(updated)
            /\ Len(updated) \in Nat
        BY <1>1, <1>5
      <3>2. /\ \A i \in 1..Len(updated) : updated'[i] = updated[i]
            /\ updated'[Len(updated) + 1] = r
        BY <1>1, <1>5
      <3>. QED
        BY <1>1, <1>5, <3>1, <3>2 DEF ToSet
    <2>2. \A x \in Runs : /\ P[x].status = "RUNNING" => P[x].attempt # 0
                          /\ P[x].status = "WAITING_CHILDREN" <=> x \in ToSet(updated')
      <3>1. ASSUME NEW x \in Runs
            PROVE  /\ P[x].status = "RUNNING" => P[x].attempt # 0
                   /\ P[x].status = "WAITING_CHILDREN" <=> x \in ToSet(updated')
        <4>1. /\ run[x].status = "RUNNING" => run[x].attempt # 0
              /\ run[x].status = "WAITING_CHILDREN" <=> x \in ToSet(updated)
          BY DEF DelegationIndInv, RunTypes
        <4>2. CASE x = r
          BY <1>13, <2>1, <4>2
        <4>3. CASE x # r /\ x \in Present(run)
          BY <1>12, <1>13, <2>1, <4>1, <4>3
        <4>4. CASE x # r /\ x \notin Present(run)
          BY <1>12, <1>13, <2>1, <4>1, <4>4, StatusTable DEF Present
        <4>. QED
          BY <4>2, <4>3, <4>4
      <3>. QED
        BY <3>1
    <2>. QED
      BY <1>5, <1>7, <1>12, <1>13, <2>1, <2>2 DEF DelegationIndInv, RunTypes
  <1>22. OtherTypes'
    <2>1. looked' \in [Runs -> SUBSET Looks]
      BY <1>1, <1>5
    <2>. QED
      BY <1>5, <2>1 DEF DelegationIndInv, OtherTypes
  <1>23. resolved' = resolved /\ call' = call /\ usedToday' = usedToday
    BY <1>5
  <1>. QED
    BY <1>7, <1>17, <1>18, <1>19, <1>20, <1>21, <1>22, <1>23 DEF DelegationIndInv, TableInv

-----------------------------------------------------------------------------
(* The loop that resolves parents.                                         *)

\* A worker in a pass has a parent, and can go on to the next.
LEMMA PassTypes ==
  ASSUME DelegationIndInv, NEW w \in Workers, resolver[w].pc # "idle"
  PROVE  /\ Parent(w) \in Runs /\ NextCandidate(w) \in Passes /\ IdleResolver \in Passes
         /\ NextCandidate(w).pc # "idle" => NextCandidate(w).todo # <<>>
  <1>1. PICK todo \in Seq(Runs) : todo = resolver[w].todo /\ todo # <<>>
    BY DEF DelegationIndInv, OtherTypes, Passes
  <1>2. Head(todo) \in Runs /\ Tail(todo) \in Seq(Runs) /\ (Tail(todo) = <<>> => Len(todo) = 1)
    <2>1. Len(todo) \in Nat /\ Len(todo) >= 1
      BY <1>1
    <2>2. Tail(todo) \in Seq(Runs) /\ Len(Tail(todo)) = Len(todo) - 1
      BY <1>1
    <2>3. Tail(todo) = <<>> => Len(todo) = 1
      BY <2>1, <2>2
    <2>. QED
      BY <1>1, <2>1, <2>2, <2>3
  <1>3. IdleResolver \in Passes /\ IdleResolver.pc = "idle"
    BY DEF IdleResolver, Passes
  <1>. QED
    BY <1>1, <1>2, <1>3 DEF Parent, NextCandidate, Passes

\* A step of a worker that changes its pass only.
LEMMA PassMoves ==
  ASSUME DelegationIndInv, NEW w \in Workers, NEW pass \in Passes,
         pass.pc # "idle" => pass.todo # <<>>,
         resolver' = [resolver EXCEPT ![w] = pass],
         UNCHANGED <<run, admission, tenantActive, usedToday, call, ledgerVars, updated>>
  PROVE  DelegationIndInv'
  <1>1. /\ resolver' \in [Workers -> Passes]
        /\ \A v \in Workers : resolver'[v].pc # "idle" => resolver'[v].todo # <<>>
    BY DEF DelegationIndInv, OtherTypes
  <1>2. OtherTypes'
    BY <1>1 DEF DelegationIndInv, OtherTypes, ledgerVars
  <1>. QED
    BY <1>2, RunsRest DEF DelegationIndInv, ledgerVars

\* wakeReadyParents, the locks of the candidates and a worker that is lost.
LEMMA PassSteps ==
  ASSUME DelegationIndInv, NEW w \in Workers,
         wakeReadyParents(w) \/ TryParent(w) \/ ParentSkipped(w) \/ ResolverCrashes(w)
  PROVE  DelegationIndInv'
  <1>1. CASE wakeReadyParents(w)
    <2>. DEFINE places == {i \in DOMAIN updated : Resolvable(updated[i])}
    <2>1. PICK ready : ready = Picked(updated, places)
      OBVIOUS
    <2>2. updated \in Seq(Runs) /\ places \in SUBSET (DOMAIN updated)
      BY DEF DelegationIndInv, RunTypes
    <2>. HIDE DEF places
    <2>3. ready \in Seq(Runs)
      BY <2>1, <2>2, PickedFrom
    <2>4. PICK n : n = Min({CandidateLimit, Len(ready)})
      OBVIOUS
    <2>5. /\ ready # <<>>
          /\ resolver' = [resolver EXCEPT ![w] = [pc |-> "listed", todo |-> SubSeq(ready, 1, n)]]
          /\ UNCHANGED <<run, admission, tenantActive, usedToday, call, ledgerVars, updated>>
      BY <1>1, <2>1, <2>4 DEF wakeReadyParents, places
    <2>6. n \in Nat /\ 1 <= n /\ n <= Len(ready)
      <3>1. CandidateLimit \in Int /\ Len(ready) \in Int /\ CandidateLimit >= 1 /\ Len(ready) >= 1
        BY <2>3, <2>5, DelegationAssumption
      <3>2. Min({CandidateLimit, Len(ready)})
              = IF CandidateLimit < Len(ready) THEN CandidateLimit ELSE Len(ready)
        BY <3>1, MaxMin
      <3>. QED
        BY <2>4, <3>1, <3>2
    <2>7. SubSeq(ready, 1, n) \in Seq(Runs) /\ Len(SubSeq(ready, 1, n)) = n
      BY <2>3, <2>6
    <2>8. SubSeq(ready, 1, n) # <<>>
      BY <2>6, <2>7
    <2>9. [pc |-> "listed", todo |-> SubSeq(ready, 1, n)] \in Passes
      BY <2>7 DEF Passes
    <2>. QED
      BY <2>5, <2>8, <2>9, PassMoves
  <1>2. CASE TryParent(w)
    <2>. DEFINE locked == [resolver[w] EXCEPT !.pc = "locked"]
    <2>1. resolver[w].pc = "listed" /\ resolver[w] \in Passes /\ resolver[w].todo # <<>>
          /\ resolver \in [Workers -> Passes]
      BY <1>2 DEF TryParent, DelegationIndInv, OtherTypes
    <2>2. locked \in Passes /\ locked.todo # <<>>
      BY <2>1 DEF Passes
    <2>3. \/ resolver' = [resolver EXCEPT ![w] = NextCandidate(w)]
          \/ resolver' = [resolver EXCEPT ![w] = locked]
      BY <1>2, <2>1 DEF TryParent
    <2>4. UNCHANGED <<run, admission, tenantActive, usedToday, call, ledgerVars, updated>>
      BY <1>2 DEF TryParent
    <2>. HIDE DEF locked
    <2>5. NextCandidate(w) \in Passes
          /\ (NextCandidate(w).pc # "idle" => NextCandidate(w).todo # <<>>)
      BY <2>1, PassTypes
    <2>. QED
      BY <2>2, <2>3, <2>4, <2>5, PassMoves
  <1>3. CASE ParentSkipped(w)
    <2>1. NextCandidate(w) \in Passes
          /\ (NextCandidate(w).pc # "idle" => NextCandidate(w).todo # <<>>)
      BY <1>3, PassTypes DEF ParentSkipped
    <2>. QED
      BY <1>3, <2>1, PassMoves DEF ParentSkipped
  <1>4. CASE ResolverCrashes(w)
    <2>1. IdleResolver \in Passes /\ IdleResolver.pc = "idle"
      BY DEF IdleResolver, Passes
    <2>. QED
      BY <1>4, <2>1, PassMoves DEF ResolverCrashes
  <1>. QED
    BY <1>1, <1>2, <1>3, <1>4

\* The replacements asked for by the resolution of p.
ReplacementsAsked(p) ==
  [i \in 1..Cardinality(Replaceable(p)) |->
    LET c == InOrder(Replaceable(p))[i] IN
    [parent |-> p, replaces |-> c, generation |-> run[c].generation + 1,
     budget |-> RemainingBudget(c)]]

\* One for each failed subtask that may be replaced.
LEMMA ReplacementsFit ==
  ASSUME DelegationIndInv, NEW p \in Runs
  PROVE  /\ ReplacementsAsked(p) \in Seq(News)
         /\ Len(ReplacementsAsked(p)) = Cardinality(Replaceable(p))
         /\ \A j \in 1..Len(ReplacementsAsked(p)) :
              /\ Fits(run, ReplacementsAsked(p)[j]) /\ ReplacementsAsked(p)[j].parent = p
              /\ MayBeReplaced(run[ReplacementsAsked(p)[j].replaces])
         /\ \A j, k \in 1..Len(ReplacementsAsked(p)) :
              ReplacementsAsked(p)[k].replaces = ReplacementsAsked(p)[j].replaces => j = k
  <1>. DEFINE news == ReplacementsAsked(p)
              old(i) == InOrder(Replaceable(p))[i]
              new(i) == [parent |-> p, replaces |-> old(i),
                         generation |-> run[old(i)].generation + 1,
                         budget |-> RemainingBudget(old(i))]
  <1>1. /\ run \in [Runs -> Rows] /\ LineageInv(run)
        /\ \A r \in Runs : run[r].budget # Null => run[r].used <= run[r].budget
    BY DEF DelegationIndInv, RunTypes, TableInv, AdmissionInv
  <1>2. \A c \in Replaceable(p) :
          /\ c \in Present(run) /\ c \notin SupersededIn(run) /\ run[c].parent = p
          /\ MayBeReplaced(run[c]) /\ c \in Runs
    BY StateTables DEF ChildrenIn, Present
  <1>3. Replaceable(p) \in SUBSET Nat /\ IsFiniteSet(Replaceable(p))
    <2>1. Replaceable(p) \subseteq Runs
      BY <1>2
    <2>. QED
      BY <2>1, RunsFinite
  <1>4. PICK n \in Nat : n = Cardinality(Replaceable(p))
    BY <1>3, InOrderLists
  <1>5. /\ \A i \in 1..n : old(i) \in Replaceable(p)
        /\ \A i, j \in 1..n : old(i) = old(j) => i = j
    <2>1. /\ InOrder(Replaceable(p)) \in [1..n -> Replaceable(p)]
          /\ \A i, j \in 1..n :
               InOrder(Replaceable(p))[i] = InOrder(Replaceable(p))[j] => i = j
      BY <1>3, <1>4, InOrderLists
    <2>. QED
      BY <2>1
  <1>6. news = [i \in 1..n |-> new(i)]
    BY <1>4 DEF ReplacementsAsked
  <1>. HIDE DEF news, old
  <1>7. ASSUME NEW i \in 1..n
        PROVE  /\ new(i) \in News /\ Fits(run, new(i)) /\ new(i).parent = p
               /\ new(i).replaces = old(i) /\ MayBeReplaced(run[old(i)])
    <2>1. PICK c \in Runs : c = old(i) /\ c \in Replaceable(p)
      BY <1>2, <1>5
    <2>2. /\ c \in Present(run) /\ c \notin SupersededIn(run) /\ run[c].parent = p
          /\ MayBeReplaced(run[c]) /\ run[c] \in Rows
      BY <1>1, <1>2, <2>1
    <2>3. RemainingBudget(c) = IF run[c].budget = Null THEN Null
                               ELSE run[c].budget - run[c].used
      BY DEF RemainingBudget
    <2>4. RemainingBudget(c) \in Nat \union {Null}
      <3>1. CASE run[c].budget = Null
        BY <2>3, <3>1
      <3>2. CASE run[c].budget # Null
        <4>1. run[c].budget \in Nat /\ run[c].used \in Nat /\ run[c].budget >= run[c].used
          BY <1>1, <2>2, <3>2 DEF Rows
        <4>. QED
          BY <2>3, <3>2, <4>1
      <3>. QED
        BY <3>1, <3>2
    <2>5. run[c].generation + 1 \in 0..MaxChildReplacements
      BY <2>2, DelegationAssumption DEF MayBeReplaced, Rows
    <2>6. PICK b \in Nat \union {Null}, g \in 0..MaxChildReplacements :
            b = RemainingBudget(c) /\ g = run[c].generation + 1
      BY <2>4, <2>5
    <2>7. new(i) = [parent |-> p, replaces |-> c, generation |-> g, budget |-> b]
      BY <2>1, <2>6
    <2>. HIDE DEF new
    <2>8. /\ new(i) \in News /\ new(i).parent = p /\ new(i).replaces = c
          /\ new(i).generation = g /\ new(i).budget = b
      BY <2>7 DEF News, Runs
    <2>9. p \in Present(run)
      <3>1. p < c
        BY <1>1, <2>2 DEF LineageInv, Runs
      <3>. QED
        BY <1>1, <2>2, <3>1 DEF LineageInv
    <2>10. Fits(run, new(i))
      BY <2>2, <2>3, <2>6, <2>8, <2>9 DEF Fits, MayBeReplaced
    <2>. QED
      BY <2>1, <2>2, <2>8, <2>10
  <1>. HIDE DEF new
  <1>8. news \in Seq(News) /\ Len(news) = n /\ \A i \in 1..n : news[i] = new(i)
    BY <1>6, <1>7
  <1>9. /\ \A j \in 1..Len(news) :
             /\ Fits(run, news[j]) /\ news[j].parent = p /\ MayBeReplaced(run[news[j].replaces])
        /\ \A j, k \in 1..Len(news) : news[k].replaces = news[j].replaces => j = k
    BY <1>5, <1>7, <1>8
  <1>. QED
    BY <1>4, <1>8, <1>9 DEF news

\* A waiting parent goes behind the others.
LEMMA ParentTouched ==
  ASSUME DelegationIndInv, NEW p \in Runs, run[p].status = "WAITING_CHILDREN"
  PROVE  Touched(p) \in Seq(Runs) /\ ToSet(Touched(p)) = ToSet(updated)
  <1>1. updated \in Seq(Runs) /\ p \in ToSet(updated)
    BY DEF DelegationIndInv, RunTypes
  <1>2. /\ Touched(p) \in Seq(Runs)
        /\ ToSet(Touched(p)) = ToSet(updated) \union {p}
    BY <1>1, WithoutOne DEF Touched
  <1>. QED
    BY <1>1, <1>2

\* ChildrenReplaced: the replacements, and the parent keeps waiting.
LEMMA ChildrenReplacedStep ==
  ASSUME DelegationIndInv, NEW w \in Workers, ChildrenReplaced(w)
  PROVE  DelegationIndInv'
  <1>1. PICK p \in Runs : p = Parent(w)
    BY PassTypes DEF ChildrenReplaced
  <1>. DEFINE news == ReplacementsAsked(p)
              Q == createRuns(news).run
  <1>2. /\ news \in Seq(News) /\ Len(news) = Cardinality(Replaceable(p))
        /\ \A j \in 1..Len(news) : /\ Fits(run, news[j]) /\ news[j].parent = p
                                   /\ MayBeReplaced(run[news[j].replaces])
        /\ \A j, k \in 1..Len(news) : news[k].replaces = news[j].replaces => j = k
    BY ReplacementsFit
  <1>3. createRuns(news) = Replacements(p)
    BY DEF Replacements, ReplacementsAsked
  <1>. HIDE DEF news
  <1>4. /\ Claimed(p) /\ Room(Len(news)) /\ createRuns(news).rejected = "none"
        /\ run' = Q /\ admission' = createRuns(news).admission
        /\ updated' = Touched(p) /\ resolver' = [resolver EXCEPT ![w] = IdleResolver]
        /\ UNCHANGED <<tenantActive, usedToday, call, ledgerVars>>
    BY <1>1, <1>2, <1>3 DEF ChildrenReplaced, Creates
  <1>5. run[p].status = "WAITING_CHILDREN"
    BY <1>4 DEF Claimed, Resolvable
  <1>6. \A j \in 1..Len(news) : Fits(run, news[j]) /\ news[j].parent = p
    BY <1>2
  <1>7. \A j, k \in 1..Len(news) :
           news[j].replaces # None /\ news[k].replaces = news[j].replaces => j = k
    BY <1>2
  <1>8. p \in Runs \union {None}
    OBVIOUS
  <1>9. /\ Q \in [Runs -> Rows] /\ createRuns(news).admission \in [Runs -> Admissions]
        /\ TableInv(Q, createRuns(news).admission, usedToday)
        /\ \A r \in Present(run) : Q[r] = run[r] /\ r \in Present(Q)
        /\ \A r \in Runs : r \notin Present(run) =>
             Q[r].status \in {"QUEUED", "absent"} /\ ChildrenIn(Q, r) = {}
        /\ \A q \in Runs : q # p =>
             /\ ChildrenIn(Q, q) = ChildrenIn(run, q)
             /\ ChildrenIn(Q, q) \ SupersededIn(Q) = ChildrenIn(run, q) \ SupersededIn(run)
        /\ \A c \in SupersededIn(Q) \ SupersededIn(run) :
             \E j \in 1..Len(news) : c = news[j].replaces
        /\ CallInv(Q, call)
    BY <1>2, <1>4, <1>6, <1>7, <1>8, AfterCreation
  <1>. HIDE DEF Q
  <1>10. p \in Present(run) /\ Q[p] = run[p]
    BY <1>5, <1>9, StatusTable DEF Present
  <1>11. ResolvedInv(Q, resolved)
    <2>1. \A c \in SupersededIn(Q) \ SupersededIn(run) : MayBeReplaced(run[c])
      BY <1>2, <1>9
    <2>2. \A q \in Runs : Q[q].status \in {"QUEUED", "RUNNING"} /\ ChildrenIn(Q, q) # {} =>
           /\ run[q].status \in {"QUEUED", "RUNNING"} /\ ChildrenIn(run, q) # {}
           /\ ChildrenIn(Q, q) \ SupersededIn(Q) = ChildrenIn(run, q) \ SupersededIn(run)
      BY <1>5, <1>9, <1>10
    <2>3. run \in [Runs -> Rows] /\ ResolvedInv(run, resolved)
      BY DEF DelegationIndInv, RunTypes
    <2>4. \A c \in Present(run) : /\ isTerminal(run[c].status) => Q[c] = run[c]
                                  /\ c \in Present(Q)
      BY <1>9
    <2>5. Q \in [Runs -> Rows]
      BY <1>9
    <2>. QED
      BY <2>1, <2>2, <2>3, <2>4, <2>5, ResolvedKeeps
  <1>12. RunTypes'
    <2>1. updated' \in Seq(Runs) /\ ToSet(updated') = ToSet(updated)
      BY <1>4, <1>5, ParentTouched
    <2>2. ASSUME NEW r \in Runs
          PROVE  /\ Q[r].status = "RUNNING" => Q[r].attempt # 0
                 /\ Q[r].status = "WAITING_CHILDREN" <=> r \in ToSet(updated')
      <3>1. /\ run[r].status = "RUNNING" => run[r].attempt # 0
            /\ run[r].status = "WAITING_CHILDREN" <=> r \in ToSet(updated)
        BY DEF DelegationIndInv, RunTypes
      <3>2. CASE r \in Present(run)
        BY <1>9, <2>1, <3>1, <3>2
      <3>3. CASE r \notin Present(run)
        BY <1>9, <2>1, <3>1, <3>3, StatusTable DEF Present
      <3>. QED
        BY <3>2, <3>3
    <2>. QED
      BY <1>4, <1>9, <2>1, <2>2 DEF DelegationIndInv, RunTypes
  <1>13. OtherTypes'
    <2>1. IdleResolver \in Passes /\ IdleResolver.pc = "idle"
      BY DEF IdleResolver, Passes
    <2>2. /\ resolver' \in [Workers -> Passes]
          /\ \A v \in Workers : resolver'[v].pc # "idle" => resolver'[v].todo # <<>>
      BY <1>4, <2>1 DEF DelegationIndInv, OtherTypes
    <2>. QED
      BY <1>4, <2>2 DEF DelegationIndInv, OtherTypes, ledgerVars
  <1>14. resolved' = resolved /\ call' = call /\ usedToday' = usedToday
    BY <1>4 DEF ledgerVars
  <1>. QED
    BY <1>4, <1>9, <1>11, <1>12, <1>13, <1>14 DEF DelegationIndInv

\* ReplacementDeferred: the reason is recorded and the parent goes back.
LEMMA ReplacementDeferredStep ==
  ASSUME DelegationIndInv, NEW w \in Workers, ReplacementDeferred(w)
  PROVE  DelegationIndInv'
  <1>1. PICK p \in Runs : p = Parent(w)
    BY PassTypes DEF ReplacementDeferred
  <1>2. PICK reason : reason = Replacements(p).rejected
    OBVIOUS
  <1>3. /\ resolver[w].pc = "locked" /\ Claimed(p) /\ reason # "none"
        /\ deferred' = [deferred EXCEPT ![p] = @ \union {reason}]
        /\ updated' = Touched(p)
        /\ resolver' = [resolver EXCEPT ![w] = NextCandidate(w)]
        /\ UNCHANGED <<run, admission, tenantActive, usedToday, call, looked, resolved,
                       longLedger, unseen>>
    BY <1>1, <1>2 DEF ReplacementDeferred, DeferralRotates
  <1>4. reason \in Rejections
    <2>1. createRuns(ReplacementsAsked(p)) = Replacements(p)
      BY DEF Replacements, ReplacementsAsked
    <2>2. ReplacementsAsked(p) \in Seq(News)
      BY ReplacementsFit
    <2>3. createRuns(ReplacementsAsked(p)) \in TableType
      BY <2>2, TraceTypes DEF DelegationIndInv, RunTypes
    <2>. QED
      BY <1>2, <1>3, <2>1, <2>3 DEF TableType
  <1>5. RunTypes'
    <2>1. updated' \in Seq(Runs) /\ ToSet(updated') = ToSet(updated)
      BY <1>3, ParentTouched DEF Claimed, Resolvable
    <2>. QED
      BY <1>3, <2>1 DEF DelegationIndInv, RunTypes
  <1>6. OtherTypes'
    <2>1. NextCandidate(w) \in Passes
          /\ (NextCandidate(w).pc # "idle" => NextCandidate(w).todo # <<>>)
      BY <1>3, PassTypes
    <2>2. /\ resolver' \in [Workers -> Passes]
          /\ \A v \in Workers : resolver'[v].pc # "idle" => resolver'[v].todo # <<>>
      BY <1>3, <2>1 DEF DelegationIndInv, OtherTypes
    <2>3. deferred' \in [Runs -> SUBSET Rejections]
      BY <1>3, <1>4 DEF DelegationIndInv, OtherTypes
    <2>. QED
      BY <1>3, <2>2, <2>3 DEF DelegationIndInv, OtherTypes
  <1>. QED
    BY <1>3, <1>5, <1>6 DEF DelegationIndInv

\* ChildrenResolved: the outcomes of all subtasks, none of which can be
\* replaced any more, and the parent queued.
LEMMA ChildrenResolvedStep ==
  ASSUME DelegationIndInv, NEW w \in Workers, ChildrenResolved(w)
  PROVE  DelegationIndInv'
  <1>1. PICK p \in Runs : p = Parent(w)
    BY PassTypes DEF ChildrenResolved
  <1>2. /\ Claimed(p) /\ Replaceable(p) = {}
        /\ transitionRun(p, {"WAITING_CHILDREN"}, "QUEUED")
        /\ resolved' = [resolved EXCEPT ![p] = Append(@, Selected(p))]
        /\ unseen' = IF resolved[p] = <<>> THEN unseen \union ({p} \intersect longLedger)
                     ELSE unseen
        /\ resolver' = [resolver EXCEPT ![w] = IdleResolver]
        /\ UNCHANGED <<tenantActive, usedToday, call, looked, longLedger, deferred>>
    BY <1>1 DEF ChildrenResolved
  <1>3. /\ RunTypes' /\ TableInv(run, admission, usedToday)' /\ CallInv(run, call)'
        /\ Moved(run, run', p) /\ run'[p].status = "QUEUED"
    <2>1. "QUEUED" \in RunStatus
      BY StatusTable
    <2>2. UNCHANGED <<usedToday, call>>
      BY <1>2
    <2>. QED
      BY <1>2, <2>1, <2>2, Transition
  <1>4. /\ run \in [Runs -> Rows] /\ run' \in [Runs -> Rows] /\ LineageInv(run)
        /\ ResolvedInv(run, resolved) /\ resolved \in [Runs -> Seq(SUBSET Runs)]
        /\ p \in LiveIn(run)
    BY <1>3 DEF DelegationIndInv, RunTypes, OtherTypes, TableInv, Moved
  <1>5. /\ Present(run') = Present(run) /\ SupersededIn(run') = SupersededIn(run)
        /\ \A q : ChildrenIn(run', q) = ChildrenIn(run, q)
    BY <1>3, <1>4, LineageMove
  <1>6. PICK last \in SUBSET Runs :
          last = Selected(p) /\ last = ChildrenIn(run, p) \ SupersededIn(run)
    BY StateTables DEF ChildrenIn, Present
  <1>7. ASSUME NEW c \in last
        PROVE  isTerminal(run[c].status) /\ ~MayBeReplaced(run[c])
    <2>1. c \in ChildrenOf(p) /\ c \notin Replaceable(p) /\ c \in Selected(p)
      BY <1>2, <1>6 DEF Selected
    <2>2. isTerminal(run[c].status)
      BY <1>2, <2>1 DEF Claimed, Resolvable, Ended
    <2>. QED
      BY <2>1, <2>2, StateTables
  <1>8. \A c : isTerminal(run[c].status) /\ c \in Runs => run'[c] = run[c]
    BY <1>3, <1>4 DEF Moved, LiveIn
  <1>9. resolved' = [resolved EXCEPT ![p] = Append(resolved[p], last)]
    BY <1>2, <1>6
  <1>10. PICK events \in Seq(SUBSET Runs) : events = resolved[p]
    BY <1>4
  <1>11. /\ Append(events, last) \in Seq(SUBSET Runs) /\ Append(events, last) # <<>>
         /\ Last(Append(events, last)) = last
         /\ \A i \in DOMAIN Append(events, last) :
              \/ i \in DOMAIN events /\ Append(events, last)[i] = events[i]
              \/ Append(events, last)[i] = last
    <2>1. /\ Append(events, last) \in Seq(SUBSET Runs) /\ Len(events) \in Nat
          /\ Len(Append(events, last)) = Len(events) + 1
          /\ DOMAIN Append(events, last) = 1..Len(events) + 1
          /\ DOMAIN events = 1..Len(events)
          /\ Append(events, last)[Len(events) + 1] = last
      OBVIOUS
    <2>2. \A i \in 1..Len(events) : Append(events, last)[i] = events[i]
      OBVIOUS
    <2>3. Last(Append(events, last)) = last
      BY <2>1 DEF Last
    <2>4. Append(events, last) # <<>>
      BY <2>1
    <2>. QED
      BY <2>1, <2>2, <2>3, <2>4
  <1>12. /\ resolved' \in [Runs -> Seq(SUBSET Runs)]
         /\ resolved'[p] = Append(events, last)
         /\ \A q \in Runs \ {p} : resolved'[q] = resolved[q]
    <2>. DEFINE added == Append(events, last)
    <2>1. added \in Seq(SUBSET Runs)
      BY <1>11
    <2>2. resolved' = [resolved EXCEPT ![p] = added]
      BY <1>9, <1>10
    <2>. HIDE DEF added
    <2>3. /\ resolved' \in [Runs -> Seq(SUBSET Runs)] /\ resolved'[p] = added
          /\ \A q \in Runs \ {p} : resolved'[q] = resolved[q]
      BY <1>4, <2>1, <2>2
    <2>. QED
      BY <2>3 DEF added
  <1>13. ResolvedInv(run', resolved')
    <2>1. ASSUME NEW q \in Runs, NEW i \in DOMAIN resolved'[q], NEW c \in resolved'[q][i]
          PROVE  /\ c \in ChildrenIn(run', q) \ SupersededIn(run')
                 /\ isTerminal(run'[c].status) /\ ~MayBeReplaced(run'[c])
      <3>1. \/ i \in DOMAIN resolved[q] /\ resolved'[q][i] = resolved[q][i]
            \/ q = p /\ resolved'[q][i] = last
        BY <1>10, <1>11, <1>12
      <3>2. /\ c \in ChildrenIn(run, q) \ SupersededIn(run)
            /\ isTerminal(run[c].status) /\ ~MayBeReplaced(run[c])
        BY <1>4, <1>6, <1>7, <2>1, <3>1 DEF ResolvedInv
      <3>3. run'[c] = run[c]
        BY <1>8, <3>2 DEF ChildrenIn, Present
      <3>. QED
        BY <1>5, <3>2, <3>3
    <2>2. ASSUME NEW q \in Runs, run'[q].status \in {"QUEUED", "RUNNING"},
                 ChildrenIn(run', q) # {}
          PROVE  resolved'[q] # <<>>
                 /\ Last(resolved'[q]) = ChildrenIn(run', q) \ SupersededIn(run')
      <3>1. CASE q = p
        BY <1>5, <1>6, <1>11, <1>12, <3>1
      <3>2. CASE q # p
        <4>1. run'[q] = run[q] /\ resolved'[q] = resolved[q]
          BY <1>3, <1>12, <3>2 DEF Moved
        <4>. QED
          BY <1>4, <1>5, <2>2, <4>1 DEF ResolvedInv
      <3>. QED
        BY <3>1, <3>2
    <2>. QED
      BY <2>1, <2>2 DEF ResolvedInv
  <1>14. OtherTypes'
    <2>1. IdleResolver \in Passes /\ IdleResolver.pc = "idle"
      BY DEF IdleResolver, Passes
    <2>2. /\ resolver' \in [Workers -> Passes]
          /\ \A v \in Workers : resolver'[v].pc # "idle" => resolver'[v].todo # <<>>
      BY <1>2, <2>1 DEF DelegationIndInv, OtherTypes
    <2>3. unseen' \subseteq longLedger
      BY <1>2 DEF DelegationIndInv, OtherTypes
    <2>. QED
      BY <1>2, <1>12, <2>2, <2>3 DEF DelegationIndInv, OtherTypes
  <1>. QED
    BY <1>3, <1>13, <1>14 DEF DelegationIndInv

-----------------------------------------------------------------------------
(* The theorems.                                                           *)

\* A tenant without runs.
LEMMA DelegationStarts ==
  ASSUME DelegationInit
  PROVE  DelegationIndInv
  <1>1. /\ NoRun \in Rows /\ NoAdmission \in Admissions /\ NoRun.status = "absent"
        /\ NoRun.parent = 0 /\ NoRun.replaces = 0 /\ NoRun.budget = Null /\ NoRun.used = 0
        /\ NoAdmission.state = "none"
    BY DelegationAssumption DEF NoRun, NoAdmission, Rows, Admissions, None
  <1>2. "absent" \notin RunStatus
    BY StatusTable
  <1>3. /\ run \in [Runs -> Rows] /\ admission \in [Runs -> Admissions]
        /\ \A r \in Runs : run[r] = NoRun /\ admission[r] = NoAdmission
    BY <1>1 DEF DelegationInit
  <1>. HIDE DEF NoRun, NoAdmission
  <1>4. Present(run) = {} /\ LiveIn(run) = {} /\ \A p : ChildrenIn(run, p) = {}
    BY <1>1, <1>2, <1>3 DEF Present, LiveIn, ChildrenIn
  <1>5. LineageInv(run)
    <2>1. \A r \in Runs : 0 \in 0..(r - 1)
      BY DEF Runs
    <2>. QED
      BY <1>1, <1>3, <1>4, <2>1 DEF LineageInv, None
  <1>6. BudgetInv(run)
    BY <1>4 DEF BudgetInv
  <1>7. AdmissionInv(run, admission, usedToday)
    <2>1. SumOver({}, LeftIn(run)) = 0
      <3>1. LeftIn(run) \in [Runs -> Int]
        BY <1>3, UsedAndLeft
      <3>. QED
        BY <3>1, SumOfNone
    <2>2. Cardinality({}) = 0
      BY FS_EmptySet
    <2>3. usedToday = 0
      BY DEF DelegationInit
    <2>4. /\ MaxConcurrent # Null => 0 <= MaxConcurrent
          /\ DailyBudget # Null => 0 + 0 <= DailyBudget
      BY DelegationAssumption DEF Null
    <2>. QED
      BY <1>1, <1>3, <1>4, <2>1, <2>2, <2>3, <2>4 DEF AdmissionInv
  <1>8. RunTypes
    <2>1. updated = <<>> /\ usedToday = 0
      BY DEF DelegationInit
    <2>2. updated \in Seq(Runs) /\ ToSet(updated) = {}
      BY <2>1 DEF ToSet
    <2>. QED
      BY <1>1, <1>3, <2>1, <2>2 DEF RunTypes
  <1>9. OtherTypes
    <2>1. IdleResolver \in Passes /\ IdleResolver.pc = "idle"
      BY DEF IdleResolver, Passes
    <2>2. /\ tenantActive \in BOOLEAN /\ looked \in [Runs -> SUBSET Looks]
          /\ call \in [Runs -> Nat \union {NoCall}]
          /\ longLedger \subseteq LongLedgers /\ unseen \subseteq longLedger
          /\ deferred \in [Runs -> SUBSET Rejections]
      BY DEF DelegationInit
    <2>3. resolved \in [Runs -> Seq(SUBSET Runs)]
      BY DEF DelegationInit
    <2>4. /\ resolver \in [Workers -> Passes]
          /\ \A w \in Workers : resolver[w].pc # "idle" => resolver[w].todo # <<>>
      BY <2>1 DEF DelegationInit
    <2>. QED
      BY <2>2, <2>3, <2>4 DEF OtherTypes
  <1>10. CallInv(run, call)
    BY DEF DelegationInit, CallInv
  <1>11. ResolvedInv(run, resolved)
    <2>1. \A r \in Runs : DOMAIN resolved[r] = {}
      BY DEF DelegationInit
    <2>. QED
      BY <1>4, <2>1 DEF ResolvedInv
  <1>. QED
    BY <1>5, <1>6, <1>7, <1>8, <1>9, <1>10, <1>11 DEF DelegationIndInv, TableInv

\* The tenant is suspended or reactivated, and the day ends.
LEMMA TenantSteps ==
  ASSUME DelegationIndInv, TenantChanges \/ Midnight
  PROVE  DelegationIndInv'
  <1>1. CASE TenantChanges
    <2>1. OtherTypes'
      BY <1>1 DEF TenantChanges, DelegationIndInv, OtherTypes, ledgerVars
    <2>. QED
      BY <1>1, <2>1, RunsRest DEF TenantChanges, DelegationIndInv, ledgerVars
  <1>2. CASE Midnight
    <2>1. /\ run' = run /\ admission' = admission /\ usedToday' = 0 /\ usedToday \in Nat
          /\ UNCHANGED <<tenantActive, call, ledgerVars, updated, resolver>>
          /\ run \in [Runs -> Rows]
      BY <1>2 DEF Midnight, DelegationIndInv, RunTypes
    <2>2. SumOver(LiveIn(run), LeftIn(run)) \in Int
      <3>1. LeftIn(run) \in [Runs -> Int]
        BY <2>1, UsedAndLeft
      <3>2. SameBut(LiveIn(run), LiveIn(run), LeftIn(run), LeftIn(run), 0)
        BY DEF SameBut
      <3>. QED
        BY <3>1, <3>2, SumAfterMove
    <2>3. AdmissionInv(run, admission, 0)
      <3>1. AdmissionInv(run, admission, usedToday) /\ DailyBudget \in Nat \union {Null}
        BY DelegationAssumption DEF DelegationIndInv, TableInv
      <3>2. DailyBudget # Null => 0 + SumOver(LiveIn(run), LeftIn(run)) <= DailyBudget
        BY <2>1, <2>2, <3>1 DEF AdmissionInv, Null
      <3>. QED
        BY <3>1, <3>2 DEF AdmissionInv
    <2>4. RunTypes'
      BY <2>1 DEF DelegationIndInv, RunTypes
    <2>5. OtherTypes'
      BY <2>1 DEF DelegationIndInv, OtherTypes, ledgerVars
    <2>6. resolved' = resolved /\ call' = call
      BY <2>1 DEF ledgerVars
    <2>. QED
      BY <2>1, <2>3, <2>4, <2>5, <2>6 DEF DelegationIndInv, TableInv
  <1>. QED
    BY <1>1, <1>2

\* Every step keeps the inductive invariant.
LEMMA DelegationMoves == DelegationIndInv /\ [DelegationNext]_delegationVars => DelegationIndInv'
  <1>1. SUFFICES ASSUME DelegationIndInv, [DelegationNext]_delegationVars
                 PROVE  DelegationIndInv'
    OBVIOUS
  <1>2. CASE UNCHANGED delegationVars
    <2>1. OtherTypes'
      BY <1>1, <1>2 DEF delegationVars, DelegationIndInv, OtherTypes
    <2>. QED
      BY <1>1, <1>2, <2>1, RunsRest DEF delegationVars, DelegationIndInv
  <1>3. ASSUME NEW budget \in Budgets \union {Null}, CreateDirectRun(budget)
        PROVE  DelegationIndInv'
    BY <1>1, <1>3, CreateDirectRunStep, DelegationAssumption
  <1>4. CASE TenantChanges \/ Midnight
    BY <1>1, <1>4, TenantSteps
  <1>5. ASSUME NEW r \in Runs, ForkRun(r) PROVE DelegationIndInv'
    <2>1. PICK budget \in Budgets \union {run[r].budget} : CreateDirectRun(budget)
      BY <1>5 DEF ForkRun
    <2>2. budget \in Nat \union {Null}
      BY <1>1, DelegationAssumption DEF DelegationIndInv, RunTypes, Rows
    <2>. QED
      BY <1>1, <2>1, <2>2, CreateDirectRunStep
  <1>6. ASSUME NEW r \in Runs, RunMoves(r) PROVE DelegationIndInv'
    <2>1. ASSUME NEW l \in looked[r], NEW n \in 1..FanOut, spawnChildren(r, l, n)
          PROVE  DelegationIndInv'
      BY <1>1, <2>1, SpawnStep
    <2>. QED
      BY <1>1, <1>6, <2>1, RunMovesStep DEF RunMoves
  <1>7. ASSUME NEW w \in Workers, Resolve(w) PROVE DelegationIndInv'
    BY <1>1, <1>7, PassSteps, ChildrenReplacedStep, ReplacementDeferredStep,
       ChildrenResolvedStep DEF Resolve
  <1>. QED
    BY <1>1, <1>2, <1>3, <1>4, <1>5, <1>6, <1>7 DEF DelegationNext

\* The inductive invariant holds: the lineages of subtasks, the tokens given
\* and spent, the tenant's limits and the outcomes that parents were given.
THEOREM DelegationInductive == DelegationSpec => []DelegationIndInv
  BY DelegationStarts, DelegationMoves, PTL DEF DelegationSpec

\* Every variable of delegation and admission has its type.
THEOREM DelegationTyped == DelegationSpec => []DelegationTypeOK
  <1>1. DelegationIndInv => DelegationTypeOK
    <2>1. SUFFICES ASSUME DelegationIndInv PROVE DelegationTypeOK
      OBVIOUS
    <2>2. ASSUME NEW r \in Runs
          PROVE  /\ run[r].status \in RunStatus \union {"absent"}
                 /\ {run[r].parent, run[r].replaces} \subseteq 0..(r - 1)
                 /\ run[r].generation \in 0..MaxChildReplacements
                 /\ run[r].budget \in Nat \union {Null} /\ run[r].used \in Nat
                 /\ run[r].attempt \in 0..MaxClaims
                 /\ admission[r].state \in {"none", "active", "released"}
                 /\ admission[r].reserved \in Nat
      BY <2>1, <2>2
      DEF DelegationIndInv, RunTypes, TableInv, LineageInv, Rows, Admissions
    <2>3. ASSUME NEW r \in Runs
          PROVE  /\ call[r] \in Nat \union {NoCall}
                 /\ \A l \in looked[r] : l.attempt \in Claims /\ l.used \in Nat
                 /\ deferred[r] \subseteq {"tenant_unavailable", "concurrency_exhausted",
                                           "token_capacity_exhausted"}
      BY <2>1, <2>3 DEF DelegationIndInv, OtherTypes, Looks, Rejections
    <2>4. ASSUME NEW r \in Runs, NEW i \in DOMAIN resolved[r]
          PROVE  resolved[r][i] \subseteq Runs
      <3>1. resolved[r] \in Seq(SUBSET Runs)
        BY <2>1 DEF DelegationIndInv, OtherTypes
      <3>. QED
        BY <2>4, <3>1
    <2>5. /\ tenantActive \in BOOLEAN /\ usedToday \in Nat
          /\ longLedger \subseteq LongLedgers /\ unseen \subseteq longLedger
          /\ \A p \in Runs : run[p].status = "WAITING_CHILDREN" <=> p \in ToSet(updated)
      BY <2>1 DEF DelegationIndInv, RunTypes, OtherTypes
    <2>6. \A w \in Workers : resolver[w].pc \in {"idle", "listed", "locked"}
                             /\ resolver[w].todo \in Seq(Runs)
      BY <2>1 DEF DelegationIndInv, OtherTypes, Passes
    <2>. QED
      BY <2>2, <2>3, <2>4, <2>5, <2>6 DEF DelegationTypeOK
  <1>. QED
    BY <1>1, DelegationInductive, PTL

\* A subtask has one current run.
THEOREM SubtasksHaveOneRun == DelegationSpec => []OneCurrentRunPerSubtask
  <1>1. DelegationIndInv => OneCurrentRunPerSubtask
    <2>1. SUFFICES ASSUME DelegationIndInv, NEW r \in Runs, Exists(r)
                   PROVE  /\ Cardinality({s \in Runs : run[s].replaces = r}) <= 1
                          /\ Superseded(r) => run[r].status = "FAILED"
                          /\ run[r].replaces # None =>
                               /\ run[r].generation = run[run[r].replaces].generation + 1
                               /\ run[r].parent = run[run[r].replaces].parent
      BY DEF OneCurrentRunPerSubtask
    <2>2. LineageInv(run) /\ r # None
      BY <2>1 DEF DelegationIndInv, TableInv, Runs, None
    <2>3. Cardinality({s \in Runs : run[s].replaces = r}) <= 1
      <3>. DEFINE by == {s \in Runs : run[s].replaces = r}
      <3>1. ASSUME NEW s \in by PROVE by = {s}
        BY <2>2 DEF LineageInv
      <3>. HIDE DEF by
      <3>2. Cardinality(by) <= 1
        <4>1. CASE by = {}
          <5>1. Cardinality(by) = 0
            BY <4>1, FS_EmptySet
          <5>. QED
            BY <5>1
        <4>2. CASE by # {}
          <5>1. PICK s \in by : by = {s}
            BY <3>1, <4>2
          <5>2. Cardinality(by) = 1
            BY <5>1, FS_Singleton
          <5>. QED
            BY <5>2
        <4>. QED
          BY <4>1, <4>2
      <3>. QED
        BY <3>2 DEF by
    <2>4. Superseded(r) => run[r].status = "FAILED"
      BY <2>2 DEF LineageInv, Superseded
    <2>. QED
      BY <2>2, <2>3, <2>4 DEF LineageInv
  <1>. QED
    BY <1>1, DelegationInductive, PTL

\* The outcomes a parent is given are final and are all of them.
THEOREM ParentsGetFinalOutcomes == DelegationSpec => []OutcomesAreFinal
  <1>1. DelegationIndInv => OutcomesAreFinal
    <2>1. SUFFICES ASSUME DelegationIndInv, NEW p \in Runs
                   PROVE  /\ \A i \in DOMAIN resolved[p] : \A c \in resolved[p][i] :
                               /\ Ended(c) /\ ~Superseded(c)
                               /\ \A d \in resolved[p][i] : rootOf[c] = rootOf[d] => c = d
                          /\ run[p].status \in {"QUEUED", "RUNNING"} /\ ChildrenOf(p) # {} =>
                               resolved[p] # <<>> /\ Last(resolved[p]) = Selected(p)
      BY DEF OutcomesAreFinal
    <2>2. /\ run \in [Runs -> Rows] /\ LineageInv(run) /\ ResolvedInv(run, resolved)
      BY <2>1 DEF DelegationIndInv, RunTypes, TableInv
    <2>3. ASSUME NEW i \in DOMAIN resolved[p], NEW c \in resolved[p][i],
                 NEW d \in resolved[p][i]
          PROVE  /\ Ended(c) /\ ~Superseded(c)
                 /\ rootOf[c] = rootOf[d] => c = d
      <3>1. /\ {c, d} \subseteq Present(run) \ SupersededIn(run) /\ c \in Runs
            /\ isTerminal(run[c].status)
        BY <2>2, <2>3 DEF ResolvedInv, ChildrenIn, Present
      <3>2. Ended(c) /\ ~Superseded(c)
        BY <3>1, StateTables DEF Ended
      <3>3. RootsOf(run)[c] = RootsOf(run)[d] => c = d
        BY <2>2, <3>1, CurrentIsOne
      <3>. QED
        BY <3>2, <3>3, RootsOfState
    <2>4. run[p].status \in {"QUEUED", "RUNNING"} /\ ChildrenOf(p) # {} =>
            resolved[p] # <<>> /\ Last(resolved[p]) = Selected(p)
      BY <2>2, StateTables DEF ResolvedInv
    <2>. QED
      BY <2>3, <2>4
  <1>. QED
    BY <1>1, DelegationInductive, PTL

\* The runs of a subtask together stay within what it was given.
THEOREM SubtasksStayWithinBudget == DelegationSpec => []SubtaskWithinBudget
  <1>1. DelegationIndInv => SubtaskWithinBudget
    <2>1. SUFFICES ASSUME DelegationIndInv, NEW r \in Runs, Exists(r),
                          run[rootOf[r]].budget # Null
                   PROVE  SumOver(Lineage(r), [s \in Runs |-> run[s].used])
                            <= run[rootOf[r]].budget
      BY DEF SubtaskWithinBudget
    <2>. DEFINE L == LineageIn(run, r)
    <2>2. /\ run \in [Runs -> Rows] /\ LineageInv(run) /\ BudgetInv(run)
          /\ \A x \in Runs : run[x].budget # Null => run[x].used <= run[x].budget
      BY <2>1 DEF DelegationIndInv, RunTypes, TableInv, AdmissionInv
    <2>3. /\ Lineage(r) = L /\ [s \in Runs |-> run[s].used] = UsedIn(run)
          /\ run[rootOf[r]].budget = GivenIn(run, r)
      <3>1. \A s \in Runs : Exists(s) <=> s \in Present(run)
        BY StateTables
      <3>. QED
        BY <3>1, RootsOfState DEF Lineage, LineageIn, UsedIn, GivenIn, Present
    <2>4. r \in L /\ L \subseteq Present(run) /\ L \subseteq Runs
      BY <2>1, StateTables DEF LineageIn, Present
    <2>5. PICK c \in L : \A x \in L : x <= c
      <3>1. L \in SUBSET (0..MaxRuns) /\ MaxRuns \in Nat /\ L # {}
        BY <2>4, DelegationAssumption DEF Runs
      <3>. HIDE DEF L
      <3>. QED
        BY <3>1, LargestExists
    <2>6. c \notin SupersededIn(run)
      <3>1. SUFFICES ASSUME NEW s \in Runs, run[s].replaces = c PROVE FALSE
        BY DEF SupersededIn
      <3>2. c \in 1..(s - 1) /\ c < s
        BY <2>2, <2>4, <2>5, <3>1 DEF LineageInv, Runs
      <3>3. RootsOf(run)[s] = RootsOf(run)[c]
        BY <3>1, <3>2, RootsExist
      <3>4. s \in Present(run)
        <4>1. run[s] # NoRun
          BY <3>1, <3>2 DEF NoRun, None
        <4>. QED
          BY <2>2, <4>1 DEF LineageInv, Present, Rows
      <3>5. s \in L
        BY <2>5, <3>3, <3>4 DEF LineageIn
      <3>. QED
        BY <2>5, <3>2, <3>5 DEF Runs
    <2>7. LineageIn(run, c) = L /\ GivenIn(run, c) = GivenIn(run, r)
      BY <2>5 DEF LineageIn, GivenIn
    <2>8. /\ run[c].budget # Null
          /\ SumOver(L, UsedIn(run)) + run[c].budget = GivenIn(run, r) + run[c].used
      BY <2>1, <2>2, <2>3, <2>4, <2>5, <2>6, <2>7 DEF BudgetInv
    <2>9. /\ run[c].budget \in Int /\ run[c].used \in Int /\ run[c].used <= run[c].budget
          /\ GivenIn(run, r) \in Int
      BY <2>2, <2>4, <2>5, <2>8, RootsExist DEF Rows, GivenIn, Null
    <2>10. SumOver(L, UsedIn(run)) \in Int
      <3>1. UsedIn(run) \in [Runs -> Int]
        BY <2>2, UsedAndLeft
      <3>2. SameBut(L, L, UsedIn(run), UsedIn(run), 0)
        BY DEF SameBut
      <3>. HIDE DEF L
      <3>. QED
        BY <3>1, <3>2, SumAfterMove
    <2>. HIDE DEF L
    <2>11. PICK sum \in Int : sum = SumOver(L, UsedIn(run))
      BY <2>10
    <2>12. sum <= GivenIn(run, r)
      BY <2>8, <2>9, <2>11
    <2>. QED
      BY <2>3, <2>11, <2>12
  <1>. QED
    BY <1>1, DelegationInductive, PTL

\* The tenant stays within its limits.
THEOREM TenantsStayWithinLimits == DelegationSpec => []AdmittedWithinLimits
  <1>1. DelegationIndInv => AdmittedWithinLimits
    <2>1. SUFFICES ASSUME DelegationIndInv PROVE AdmittedWithinLimits
      OBVIOUS
    <2>2. AdmissionInv(run, admission, usedToday)
      BY <2>1 DEF DelegationIndInv, TableInv
    <2>3. {r \in Runs : Live(r)} = LiveIn(run)
      <3>1. \A r \in Runs : Live(r) <=> r \in LiveIn(run)
        BY StateTables
      <3>. QED
        BY <3>1 DEF LiveIn
    <2>4. [r \in Runs |-> Max({run[r].budget - run[r].used, 0})] = LeftIn(run)
      BY DEF LeftIn
    <2>5. {r \in Runs : admission[r].state = "active"} = LiveIn(run)
      BY <2>2 DEF AdmissionInv, LiveIn
    <2>6. /\ MaxConcurrent # Null => Cardinality(LiveIn(run)) <= MaxConcurrent
          /\ DailyBudget # Null => usedToday + SumOver(LiveIn(run), LeftIn(run)) <= DailyBudget
      BY <2>2 DEF AdmissionInv
    <2>. QED
      BY <2>3, <2>4, <2>5, <2>6 DEF AdmittedWithinLimits
  <1>. QED
    BY <1>1, DelegationInductive, PTL

-----------------------------------------------------------------------------
(* MCDelegation: two parents wait, one worker resolves, and the tenant is  *)
(* suspended at times.                                                     *)

\* A parent that only waits to be resolved and has been passed over is the next
\* that is listed, and the next in the pass of a worker.
IsNext(p) ==
  /\ Resolved(p) /\ updated[1] = p
  /\ \A w \in Workers : resolver[w].pc # "idle" => resolver[w].todo[1] = p

\* The two parents are the only ones, none is queued or listed twice, and one
\* worker is in a pass at most.
TwoParents ==
  /\ \A r \in Runs : looked[r] # {} => r \in {1, 2}
  /\ ToSet(updated) \subseteq {1, 2} /\ IsInjective(updated)
  /\ \A w \in Workers : /\ ToSet(resolver[w].todo) \subseteq {1, 2}
                        /\ IsInjective(resolver[w].todo)
  /\ \A v, w \in Workers : resolver[v].pc # "idle" /\ resolver[w].pc # "idle" => v = w

PassedOnce(p) == passedOver[p] = 0 \/ (passedOver[p] = 1 /\ IsNext(p))

DeferInv == scope = "defer" => TwoParents /\ \A p \in Runs : PassedOnce(p)

\* A selection keeps the order and repeats nothing.
LEMMA PickedInOrder ==
  ASSUME NEW s \in Seq(Runs), NEW places \in SUBSET (DOMAIN s)
  PROVE  /\ 1 \in places => Picked(s, places) # <<>> /\ Picked(s, places)[1] = s[1]
         /\ IsInjective(s) => IsInjective(Picked(s, places))
  <1>1. places \in SUBSET Nat /\ IsFiniteSet(places) /\ \A n \in places : n >= 1
    <2>1. DOMAIN s = 1..Len(s) /\ Len(s) \in Nat
      OBVIOUS
    <2>2. IsFiniteSet(1..Len(s))
      BY <2>1, FS_Interval
    <2>. QED
      BY <2>1, <2>2, FS_Subset
  <1>2. PICK c \in Nat : c = Cardinality(places)
    BY <1>1, InOrderLists
  <1>3. /\ InOrder(places) \in [1..c -> places]
        /\ \A i, j \in 1..c : InOrder(places)[i] = InOrder(places)[j] => i = j
        /\ \A n \in places : \E i \in 1..c : InOrder(places)[i] = n
    BY <1>1, <1>2, InOrderLists
  <1>4. Picked(s, places) = [i \in 1..c |-> s[InOrder(places)[i]]]
    BY <1>2 DEF Picked
  <1>5. ASSUME 1 \in places
        PROVE  Picked(s, places) # <<>> /\ Picked(s, places)[1] = s[1]
    <2>1. 1 \in 1..c
      BY <1>2, <1>3, <1>5
    <2>2. {k \in places : k < 1} = {}
      BY <1>1
    <2>3. Cardinality({k \in places : k < 1}) = 1 - 1
      <3>1. Cardinality({k \in places : k < 1}) = 0
        BY <2>2, FS_EmptySet
      <3>. QED
        BY <3>1
    <2>4. \A m \in places : Cardinality({k \in places : k < m}) = 1 - 1 => m = 1
      BY <1>1, <1>5, <2>3, RankIsOfOne
    <2>5. InOrder(places)[1]
            = CHOOSE n \in places : Cardinality({k \in places : k < n}) = 1 - 1
      BY <1>2, <2>1 DEF InOrder
    <2>6. InOrder(places)[1] = 1
      BY <1>5, <2>3, <2>4, <2>5
    <2>7. Picked(s, places)[1] = s[1] /\ 1 \in DOMAIN Picked(s, places)
      BY <1>4, <2>1, <2>6
    <2>8. DOMAIN << >> = {}
      OBVIOUS
    <2>. QED
      BY <2>7, <2>8
  <1>6. ASSUME IsInjective(s) PROVE IsInjective(Picked(s, places))
    <2>1. SUFFICES ASSUME NEW i \in 1..c, NEW j \in 1..c,
                          s[InOrder(places)[i]] = s[InOrder(places)[j]]
                   PROVE  i = j
      BY <1>4 DEF IsInjective
    <2>2. InOrder(places)[i] \in DOMAIN s /\ InOrder(places)[j] \in DOMAIN s
      BY <1>3
    <2>3. InOrder(places)[i] = InOrder(places)[j]
      BY <1>6, <2>1, <2>2 DEF IsInjective
    <2>. QED
      BY <1>3, <2>3
  <1>. QED
    BY <1>5, <1>6

\* A run joins the end of a sequence it is not in.
LEMMA JoinsTheEnd ==
  ASSUME NEW s \in Seq(Runs), NEW r \in Runs
  PROVE  /\ s # <<>> => Append(s, r)[1] = s[1]
         /\ IsInjective(s) /\ r \notin ToSet(s) => IsInjective(Append(s, r))
         /\ ToSet(Append(s, r)) = ToSet(s) \union {r}
         /\ Append(s, r) # <<>>
  <1>1. /\ DOMAIN Append(s, r) = 1..Len(s) + 1 /\ DOMAIN s = 1..Len(s) /\ Len(s) \in Nat
        /\ \A i \in 1..Len(s) : Append(s, r)[i] = s[i]
        /\ Append(s, r)[Len(s) + 1] = r
    OBVIOUS
  <1>2. s # <<>> => 1 \in 1..Len(s)
    OBVIOUS
  <1>3. \A i \in 1..Len(s) : s[i] \in ToSet(s)
    BY <1>1 DEF ToSet
  <1>4. \A i \in 1..Len(s) + 1 : i \in 1..Len(s) \/ i = Len(s) + 1
    BY <1>1
  <1>5. IsInjective(s) /\ r \notin ToSet(s) => IsInjective(Append(s, r))
    BY <1>1, <1>3, <1>4 DEF IsInjective
  <1>6. ToSet(Append(s, r)) = ToSet(s) \union {r}
    BY <1>1, <1>4 DEF ToSet
  <1>. QED
    BY <1>1, <1>2, <1>5, <1>6

\* A run leaves the queue, or leaves it for its end.
LEMMA LeavesItsPlace ==
  ASSUME NEW s \in Seq(Runs), NEW r \in Runs
  PROVE  /\ s # <<>> /\ s[1] # r =>
              /\ Without(s, r)[1] = s[1] /\ Append(Without(s, r), r)[1] = s[1]
         /\ IsInjective(s) =>
              IsInjective(Without(s, r)) /\ IsInjective(Append(Without(s, r), r))
  <1>1. Without(s, r) = Picked(s, {i \in DOMAIN s : s[i] # r})
    BY DEF Without
  <1>2. s # <<>> /\ s[1] # r => 1 \in {i \in DOMAIN s : s[i] # r}
    OBVIOUS
  <1>3. /\ s # <<>> /\ s[1] # r => Without(s, r) # <<>> /\ Without(s, r)[1] = s[1]
        /\ IsInjective(s) => IsInjective(Without(s, r))
    BY <1>1, <1>2, PickedInOrder
  <1>4. Without(s, r) \in Seq(Runs) /\ r \notin ToSet(Without(s, r))
    BY WithoutOne
  <1>. QED
    BY <1>3, <1>4, JoinsTheEnd

\* The scope keeps to its two parents and its worker.
LEMMA KeepsToTwoParents ==
  ASSUME MCNext, scope = "defer"
  PROVE  /\ \A r \in Runs : looked'[r] # {} => r \in {1, 2}
         /\ \A v, w \in Workers :
              resolver'[v].pc # "idle" /\ resolver'[w].pc # "idle" => v = w
  <1>. DEFINE busy == {w \in Workers : resolver'[w] # IdleResolver}
  <1>1. Scope[scope].parents = {1, 2} /\ Scope[scope].workers = 1
    BY DEF Scope
  <1>2. (\A r \in Runs : looked'[r] # {} => r \in {1, 2}) /\ Cardinality(busy) <= 1
    BY <1>1 DEF MCNext, KeepsTo
  <1>3. IsFiniteSet(busy)
    BY FS_Subset, WorkersAssumption
  <1>4. \A w \in Workers : resolver'[w].pc # "idle" => w \in busy
    BY DEF IdleResolver
  <1>. HIDE DEF busy
  <1>5. ASSUME NEW v \in busy, NEW w \in busy PROVE v = w
    <2>1. Cardinality(busy) \in Nat /\ Cardinality(busy) # 0
      BY <1>3, <1>5, FS_CardinalityType, FS_EmptySet
    <2>2. Cardinality(busy) = 1
      BY <1>2, <2>1
    <2>3. PICK x : busy = {x}
      BY <1>3, <2>2, FS_Singleton
    <2>. QED
      BY <1>5, <2>3
  <1>. QED
    BY <1>2, <1>4, <1>5

\* What a step does to the queue of the parents when no worker is in it.
LEMMA StepKinds ==
  ASSUME DelegationNext
  PROVE  \/ /\ resolver' = resolver
            /\ \/ updated' = updated
               \/ \E r \in Runs : updated' = Without(updated, r)
               \/ \E r \in Runs : /\ run[r].status = "RUNNING" /\ looked[r] # {}
                                  /\ updated' = Append(updated, r)
         \/ \E w \in Workers : Resolve(w)
  <1>1. ASSUME NEW budget, CreateDirectRun(budget)
        PROVE  resolver' = resolver /\ updated' = updated
    BY <1>1 DEF CreateDirectRun
  <1>2. ASSUME TenantChanges \/ Midnight
        PROVE  resolver' = resolver /\ updated' = updated
    BY <1>2 DEF TenantChanges, Midnight
  <1>3. ASSUME NEW r \in Runs, ForkRun(r)
        PROVE  resolver' = resolver /\ updated' = updated
    BY <1>1, <1>3 DEF ForkRun
  <1>4. ASSUME NEW r \in Runs, RunMoves(r)
        PROVE  /\ resolver' = resolver
               /\ \/ updated' = updated
                  \/ updated' = Without(updated, r)
                  \/ run[r].status = "RUNNING" /\ looked[r] # {} /\ updated' = Append(updated, r)
    <2>1. CASE claimRun(r) \/ LedgerGrows(r) \/ beginModelInvocation(r)
                 \/ InvocationLost(r) \/ DelegateLooks(r)
      BY <2>1 DEF claimRun, LedgerGrows, beginModelInvocation, InvocationLost, DelegateLooks
    <2>2. CASE AttemptFails(r) \/ Cancel(r) \/ \E to \in {"COMPLETED", "FAILED"} : Finish(r, to)
      BY <2>2 DEF AttemptFails, Cancel, Finish, transitionRun
    <2>3. CASE \E tokens \in 1..call[r] : completeModelInvocation(r, tokens)
      BY <2>3 DEF completeModelInvocation
    <2>4. ASSUME NEW l \in looked[r],
                 DelegationThrows(r, l) \/ \E n \in 1..FanOut : spawnChildren(r, l, n)
          PROVE  /\ resolver' = resolver
                 /\ \/ updated' = updated
                    \/ run[r].status = "RUNNING" /\ looked[r] # {} /\ updated' = Append(updated, r)
      BY <2>4 DEF DelegationThrows, spawnChildren
    <2>. QED
      BY <1>4, <2>1, <2>2, <2>3, <2>4 DEF RunMoves
  <1>. QED
    BY <1>1, <1>2, <1>3, <1>4 DEF DelegationNext

\* A worker lists waiting parents in their order, the first of them first.
LEMMA ListsInOrder ==
  ASSUME DelegationIndInv, NEW w \in Workers, wakeReadyParents(w)
  PROVE  /\ resolver[w].pc = "idle" /\ updated' = updated
         /\ \E todo \in Seq(Runs) :
              /\ resolver' = [resolver EXCEPT ![w] = [pc |-> "listed", todo |-> todo]]
              /\ ToSet(todo) \subseteq ToSet(updated)
              /\ IsInjective(updated) => IsInjective(todo)
              /\ updated # <<>> /\ Resolvable(updated[1]) => todo[1] = updated[1]
  <1>. DEFINE places == {i \in DOMAIN updated : Resolvable(updated[i])}
              first == Picked(updated, places)
              size == Min({CandidateLimit, Len(first)})
              todo == SubSeq(first, 1, size)
  <1>1. /\ resolver[w].pc = "idle" /\ updated' = updated /\ first # <<>>
        /\ resolver' = [resolver EXCEPT ![w] = [pc |-> "listed", todo |-> todo]]
    BY DEF wakeReadyParents
  <1>2. updated \in Seq(Runs) /\ places \in SUBSET (DOMAIN updated)
    BY DEF DelegationIndInv, RunTypes
  <1>3. updated # <<>> /\ Resolvable(updated[1]) => 1 \in places
    BY <1>2
  <1>4. ToSet(first) \subseteq ToSet(updated)
    <2>1. ToSet(first) = {updated[i] : i \in places}
      BY <1>2, PickedFrom
    <2>. HIDE DEF first
    <2>. QED
      BY <1>2, <2>1 DEF ToSet
  <1>5. /\ first \in Seq(Runs)
        /\ IsInjective(updated) => IsInjective(first)
        /\ 1 \in places => first[1] = updated[1]
    BY <1>2, PickedFrom, PickedInOrder
  <1>. HIDE DEF first, places
  <1>6. Len(first) \in Nat /\ Len(first) >= 1 /\ CandidateLimit \in Nat /\ CandidateLimit >= 1
    BY <1>1, <1>5, DelegationAssumption
  <1>7. size \in 1..Len(first)
    <2>1. CandidateLimit \in Int /\ \E k \in Int : k = Len(first)
      BY <1>6
    <2>0. PICK k \in Int : k = Len(first)
      BY <2>1
    <2>2. Min({CandidateLimit, k}) = IF CandidateLimit < k THEN CandidateLimit ELSE k
      BY <2>1, MaxMin
    <2>3. size = IF CandidateLimit < k THEN CandidateLimit ELSE k
      BY <2>0, <2>2
    <2>. QED
      BY <1>6, <2>0, <2>3
  <1>. HIDE DEF size
  <1>8. /\ todo \in Seq(Runs) /\ DOMAIN todo = 1..size
        /\ \A i \in 1..size : todo[i] = first[i] /\ i \in DOMAIN first
    BY <1>5, <1>6, <1>7
  <1>. HIDE DEF todo
  <1>9. /\ ToSet(todo) \subseteq ToSet(first)
        /\ IsInjective(first) => IsInjective(todo)
    BY <1>8 DEF ToSet, IsInjective
  <1>10. todo[1] = first[1]
    BY <1>7, <1>8
  <1>. QED
    BY <1>1, <1>3, <1>4, <1>5, <1>8, <1>9, <1>10

\* The rest of a pass: what is left of it is in the order of before.
LEMMA PassGoesOn ==
  ASSUME DelegationIndInv, NEW w \in Workers, resolver[w].pc # "idle"
  PROVE  /\ resolver[w].todo \in Seq(Runs) /\ resolver[w].todo # <<>>
         /\ Parent(w) \in Runs /\ Parent(w) = resolver[w].todo[1]
         /\ Parent(w) \in ToSet(resolver[w].todo)
         /\ ToSet(NextCandidate(w).todo) \subseteq ToSet(resolver[w].todo)
         /\ IsInjective(resolver[w].todo) => IsInjective(NextCandidate(w).todo)
  <1>1. PICK todo \in Seq(Runs) : todo = resolver[w].todo /\ todo # <<>>
    BY DEF DelegationIndInv, OtherTypes, Passes
  <1>2. Len(todo) \in Nat /\ Len(todo) >= 1 /\ DOMAIN todo = 1..Len(todo)
    BY <1>1
  <1>3. Head(todo) = todo[1] /\ todo[1] \in Runs /\ todo[1] \in ToSet(todo)
    BY <1>1, <1>2 DEF ToSet
  <1>4. /\ DOMAIN Tail(todo) = 1..Len(todo) - 1
        /\ \A i \in 1..Len(todo) - 1 : Tail(todo)[i] = todo[i + 1] /\ i + 1 \in DOMAIN todo
    BY <1>1, <1>2
  <1>5. ToSet(Tail(todo)) \subseteq ToSet(todo)
    BY <1>4 DEF ToSet
  <1>6. IsInjective(todo) => IsInjective(Tail(todo))
    <2>1. SUFFICES ASSUME IsInjective(todo), NEW i \in 1..Len(todo) - 1, NEW j \in 1..Len(todo) - 1,
                          Tail(todo)[i] = Tail(todo)[j]
                   PROVE  i = j
      BY <1>4 DEF IsInjective
    <2>2. i + 1 = j + 1
      BY <1>4, <2>1 DEF IsInjective
    <2>. QED
      BY <2>2
  <1>7. NextCandidate(w).todo = <<>> \/ NextCandidate(w).todo = Tail(todo)
    BY <1>1 DEF NextCandidate, IdleResolver
  <1>8. ToSet(<<>>) = {} /\ IsInjective(<<>>)
    BY DEF ToSet, IsInjective
  <1>. QED
    BY <1>1, <1>3, <1>5, <1>6, <1>7, <1>8 DEF Parent

\* What a worker's step makes of its pass and of the queue.
LEMMA PassKinds ==
  ASSUME NEW w \in Workers, Resolve(w), ~wakeReadyParents(w)
  PROVE  /\ resolver[w].pc # "idle"
         /\ \E pass \in {IdleResolver, NextCandidate(w), [resolver[w] EXCEPT !.pc = "locked"]} :
              resolver' = [resolver EXCEPT ![w] = pass]
         /\ \/ updated' = updated
            \/ updated' = Without(updated, Parent(w))
            \/ updated' = Touched(Parent(w))
  <1>1. CASE TryParent(w)
    BY <1>1 DEF TryParent
  <1>2. CASE ParentSkipped(w)
    BY <1>2 DEF ParentSkipped
  <1>3. CASE ChildrenReplaced(w)
    BY <1>3 DEF ChildrenReplaced
  <1>4. CASE ReplacementDeferred(w)
    BY <1>4 DEF ReplacementDeferred, DeferralRotates
  <1>5. CASE ChildrenResolved(w)
    BY <1>5 DEF ChildrenResolved, transitionRun
  <1>6. CASE ResolverCrashes(w)
    BY <1>6 DEF ResolverCrashes
  <1>. QED
    BY <1>1, <1>2, <1>3, <1>4, <1>5, <1>6 DEF Resolve

\* The scope stays one of two parents.
LEMMA TwoParentsStay ==
  ASSUME DelegationIndInv, DelegationIndInv', MCNext, scope = "defer", TwoParents
  PROVE  TwoParents'
  <1>1. /\ updated \in Seq(Runs) /\ ToSet(updated) \subseteq {1, 2} /\ IsInjective(updated)
        /\ \A r \in Runs : run[r].status = "WAITING_CHILDREN" <=> r \in ToSet(updated)
        /\ resolver \in [Workers -> Passes]
    BY DEF DelegationIndInv, RunTypes, OtherTypes, TwoParents
  <1>2. /\ \A r \in Runs : looked'[r] # {} => r \in {1, 2}
        /\ \A v, w \in Workers :
             resolver'[v].pc # "idle" /\ resolver'[w].pc # "idle" => v = w
    BY KeepsToTwoParents
  <1>. DEFINE Few(s) == ToSet(s) \subseteq {1, 2} /\ IsInjective(s)
  <1>3. ASSUME NEW r \in Runs PROVE Few(Without(updated, r))
    BY <1>1, WithoutOne, LeavesItsPlace
  <1>4. ASSUME NEW r \in Runs, run[r].status = "RUNNING", looked[r] # {}
        PROVE  Few(Append(updated, r))
    <2>1. r \notin ToSet(updated) /\ r \in {1, 2}
      BY <1>1, <1>4 DEF TwoParents
    <2>. QED
      BY <1>1, <2>1, JoinsTheEnd
  <1>5. \A w \in Workers : Few(resolver[w].todo)
    BY DEF TwoParents
  <1>6. ASSUME NEW w \in Workers, NEW pass, Few(pass.todo),
               resolver' = [resolver EXCEPT ![w] = pass], Few(updated')
        PROVE  TwoParents'
    <2>1. \A v \in Workers : Few(resolver'[v].todo)
      BY <1>1, <1>5, <1>6
    <2>. QED
      BY <1>2, <1>6, <2>1 DEF TwoParents
  <1>7. CASE resolver' = resolver /\ Few(updated')
    <2>1. \A v \in Workers : Few(resolver'[v].todo)
      BY <1>5, <1>7
    <2>. QED
      BY <1>2, <1>7, <2>1 DEF TwoParents
  <1>8. ASSUME NEW w \in Workers, Resolve(w) PROVE TwoParents'
    <2>1. CASE wakeReadyParents(w)
      <3>1. /\ updated' = updated
            /\ \E todo \in Seq(Runs) :
                 /\ resolver' = [resolver EXCEPT ![w] = [pc |-> "listed", todo |-> todo]]
                 /\ ToSet(todo) \subseteq ToSet(updated)
                 /\ IsInjective(updated) => IsInjective(todo)
        BY <2>1, ListsInOrder
      <3>2. PICK todo : /\ resolver' = [resolver EXCEPT ![w] = [pc |-> "listed", todo |-> todo]]
                        /\ Few(todo)
        BY <1>1, <3>1
      <3>3. PICK pass : pass = [pc |-> "listed", todo |-> todo]
        OBVIOUS
      <3>4. resolver' = [resolver EXCEPT ![w] = pass] /\ Few(pass.todo) /\ Few(updated')
        BY <1>1, <3>1, <3>2, <3>3
      <3>. QED
        BY <1>6, <3>4
    <2>2. CASE ~wakeReadyParents(w)
      <3>1. resolver[w].pc # "idle"
        BY <1>8, <2>2, PassKinds
      <3>2. Parent(w) \in Runs /\ Parent(w) \in {1, 2} /\ Few(NextCandidate(w).todo)
        BY <1>5, <3>1, PassGoesOn
      <3>3. Few(IdleResolver.todo) /\ Few([resolver[w] EXCEPT !.pc = "locked"].todo)
        <4>1. ToSet(<<>>) = {} /\ IsInjective(<<>>)
          BY DEF ToSet, IsInjective
        <4>. QED
          BY <1>1, <1>5, <4>1 DEF IdleResolver, Passes
      <3>4. Few(updated')
        <4>1. CASE updated' = updated
          BY <1>1, <4>1
        <4>2. CASE updated' = Without(updated, Parent(w))
          BY <1>3, <3>2, <4>2
        <4>3. CASE updated' = Touched(Parent(w))
          BY <1>1, <3>2, <4>3, WithoutOne, LeavesItsPlace DEF Touched
        <4>. QED
          BY <1>8, <2>2, <4>1, <4>2, <4>3, PassKinds
      <3>. QED
        BY <1>6, <1>8, <2>2, <3>2, <3>3, <3>4, PassKinds
    <2>. QED
      BY <2>1, <2>2
  <1>. QED
    BY <1>1, <1>3, <1>4, <1>7, <1>8, StepKinds DEF MCNext

\* A parent that no other keeps waiting is passed over once at most.
LEMMA PassedOnceStays ==
  ASSUME DelegationIndInv, DelegationIndInv', MCNext, scope = "defer", TwoParents,
         TwoParents', NEW p \in Runs, PassedOnce(p)
  PROVE  PassedOnce(p)'
  <1>. DEFINE over == \E w \in Workers : p \notin ToSet(resolver[w].todo)
                                        /\ ReplacementDeferred(w)
  <1>1. passedOver'[p] = IF ~Resolved(p)' THEN 0
                         ELSE IF over THEN passedOver[p] + 1 ELSE passedOver[p]
    BY DEF MCNext
  <1>2. /\ updated \in Seq(Runs) /\ updated' \in Seq(Runs)
        /\ resolver \in [Workers -> Passes]
        /\ \A r \in Runs : /\ run[r].status = "WAITING_CHILDREN" <=> r \in ToSet(updated)
                           /\ run'[r].status = "WAITING_CHILDREN" <=> r \in ToSet(updated')
    BY DEF DelegationIndInv, RunTypes, OtherTypes
  <1>3. CASE ~Resolved(p)'
    BY <1>1, <1>3 DEF PassedOnce
  <1>. SUFFICES ASSUME Resolved(p)' PROVE PassedOnce(p)'
    BY <1>3
  <1>4. p \in ToSet(updated')
    BY <1>2 DEF Resolved, Resolvable
  <1>5. ASSUME NEW w \in Workers, p \notin ToSet(resolver[w].todo), ReplacementDeferred(w)
        PROVE  PassedOnce(p)'
    <2>. DEFINE q == Parent(w)
    <2>1. /\ resolver[w].pc # "idle" /\ updated' = Touched(q)
          /\ resolver' = [resolver EXCEPT ![w] = NextCandidate(w)]
      BY <1>5 DEF ReplacementDeferred, DeferralRotates
    <2>2. /\ resolver[w].todo \in Seq(Runs) /\ resolver[w].todo # <<>>
          /\ q \in Runs /\ q = resolver[w].todo[1] /\ q \in ToSet(resolver[w].todo)
      BY <2>1, PassGoesOn
    <2>3. q # p /\ q \in {1, 2} /\ ToSet(resolver[w].todo) \subseteq {1, 2}
      BY <1>5, <2>2 DEF TwoParents
    <2>4. p \in {1, 2}
      BY <1>4 DEF TwoParents
    <2>5. passedOver[p] = 0
      BY <1>5, <2>1, <2>2, <2>3 DEF PassedOnce, IsNext
    <2>6. passedOver'[p] = 1
      BY <1>1, <1>5, <2>5
    <2>7. updated'[1] = p
      <3>1. PICK rest \in Seq(Runs) : rest = Without(updated, q) /\ updated' = Append(rest, q)
        BY <1>2, <2>1, WithoutOne DEF Touched
      <3>2. ToSet(rest) = ToSet(updated) \ {q} /\ ToSet(updated') = ToSet(rest) \union {q}
        BY <1>2, <2>2, <3>1, WithoutOne, JoinsTheEnd
      <3>3. p \in ToSet(rest) /\ ToSet(rest) \subseteq {p}
        BY <1>4, <2>3, <2>4, <3>2 DEF TwoParents
      <3>4. rest # <<>>
        BY <3>3 DEF ToSet
      <3>5. rest[1] = p
        <4>1. 1 \in DOMAIN rest
          BY <3>4
        <4>. QED
          BY <3>3, <4>1 DEF ToSet
      <3>. QED
        BY <2>2, <3>1, <3>4, <3>5, JoinsTheEnd
    <2>8. NextCandidate(w) = IdleResolver
      <3>1. PICK todo \in Seq(Runs) : todo = resolver[w].todo /\ todo # <<>>
        BY <2>2
      <3>2. Len(todo) \in Nat /\ DOMAIN todo = 1..Len(todo) /\ Len(todo) >= 1
        BY <3>1
      <3>3. \A i \in DOMAIN todo : todo[i] = q
        <4>1. ToSet(todo) \subseteq {q}
          BY <1>5, <2>3, <2>4, <3>1
        <4>. QED
          BY <4>1 DEF ToSet
      <3>4. \A i \in DOMAIN todo : i = 1
        <4>1. IsInjective(todo) /\ 1 \in DOMAIN todo
          BY <3>1, <3>2 DEF TwoParents
        <4>. QED
          BY <3>3, <4>1 DEF IsInjective
      <3>5. Len(todo) = 1
        BY <3>2, <3>4
      <3>. QED
        BY <3>1, <3>5 DEF NextCandidate
    <2>9. \A v \in Workers : resolver'[v].pc = "idle"
      BY <1>2, <2>1, <2>8 DEF TwoParents, IdleResolver
    <2>. QED
      BY <2>6, <2>7, <2>9 DEF PassedOnce, IsNext
  <1>6. CASE ~over /\ passedOver[p] = 0
    BY <1>1, <1>6 DEF PassedOnce
  <1>7. CASE ~over /\ passedOver[p] # 0
    <2>1. /\ passedOver[p] = 1 /\ passedOver'[p] = 1 /\ Resolved(p)
          /\ updated[1] = p /\ Resolvable(p) /\ Replaceable(p) = {}
          /\ \A w \in Workers : resolver[w].pc # "idle" => resolver[w].todo[1] = p
      BY <1>1, <1>7 DEF PassedOnce, IsNext, Resolved
    <2>2. updated # <<>>
      <3>1. p \in ToSet(updated)
        BY <1>2, <2>1 DEF Resolvable
      <3>. QED
        BY <3>1 DEF ToSet
    <2>3. ASSUME NEW r \in Runs, updated' = Without(updated, r) PROVE updated'[1] = p
      <3>1. r # p
        BY <1>2, <1>4, <2>3, WithoutOne
      <3>. QED
        BY <1>2, <2>1, <2>2, <2>3, <3>1, LeavesItsPlace
    <2>4. CASE /\ resolver' = resolver
               /\ \/ updated' = updated
                  \/ \E r \in Runs : updated' = Without(updated, r)
                  \/ \E r \in Runs : updated' = Append(updated, r)
      <3>1. updated'[1] = p
        BY <1>2, <2>1, <2>2, <2>3, <2>4, JoinsTheEnd
      <3>. QED
        BY <2>1, <2>4, <3>1 DEF PassedOnce, IsNext
    <2>5. ASSUME NEW w \in Workers, Resolve(w) PROVE PassedOnce(p)'
      <3>1. ASSUME NEW pass, pass.pc # "idle" => pass.todo[1] = p,
                   resolver' = [resolver EXCEPT ![w] = pass], updated' = updated
            PROVE  PassedOnce(p)'
        <4>1. \A v \in Workers : resolver'[v].pc # "idle" => resolver'[v].todo[1] = p
          BY <1>2, <2>1, <3>1
        <4>. QED
          BY <2>1, <3>1, <4>1 DEF PassedOnce, IsNext
      <3>2. CASE wakeReadyParents(w)
        <4>1. updated' = updated /\ \E todo \in Seq(Runs) :
                /\ resolver' = [resolver EXCEPT ![w] = [pc |-> "listed", todo |-> todo]]
                /\ updated # <<>> /\ Resolvable(updated[1]) => todo[1] = updated[1]
          BY <3>2, ListsInOrder
        <4>2. PICK todo : /\ resolver' = [resolver EXCEPT ![w] = [pc |-> "listed", todo |-> todo]]
                          /\ todo[1] = p
          BY <2>1, <2>2, <4>1
        <4>3. PICK pass : pass = [pc |-> "listed", todo |-> todo]
          OBVIOUS
        <4>4. resolver' = [resolver EXCEPT ![w] = pass] /\ pass.todo[1] = p
          BY <4>2, <4>3
        <4>. QED
          BY <3>1, <4>1, <4>4
      <3>3. CASE ~wakeReadyParents(w)
        <4>1. resolver[w].pc # "idle" /\ Parent(w) = p
          BY <2>1, <2>5, <3>3, PassKinds, PassGoesOn
        <4>2. CASE TryParent(w)
          <5>1. \A v \in Workers : resolver[v].pc = "locked" => v = w
            BY <4>1 DEF TwoParents
          <5>2. /\ resolver' = [resolver EXCEPT ![w] = [resolver[w] EXCEPT !.pc = "locked"]]
                /\ updated' = updated
            BY <4>2, <5>1 DEF TryParent
          <5>3. [resolver[w] EXCEPT !.pc = "locked"].todo[1] = p
            BY <1>2, <2>1, <4>1 DEF Passes
          <5>. QED
            BY <3>1, <5>2, <5>3
        <4>3. CASE ParentSkipped(w)
          BY <2>1, <4>1, <4>3 DEF ParentSkipped, Claimed
        <4>4. CASE ChildrenReplaced(w) \/ ReplacementDeferred(w)
          BY <2>1, <4>1, <4>4 DEF ChildrenReplaced, ReplacementDeferred
        <4>5. CASE ChildrenResolved(w)
          <5>1. updated' = Without(updated, p) /\ resolver' = [resolver EXCEPT ![w] = IdleResolver]
            BY <4>1, <4>5 DEF ChildrenResolved, transitionRun
          <5>. QED
            BY <1>2, <1>4, <5>1, WithoutOne
        <4>6. CASE ResolverCrashes(w)
          <5>1. updated' = updated /\ resolver' = [resolver EXCEPT ![w] = IdleResolver]
            BY <4>6 DEF ResolverCrashes
          <5>. QED
            BY <3>1, <5>1 DEF IdleResolver
        <4>. QED
          BY <2>5, <3>3, <4>2, <4>3, <4>4, <4>5, <4>6 DEF Resolve
      <3>. QED
        BY <3>2, <3>3
    <2>. QED
      BY <2>4, <2>5, StepKinds DEF MCNext
  <1>. QED
    BY <1>5, <1>6, <1>7

\* Of two parents the one that only waits to be resolved is passed over once,
\* whatever the window of candidates and however often the other's replacements
\* are deferred: ReplacementDeferred moves the other behind it.
THEOREM DeferralsPass == MCSpec => []DeferralsLetOthersPass
  <1>1. MCSpec => []DelegationIndInv
    <2>1. MCInit => DelegationIndInv
      BY DelegationStarts DEF MCInit
    <2>2. DelegationIndInv /\ [MCNext]_mcVars => DelegationIndInv'
      <3>1. [MCNext]_mcVars => [DelegationNext]_delegationVars
        BY DEF MCNext, mcVars
      <3>. QED
        BY <3>1, DelegationMoves
    <2>. QED
      BY <2>1, <2>2, PTL DEF MCSpec
  <1>2. MCInit => DeferInv
    <2>1. SUFFICES ASSUME MCInit PROVE TwoParents /\ \A p \in Runs : PassedOnce(p)
      BY DEF DeferInv
    <2>2. ToSet(<<>>) = {} /\ IsInjective(<<>>)
      BY DEF ToSet, IsInjective
    <2>. QED
      BY <2>1, <2>2 DEF MCInit, DelegationInit, IdleResolver, TwoParents, PassedOnce
  <1>3. DelegationIndInv /\ DelegationIndInv' /\ DeferInv /\ [MCNext]_mcVars => DeferInv'
    <2>1. SUFFICES ASSUME DelegationIndInv, DelegationIndInv', DeferInv, [MCNext]_mcVars
                   PROVE  DeferInv'
      OBVIOUS
    <2>2. CASE MCNext
      <3>1. SUFFICES ASSUME scope' = "defer" PROVE TwoParents' /\ \A p \in Runs : PassedOnce(p)'
        BY DEF DeferInv
      <3>2. scope = "defer" /\ TwoParents /\ \A p \in Runs : PassedOnce(p)
        BY <2>1, <2>2, <3>1 DEF MCNext, DeferInv
      <3>3. TwoParents'
        BY <2>1, <2>2, <3>2, TwoParentsStay
      <3>. QED
        BY <2>1, <2>2, <3>2, <3>3, PassedOnceStays
    <2>3. CASE UNCHANGED mcVars
      BY <2>1, <2>3 DEF mcVars, delegationVars, ledgerVars, DeferInv, TwoParents, PassedOnce,
         IsNext, Resolved, Resolvable, Replaceable, Selected, Superseded, ChildrenOf, Exists, Ended
    <2>. QED
      BY <2>1, <2>2, <2>3
  <1>4. DeferInv => DeferralsLetOthersPass
    BY DEF DeferInv, DeferralsLetOthersPass, PassedOnce
  <1>. QED
    BY <1>1, <1>2, <1>3, <1>4, PTL DEF MCSpec
=============================================================================
