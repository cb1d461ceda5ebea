---------------------------- MODULE FiniteFacts ----------------------------
(***************************************************************************)
(* Facts about finite sets that the proofs share: the smallest and the     *)
(* largest element of a set of naturals, which the models choose with      *)
(* CHOOSE, and how a count changes when one element moves.  The first rest *)
(* on the well-foundedness of the strict inclusion of finite sets.         *)
(***************************************************************************)
EXTENDS Integers, FiniteSets, FiniteSetTheorems, WellFoundedInduction, TLAPS

\* A set of naturals that is not empty has a smallest element.
LEMMA SmallestExists ==
  ASSUME NEW T \in SUBSET Nat, T # {}
  PROVE  \E x \in T : \A y \in T : x <= y
  <1>. DEFINE Below(n) == 0..n - 1
              U == {Below(n) : n \in T}
  <1>1. U \subseteq FiniteSubsetsOf(Nat)
    <2>1. \A n \in T : Below(n) \in FiniteSubsetsOf(Nat)
      BY FS_Interval DEF FiniteSubsetsOf
    <2>. QED
      BY <2>1
  <1>2. PICK m \in U : \A u \in U : <<u, m>> \notin StrictSubsetOrdering(Nat)
    <2>1. U # {}
      OBVIOUS
    <2>2. IsWellFoundedOn(StrictSubsetOrdering(Nat), FiniteSubsetsOf(Nat))
      BY FS_StrictSubsetOrderingWellFounded
    <2>. HIDE DEF U
    <2>. QED
      BY WFMin, <1>1, <2>1, <2>2
  <1>3. PICK x \in T : m = Below(x)
    OBVIOUS
  <1>4. ASSUME NEW y \in T, y < x
        PROVE  FALSE
    <2>1. Below(y) \in U /\ <<Below(y), m>> \notin StrictSubsetOrdering(Nat)
      BY <1>2
    <2>2. Below(y) \subseteq m /\ m \subseteq Nat /\ Below(y) \subseteq Nat
      BY <1>3, <1>4
    <2>3. y \in m /\ y \notin Below(y)
      BY <1>3, <1>4
    <2>. HIDE DEF Below
    <2>4. <<Below(y), m>> \in (SUBSET Nat) \X (SUBSET Nat)
      BY <2>2
    <2>. QED
      BY <2>1, <2>2, <2>3, <2>4 DEF StrictSubsetOrdering
  <1>. QED
    BY <1>4

\* A bounded set of naturals that is not empty has a largest element.
LEMMA LargestExists ==
  ASSUME NEW n \in Nat, NEW T \in SUBSET (0..n), T # {}
  PROVE  \E x \in T : \A y \in T : y <= x
  <1>. DEFINE U == {n - x : x \in T}
  <1>1. U \in SUBSET Nat /\ U # {}
    <2>1. \A x \in T : n - x \in Nat
      OBVIOUS
    <2>. QED
      BY <2>1
  <1>2. PICK u \in U : \A v \in U : u <= v
    <2>. HIDE DEF U
    <2>. QED
      BY <1>1, SmallestExists
  <1>3. PICK x \in T : u = n - x
    OBVIOUS
  <1>4. \A y \in T : n - y \in U
    OBVIOUS
  <1>5. \A y \in T : n - x <= n - y
    BY <1>2, <1>3, <1>4
  <1>. QED
    BY <1>5

\* A finite set of naturals is bounded.
LEMMA FiniteIsBounded ==
  ASSUME NEW T \in SUBSET Nat, IsFiniteSet(T)
  PROVE  \E m \in Nat : \A y \in T : y <= m
  <1>. DEFINE Bounded(S) == \E m \in Nat : \A y \in S : y <= m
              U == {S \in FiniteSubsetsOf(Nat) : ~Bounded(S)}
  <1>1. SUFFICES ASSUME ~Bounded(T) PROVE FALSE
    OBVIOUS
  <1>2. PICK S \in U : \A R \in U : <<R, S>> \notin StrictSubsetOrdering(Nat)
    <2>1. U # {} /\ U \subseteq FiniteSubsetsOf(Nat)
      BY <1>1 DEF FiniteSubsetsOf
    <2>2. IsWellFoundedOn(StrictSubsetOrdering(Nat), FiniteSubsetsOf(Nat))
      BY FS_StrictSubsetOrderingWellFounded
    <2>. HIDE DEF U
    <2>. QED
      BY WFMin, <2>1, <2>2
  <1>3. S \subseteq Nat /\ IsFiniteSet(S) /\ ~Bounded(S)
    BY <1>2 DEF FiniteSubsetsOf
  <1>4. PICK x \in S : TRUE
    BY <1>3
  <1>. DEFINE R == S \ {x}
  <1>5. Bounded(R)
    <2>1. <<R, S>> \in StrictSubsetOrdering(Nat)
      BY <1>3, <1>4 DEF StrictSubsetOrdering
    <2>2. R \in FiniteSubsetsOf(Nat)
      BY <1>3, FS_RemoveElement DEF FiniteSubsetsOf
    <2>. HIDE DEF Bounded, R
    <2>. QED
      BY <1>2, <2>1, <2>2
  <1>6. PICK m \in Nat : \A y \in R : y <= m
    BY <1>5
  <1>7. \A y \in S : y <= m + x
    BY <1>3, <1>6
  <1>8. m + x \in Nat
    BY <1>3
  <1>. QED
    BY <1>3, <1>7, <1>8

\* Every place in the order of a finite set of naturals is taken by an element.
LEMMA RankIsTaken ==
  ASSUME NEW T \in SUBSET Nat, IsFiniteSet(T), NEW i \in 1..Cardinality(T)
  PROVE  \E n \in T : Cardinality({k \in T : k < n}) = i - 1
  <1>. DEFINE Ranked(S) == \A j \in 1..Cardinality(S) :
                             \E n \in S : Cardinality({k \in S : k < n}) = j - 1
              U == {S \in FiniteSubsetsOf(Nat) : ~Ranked(S)}
  <1>1. SUFFICES ASSUME ~Ranked(T) PROVE FALSE
    OBVIOUS
  <1>2. PICK S \in U : \A R \in U : <<R, S>> \notin StrictSubsetOrdering(Nat)
    <2>1. U # {} /\ U \subseteq FiniteSubsetsOf(Nat)
      <3>1. T \in FiniteSubsetsOf(Nat)
        BY DEF FiniteSubsetsOf
      <3>. HIDE DEF Ranked
      <3>. QED
        BY <1>1, <3>1
    <2>2. IsWellFoundedOn(StrictSubsetOrdering(Nat), FiniteSubsetsOf(Nat))
      BY FS_StrictSubsetOrderingWellFounded
    <2>. HIDE DEF U
    <2>. QED
      BY WFMin, <2>1, <2>2
  <1>3. S \subseteq Nat /\ IsFiniteSet(S) /\ ~Ranked(S)
    BY <1>2 DEF FiniteSubsetsOf
  <1>4. PICK j \in 1..Cardinality(S) : \A n \in S : Cardinality({k \in S : k < n}) # j - 1
    BY <1>3
  <1>5. S # {} /\ Cardinality(S) \in Nat
    BY <1>3, <1>4, FS_EmptySet, FS_CardinalityType
  <1>6. PICK x \in S : \A y \in S : y <= x
    <2>1. PICK m \in Nat : \A y \in S : y <= m
      BY <1>3, FiniteIsBounded
    <2>2. S \in SUBSET (0..m)
      BY <1>3, <2>1
    <2>. QED
      BY <1>5, <2>2, LargestExists
  <1>. DEFINE R == S \ {x}
  <1>7. IsFiniteSet(R) /\ Cardinality(R) = Cardinality(S) - 1
    BY <1>3, <1>6, FS_RemoveElement
  <1>8. CASE j = Cardinality(S)
    <2>1. {k \in S : k < x} = R
      <3>1. \A k \in S : k \in Nat /\ x \in Nat
        BY <1>3, <1>6
      <3>2. \A k \in S : k < x <=> k # x
        BY <1>6, <3>1
      <3>. QED
        BY <1>6, <3>2
    <2>. QED
      BY <1>4, <1>6, <1>7, <1>8, <2>1
  <1>9. CASE j \in 1..Cardinality(R)
    <2>1. Ranked(R)
      <3>1. <<R, S>> \in StrictSubsetOrdering(Nat)
        BY <1>3, <1>6 DEF StrictSubsetOrdering
      <3>2. R \in FiniteSubsetsOf(Nat)
        BY <1>3, <1>7 DEF FiniteSubsetsOf
      <3>. HIDE DEF Ranked, R
      <3>. QED
        BY <1>2, <3>1, <3>2
    <2>2. PICK n \in R : Cardinality({k \in R : k < n}) = j - 1
      BY <1>9, <2>1
    <2>3. {k \in S : k < n} = {k \in R : k < n}
      BY <1>3, <1>6, <2>2
    <2>. QED
      BY <1>4, <2>2, <2>3
  <1>. QED
    BY <1>4, <1>5, <1>7, <1>8, <1>9

\* ... and by no other.
LEMMA RankIsOfOne ==
  ASSUME NEW T \in SUBSET Nat, IsFiniteSet(T), NEW n \in T
  PROVE  /\ Cardinality(T) \in Nat
         /\ Cardinality({k \in T : k < n}) \in Nat
         /\ Cardinality({k \in T : k < n}) < Cardinality(T)
         /\ \A m \in T : Cardinality({k \in T : k < m}) = Cardinality({k \in T : k < n})
                          => m = n
  <1>. DEFINE Below(m) == {k \in T : k < m}
  <1>1. \A m \in T : Below(m) \in SUBSET T /\ IsFiniteSet(Below(m)) /\ m \notin Below(m)
    BY FS_Subset
  <1>2. \A m, l \in T : m < l => Below(m) \in SUBSET Below(l) /\ m \in Below(l)
    <2>1. \A m, l, k \in T : k < m /\ m < l => k < l
      <3>1. \A m \in T : m \in Nat
        OBVIOUS
      <3>. QED
        BY <3>1
    <2>. QED
      BY <2>1
  <1>3. Below(n) # T
    BY <1>1
  <1>. HIDE DEF Below
  <1>4. \A m, l \in T : m < l => Cardinality(Below(m)) # Cardinality(Below(l))
    <2>1. SUFFICES ASSUME NEW m \in T, NEW l \in T, m < l,
                          Cardinality(Below(m)) = Cardinality(Below(l))
                   PROVE  FALSE
      OBVIOUS
    <2>2. Below(m) = Below(l)
      BY <1>1, <1>2, <2>1, FS_Subset
    <2>. QED
      BY <1>1, <1>2, <2>1, <2>2
  <1>5. /\ Cardinality(T) \in Nat /\ Cardinality(Below(n)) \in Nat
        /\ Cardinality(Below(n)) <= Cardinality(T) /\ Cardinality(Below(n)) # Cardinality(T)
    BY <1>1, <1>3, FS_Subset, FS_CardinalityType
  <1>6. \A m \in T : m = n \/ m < n \/ n < m
    <2>1. n \in Nat /\ \A m \in T : m \in Nat
      OBVIOUS
    <2>. QED
      BY <2>1
  <1>7. \A m \in T : Cardinality(Below(m)) = Cardinality(Below(n)) => m = n
    BY <1>4, <1>6
  <1>. QED
    BY <1>5, <1>7 DEF Below

\* How many elements of A the function f maps into S.
CountIn(f, A, S) == Cardinality({x \in A : f[x] \in S})

\* Two functions that differ at one place u only have as many places with a
\* value in S, but for what u adds and takes away.
LEMMA CountAfterMove ==
  ASSUME NEW A, IsFiniteSet(A), NEW f, NEW g, NEW u, NEW S,
         \A x \in A \ {u} : g[x] = f[x]
  PROVE  /\ CountIn(f, A, S) \in Nat /\ CountIn(g, A, S) \in Nat
         /\ CountIn(g, A, S) + (IF u \in A /\ f[u] \in S THEN 1 ELSE 0)
              = CountIn(f, A, S) + (IF u \in A /\ g[u] \in S THEN 1 ELSE 0)
  <1>. DEFINE Places(h) == {x \in A : h[x] \in S}
              rest == {x \in A \ {u} : f[x] \in S}
  <1>1. IsFiniteSet(rest) /\ Cardinality(rest) \in Nat
    BY FS_Subset, FS_CardinalityType
  <1>2. u \notin rest
    OBVIOUS
  <1>3. Places(f) = IF u \in A /\ f[u] \in S THEN rest \cup {u} ELSE rest
    OBVIOUS
  <1>4. Places(g) = IF u \in A /\ g[u] \in S THEN rest \cup {u} ELSE rest
    OBVIOUS
  <1>5. CountIn(f, A, S) = Cardinality(Places(f)) /\ CountIn(g, A, S) = Cardinality(Places(g))
    BY DEF CountIn
  <1>. HIDE DEF rest, Places
  <1>6. Cardinality(rest \cup {u}) = Cardinality(rest) + 1
    BY <1>1, <1>2, FS_AddElement
  <1>. QED
    BY <1>1, <1>3, <1>4, <1>5, <1>6
=============================================================================
