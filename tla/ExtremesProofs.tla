--------------------------- MODULE ExtremesProofs ---------------------------
(***************************************************************************)
(* A finite set of naturals has a least and a greatest element.  The sets  *)
(* of the elements beyond each of its members are finite, hence one of     *)
(* them is minimal for inclusion, and only the empty one can be.  Induction *)
(* over the naturals follows, for sets: whoever has a least counterexample *)
(* has a step that fails.                                                  *)
(***************************************************************************)
EXTENDS Extremes, FiniteSetTheorems, TLAPS

LEMMA MinimalMember ==
    ASSUME NEW S, IsFiniteSet(S), NEW T \in SUBSET (SUBSET S), T # {}
    PROVE  \E t \in T : \A u \in T : u \subseteq t => u = t
<1>1. IsWellFoundedOn(StrictSubsetOrdering(S), SUBSET S)
  BY FS_FiniteSubsetsOfFinite, FS_StrictSubsetOrderingWellFounded
<1>2. PICK t \in T : \A u \in T : ~ (<<u, t>> \in StrictSubsetOrdering(S))
  BY <1>1, WFMin
<1>3. ASSUME NEW u \in T, u \subseteq t, u # t
      PROVE  FALSE
  BY <1>2, <1>3 DEF StrictSubsetOrdering
<1> QED
  BY <1>3

(* A function into the subsets of a finite set has a minimal value. *)
LEMMA MinimalValue ==
    ASSUME NEW S, IsFiniteSet(S), S # {}, NEW f \in [S -> SUBSET S]
    PROVE  \E m \in S : \A x \in S : f[x] \subseteq f[m] => f[x] = f[m]
<1> DEFINE T == {f[x] : x \in S}
<1>1. T \in SUBSET (SUBSET S) /\ T # {}
  OBVIOUS
<1>2. \A x \in S : f[x] \in T
  OBVIOUS
<1>3. \A t \in T : \E x \in S : t = f[x]
  OBVIOUS
<1> HIDE DEF T
<1>4. PICK t \in T : \A u \in T : u \subseteq t => u = t
  BY <1>1, MinimalMember
<1> QED
  BY <1>2, <1>3, <1>4

LEMMA LeastExists ==
    ASSUME NEW S \in SUBSET Nat, IsFiniteSet(S), S # {}
    PROVE  \E m \in S : \A x \in S : m <= x
<1> DEFINE Below == [m \in S |-> {x \in S : x < m}]
<1>1. PICK m \in S : \A x \in S : Below[x] \subseteq Below[m] => Below[x] = Below[m]
  <2>1. Below \in [S -> SUBSET S]
    OBVIOUS
  <2>2. \A f \in [S -> SUBSET S] : \E m \in S : \A x \in S : f[x] \subseteq f[m] => f[x] = f[m]
    BY MinimalValue
  <2> HIDE DEF Below
  <2> QED
    BY <2>1, <2>2
<1>2. ASSUME NEW x \in S, x < m
      PROVE  FALSE
  <2>1. S \subseteq Nat
    OBVIOUS
  <2>2. Below[x] \subseteq Below[m]
    <3> SUFFICES ASSUME NEW y \in S, y < x
                 PROVE  y < m
      OBVIOUS
    <3> QED
      BY <1>2, <2>1
  <2>3. x \in Below[m] /\ x \notin Below[x]
    BY <1>2, <2>1
  <2> QED
    BY <1>1, <2>2, <2>3
<1> QED
  BY <1>2

LEMMA GreatestExists ==
    ASSUME NEW S \in SUBSET Nat, IsFiniteSet(S), S # {}
    PROVE  \E m \in S : \A x \in S : x <= m
<1> DEFINE Above == [m \in S |-> {x \in S : m < x}]
<1>1. PICK m \in S : \A x \in S : Above[x] \subseteq Above[m] => Above[x] = Above[m]
  <2>1. Above \in [S -> SUBSET S]
    OBVIOUS
  <2>2. \A f \in [S -> SUBSET S] : \E m \in S : \A x \in S : f[x] \subseteq f[m] => f[x] = f[m]
    BY MinimalValue
  <2> HIDE DEF Above
  <2> QED
    BY <2>1, <2>2
<1>2. ASSUME NEW x \in S, m < x
      PROVE  FALSE
  <2>1. S \subseteq Nat
    OBVIOUS
  <2>2. Above[x] \subseteq Above[m]
    <3> SUFFICES ASSUME NEW y \in S, x < y
                 PROVE  m < y
      OBVIOUS
    <3> QED
      BY <1>2, <2>1
  <2>3. x \in Above[m] /\ x \notin Above[x]
    BY <1>2, <2>1
  <2> QED
    BY <1>1, <2>2, <2>3
<1> QED
  BY <1>2

(* Smallest denotes the least element of a set that has one. *)
LEMMA SmallestIsLeast ==
    ASSUME NEW S \in SUBSET Nat, IsFiniteSet(S), S # {}
    PROVE  Smallest(S) \in S /\ \A x \in S : Smallest(S) <= x
BY LeastExists DEF Smallest

(* Largest denotes the greatest element, or 0 for the empty set. *)
LEMMA LargestIsGreatest ==
    ASSUME NEW S \in SUBSET Nat, IsFiniteSet(S)
    PROVE  /\ Largest(S) \in Nat
           /\ S # {} => Largest(S) \in S
           /\ \A x \in S : x <= Largest(S)
<1>1. CASE S = {}
  BY <1>1 DEF Largest
<1>2. CASE S # {}
  BY <1>2, GreatestExists DEF Largest
<1> QED
  BY <1>1, <1>2

-----------------------------------------------------------------------------
(* A set that holds 0, and with each natural the next, holds them all. *)
LEMMA Induction ==
    ASSUME NEW S, 0 \in S, \A n \in Nat : n \in S => n + 1 \in S
    PROVE  \A n \in Nat : n \in S
<1> SUFFICES ASSUME NEW n \in Nat, n \notin S PROVE FALSE
  OBVIOUS
<1> DEFINE Out == {m \in 0 .. n : m \notin S}
<1>1. Out \in SUBSET Nat /\ IsFiniteSet(Out) /\ n \in Out
  <2>1. IsFiniteSet(0 .. n)
    BY FS_Interval
  <2> QED
    BY <2>1, FS_Subset
<1>2. PICK m \in Out : \A x \in Out : m <= x
  <2> HIDE DEF Out
  <2> QED
    BY <1>1, LeastExists
<1>3. m - 1 \in Nat /\ m - 1 \notin Out
  BY <1>2
<1>4. m - 1 \in S
  BY <1>3
<1> QED
  BY <1>3, <1>4

(* A walk of n steps that never comes back to a place visits n + 1 places. *)
LEMMA WalkVisits ==
    ASSUME NEW n \in Nat, NEW T, NEW f \in [0 .. n -> T],
           \A i, j \in 0 .. n : f[i] = f[j] => i = j,
           \A t \in T : \E i \in 0 .. n : f[i] = t
    PROVE  IsFiniteSet(T) /\ Cardinality(T) = n + 1
<1>1. f \in Bijection(0 .. n, T)
  BY DEF Bijection, Injection, Surjection, IsInjective
<1>2. IsFiniteSet(0 .. n) /\ Cardinality(0 .. n) = n + 1
  BY FS_Interval
<1>3. ExistsBijection(0 .. n, T)
  BY <1>1 DEF ExistsBijection
<1> QED
  BY <1>2, <1>3, FS_Bijection
=============================================================================
