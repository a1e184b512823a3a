---------------------------- MODULE OrderLemmas ----------------------------
(***************************************************************************)
(* What several proofs need of numbers: a nonempty set of naturals has a   *)
(* least element, and one that is bounded has a greatest. Listings that    *)
(* come in pages rest on it, and searches that take the first or the last. *)
(***************************************************************************)
EXTENDS Integers, FiniteSetTheorems, WellFoundedInduction, TLAPS

\* A nonempty set of naturals has a least element, from the well-foundedness of
\* strict inclusion among finite sets: n stands for the set 1 .. n.
LEMMA LeastNatural ==
  ASSUME NEW T \in SUBSET Nat, T # {}
  PROVE  \E x \in T : \A y \in T : x <= y
<1> DEFINE R == StrictSubsetOrdering(Nat)
           F == FiniteSubsetsOf(Nat)
           U == {1 .. n : n \in T}
<1>1. IsWellFoundedOn(R, F)
  BY FS_StrictSubsetOrderingWellFounded
<1>2. U \subseteq F
  <2>1. ASSUME NEW n \in T PROVE 1 .. n \in F
    <3>1. IsFiniteSet(1 .. n)
      BY FS_Interval
    <3> QED BY <3>1 DEF FiniteSubsetsOf
  <2> QED BY <2>1
<1>3. U # {}
  OBVIOUS
<1>4. PICK u \in U : \A v \in U : <<v, u>> \notin R
  <2> HIDE DEF R, F, U
  <2> QED BY <1>1, <1>2, <1>3, WFMin
<1>5. PICK x \in T : u = 1 .. x
  BY <1>4
<1>6. ASSUME NEW y \in T PROVE x <= y
  <2>1. <<1 .. y, 1 .. x>> \notin R
    BY <1>4, <1>5
  <2>2. ASSUME y < x PROVE FALSE
    <3>1. 1 .. y \subseteq 1 .. x /\ 1 .. y # 1 .. x
      BY <2>2
    <3>2. 1 .. y \in SUBSET Nat /\ 1 .. x \in SUBSET Nat
      OBVIOUS
    <3> QED BY <2>1, <3>1, <3>2 DEF StrictSubsetOrdering
  <2> QED BY <2>2
<1> QED BY <1>6

\* A finite one has a greatest element: the one with the fewest above it.
LEMMA GreatestNatural ==
  ASSUME NEW T \in SUBSET Nat, T # {}, IsFiniteSet(T)
  PROVE  \E x \in T : \A y \in T : y <= x
<1> DEFINE R == StrictSubsetOrdering(Nat)
           F == FiniteSubsetsOf(Nat)
           above(n) == {m \in T : m > n}
           U == {above(n) : n \in T}
<1>1. IsWellFoundedOn(R, F)
  BY FS_StrictSubsetOrderingWellFounded
<1>2. U \subseteq F
  <2>1. ASSUME NEW n \in T PROVE above(n) \in F
    BY FS_Subset DEF FiniteSubsetsOf
  <2> QED BY <2>1
<1>3. U # {}
  OBVIOUS
<1>4. PICK u \in U : \A v \in U : <<v, u>> \notin R
  <2> HIDE DEF R, F, U
  <2> QED BY <1>1, <1>2, <1>3, WFMin
<1>5. PICK x \in T : u = above(x)
  BY <1>4
<1>6. ASSUME NEW y \in T, x < y PROVE FALSE
  <2>1. <<above(y), above(x)>> \notin R
    BY <1>4, <1>5
  <2>2. above(y) \subseteq above(x) /\ above(y) # above(x)
    <3>1. y \in above(x) /\ y \notin above(y)
      BY <1>6
    <3>2. ASSUME NEW m \in above(y) PROVE m \in above(x)
      <4>1. m \in Nat /\ x \in Nat /\ y \in Nat /\ m > y
        OBVIOUS
      <4> QED BY <1>6, <4>1
    <3> QED BY <3>1, <3>2
  <2>3. above(y) \in SUBSET Nat /\ above(x) \in SUBSET Nat
    OBVIOUS
  <2> QED BY <2>1, <2>2, <2>3 DEF StrictSubsetOrdering
<1> QED BY <1>6

\* A part of a finite set with fewer than n elements has fewer than n, too.
LEMMA SmallerCount ==
  ASSUME NEW B, IsFiniteSet(B), NEW A \in SUBSET B, NEW n \in Nat, Cardinality(B) < n
  PROVE  Cardinality(A) < n
<1>1. IsFiniteSet(A) /\ Cardinality(A) <= Cardinality(B)
  BY FS_Subset
<1>2. Cardinality(A) \in Nat /\ Cardinality(B) \in Nat
  BY <1>1, FS_CardinalityType
<1> QED BY <1>1, <1>2

=============================================================================
