---------------------------- MODULE NumberLemmas ----------------------------
(***************************************************************************)
(* Least and greatest elements, for the proofs of the components: what     *)
(* stands in for induction over the naturals, and what Max returns.        *)
(***************************************************************************)
EXTENDS Integers, FiniteSets, FiniteSetsExt, FiniteSetTheorems, WellFoundedInduction, TLAPS

(* A non-empty set of naturals has a least element.                        *)
LEMMA LeastNat ==
  ASSUME NEW S, S \subseteq Nat, S # {}
  PROVE  \E x \in S : \A y \in S : x <= y
<1>1. PICK x \in S : \A y \in S : ~(<<y, x>> \in OpToRel(<, Nat))
  BY NatLessThanWellFounded, WFMin
<1>2. \A y \in S : ~(y < x)
  BY <1>1, Zenon DEF OpToRel
<1> QED BY <1>2

(* A claim about naturals that has no least counterexample has none: the   *)
(* set of the naturals it holds for is all of Nat.                         *)
LEMMA NoLeastCounterexample ==
  ASSUME NEW H, \A n \in Nat : (\A m \in 0..(n - 1) : m \in H) => n \in H
  PROVE  Nat \subseteq H
<1> SUFFICES ASSUME Nat \ H # {} PROVE FALSE
  OBVIOUS
<1>1. PICK n \in Nat \ H : \A m \in Nat \ H : n <= m
  BY LeastNat, Zenon
<1>2. \A m \in 0..(n - 1) : m \in H
  BY <1>1
<1> QED BY <1>1, <1>2

(* Max of a non-empty finite set of naturals is its greatest element.      *)
LEMMA MaxProps ==
  ASSUME NEW S, S \subseteq Nat, IsFiniteSet(S), S # {}
  PROVE  Max(S) \in S /\ \A y \in S : y <= Max(S)
<1> DEFINE below(x) == Cardinality({y \in S : y > x})
           H == {n \in Nat : \A x \in S : below(x) = n => \E z \in S : \A y \in S : y <= z}
<1>1. \A x \in S : below(x) \in Nat /\ IsFiniteSet({y \in S : y > x})
  BY FS_Subset, FS_CardinalityType
<1>2. ASSUME NEW n \in Nat, \A m \in 0..(n - 1) : m \in H
      PROVE  n \in H
  <2> SUFFICES ASSUME NEW x \in S, below(x) = n
               PROVE  \E z \in S : \A y \in S : y <= z
    OBVIOUS
  <2>1. CASE \A y \in S : y <= x
    BY <2>1
  <2>2. CASE \E w \in S : ~(w <= x)
    <3>1. PICK w \in S : w > x
      BY <2>2
    <3> DEFINE above(u) == {y \in S : y > u}
    <3>a. \A y \in S : y \in Nat
      OBVIOUS
    <3>b. \A y \in S : y > w => y > x
      BY <3>1, <3>a
    <3>2. above(w) \in SUBSET above(x) /\ w \in above(x) /\ w \notin above(w)
      <4>1. above(w) \subseteq above(x)
        BY <3>b, Zenon
      <4>2. w \in above(x)
        BY <3>1
      <4>3. ~(w > w)
        BY <3>a
      <4> QED BY <4>1, <4>2, <4>3
    <3>3. IsFiniteSet(above(x)) /\ Cardinality(above(x)) \in Nat /\ Cardinality(above(w)) \in Nat
      BY <1>1
    <3>4. Cardinality(above(w)) < Cardinality(above(x))
      <4> HIDE DEF above
      <4> QED BY <3>2, <3>3, FS_Subset
    <3>5. below(w) \in 0..(n - 1)
      BY <1>1, <3>4
    <3> QED BY <1>2, <3>5
  <2> QED BY <2>1, <2>2
<1>3. Nat \subseteq H
  <2> HIDE DEF H
  <2> QED BY <1>2, NoLeastCounterexample
<1>4. PICK x \in S : TRUE
  BY Zenon
<1>5. \E z \in S : \A y \in S : y <= z
  <2>1. below(x) \in H
    BY <1>1, <1>3, <1>4
  <2> QED BY <1>4, <2>1
<1>6. \E z \in S : \A y \in S : z >= y
  BY <1>5
<1> QED BY <1>6, Zenon DEF Max
=============================================================================
