---------------------------- MODULE MinMaxProofs ----------------------------
(***************************************************************************)
(* What Min and Max return for a set of integers that is bounded.  Both    *)
(* are a CHOOSE, and what they choose is there because the natural numbers *)
(* are well founded.                                                       *)
(***************************************************************************)
EXTENDS Integers, FiniteSetsExt, WellFoundedInduction, TLAPS

\* A set of natural numbers has a least element.
LEMMA LeastNatural ==
  ASSUME NEW T \in SUBSET Nat, T # {}
  PROVE  \E n \in T : \A m \in T : n <= m
<1>  DEFINE R == OpToRel(<, Nat)
<1>1. PICK n \in T : \A m \in T : ~(<<m, n>> \in R)
  BY WFMin, NatLessThanWellFounded
<1>2. \A m \in T : ~(m < n)
  BY <1>1 DEF OpToRel
<1>  QED
  BY <1>2

\* Min of a set with a lower bound, as GetMinimumSequence and Seek take it.
LEMMA MinOfIntegers ==
  ASSUME NEW S \in SUBSET Int, S # {}, NEW b \in Int, \A x \in S : x >= b
  PROVE  Min(S) \in S /\ \A y \in S : Min(S) <= y
<1>  DEFINE T == {x - b : x \in S}
<1>1. T \subseteq Nat
  OBVIOUS
<1>2. T # {}
  OBVIOUS
<1>3. PICK n \in T : \A m \in T : n <= m
  <2>  HIDE DEF T
  <2>  QED
    BY <1>1, <1>2, LeastNatural
<1>4. PICK x \in S : n = x - b
  BY <1>3
<1>5. \A y \in S : x <= y
  BY <1>3, <1>4
<1>  QED
  BY <1>5 DEF Min

\* Max of a set with an upper bound, as a step back in an ordered set takes it.
LEMMA MaxOfIntegers ==
  ASSUME NEW S \in SUBSET Int, S # {}, NEW b \in Int, \A x \in S : x <= b
  PROVE  Max(S) \in S /\ \A y \in S : y <= Max(S)
<1>  DEFINE T == {b - x : x \in S}
<1>1. T \subseteq Nat
  OBVIOUS
<1>2. T # {}
  OBVIOUS
<1>3. PICK n \in T : \A m \in T : n <= m
  <2>  HIDE DEF T
  <2>  QED
    BY <1>1, <1>2, LeastNatural
<1>4. PICK x \in S : n = b - x
  BY <1>3
<1>5. \A y \in S : y <= x
  BY <1>3, <1>4
<1>  QED
  BY <1>5 DEF Max
=============================================================================
