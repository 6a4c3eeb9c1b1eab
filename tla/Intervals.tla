----------------------------- MODULE Intervals -----------------------------
(***************************************************************************)
(* What the proofs need of sets of numbers: the smallest element, the      *)
(* largest, and induction along an interval.                               *)
(***************************************************************************)
EXTENDS Integers, FiniteSetsExt, WellFoundedInduction, TLAPS

(***************************************************************************)
(* Largest and smallest elements.                                          *)
(***************************************************************************)

\* A set of naturals has a least element.
LEMMA LeastNat ==
    ASSUME NEW T, T \subseteq Nat, T # {}
    PROVE  \E x \in T : \A y \in T : x <= y
<1>1. PICK x \in T : \A y \in T : <<y, x>> \notin OpToRel(<, Nat)
  BY NatLessThanWellFounded, WFMin
<1>2. \A y \in T : y < x => <<y, x>> \in OpToRel(<, Nat)
  BY DEF OpToRel
<1>3. x \in Nat /\ \A y \in T : y \in Nat
  OBVIOUS
<1>4. \A y \in T : ~ (y < x)
  BY <1>1, <1>2
<1>5. \A y \in T : x <= y
  BY <1>3, <1>4
<1> QED
  BY <1>5

\* Max picks an element of a bounded set, and the largest: the loop of
\* HPT_adjust, which Kept describes with Max, stops somewhere.
LEMMA MaxOf ==
    ASSUME NEW n \in Nat, NEW S, S \subseteq 0..n, S # {}
    PROVE  Max(S) \in S /\ \A y \in S : Max(S) >= y
<1> DEFINE T == {n - k : k \in S}
<1>1. \A k \in S : k \in Int /\ 0 <= k /\ k <= n
  OBVIOUS
<1>2. T \subseteq Nat
  BY <1>1
<1>3. T # {}
  OBVIOUS
<1>4. PICK x \in T : \A y \in T : x <= y
  BY <1>2, <1>3, LeastNat
<1>5. PICK m \in S : x = n - m
  OBVIOUS
<1>6. \A k \in S : n - k \in T
  OBVIOUS
<1> HIDE DEF T
<1>7. ASSUME NEW k \in S PROVE m >= k
  <2>1. x <= n - k
    BY <1>4, <1>6
  <2>2. k \in Int /\ m \in Int
    BY <1>1
  <2> QED
    BY <2>1, <2>2, <1>5
<1>8. \E z \in S : \A y \in S : z >= y
  BY <1>7
<1> QED
  BY <1>8 DEF Max

\* Min picks an element of a set of naturals.
LEMMA MinOf ==
    ASSUME NEW S, S \subseteq Nat, S # {}
    PROVE  Min(S) \in S
<1>1. \E x \in S : \A y \in S : x <= y
  BY LeastNat
<1> QED
  BY <1>1 DEF Min
-----------------------------------------------------------------------------
(***************************************************************************)
(* T is closed under the steps from lo to hi.                              *)
(***************************************************************************)
Climbs(T, lo, hi) ==
    lo \in T /\ \A i \in lo..(hi - 1) : i \in T => i + 1 \in T

\* Induction: from one integer to another by single steps.
LEMMA Reaches ==
    ASSUME NEW lo \in Int, NEW hi \in Int, lo <= hi, NEW T, Climbs(T, lo, hi)
    PROVE  hi \in T /\ \A i \in lo..hi : i \in T
<1>0. lo \in T /\ \A i \in lo..(hi - 1) : i \in T => i + 1 \in T
  BY DEF Climbs
<1>8. \A i \in lo..hi : i \in T
  <2> SUFFICES ASSUME NEW m \in lo..hi, m \notin T PROVE FALSE
    OBVIOUS
  <2> DEFINE Missing == {n \in Nat : lo + n <= hi /\ lo + n \notin T}
  <2>1. m - lo \in Missing
    OBVIOUS
  <2>2. PICK x \in Missing : \A y \in Missing : x <= y
    BY <2>1, LeastNat
  <2>3. x # 0
    BY <1>0
  <2>4. x - 1 \in Nat /\ lo + (x - 1) <= hi /\ x - 1 \notin Missing
    BY <2>2, <2>3
  <2>5. lo + (x - 1) \in T
    BY <2>4
  <2>6. lo + (x - 1) \in lo..(hi - 1) /\ lo + (x - 1) + 1 = lo + x
    BY <2>4
  <2>7. lo + x \in T
    BY <1>0, <2>5, <2>6
  <2> QED
    BY <2>7
<1> QED
  BY <1>8
=============================================================================
