------------------------------ MODULE Induction ------------------------------
(***************************************************************************)
(* The natural numbers are well ordered: sets of them have least elements, *)
(* and bounded ones greatest.                                              *)
(***************************************************************************)
EXTENDS Integers, WellFoundedInduction, TLAPS

(* A set of natural numbers has a least element. *)
LEMMA LeastNatural ==
    ASSUME NEW S, S \subseteq Nat, S # {}
    PROVE  \E n \in S : \A m \in S : n <= m
<1> DEFINE R == OpToRel(<, Nat)
<1>1. IsWellFoundedOn(R, Nat)
  BY NatLessThanWellFounded
<1>2. \A x, y \in Nat : x < y => <<x, y>> \in R
  <2> SUFFICES ASSUME NEW x \in Nat, NEW y \in Nat, x < y
               PROVE  <<x, y>> \in {ss \in Nat \X Nat : ss[1] < ss[2]}
      BY DEF OpToRel
  <2> QED OBVIOUS
<1> HIDE DEF R
<1>3. PICK n \in S : \A m \in S : ~(<<m, n>> \in R)
  BY <1>1, WFMin
<1>4. ASSUME NEW m \in S PROVE n <= m
  <2>1. n \in Nat /\ m \in Nat
    OBVIOUS
  <2>2. ~(m < n)
    BY <1>2, <1>3, <2>1
  <2> QED BY <2>1, <2>2
<1> QED BY <1>4

(* A bounded set of natural numbers has a greatest element. *)
LEMMA GreatestNatural ==
    ASSUME NEW bound \in Nat, NEW S, S \subseteq 0 .. bound, S # {}
    PROVE  \E n \in S : \A m \in S : m <= n
<1> DEFINE T == {bound - n : n \in S}
<1>1. T \subseteq Nat /\ T # {}
  <2>1. \A n \in S : bound - n \in Nat
    OBVIOUS
  <2>2. PICK n : n \in S
    OBVIOUS
  <2>3. bound - n \in T
    BY <2>2
  <2> QED BY <2>1, <2>3
<1> HIDE DEF T
<1>2. PICK k \in T : \A m \in T : k <= m
  BY <1>1, LeastNatural
<1>3. PICK n \in S : k = bound - n
  BY DEF T
<1>4. ASSUME NEW m \in S PROVE m <= n
  <2>1. bound - m \in T
    BY DEF T
  <2>2. bound - n <= bound - m
    BY <1>2, <1>3, <2>1
  <2>3. m \in Int /\ n \in Int
    OBVIOUS
  <2> QED BY <2>2, <2>3
<1> QED BY <1>4
=============================================================================
