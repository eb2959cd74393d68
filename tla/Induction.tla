------------------------------ MODULE Induction -----------------------------
(***************************************************************************)
(* Induction over the naturals for facts about recursive functions.  A     *)
(* property is given as the set of the numbers that have it, so that no    *)
(* lemma takes an operator as a parameter.                                 *)
(***************************************************************************)
EXTENDS Naturals, WellFoundedInduction, TLAPS

(* A set of naturals that has a member has a smallest one.                 *)
LEMMA SmallestMember ==
    ASSUME NEW T, T \subseteq Nat, T # {}
    PROVE  \E x \in T : \A y \in T : x <= y
<1> DEFINE Less == {ss \in Nat \X Nat : ss[1] < ss[2]}
<1>1. IsWellFoundedOn(Less, Nat)
    BY NatLessThanWellFounded DEF OpToRel
<1>2. PICK x \in T : \A y \in T : ~(<<y, x>> \in Less)
  <2> HIDE DEF Less
  <2> QED BY <1>1, WFMin
<1>3. ASSUME NEW y \in T PROVE x <= y
  <2>1. x \in Nat /\ y \in Nat
      OBVIOUS
  <2>2. y < x => <<y, x>> \in Less
      BY <2>1
  <2> HIDE DEF Less
  <2>3. ~(y < x)
      BY <1>2, <2>2
  <2> QED BY <2>1, <2>3
<1> QED BY <1>3

(* Induction: a set that holds zero and the successor of each natural it   *)
(* holds has all of them. What a recursive function computes is proved     *)
(* with it, as a set of arguments.                                         *)
LEMMA SetInduction ==
    ASSUME NEW S, 0 \in S, \A n \in Nat : n \in S => n + 1 \in S
    PROVE  Nat \subseteq S
<1> SUFFICES ASSUME NEW n \in Nat, n \notin S PROVE FALSE
    OBVIOUS
<1> DEFINE T == Nat \ S
<1>1. PICK m \in T : \A y \in T : m <= y
  <2>1. T \subseteq Nat /\ T # {}
      OBVIOUS
  <2> HIDE DEF T
  <2> QED BY <2>1, SmallestMember
<1>2. m # 0 /\ m \in Nat /\ m - 1 \in Nat
    OBVIOUS
<1>3. m - 1 \in S
    BY <1>1, <1>2
<1> QED BY <1>2, <1>3

(* F takes an index and the value at the index before it to a value; g is  *)
(* the function it defines on 0..n from the value x.                       *)
StepFunction(F, n, S) == F \in [(1..n) \X S -> S]

Iterates(g, F, n, S, x) ==
    /\ g \in [0..n -> S] /\ g[0] = x
    /\ \A k \in 1..n : g[k] = F[<<k, g[k - 1]>>]

(* Such a function exists, so a recursive definition has a solution.       *)
LEMMA FiniteRecursion ==
    ASSUME NEW n \in Nat, NEW S, NEW x \in S, NEW F, StepFunction(F, n, S)
    PROVE  \E g : Iterates(g, F, n, S, x)
<1> DEFINE Solvable == {m \in Nat : m <= n => \E g : Iterates(g, F, m, S, x)}
<1>1. 0 \in Solvable
  <2>1. Iterates([k \in 0..0 |-> x], F, 0, S, x)
      BY DEF Iterates
  <2> QED
      BY <2>1
<1>2. ASSUME NEW m \in Nat, m \in Solvable
      PROVE  m + 1 \in Solvable
  <2>1. SUFFICES ASSUME m + 1 <= n PROVE \E g : Iterates(g, F, m + 1, S, x)
      OBVIOUS
  <2>2. PICK g : Iterates(g, F, m, S, x)
      BY <1>2, <2>1
  <2> DEFINE h == [k \in 0..(m + 1) |-> IF k <= m THEN g[k] ELSE F[<<k, g[m]>>]]
  <2>3. g[m] \in S /\ m + 1 \in 1..n
      BY <2>1, <2>2 DEF Iterates
  <2>4. F[<<m + 1, g[m]>>] \in S
      BY <2>3 DEF StepFunction
  <2>5. h \in [0..(m + 1) -> S] /\ h[0] = x
      BY <2>2, <2>4 DEF Iterates
  <2>6. ASSUME NEW k \in 1..(m + 1)
        PROVE  h[k] = F[<<k, h[k - 1]>>]
    <3>1. CASE k <= m
      <4>1. k \in 1..m /\ k - 1 \in 0..m
          BY <3>1
      <4> QED
          BY <2>2, <4>1 DEF Iterates
    <3>2. CASE k = m + 1
        BY <3>2
    <3> QED
        BY <3>1, <3>2
  <2> HIDE DEF h
  <2> QED
      BY <2>5, <2>6 DEF Iterates
<1>3. n \in Solvable
  <2> HIDE DEF Solvable
  <2> QED
      BY <1>1, <1>2, SetInduction
<1> QED
    BY <1>3

(* A property of values that each passes on to the next holds of all.      *)
LEMMA PrefixInduction ==
    ASSUME NEW n \in Nat, NEW S, NEW g, g[0] \in S,
           \A k \in 1..n : g[k - 1] \in S => g[k] \in S
    PROVE  \A k \in 0..n : g[k] \in S
<1> DEFINE T == {k \in Nat : k <= n => g[k] \in S}
<1>1. 0 \in T
    OBVIOUS
<1>2. ASSUME NEW k \in Nat, k \in T
      PROVE  k + 1 \in T
  <2>1. CASE k + 1 <= n
    <3>1. k + 1 \in 1..n /\ (k + 1) - 1 = k /\ k <= n
        BY <2>1
    <3> QED
        BY <1>2, <3>1
  <2>2. CASE ~(k + 1 <= n)
      BY <2>2
  <2> QED
      BY <2>1, <2>2
<1>3. Nat \subseteq T
  <2> HIDE DEF T
  <2> QED
      BY <1>1, <1>2, SetInduction
<1> QED
    BY <1>3
=============================================================================
