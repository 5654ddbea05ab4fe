-------------------------------- MODULE Recursion -------------------------------
(***************************************************************************)
(* Induction over the natural numbers and definitions by recursion, in the *)
(* form the proofs about NodeThread and ServerStream use.  The predicate   *)
(* to prove is a set of numbers and the step of a recursion is a function, *)
(* so that a use of these facts instantiates no operator.                  *)
(***************************************************************************)
EXTENDS Integers, WellFoundedInduction, TLAPS

\* A set of natural numbers that is not empty has a least element.
LEMMA LeastElement ==
  ASSUME NEW T \in SUBSET Nat, T # {}
  PROVE  \E x \in T : \A y \in T : x <= y
<1> DEFINE R == OpToRel(<, Nat)
<1>1. IsWellFoundedOn(R, Nat)
  BY NatLessThanWellFounded
<1>2. ASSUME NEW x \in Nat, NEW y \in Nat, <<y, x>> \notin R
      PROVE  x <= y
  <2>1. <<y, x>> \in Nat \X Nat
    OBVIOUS
  <2>2. ~ (y < x)
    BY <1>2, <2>1 DEF OpToRel
  <2> QED
    BY <2>2
<1> HIDE DEF R
<1>3. T \subseteq Nat
  OBVIOUS
<1>4. PICK x \in T : \A y \in T : ~ (<<y, x>> \in R)
  BY <1>1, <1>3, WFMin
<1>5. \A y \in T : x <= y
  BY <1>2, <1>3, <1>4
<1> QED
  BY <1>5

\* Induction: T is the set of the numbers for which the claim holds.
LEMMA NatSetInduction ==
  ASSUME NEW T \in SUBSET Nat, 0 \in T, \A n \in T : n + 1 \in T
  PROVE  T = Nat
<1> SUFFICES ASSUME Nat \ T # {} PROVE FALSE
  OBVIOUS
<1>1. PICK x \in Nat \ T : \A y \in Nat \ T : x <= y
  BY LeastElement
<1>2. x # 0
  OBVIOUS
<1>3. x - 1 \in T
  BY <1>1, <1>2
<1> QED
  BY <1>3

\* f follows step from base, up to n.
Follows(f, n, base, step) ==
  f[0] = base /\ \A i \in 1 .. n : f[i] = step[<<i, f[i - 1]>>]

\* Recursion: there is a function that follows step from base.
LEMMA RecursionExists ==
  ASSUME NEW n \in Nat, NEW V, NEW base \in V, NEW step \in [(1 .. n) \X V -> V]
  PROVE  \E f \in [0 .. n -> V] : Follows(f, n, base, step)
<1> DEFINE T == {k \in Nat : k <= n => \E f \in [0 .. k -> V] : Follows(f, k, base, step)}
<1>1. 0 \in T
  <2>1. [i \in 0 .. 0 |-> base] \in [0 .. 0 -> V] /\ Follows([i \in 0 .. 0 |-> base], 0, base, step)
    BY DEF Follows
  <2> QED
    BY <2>1
<1>2. ASSUME NEW k \in T PROVE k + 1 \in T
  <2> SUFFICES ASSUME k + 1 <= n
               PROVE  \E f \in [0 .. k + 1 -> V] : Follows(f, k + 1, base, step)
    OBVIOUS
  <2>1. k \in Nat /\ k <= n
    OBVIOUS
  <2>2. PICK f \in [0 .. k -> V] : Follows(f, k, base, step)
    BY <2>1
  <2> DEFINE g == [i \in 0 .. k + 1 |-> IF i <= k THEN f[i] ELSE step[<<k + 1, f[k]>>]]
  <2>3. step[<<k + 1, f[k]>>] \in V
    BY <2>1
  <2>4. g \in [0 .. k + 1 -> V]
    BY <2>1, <2>3
  <2>5. g[0] = base
    BY <2>1, <2>2 DEF Follows
  <2>6. ASSUME NEW i \in 1 .. k + 1 PROVE g[i] = step[<<i, g[i - 1]>>]
    <3>1. i \in Nat /\ i - 1 \in 0 .. k /\ g[i - 1] = f[i - 1]
      BY <2>1
    <3>2. CASE i <= k
      <4>1. i \in 1 .. k /\ g[i] = f[i]
        BY <2>1, <3>2
      <4> QED
        BY <2>2, <3>1, <4>1 DEF Follows
    <3>3. CASE i = k + 1
      <4>1. g[i] = step[<<k + 1, f[k]>>] /\ i - 1 = k
        BY <2>1, <3>3
      <4> QED
        BY <3>1, <3>3, <4>1
    <3> QED
      BY <2>1, <3>1, <3>2, <3>3
  <2> QED
    BY <2>4, <2>5, <2>6 DEF Follows
<1>3. T = Nat
  <2> HIDE DEF T
  <2>1. T \in SUBSET Nat
    BY DEF T
  <2> QED
    BY <1>1, <1>2, <2>1, NatSetInduction
<1> QED
  BY <1>3

=============================================================================
