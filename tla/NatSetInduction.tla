--------------------------- MODULE NatSetInduction ---------------------------
(***************************************************************************)
(* Induction over the natural numbers, stated for sets: a set of numbers    *)
(* with 0 and the successor of each member is Nat.  A proof by induction    *)
(* takes the set of the numbers that have the property.  The recursive      *)
(* functions of the specifications (the walk along a linked list, a file    *)
(* written block by block) are defined with CHOOSE; the last lemma says     *)
(* that a function that satisfies such a recursion exists.                  *)
(***************************************************************************)
EXTENDS Integers, WellFoundedInduction, TLAPS

LEMMA LeastNumber ==
    ASSUME NEW T \in SUBSET Nat, T # {}
    PROVE  \E x \in T : \A y \in T : ~(y < x)
<1>1. \E x \in T : \A y \in T : <<y, x>> \notin OpToRel(<, Nat)
  BY NatLessThanWellFounded, WFMin
<1>2. QED
  BY <1>1 DEF OpToRel

LEMMA SetInduction ==
    ASSUME NEW S \in SUBSET Nat, 0 \in S, \A n \in S : n + 1 \in S
    PROVE  S = Nat
<1>1. SUFFICES ASSUME Nat \ S # {} PROVE FALSE
  OBVIOUS
<1>2. PICK x \in Nat \ S : \A y \in Nat \ S : ~(y < x)
  BY <1>1, LeastNumber
<1>3. x - 1 \in Nat /\ x - 1 < x /\ (x - 1) + 1 = x
  BY <1>2
<1>4. QED
  BY <1>2, <1>3

\* The same for the numbers up to a bound.
LEMMA UpToInduction ==
    ASSUME NEW n \in Int, NEW S, 0 \in S,
           \A k \in 0..n : k + 1 \in 0..n /\ k \in S => k + 1 \in S
    PROVE  0..n \subseteq S
<1> DEFINE T == {k \in Nat : k \in 0..n => k \in S}
<1>1. \A k \in T : k + 1 \in T
  OBVIOUS
<1>2. T = Nat
  <2> HIDE DEF T
  <2>1. T \in SUBSET Nat /\ 0 \in T
    BY DEF T
  <2>2. QED BY <1>1, <2>1, SetInduction
<1>3. QED
  BY <1>2

\* A chain of values up to n that starts at a and goes on by step.
IsRun(g, n, a, step) ==
    g[0] = a /\ \A k \in 0..(n - 1) : g[k + 1] = step[k][g[k]]

\* The whole of such a chain; step[k] is what the recursion does to the value at k.
IsRecursion(f, V, a, step) ==
    /\ f \in [Nat -> V]
    /\ f[0] = a
    /\ \A k \in Nat : f[k + 1] = step[k][f[k]]

LEMMA RecursionExists ==
    ASSUME NEW V, NEW a \in V, NEW step \in [Nat -> [V -> V]]
    PROVE  \E f : IsRecursion(f, V, a, step)
<1> DEFINE Upto(n) == {g \in [0..n -> V] : IsRun(g, n, a, step)}
<1>1. \A n \in Nat : Upto(n) # {}
  <2> DEFINE S == {n \in Nat : Upto(n) # {}}
  <2>1. 0 \in S
    <3>1. [k \in 0..0 |-> a] \in Upto(0)
      BY DEF IsRun
    <3>2. QED BY <3>1
  <2>2. \A n \in S : n + 1 \in S
    <3> SUFFICES ASSUME NEW n \in S PROVE n + 1 \in S
      OBVIOUS
    <3>1. PICK g \in [0..n -> V] : IsRun(g, n, a, step)
      OBVIOUS
    <3> DEFINE h == [k \in 0..(n + 1) |-> IF k = n + 1 THEN step[n][g[n]] ELSE g[k]]
    <3>2. h \in [0..(n + 1) -> V]
      OBVIOUS
    <3>3. IsRun(h, n + 1, a, step)
      BY <3>1 DEF IsRun
    <3>4. QED BY <3>2, <3>3
  <2> HIDE DEF S
  <2>3. S = Nat
    <3>1. S \in SUBSET Nat
      BY DEF S
    <3>2. QED BY <2>1, <2>2, <3>1, SetInduction
  <2>4. QED BY <2>3 DEF S
<1>2. ASSUME NEW m \in Nat, NEW n \in Nat, m <= n, NEW g \in Upto(m), NEW h \in Upto(n)
      PROVE  \A k \in 0..m : g[k] = h[k]
  <2> DEFINE S == {k \in Nat : k <= m => g[k] = h[k]}
  <2>1. 0 \in S
    BY <1>2 DEF IsRun
  <2>2. \A k \in S : k + 1 \in S
    <3> SUFFICES ASSUME NEW k \in Nat, k \in S, k + 1 <= m PROVE g[k + 1] = h[k + 1]
      OBVIOUS
    <3>1. k \in 0..(m - 1) /\ k \in 0..(n - 1) /\ g[k] = h[k]
      BY <1>2
    <3>2. QED BY <3>1 DEF IsRun
  <2> HIDE DEF S
  <2>3. S = Nat
    <3>1. S \in SUBSET Nat
      BY DEF S
    <3>2. QED BY <2>1, <2>2, <3>1, SetInduction
  <2>4. \A k \in Nat : k <= m => g[k] = h[k]
    BY <2>3 DEF S
  <2> HIDE DEF Upto
  <2>5. QED BY <2>4
<1> DEFINE R(n) == CHOOSE g : g \in Upto(n)
           f == [n \in Nat |-> R(n)[n]]
<1>3. \A n \in Nat : R(n) \in Upto(n)
  BY <1>1
<1> HIDE DEF R
<1>4. f \in [Nat -> V]
  BY <1>3
<1>5. f[0] = a
  BY <1>3 DEF IsRun
<1>6. ASSUME NEW k \in Nat PROVE f[k + 1] = step[k][f[k]]
  <2>1. R(k) \in Upto(k) /\ R(k + 1) \in Upto(k + 1)
    BY <1>3
  <2>2. R(k)[k] = R(k + 1)[k]
    <3> HIDE DEF Upto
    <3>1. k + 1 \in Nat /\ k <= k + 1 /\ k \in 0..k
      OBVIOUS
    <3>2. QED BY <1>2, <2>1, <3>1
  <2>3. R(k + 1)[k + 1] = step[k][R(k + 1)[k]]
    BY <2>1 DEF IsRun
  <2>4. QED BY <2>2, <2>3
<1>7. QED
  BY <1>4, <1>5, <1>6 DEF IsRecursion
=============================================================================
