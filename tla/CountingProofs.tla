---------------------------- MODULE CountingProofs ----------------------------
(***************************************************************************)
(* Induction and recursion over the naturals without operator parameters:   *)
(* every nonempty set of naturals has a least element, so a set that holds  *)
(* 0 and is closed under +1 is all of them, and a function up to n with a   *)
(* starting value and a step exists.  The modules that prove about a        *)
(* recursive function of the model (ConsolePage's Queue) use these.         *)
(***************************************************************************)
EXTENDS Integers, WellFoundedInduction, TLAPS

LEMMA NatMin == ASSUME NEW T, T \subseteq Nat, T # {} PROVE \E x \in T : \A y \in T : x <= y
<1> DEFINE R == OpToRel(<, Nat)
<1>1. \A x, y \in Nat : y < x => <<y, x>> \in R
  BY DEF OpToRel
<1>2. \E x \in T : \A y \in T : ~ (<<y, x>> \in R)
  BY NatLessThanWellFounded, WFMin, Zenon
<1> HIDE DEF R
<1>3. PICK x \in T : \A y \in T : ~ (<<y, x>> \in R)
  BY <1>2
<1>4. ASSUME NEW y \in T PROVE x <= y
  <2>1. ~ (y < x) /\ x \in Nat /\ y \in Nat
    BY <1>1, <1>3
  <2> QED BY <2>1
<1> QED BY <1>4

LEMMA CountUp ==
  ASSUME NEW T, 0 \in T, \A n \in Nat : n \in T => n + 1 \in T
  PROVE  Nat \subseteq T
<1> DEFINE Out == {n \in Nat : n \notin T}
<1>1. SUFFICES ASSUME Out # {} PROVE FALSE
  OBVIOUS
<1>2. PICK n \in Out : \A m \in Out : n <= m
  BY <1>1, NatMin
<1>3. n # 0 /\ n - 1 \in Nat /\ n - 1 \notin Out
  BY <1>2
<1> QED BY <1>2, <1>3

\* The unfinished function, defined up to n.
UpTo(g, n, base, step) == g = [i \in 0..n |-> IF i = 0 THEN base ELSE step[<<g[i - 1], i>>]]

LEMMA UpToExists ==
  ASSUME NEW base, NEW step, NEW n \in Nat
  PROVE  \E g : UpTo(g, n, base, step)
<1> DEFINE T == {k \in Nat : \E g : UpTo(g, k, base, step)}
<1>1. 0 \in T
  <2>1. UpTo([i \in 0..0 |-> base], 0, base, step)
    BY DEF UpTo
  <2> QED BY <2>1
<1>2. ASSUME NEW k \in Nat, k \in T PROVE k + 1 \in T
  <2>1. PICK g : UpTo(g, k, base, step)
    BY <1>2
  <2> DEFINE h == [i \in 0..(k + 1) |-> IF i = k + 1 THEN step[<<g[k], k + 1>>] ELSE g[i]]
  <2>2. \A i \in 0..k : g[i] = IF i = 0 THEN base ELSE step[<<g[i - 1], i>>]
    BY <2>1 DEF UpTo
  <2>3. ASSUME NEW i \in 0..(k + 1)
        PROVE  h[i] = IF i = 0 THEN base ELSE step[<<h[i - 1], i>>]
    <3>1. CASE i = 0
      <4>1. 0 \in 0..(k + 1) /\ 0 \in 0..k /\ 0 # k + 1
        OBVIOUS
      <4>2. h[0] = g[0] /\ g[0] = base
        BY <2>2, <4>1
      <4> QED BY <3>1, <4>2
    <3>2. CASE i = k + 1
      <4>1. i # 0 /\ i - 1 = k /\ k \in 0..(k + 1) /\ k # k + 1
        BY <3>2
      <4>2. h[k] = g[k] /\ h[k + 1] = step[<<g[k], k + 1>>]
        BY <4>1
      <4> QED BY <3>2, <4>1, <4>2
    <3>3. CASE i # 0 /\ i # k + 1
      <4>1. i \in 0..k /\ i - 1 \in 0..(k + 1) /\ i - 1 # k + 1
        BY <3>3
      <4>2. h[i] = g[i] /\ h[i - 1] = g[i - 1]
        BY <3>3, <4>1
      <4> QED BY <2>2, <3>3, <4>1, <4>2
    <3> QED BY <3>1, <3>2, <3>3
  <2>4. h = [i \in 0..(k + 1) |-> h[i]]
    OBVIOUS
  <2> HIDE DEF h
  <2>5. UpTo(h, k + 1, base, step)
    BY <2>3, <2>4 DEF UpTo
  <2> QED BY <2>5
<1>3. Nat \subseteq T
  <2> HIDE DEF T
  <2> QED BY <1>1, <1>2, CountUp
<1> QED BY <1>3

===============================================================================
