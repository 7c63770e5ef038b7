--------------------------- MODULE RecursionFacts ---------------------------
(***************************************************************************)
(* Induction and recursion over the natural numbers, stated about sets and *)
(* functions: the loops of the code that add up or compare are recursive   *)
(* functions, and these facts say what such a function computes.           *)
(***************************************************************************)
EXTENDS Naturals, NaturalsInduction, WellFoundedInduction, TLAPS

(* A set of natural numbers that is not empty has a least element. *)
LEMMA LeastNat ==
    ASSUME NEW T \in SUBSET Nat, T # {}
    PROVE  \E x \in T : \A y \in T : x <= y
<1> DEFINE R == {ss \in Nat \X Nat : ss[1] < ss[2]}
<1>1. IsWellFoundedOn(R, Nat)
  BY NatLessThanWellFounded DEF OpToRel
<1>2. PICK x \in T : \A y \in T : ~ (<<y, x>> \in R)
  BY <1>1, WFMin
<1>3. \A y \in T : ~ (y < x)
  BY <1>2
<1> QED BY <1>3

(* A set with 0 and with every successor of its members has every number. *)
LEMMA EveryNat ==
    ASSUME NEW S \in SUBSET Nat, 0 \in S, \A n \in S : n + 1 \in S
    PROVE  S = Nat
<1> SUFFICES ASSUME Nat \ S # {} PROVE FALSE
    OBVIOUS
<1>1. PICK x \in Nat \ S : \A y \in Nat \ S : x <= y
  BY LeastNat
<1>2. x # 0 /\ x - 1 \in Nat
  BY <1>1
<1>3. x - 1 \in S
  BY <1>1, <1>2
<1>4. (x - 1) + 1 = x
  BY <1>2
<1> QED BY <1>1, <1>3, <1>4

(* The function that a loop from 1 to n computes: its value at i comes from  *)
(* i and its value at i - 1.                                                 *)
Looped(g, V, init, next, n) ==
    g \in [0..n -> V] /\ g = [i \in 0..n |-> IF i = 0 THEN init ELSE next[i, g[i - 1]]]

LEMMA LoopExists ==
    ASSUME NEW V, NEW init \in V, NEW next \in [Nat \X V -> V], NEW n \in Nat
    PROVE  \E g : Looped(g, V, init, next, n)
<1> DEFINE S == {k \in Nat : \E g : Looped(g, V, init, next, k)}
<1>1. 0 \in S
  <2>1. Looped([i \in 0..0 |-> init], V, init, next, 0)
    BY DEF Looped
  <2> QED BY <2>1
<1>2. ASSUME NEW k \in S PROVE k + 1 \in S
  <2>1. /\ k \in Nat /\ k + 1 \in Nat /\ k \in 0..k /\ k + 1 \in 0..k+1
        /\ k + 1 # 0 /\ (k + 1) - 1 = k /\ ~ (k + 1 <= k)
        /\ \A i \in 0..k : i \in 0..k+1 /\ i <= k
    <3>1. k \in Nat
      OBVIOUS
    <3> HIDE DEF S
    <3> QED BY <3>1
  <2>2. PICK g : Looped(g, V, init, next, k)
    OBVIOUS
  <2>3. /\ g \in [0..k -> V]
        /\ \A i \in 0..k : g[i] = IF i = 0 THEN init ELSE next[i, g[i - 1]]
    BY <2>1, <2>2 DEF Looped
  <2> DEFINE h == [i \in 0..k+1 |-> IF i <= k THEN g[i] ELSE next[i, g[k]]]
  <2>4. \A i \in 0..k+1 : i \in 0..k \/ i = k + 1
    BY <2>1
  <2>5. /\ \A i \in 0..k : h[i] = g[i]
        /\ h[k + 1] = next[k + 1, g[k]]
    BY <2>1
  <2>6. next[k + 1, g[k]] \in V
    <3>1. g[k] \in V /\ <<k + 1, g[k]>> \in Nat \X V
      BY <2>1, <2>3
    <3> QED BY <3>1
  <2>7. \A i \in 0..k+1 : h[i] \in V
    BY <2>3, <2>4, <2>5, <2>6
  <2>8. \A i \in 0..k : i # 0 => i - 1 \in 0..k
    BY <2>1
  <2>9. \A i \in 0..k+1 : h[i] = IF i = 0 THEN init ELSE next[i, h[i - 1]]
    <3> HIDE DEF h
    <3>1. ASSUME NEW i \in 0..k PROVE h[i] = IF i = 0 THEN init ELSE next[i, h[i - 1]]
      BY <2>3, <2>5, <2>8
    <3>2. k + 1 # 0 /\ (k + 1) - 1 = k /\ h[k] = g[k]
      BY <2>1, <2>5
    <3> QED BY <2>4, <2>5, <3>1, <3>2
  <2>10. Looped(h, V, init, next, k + 1)
    <3>1. h = [i \in 0..k+1 |-> h[i]]
      OBVIOUS
    <3> HIDE DEF h
    <3> QED BY <2>7, <2>9, <3>1 DEF Looped
  <2>11. \E f : Looped(f, V, init, next, k + 1)
    BY <2>10
  <2> HIDE DEF h
  <2> QED BY <2>1, <2>11
<1> HIDE DEF S
<1>3. S = Nat
  <2>1. S \in SUBSET Nat
    BY DEF S
  <2> QED BY <1>1, <1>2, <2>1, EveryNat
<1> QED BY <1>3 DEF S
=============================================================================
