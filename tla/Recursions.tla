----------------------------- MODULE Recursions -----------------------------
(* Induction over numbers, and functions that are defined by where they start *)
(* and how they go on.  Nothing here is about the program.                    *)
EXTENDS Integers, TLAPS, NaturalsInduction, WellFoundedInduction

-----------------------------------------------------------------------------
(* Recursion over numbers, by least counterexamples *)

\* A set of numbers has a least one.
LEMMA LeastNumber ==
  ASSUME NEW T \in SUBSET Nat, T # {}
  PROVE  \E a \in T : \A b \in T : a =< b
  <1> DEFINE less == OpToRel(<, Nat)
  <1>1. \A a, b \in Nat : a < b => <<a, b>> \in less
    BY DEF OpToRel
  <1>2. IsWellFoundedOn(less, Nat)
    BY NatLessThanWellFounded, Zenon
  <1>3. PICK a \in T : \A b \in T : <<b, a>> \notin less
    <2> HIDE DEF less
    <2>1. \E a \in T : \A b \in T : ~(<<b, a>> \in less)
      BY <1>2, WFMin
    <2> QED BY <2>1
  <1> HIDE DEF less
  <1>4. ASSUME NEW b \in T PROVE a =< b
    <2>1. ~(b < a)
      BY <1>1, <1>3
    <2> QED BY <2>1
  <1> QED BY <1>4

\* So what holds of 0, and of the next number, holds of all.
LEMMA AllNumbers ==
  ASSUME NEW T \in SUBSET Nat, 0 \in T, \A i \in T : i + 1 \in T
  PROVE  T = Nat
  <1> SUFFICES ASSUME Nat \ T # {} PROVE FALSE
    OBVIOUS
  <1>1. PICK a \in Nat \ T : \A b \in Nat \ T : a =< b
    BY LeastNumber
  <1>2. a - 1 \in Nat /\ a - 1 < a
    BY <1>1
  <1>3. a - 1 \in T
    BY <1>1, <1>2
  <1>4. (a - 1) + 1 \in T
    BY <1>3
  <1> QED BY <1>1, <1>4

\* The beginning of a function that starts with x and goes on with h.
Starts(g, m, V, x, h) ==
    /\ g \in [0 .. m -> V]
    /\ g[0] = x
    /\ \A i \in 0 .. m - 1 : g[i + 1] = h[<<i, g[i]>>]

\* Such beginnings exist,
LEMMA StartExists ==
  ASSUME NEW V, NEW x \in V, NEW h \in [Nat \X V -> V], NEW m \in Nat
  PROVE  \E g : Starts(g, m, V, x, h)
  <1> DEFINE T == {i \in Nat : \E g : Starts(g, i, V, x, h)}
  <1>1. 0 \in T
    <2> DEFINE g == [i \in 0 .. 0 |-> x]
    <2>1. g \in [0 .. 0 -> V] /\ g[0] = x
      OBVIOUS
    <2>2. 0 .. 0 - 1 = {}
      OBVIOUS
    <2>3. Starts(g, 0, V, x, h)
      BY <2>1, <2>2 DEF Starts
    <2> QED BY <2>3
  <1>2. ASSUME NEW i \in T PROVE i + 1 \in T
    <2>1. PICK g : Starts(g, i, V, x, h)
      OBVIOUS
    <2> DEFINE f == [k \in 0 .. i + 1 |-> IF k = i + 1 THEN h[<<i, g[i]>>] ELSE g[k]]
    <2>2. g \in [0 .. i -> V] /\ i \in Nat
      BY <2>1 DEF Starts
    <2>3. h[<<i, g[i]>>] \in V
      BY <2>2
    <2>4. f \in [0 .. i + 1 -> V]
      BY <2>2, <2>3
    <2>5. f[0] = x
      BY <2>1, <2>2 DEF Starts
    <2>6. ASSUME NEW k \in 0 .. (i + 1) - 1 PROVE f[k + 1] = h[<<k, f[k]>>]
      <3>1. k \in 0 .. i /\ k + 1 \in 0 .. i + 1 /\ k # i + 1
        BY <2>2
      <3>2. f[k] = g[k]
        BY <3>1, <2>2
      <3>3. CASE k = i
        BY <3>1, <3>2, <3>3
      <3>4. CASE k # i
        <4>1. k \in 0 .. i - 1 /\ k + 1 # i + 1
          BY <2>2, <3>1, <3>4
        <4>2. g[k + 1] = h[<<k, g[k]>>]
          BY <2>1, <4>1 DEF Starts
        <4> QED BY <3>1, <3>2, <4>1, <4>2
      <3> QED BY <3>3, <3>4
    <2>7. Starts(f, i + 1, V, x, h)
      <3> HIDE DEF f
      <3> QED BY <2>4, <2>5, <2>6 DEF Starts
    <2> QED BY <2>2, <2>7
  <1>3. T = Nat
    <2> HIDE DEF T
    <2>1. T \in SUBSET Nat
      BY DEF T
    <2> QED BY <1>1, <1>2, <2>1, AllNumbers
  <1> QED BY <1>3

\* and agree as far as both go.
LEMMA StartsAgree ==
  ASSUME NEW V, NEW x, NEW h, NEW m \in Nat, NEW n \in Nat,
         NEW f, NEW g, Starts(f, m, V, x, h), Starts(g, n, V, x, h), m =< n
  PROVE  \A i \in 0 .. m : f[i] = g[i]
  <1> DEFINE T == {i \in Nat : i =< m => f[i] = g[i]}
  <1>1. 0 \in T
    BY DEF Starts
  <1>2. ASSUME NEW i \in T PROVE i + 1 \in T
    <2> SUFFICES ASSUME i + 1 =< m PROVE f[i + 1] = g[i + 1]
      OBVIOUS
    <2>1. i \in 0 .. m - 1 /\ i \in 0 .. n - 1 /\ i =< m
      OBVIOUS
    <2>2. f[i] = g[i]
      BY <2>1
    <2> QED BY <2>1, <2>2 DEF Starts
  <1>3. T = Nat
    <2> HIDE DEF T
    <2>1. T \in SUBSET Nat
      BY DEF T
    <2> QED BY <1>1, <1>2, <2>1, AllNumbers
  <1> QED BY <1>3

\* What such a function goes on with, and the whole of it.
StepFunction(V) == [Nat \X V -> V]
Follows(f, V, x, h) ==
    /\ f \in [Nat -> V]
    /\ f[0] = x
    /\ \A i \in Nat : f[i + 1] = h[<<i, f[i]>>]

\* A function can be defined by where it starts and how it goes on.
LEMMA Recursion ==
  ASSUME NEW V, NEW x \in V, NEW h \in StepFunction(V)
  PROVE  \E f : Follows(f, V, x, h)
  <1>0. h \in [Nat \X V -> V]
    BY DEF StepFunction
  <1> DEFINE g(m) == CHOOSE g : Starts(g, m, V, x, h)
             f == [m \in Nat |-> g(m)[m]]
  <1>1. \A m \in Nat : Starts(g(m), m, V, x, h)
    BY <1>0, StartExists
  <1> HIDE DEF g
  <1>2. f \in [Nat -> V]
    <2>1. \A m \in Nat : g(m)[m] \in V
      BY <1>1 DEF Starts
    <2> QED BY <2>1
  <1>3. f[0] = x
    BY <1>1 DEF Starts
  <1>4. ASSUME NEW i \in Nat PROVE f[i + 1] = h[<<i, f[i]>>]
    <2>1. i + 1 \in Nat /\ i \in 0 .. (i + 1) - 1 /\ i \in 0 .. i /\ i =< i + 1
      OBVIOUS
    <2>2. g(i + 1)[i + 1] = h[<<i, g(i + 1)[i]>>]
      BY <1>1, <2>1 DEF Starts
    <2>3. g(i)[i] = g(i + 1)[i]
      <3>1. Starts(g(i), i, V, x, h) /\ Starts(g(i + 1), i + 1, V, x, h)
        BY <1>1, <2>1
      <3>2. \A k \in 0 .. i : g(i)[k] = g(i + 1)[k]
        BY <2>1, <3>1, StartsAgree
      <3> QED BY <2>1, <3>2
    <2> QED BY <2>1, <2>2, <2>3
  <1> HIDE DEF f
  <1>5. Follows(f, V, x, h)
    BY <1>2, <1>3, <1>4 DEF Follows
  <1> QED BY <1>5
=============================================================================
