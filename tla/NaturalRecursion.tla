---------------------------- MODULE NaturalRecursion ---------------------------
(***************************************************************************)
(* Induction and recursion over the natural numbers, stated with sets and  *)
(* functions in place of operators, so that every prover can use them.     *)
(***************************************************************************)
EXTENDS Integers, WellFoundedInduction, TLAPS

Less == {ss \in Nat \X Nat : ss[1] < ss[2]}

LEMMA LeastNatural ==
  ASSUME NEW T \in SUBSET Nat, T # {}
  PROVE  \E n \in T : \A m \in T : n <= m
<1>1. IsWellFoundedOn(Less, Nat)
  <2>1. Less = OpToRel(<, Nat)
    BY DEF OpToRel, Less
  <2> QED
    BY <2>1, NatLessThanWellFounded
<1>2. \E n \in T : \A m \in T : <<m, n>> \notin Less
  BY <1>1, WFMin
<1>3. PICK n \in T : \A m \in T : <<m, n>> \notin Less
  BY <1>2
<1>4. ASSUME NEW m \in T PROVE n <= m
  <2>1. m \in Nat /\ n \in Nat /\ ~(m < n)
    BY <1>3 DEF Less
  <2> QED
    BY <2>1
<1> QED
  BY <1>4

(* A set that has 0, and with a number the next one, has them all. *)
LEMMA Induction ==
  ASSUME NEW S, 0 \in S, \A n \in Nat : n \in S => n + 1 \in S
  PROVE  \A n \in Nat : n \in S
<1> SUFFICES ASSUME Nat \ S # {} PROVE FALSE
  OBVIOUS
<1>1. PICK n \in Nat \ S : \A m \in Nat \ S : n <= m
  BY LeastNatural
<1>2. n # 0 /\ n - 1 \in Nat /\ n - 1 \in S
  BY <1>1
<1> QED
  BY <1>1, <1>2

(* f is what one gets from a by applying g again and again, n times. *)
Iterates(f, n, S, a, g) ==
  /\ f \in [0..n -> S]
  /\ f[0] = a
  /\ \A i \in 1..n : f[i] = g[<<i, f[i - 1]>>]

LEMMA IteratesExist ==
  ASSUME NEW S, NEW a \in S, NEW g \in [(Nat \ {0}) \X S -> S]
  PROVE  \A n \in Nat : \E f : Iterates(f, n, S, a, g)
<1> DEFINE D == {n \in Nat : \E f : Iterates(f, n, S, a, g)}
<1>1. 0 \in D
  <2>1. Iterates([i \in 0..0 |-> a], 0, S, a, g)
    BY DEF Iterates
  <2> QED
    BY <2>1
<1>2. ASSUME NEW n \in Nat, n \in D PROVE n + 1 \in D
  <2>1. PICK f : Iterates(f, n, S, a, g)
    BY <1>2
  <2> DEFINE h == [i \in 0..(n + 1) |-> IF i <= n THEN f[i] ELSE g[<<n + 1, f[n]>>]]
  <2>2. f[n] \in S /\ g[<<n + 1, f[n]>>] \in S
    BY <2>1 DEF Iterates
  <2>3. h \in [0..(n + 1) -> S] /\ h[0] = a
    BY <2>1, <2>2 DEF Iterates
  <2>4. ASSUME NEW i \in 1..(n + 1) PROVE h[i] = g[<<i, h[i - 1]>>]
    <3>1. CASE i <= n
      <4>1. i \in 1..n /\ i - 1 <= n /\ i \in 0..(n + 1) /\ i - 1 \in 0..(n + 1)
        BY <3>1
      <4>2. f[i] = g[<<i, f[i - 1]>>]
        BY <2>1, <4>1 DEF Iterates
      <4> QED
        BY <3>1, <4>1, <4>2
    <3>2. CASE i = n + 1
      BY <3>2
    <3> QED
      BY <3>1, <3>2
  <2>5. Iterates(h, n + 1, S, a, g)
    BY <2>3, <2>4 DEF Iterates
  <2> QED
    BY <2>5
<1> HIDE DEF D
<1>3. \A n \in Nat : n \in D
  BY <1>1, <1>2, Induction
<1> QED
  BY <1>3 DEF D

LEMMA IteratesAgree ==
  ASSUME NEW S, NEW a \in S, NEW g \in [(Nat \ {0}) \X S -> S],
         NEW m \in Nat, NEW n \in Nat, m <= n, NEW f, NEW h,
         Iterates(f, m, S, a, g), Iterates(h, n, S, a, g)
  PROVE  f[m] = h[m]
<1> DEFINE D == {i \in Nat : i <= m => f[i] = h[i]}
<1>1. 0 \in D
  BY DEF Iterates
<1>2. \A i \in Nat : i \in D => i + 1 \in D
  <2> SUFFICES ASSUME NEW i \in Nat, i \in D, i + 1 <= m PROVE f[i + 1] = h[i + 1]
    OBVIOUS
  <2>1. i + 1 \in 1..m /\ i + 1 \in 1..n /\ (i + 1) - 1 = i /\ f[i] = h[i]
    OBVIOUS
  <2>2. f[i + 1] = g[<<i + 1, f[(i + 1) - 1]>>] /\ h[i + 1] = g[<<i + 1, h[(i + 1) - 1]>>]
    BY <2>1 DEF Iterates
  <2> QED
    BY <2>1, <2>2
<1> HIDE DEF D
<1>3. \A i \in Nat : i \in D
  BY <1>1, <1>2, Induction
<1> QED
  BY <1>3 DEF D

(* A function on the natural numbers may be defined by what it is at 0 and *)
(* by what each value makes of the one before.                             *)
LEMMA Recursion ==
  ASSUME NEW S, NEW a \in S, NEW g \in [(Nat \ {0}) \X S -> S]
  PROVE  \E f \in [Nat -> S] :
           f[0] = a /\ \A n \in Nat \ {0} : f[n] = g[<<n, f[n - 1]>>]
<1> DEFINE upTo(n) == CHOOSE f : Iterates(f, n, S, a, g)
<1> DEFINE f == [n \in Nat |-> upTo(n)[n]]
<1>1. \A n \in Nat : Iterates(upTo(n), n, S, a, g)
  BY IteratesExist
<1> HIDE DEF upTo
<1>2. f \in [Nat -> S] /\ f[0] = a
  BY <1>1 DEF Iterates
<1>3. ASSUME NEW n \in Nat \ {0} PROVE f[n] = g[<<n, f[n - 1]>>]
  <2>1. n - 1 \in Nat /\ n - 1 <= n /\ n \in 1..n
    OBVIOUS
  <2>2. Iterates(upTo(n - 1), n - 1, S, a, g) /\ Iterates(upTo(n), n, S, a, g)
    BY <1>1, <2>1
  <2>3. \A u, v : Iterates(u, n - 1, S, a, g) /\ Iterates(v, n, S, a, g) => u[n - 1] = v[n - 1]
    BY <2>1, IteratesAgree
  <2>4. upTo(n)[n] = g[<<n, upTo(n)[n - 1]>>]
    BY <2>1, <2>2 DEF Iterates
  <2> QED
    BY <2>1, <2>2, <2>3, <2>4
<1> QED
  BY <1>2, <1>3

(* The same on 0..n. *)
LEMMA FiniteRecursion ==
  ASSUME NEW S, NEW a \in S, NEW n \in Nat, NEW g \in [(1..n) \X S -> S]
  PROVE  \E f : Iterates(f, n, S, a, g)
<1> DEFINE h == [p \in (Nat \ {0}) \X S |-> IF p[1] <= n THEN g[<<p[1], p[2]>>] ELSE a]
<1>1. h \in [(Nat \ {0}) \X S -> S]
  OBVIOUS
<1>2. PICK f : Iterates(f, n, S, a, h)
  <2> HIDE DEF h
  <2> QED
    BY <1>1, IteratesExist
<1>3. f \in [0..n -> S] /\ f[0] = a
  BY <1>2 DEF Iterates
<1>4. ASSUME NEW i \in 1..n PROVE f[i] = g[<<i, f[i - 1]>>]
  <2>1. f[i] = h[<<i, f[i - 1]>>]
    BY <1>2 DEF Iterates
  <2>2. f[i - 1] \in S
    BY <1>3
  <2> QED
    BY <2>1, <2>2
<1> QED
  BY <1>3, <1>4 DEF Iterates

(* Functions that start with the same value and make the same steps. *)
StepsAgree(f, h, n) == \A i \in 1..n : f[i - 1] = h[i - 1] => f[i] = h[i]

LEMMA SameSteps ==
  ASSUME NEW n \in Nat, NEW f, NEW h, f[0] = h[0], StepsAgree(f, h, n)
  PROVE  \A i \in 0..n : f[i] = h[i]
<1> DEFINE D == {i \in Nat : i <= n => f[i] = h[i]}
<1>1. 0 \in D
  OBVIOUS
<1>2. ASSUME NEW i \in Nat, i \in D PROVE i + 1 \in D
  <2> SUFFICES ASSUME i + 1 <= n PROVE f[i + 1] = h[i + 1]
    OBVIOUS
  <2>1. i + 1 \in 1..n /\ (i + 1) - 1 = i /\ f[i] = h[i]
    BY <1>2
  <2>2. f[(i + 1) - 1] = h[(i + 1) - 1] => f[i + 1] = h[i + 1]
    BY <2>1 DEF StepsAgree
  <2> QED
    BY <2>1, <2>2
<1> HIDE DEF D
<1>3. \A i \in Nat : i \in D
  BY <1>1, <1>2, Induction
<1> QED
  BY <1>3 DEF D
================================================================================
