------------------------------ MODULE Induction ------------------------------
(***************************************************************************)
(* Induction and recursion over the natural numbers, stated about sets and *)
(* functions instead of predicates and operators: a fact is proved by      *)
(* induction on the set of numbers it is true of, and a recursive function *)
(* exists because the function that makes one step does.                   *)
(***************************************************************************)
EXTENDS Naturals, WellFoundedInduction, TLAPS

(* A set of natural numbers has a least element.                           *)
LEMMA LeastNat ==
  ASSUME NEW S \in SUBSET Nat, S # {}
  PROVE  \E n \in S : \A m \in S : n <= m
<1> DEFINE R == OpToRel(<, Nat)
<1>1. IsWellFoundedOn(R, Nat)
  BY NatLessThanWellFounded DEF OpToRel
<1> HIDE DEF R
<1>2. PICK n \in S : \A m \in S : ~(<<m, n>> \in R)
  BY <1>1, WFMin
<1>3. \A m \in S : ~(m < n)
  BY <1>2 DEF R, OpToRel
<1> QED
  BY <1>3

(* A set of natural numbers that holds 0 and, with n, also n + 1, holds    *)
(* all of them.                                                            *)
LEMMA NatSetInduction ==
  ASSUME NEW S \in SUBSET Nat, 0 \in S, \A n \in S : n + 1 \in S
  PROVE  S = Nat
<1>1. SUFFICES ASSUME Nat \ S # {} PROVE FALSE
  OBVIOUS
<1>2. PICK n \in Nat \ S : \A m \in Nat \ S : n <= m
  BY <1>1, LeastNat
<1>3. n - 1 \in Nat /\ n - 1 \notin S
  BY <1>2
<1> QED
  BY <1>2, <1>3

(* Up to any number the values of a recursive function can be written down.*)
LEMMA FirstIterations ==
  ASSUME NEW S, NEW a \in S, NEW step \in [Nat -> [S -> S]], NEW k \in Nat
  PROVE  \E f \in [0..k -> S] : f[0] = a /\ \A i \in 1..k : f[i] = step[i][f[i - 1]]
<1> DEFINE Goes(f, m) == f[0] = a /\ \A i \in 1..m : f[i] = step[i][f[i - 1]]
           G == {m \in Nat : \E f \in [0..m -> S] : Goes(f, m)}
<1>1. 0 \in G
  <2>1. [i \in 0..0 |-> a] \in [0..0 -> S] /\ Goes([i \in 0..0 |-> a], 0)
    OBVIOUS
  <2> QED
    BY <2>1
<1>2. ASSUME NEW m \in G PROVE m + 1 \in G
  <2>1. m \in Nat
    OBVIOUS
  <2>2. PICK f \in [0..m -> S] : Goes(f, m)
    OBVIOUS
  <2> DEFINE g == [i \in 0..(m + 1) |-> IF i = m + 1 THEN step[m + 1][f[m]] ELSE f[i]]
  <2>3. g \in [0..(m + 1) -> S] /\ g[0] = a
    BY <2>1, <2>2
  <2>4. ASSUME NEW i \in 1..(m + 1) PROVE g[i] = step[i][g[i - 1]]
    <3>1. CASE i = m + 1
      BY <2>1, <2>2, <3>1
    <3>2. CASE i # m + 1
      BY <2>1, <2>2, <3>2
    <3> QED
      BY <3>1, <3>2
  <2>5. g \in [0..(m + 1) -> S] /\ Goes(g, m + 1)
    <3> HIDE DEF g
    <3> QED
      BY <2>3, <2>4
  <2> HIDE DEF g, Goes
  <2>6. \E w \in [0..(m + 1) -> S] : Goes(w, m + 1)
    BY <2>5
  <2> QED
    BY <2>1, <2>6
<1>3. G = Nat
  <2>1. G \in SUBSET Nat
    OBVIOUS
  <2> HIDE DEF G
  <2> QED
    BY <1>1, <1>2, <2>1, NatSetInduction
<1> QED
  BY <1>3

(* A recursive function exists: step[n] takes its value at n - 1 to the    *)
(* one at n.                                                               *)
LEMMA Iteration ==
  ASSUME NEW S, NEW a \in S, NEW step \in [Nat -> [S -> S]]
  PROVE  \E f \in [Nat -> S] : f = [n \in Nat |-> IF n = 0 THEN a ELSE step[n][f[n - 1]]]
<1> DEFINE Goes(f, k) == f[0] = a /\ \A i \in 1..k : f[i] = step[i][f[i - 1]]
           F == [k \in Nat |-> CHOOSE f \in [0..k -> S] : Goes(f, k)]
           h == [k \in Nat |-> F[k][k]]
<1>1. \A k \in Nat : F[k] \in [0..k -> S] /\ Goes(F[k], k)
  <2>1. ASSUME NEW k \in Nat PROVE \E f \in [0..k -> S] : Goes(f, k)
    BY FirstIterations
  <2> HIDE DEF Goes
  <2> QED
    BY <2>1
<1> HIDE DEF F
(* What F[k] and F[k + 1] have in common.                                  *)
<1>2. \A k \in Nat : \A i \in 0..k : F[k][i] = F[k + 1][i]
  <2> SUFFICES ASSUME NEW k \in Nat PROVE \A i \in 0..k : F[k][i] = F[k + 1][i]
    OBVIOUS
  <2> DEFINE E == {i \in Nat : i <= k => F[k][i] = F[k + 1][i]}
  <2>1. k + 1 \in Nat /\ Goes(F[k], k) /\ Goes(F[k + 1], k + 1)
    BY <1>1
  <2>2. 0 \in E
    BY <2>1
  <2>3. ASSUME NEW i \in E PROVE i + 1 \in E
    <3>1. i \in Nat /\ (i <= k => F[k][i] = F[k + 1][i])
      OBVIOUS
    <3>2. i + 1 <= k => F[k][i + 1] = step[i + 1][F[k][i]]
                        /\ F[k + 1][i + 1] = step[i + 1][F[k + 1][i]]
      <4>1. i + 1 <= k => i + 1 \in 1..k /\ i + 1 \in 1..(k + 1) /\ (i + 1) - 1 = i
        BY <3>1
      <4> QED
        BY <2>1, <4>1
    <3> QED
      BY <3>1, <3>2
  <2>4. E = Nat
    <3>1. E \in SUBSET Nat
      OBVIOUS
    <3> HIDE DEF E
    <3> QED
      BY <2>2, <2>3, <3>1, NatSetInduction
  <2> QED
    BY <2>4
<1>3. h \in [Nat -> S]
  BY <1>1
<1>4. ASSUME NEW n \in Nat PROVE h[n] = IF n = 0 THEN a ELSE step[n][h[n - 1]]
  <2>1. CASE n = 0
    BY <1>1, <2>1
  <2>2. CASE n # 0
    <3>1. n - 1 \in Nat /\ n \in 1..n /\ (n - 1) + 1 = n /\ n - 1 \in 0..(n - 1)
      BY <2>2
    <3>2. F[n][n] = step[n][F[n][n - 1]]
      BY <1>1, <3>1
    <3>3. F[n - 1][n - 1] = F[n][n - 1]
      BY <1>2, <3>1
    <3> QED
      BY <2>2, <3>1, <3>2, <3>3
  <2> QED
    BY <2>1, <2>2
<1>5. h = [n \in Nat |-> IF n = 0 THEN a ELSE step[n][h[n - 1]]]
  <2> DEFINE g == [n \in Nat |-> IF n = 0 THEN a ELSE step[n][h[n - 1]]]
  <2>1. \A n \in Nat : h[n] = g[n]
    BY <1>4
  <2> QED
    BY <2>1
<1> HIDE DEF h
<1> QED
  BY <1>3, <1>5
=============================================================================
