----------------------------- MODULE Induction -----------------------------
(***************************************************************************)
(* Induction over the natural numbers for sets instead of operators: the   *)
(* theorems of the library take the predicate as an operator, which the    *)
(* provers cannot instantiate.  It is the pigeonhole principle that gives  *)
(* it: were m the first number missing, "i + 1 where i is in the set"      *)
(* would map 0..m into 1..m without a collision.  Iteration then shows     *)
(* that what the modules define by recursion along a function has values.  *)
(***************************************************************************)
EXTENDS Integers, FiniteSets, FiniteSetTheorems, TLAPS

(* A set of naturals with 0 that is closed under + 1 has them all. *)
LEMMA SetInduction ==
  ASSUME NEW P \in SUBSET Nat, 0 \in P, \A n \in P : n + 1 \in P
  PROVE  P = Nat
<1> SUFFICES ASSUME NEW m \in Nat, m \notin P PROVE FALSE
  OBVIOUS
<1> DEFINE f == [i \in 0..m |-> IF i \in P THEN i + 1 ELSE i]
<1>1. f \in [0..m -> 1..m]
  OBVIOUS
<1>2. IsFiniteSet(0..m) /\ Cardinality(0..m) = m + 1
  BY FS_Interval, 0 \in Int, m \in Int, 0 <= m
<1>3. IsFiniteSet(1..m) /\ Cardinality(1..m) = m
  <2>1. Cardinality(1..m) = IF 1 > m THEN 0 ELSE m - 1 + 1
    BY FS_Interval, 1 \in Int, m \in Int
  <2> QED BY <2>1, FS_Interval
<1>4. PICK i, j \in 0..m : i # j /\ f[i] = f[j]
  <2> HIDE DEF f
  <2>1. Cardinality(1..m) < Cardinality(0..m)
    BY <1>2, <1>3
  <2> QED BY <1>1, <1>2, <1>3, <2>1, FS_PigeonHole
<1> QED BY <1>4

(* A set of naturals that is not empty has a least element. *)
LEMMA LeastNatural ==
  ASSUME NEW T \in SUBSET Nat, T # {}
  PROVE  \E m \in T : \A n \in T : m <= n
<1> SUFFICES ASSUME \A m \in T : \E n \in T : n < m PROVE FALSE
  OBVIOUS
<1> DEFINE P == {n \in Nat : \A k \in T : k > n}
<1>1. P \in SUBSET Nat /\ 0 \in P /\ \A n \in P : n + 1 \in P
  OBVIOUS
<1>2. P = Nat
  <2> HIDE DEF P
  <2> QED BY <1>1, SetInduction
<1>3. PICK t \in T : TRUE
  OBVIOUS
<1>4. t \in P
  BY <1>2
<1> QED BY <1>4

\* p holds what iterating f from a on gives.
IsIteration(p, S, a, f) ==
    p \in [Nat -> S] /\ p[0] = a /\ \A n \in Nat : p[n + 1] = f[p[n]]

(* A function on a set can be iterated from any of its elements: what a       *)
(* recursive definition along a chain of pointers needs to have a value.      *)
LEMMA Iteration ==
  ASSUME NEW S, NEW a \in S, NEW f \in [S -> S]
  PROVE  \E p : IsIteration(p, S, a, f)
<1> DEFINE Begins(q, n) == /\ q \in [0..n -> S] /\ q[0] = a
                           /\ \A k \in 0..n : k < n => q[k + 1] = f[q[k]]
           P == {n \in Nat : \E q : Begins(q, n)}
           Q(n) == CHOOSE q : Begins(q, n)
           p == [n \in Nat |-> Q(n)[n]]
<1>1. P = Nat
  <2>1. 0 \in P
    <3>1. Begins([k \in 0..0 |-> a], 0)
      OBVIOUS
    <3> QED BY <3>1
  <2>2. ASSUME NEW n \in P PROVE n + 1 \in P
    <3>1. n \in Nat /\ n + 1 \in Nat
      OBVIOUS
    <3>2. PICK q : Begins(q, n)
      OBVIOUS
    <3> DEFINE r == [k \in 0..(n + 1) |-> IF k = n + 1 THEN f[q[n]] ELSE q[k]]
    <3>3. q[n] \in S /\ f[q[n]] \in S
      BY <3>1, <3>2
    <3>4. r \in [0..(n + 1) -> S] /\ r[0] = a
      BY <3>1, <3>2, <3>3
    <3>5. ASSUME NEW k \in 0..(n + 1), k < n + 1 PROVE r[k + 1] = f[r[k]]
      BY <3>1, <3>2, <3>5
    <3>6. Begins(r, n + 1)
      BY <3>4, <3>5
    <3> QED BY <3>1, <3>6
  <2> HIDE DEF P
  <2>3. P \in SUBSET Nat
    BY DEF P
  <2> QED BY <2>1, <2>2, <2>3, SetInduction
<1>2. \A n \in Nat : Begins(Q(n), n)
  <2> SUFFICES ASSUME NEW n \in Nat PROVE Begins(Q(n), n)
    OBVIOUS
  <2>1. \E q : Begins(q, n)
    BY <1>1
  <2> HIDE DEF Begins
  <2> QED BY <2>1
<1> HIDE DEF Q
<1>3. ASSUME NEW n \in Nat PROVE Q(n + 1)[n] = Q(n)[n]
  <2> DEFINE E == {k \in Nat : k <= n => Q(n + 1)[k] = Q(n)[k]}
  <2>1. 0 \in E
    BY <1>2
  <2>2. ASSUME NEW k \in E PROVE k + 1 \in E
    <3> SUFFICES ASSUME k + 1 <= n PROVE Q(n + 1)[k + 1] = Q(n)[k + 1]
      OBVIOUS
    <3>1. Q(n)[k + 1] = f[Q(n)[k]]
      BY <1>2
    <3>2. Q(n + 1)[k + 1] = f[Q(n + 1)[k]]
      <4>1. Begins(Q(n + 1), n + 1)
        BY <1>2
      <4> QED BY <4>1
    <3> QED BY <3>1, <3>2
  <2>3. E = Nat
    <3> HIDE DEF Begins, E
    <3>1. E \in SUBSET Nat
      BY DEF E
    <3> QED BY <2>1, <2>2, <3>1, SetInduction
  <2> QED BY <2>3
<1>4. ASSUME NEW n \in Nat PROVE p[n] \in S /\ p[n + 1] = f[p[n]]
  <2>1. Begins(Q(n), n) /\ Begins(Q(n + 1), n + 1)
    BY <1>2
  <2>2. Q(n)[n] \in S /\ Q(n + 1)[n + 1] = f[Q(n + 1)[n]]
    BY <2>1
  <2> QED BY <1>3, <2>2
<1>5. p[0] = a
  BY <1>2
<1>6. p \in [Nat -> S]
  BY <1>4
<1> HIDE DEF p
<1>7. IsIteration(p, S, a, f)
  BY <1>4, <1>5, <1>6 DEF IsIteration
<1> QED BY <1>7
=============================================================================
