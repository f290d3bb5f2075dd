--------------------------- MODULE ExchangeProofs ---------------------------
(***************************************************************************)
(* Theorems about Exchange, for every length of a file, every base of the  *)
(* numbers and every cut of the answers.                                   *)
(***************************************************************************)
EXTENDS Exchange, ServerRequestProofs

-----------------------------------------------------------------------------
(* Numbers read back *)

\* v holds the values of the beginnings of d.
Evaluates(v, d) ==
    /\ v \in [0..Len(d) -> Nat] /\ v[0] = 0
    /\ \A n \in 1..Len(d) : v[n] = Base * v[n - 1] + d[n]

\* The recursive definition of Value has a value.
LEMMA ValueIs ==
  ASSUME NEW d \in Seq(Nat)
  PROVE  \E v : Evaluates(v, d) /\ Value(d) = v[Len(d)]
<1> DEFINE f == [h \in Seq(Nat) |-> IF Len(h) \in 1..Len(d) THEN Base * h[Len(h)] + d[Len(h)] ELSE 0]
           Step(v) == [n \in 0..Len(d) |-> IF n = 0 THEN 0 ELSE Base * v[n - 1] + d[n]]
           V == CHOOSE v : v = Step(v)
<1>1. PICK m \in Nat : m = Len(d)
  BY LenProperties
<1>2. \A i \in 1..m : d[i] \in Nat
  BY <1>1, ElementOfSeq
<1>3. \A a \in Nat, b \in Nat : Base * a + b \in Nat
  BY BaseIs
<1>4. f \in [Seq(Nat) -> Nat]
  <2> SUFFICES ASSUME NEW h \in Seq(Nat), Len(h) \in 1..Len(d)
               PROVE  Base * h[Len(h)] + d[Len(h)] \in Nat
    OBVIOUS
  <2>1. h[Len(h)] \in Nat
    BY <1>1, ElementOfSeq
  <2> QED BY <1>1, <1>2, <1>3, <2>1
<1>5. PICK p \in [Nat -> Nat] : \A n \in Nat :
          \E h \in Seq(Nat) : Len(h) = n /\ (\A i \in 1..n : h[i] = p[i - 1]) /\ p[n] = f[h]
  <2> HIDE DEF f
  <2>1. \E p : HasHistory(p, Nat, f)
    BY <1>4, CourseOfValues
  <2> QED BY <2>1 DEF HasHistory
<1>6. ASSUME NEW n \in 0..m PROVE p[n] = IF n = 0 THEN 0 ELSE Base * p[n - 1] + d[n]
  <2>1. n \in Nat
    BY <1>1
  <2>2. PICK h \in Seq(Nat) : Len(h) = n /\ (\A i \in 1..n : h[i] = p[i - 1]) /\ p[n] = f[h]
    <3> HIDE DEF f
    <3> QED BY <1>5, <2>1
  <2>3. f[h] = IF n \in 1..m THEN Base * h[n] + d[n] ELSE 0
    BY <1>1, <2>2
  <2> HIDE DEF f
  <2>4. n # 0 => h[n] = p[n - 1] /\ n \in 1..m
    BY <2>1, <2>2
  <2>5. CASE n = 0
    BY <2>2, <2>3, <2>5
  <2>6. CASE n # 0
    <3>1. p[n] = Base * h[n] + d[n]
      BY <2>2, <2>3, <2>4, <2>6
    <3> QED BY <2>4, <2>6, <3>1
  <2> QED BY <2>5, <2>6
<1> DEFINE w == [n \in 0..m |-> p[n]]
<1>7. w = Step(w)
  <2>1. ASSUME NEW n \in 0..m PROVE w[n] = Step(w)[n]
    <3>1. n # 0 => n - 1 \in 0..m
      BY <1>1
    <3> QED BY <1>1, <1>6, <3>1
  <2> QED BY <1>1, <2>1
<1>8. V = Step(V)
  <2> HIDE DEF Step, w
  <2> QED BY <1>7
<1> HIDE DEF V
<1>9. Evaluates(V, d)
  <2>1. V[0] = 0
    BY <1>1, <1>8
  <2>2. ASSUME NEW n \in 1..m PROVE V[n] = Base * V[n - 1] + d[n]
    <3>1. V[n] = Step(V)[n]
      <4> HIDE DEF Step
      <4> QED BY <1>8
    <3>2. Step(V)[n] = Base * V[n - 1] + d[n]
      BY <1>1, <2>2
    <3> QED BY <3>1, <3>2
  <2>3. V = [n \in 0..m |-> V[n]]
    BY <1>1, <1>8
  <2> DEFINE P == {n \in Nat : n <= m => V[n] \in Nat}
  <2>4. 0 \in P
    BY <2>1
  <2>5. ASSUME NEW n \in P PROVE n + 1 \in P
    <3> SUFFICES ASSUME n + 1 <= m PROVE V[n + 1] \in Nat
      OBVIOUS
    <3>1. n + 1 \in 1..m /\ V[n] \in Nat
      BY <1>1
    <3>2. V[n + 1] = Base * V[n] + d[n + 1]
      BY <2>2, <3>1
    <3> QED BY <1>2, <1>3, <3>1, <3>2
  <2>6. P = Nat
    <3>1. P \in SUBSET Nat
      OBVIOUS
    <3> HIDE DEF P
    <3> QED BY <2>4, <2>5, <3>1, SetInduction
  <2>7. ASSUME NEW n \in 0..m PROVE V[n] \in Nat
    <3>1. n \in P
      <4> HIDE DEF P
      <4> QED BY <1>1, <2>6
    <3> QED BY <3>1
  <2> QED BY <1>1, <2>1, <2>2, <2>3, <2>7 DEF Evaluates
<1>10. Value(d) = V[Len(d)]
  BY DEF Value, V
<1> QED BY <1>9, <1>10

\* What follows the digits read does not change their value, and none of it lessens it.
LEMMA ValuesAgree ==
  ASSUME NEW d \in Seq(Nat), NEW e \in Seq(Nat), NEW v, NEW w, Evaluates(v, d), Evaluates(w, e),
         Len(d) <= Len(e), \A i \in 1..Len(d) : d[i] = e[i]
  PROVE  w[Len(d)] = v[Len(d)] /\ w[Len(d)] <= w[Len(e)]
<1> PICK m \in Nat, n \in Nat : m = Len(d) /\ n = Len(e)
  BY LenProperties
<1>0. m <= n /\ \A i \in 1..m : d[i] = e[i]
  OBVIOUS
<1>1. /\ v[0] = 0 /\ \A i \in 1..m : v[i] = Base * v[i - 1] + d[i]
      /\ w[0] = 0 /\ \A i \in 1..n : w[i] = Base * w[i - 1] + e[i]
      /\ \A i \in 0..n : w[i] \in Nat
  BY DEF Evaluates
<1>2. \A i \in 1..n : e[i] \in Nat
  BY ElementOfSeq
<1> DEFINE P == {i \in Nat : i <= m => w[i] = v[i]}
           Q == {i \in Nat : m + i <= n => w[m] <= w[m + i]}
<1>3. 0 \in P
  BY <1>1
<1>4. ASSUME NEW i \in P PROVE i + 1 \in P
  <2> SUFFICES ASSUME i + 1 <= m PROVE w[i + 1] = v[i + 1]
    OBVIOUS
  <2>1. i + 1 \in 1..m /\ i + 1 \in 1..n /\ (i + 1) - 1 = i /\ w[i] = v[i]
    OBVIOUS
  <2> QED BY <1>1, <2>1
<1>5. 0 \in Q
  BY <1>1
<1>6. ASSUME NEW i \in Q PROVE i + 1 \in Q
  <2> SUFFICES ASSUME m + i + 1 <= n PROVE w[m] <= w[m + i + 1]
    OBVIOUS
  <2> DEFINE j == m + i
  <2>1. j + 1 \in 1..n /\ (j + 1) - 1 = j /\ j \in 0..n /\ m \in 0..n
    OBVIOUS
  <2>2. w[m] <= w[j]
    BY <2>1
  <2> HIDE DEF j
  <2>3. w[j + 1] = Base * w[j] + e[j + 1] /\ w[j] \in Nat /\ e[j + 1] \in Nat /\ w[m] \in Nat
    BY <1>1, <1>2, <2>1
  <2>4. PICK x \in Nat : x = w[j]
    BY <2>3
  <2>5. 1 * x <= Base * x /\ Base * x \in Nat
    BY BaseIs, Times
  <2>6. w[j + 1] = Base * x + e[j + 1] /\ w[m] <= x
    BY <2>2, <2>3, <2>4
  <2> HIDE DEF j
  <2>7. w[m] <= w[j + 1]
    <3>1. PICK y \in Nat, z \in Nat, b \in Nat : y = w[m] /\ z = e[j + 1] /\ b = Base * x
      BY <2>3, <2>5
    <3> QED BY <2>5, <2>6, <3>1
  <2> QED BY <2>7 DEF j
<1>7. P = Nat /\ Q = Nat
  <2>1. P \in SUBSET Nat /\ Q \in SUBSET Nat
    OBVIOUS
  <2> HIDE DEF P, Q
  <2> QED BY <1>3, <1>4, <1>5, <1>6, <2>1, SetInduction
<1>8. w[m] = v[m]
  <2>1. m \in P
    <3> HIDE DEF P
    <3> QED BY <1>7
  <2> QED BY <2>1
<1>9. w[m] <= w[n]
  <2>1. n - m \in Q
    <3> HIDE DEF Q
    <3> QED BY <1>0, <1>7
  <2> QED BY <1>0, <2>1
<1> QED BY <1>8, <1>9

\* atoi reads more out of more digits.
LEMMA ValueGrows ==
  ASSUME NEW d \in Seq(Nat), NEW e \in Seq(Nat)
  PROVE  Value(d) \in Nat /\ Value(d \o e) \in Nat /\ Value(d) <= Value(d \o e)
<1> DEFINE t == d \o e
<1>1. /\ t \in Seq(Nat) /\ Len(t) = Len(d) + Len(e) /\ Len(d) \in Nat /\ Len(e) \in Nat
      /\ \A i \in 1..Len(d) : d[i] = t[i]
  BY ConcatProperties, LenProperties
<1> HIDE DEF t
<1>2. PICK v : Evaluates(v, d) /\ Value(d) = v[Len(d)]
  BY ValueIs
<1>3. PICK w : Evaluates(w, t) /\ Value(t) = w[Len(t)]
  BY <1>1, ValueIs
<1>4. w[Len(d)] = v[Len(d)] /\ w[Len(d)] <= w[Len(t)]
  <2>1. Len(d) <= Len(t)
    BY <1>1
  <2> QED BY <1>1, <1>2, <1>3, <2>1, ValuesAgree
<1>5. v[Len(d)] \in Nat
  <2>1. Len(d) \in 0..Len(d)
    BY <1>1
  <2> QED BY <1>2, <2>1 DEF Evaluates
<1>6. w[Len(t)] \in Nat
  BY <1>1, <1>3 DEF Evaluates
<1> QED BY <1>2, <1>3, <1>4, <1>5, <1>6 DEF t

(* A number written in digits is read back: the length of the file, in every  *)
(* base and of any size.                                                      *)
LEMMA ReadBack == \A n \in Nat : Value(Digits[n]) = n
<1> DEFINE G(n) == Value(Digits[n]) = n
           P == {n \in Nat : \A k \in 0..n : G(k)}
<1>1. ASSUME NEW n \in Nat, \A k \in Nat : k < n => G(k) PROVE G(n)
  <2>1. Digits[n] \in Seq(Nat)
    BY NumberHasNoLine
  <2>2. PICK v : Evaluates(v, Digits[n]) /\ Value(Digits[n]) = v[Len(Digits[n])]
    BY <2>1, ValueIs
  <2>3. CASE n < Base
    <3>1. Digits[n] = <<n>>
      BY <2>3, DigitsStep
    <3>2. Len(Digits[n]) = 1 /\ Digits[n][1] = n
      BY <3>1
    <3>3. v[0] = 0 /\ v[1] = Base * v[0] + n
      BY <2>2, <3>2 DEF Evaluates
    <3> QED BY <2>2, <3>2, <3>3, BaseIs
  <2>4. CASE ~(n < Base)
    <3> DEFINE q == n \div Base
               r == n % Base
               d == Digits[q]
               e == Digits[n]
    <3>1. e = Append(d, r)
      BY <2>4, DigitsStep
    <3>2. q \in Nat /\ q < n /\ r \in 0..(Base - 1)
      BY <2>4, BaseIs, Quotient, QuotientLess
    <3>3. n = Base * q + r
      <4>1. \A b \in Nat : b > 1 => n % b = n - b * (n \div b)
        OBVIOUS
      <4>2. r = n - Base * q
        BY <4>1, BaseIs
      <4> HIDE DEF q, r
      <4>3. Base * q \in Nat /\ r \in Nat
        BY <3>2, BaseIs
      <4> QED BY <4>2, <4>3
    <3> HIDE DEF q, r
    <3>4. d \in Seq(Nat) /\ Len(d) \in Nat /\ r \in Nat /\ Value(d) = q
      BY <1>1, <3>2, NumberHasNoLine, BaseIs
    <3> HIDE DEF d
    <3>5. /\ e \in Seq(Nat) /\ Len(e) = Len(d) + 1 /\ e[Len(d) + 1] = r
          /\ \A i \in 1..Len(d) : d[i] = e[i]
      BY <3>1, <3>4, AppendProperties
    <3> HIDE DEF e
    <3>6. PICK u : Evaluates(u, d) /\ Value(d) = u[Len(d)]
      BY <3>4, ValueIs
    <3>7. PICK w : Evaluates(w, e) /\ Value(e) = w[Len(e)]
      BY <3>5, ValueIs
    <3>8. w[Len(d)] = u[Len(d)]
      <4>1. Len(d) <= Len(e)
        BY <3>4, <3>5
      <4> QED BY <3>4, <3>5, <3>6, <3>7, <4>1, ValuesAgree
    <3>9. w[Len(d) + 1] = Base * w[Len(d)] + e[Len(d) + 1]
      <4>1. Len(d) + 1 \in 1..Len(e) /\ (Len(d) + 1) - 1 = Len(d)
        BY <3>4, <3>5
      <4> QED BY <3>7, <4>1 DEF Evaluates
    <3>10. Value(e) = n
      BY <3>3, <3>4, <3>5, <3>6, <3>7, <3>8, <3>9
    <3> QED BY <3>10 DEF e
  <2> QED BY <2>3, <2>4
<1> HIDE DEF G
<1>2. 0 \in P
  BY <1>1
<1>3. ASSUME NEW n \in P PROVE n + 1 \in P
  <2>1. n \in Nat /\ \A k \in 0..n : G(k)
    OBVIOUS
  <2>2. G(n + 1)
    BY <1>1, <2>1
  <2> QED BY <2>1, <2>2
<1>4. P = Nat
  <2>1. P \in SUBSET Nat
    OBVIOUS
  <2> HIDE DEF P
  <2> QED BY <1>2, <1>3, <2>1, SetInduction
<1>5. ASSUME NEW n \in Nat PROVE G(n)
  <2>1. n \in P
    BY <1>4
  <2> QED BY <2>1
<1> QED BY <1>5 DEF G

-----------------------------------------------------------------------------
(* Sequences of tokens *)

\* u consists of s and t.
Joins(u, s, t) ==
    /\ u \in Seq(Nat) /\ Len(u) = Len(s) + Len(t)
    /\ \A i \in 1..Len(s) : u[i] = s[i]
    /\ \A i \in 1..Len(t) : u[Len(s) + i] = t[i]

\* The two parts of a concatenation.
LEMMA Cat ==
  ASSUME NEW s \in Seq(Nat), NEW t \in Seq(Nat)
  PROVE  Joins(s \o t, s, t)
<1>1. /\ s \o t \in Seq(Nat) /\ Len(s \o t) = Len(s) + Len(t)
      /\ \A i \in 1..(Len(s) + Len(t)) : (s \o t)[i] = IF i <= Len(s) THEN s[i] ELSE t[i - Len(s)]
  BY ConcatProperties
<1> PICK n \in Nat, m \in Nat : n = Len(s) /\ m = Len(t)
  BY LenProperties
<1>2. ASSUME NEW i \in 1..n PROVE (s \o t)[i] = s[i]
  <2>1. i \in 1..(n + m) /\ i <= n
    OBVIOUS
  <2> QED BY <1>1, <2>1
<1>3. ASSUME NEW i \in 1..m PROVE (s \o t)[n + i] = t[i]
  <2>1. n + i \in 1..(n + m) /\ ~(n + i <= n) /\ (n + i) - n = i
    OBVIOUS
  <2> QED BY <1>1, <2>1
<1> QED BY <1>1, <1>2, <1>3 DEF Joins

\* A part of a sequence, which may be empty.
LEMMA Part ==
  ASSUME NEW s \in Seq(Nat), NEW i \in Nat, NEW j \in Int, i >= 1, i <= j + 1, j <= Len(s)
  PROVE  /\ SubSeq(s, i, j) \in Seq(Nat) /\ Len(SubSeq(s, i, j)) = j - i + 1
         /\ \A k \in 1..(j - i + 1) : SubSeq(s, i, j)[k] = s[i + k - 1]
<1>1. PICK n \in Nat : n = Len(s)
  BY LenProperties
<1>2. \A k \in i..j : s[k] \in Nat
  <2> SUFFICES ASSUME NEW k \in i..j PROVE s[k] \in Nat
    OBVIOUS
  <2>1. k \in 1..n
    BY <1>1
  <2> QED BY <1>1, <2>1, ElementOfSeq
<1>3. i \in Int
  OBVIOUS
<1>4. /\ SubSeq(s, i, j) \in Seq(Nat)
      /\ Len(SubSeq(s, i, j)) = IF i <= j THEN j - i + 1 ELSE 0
      /\ \A k \in 1..(j - i + 1) : SubSeq(s, i, j)[k] = s[i + k - 1]
  BY <1>2, <1>3, SubSeqProperties
<1> QED BY <1>4

\* The first n tokens.
LEMMA Beginning ==
  ASSUME NEW s \in Seq(Nat), NEW n \in Nat, n <= Len(s)
  PROVE  /\ SubSeq(s, 1, n) \in Seq(Nat) /\ Len(SubSeq(s, 1, n)) = n
         /\ \A i \in 1..n : SubSeq(s, 1, n)[i] = s[i]
<1>1. 1 \in Nat /\ n \in Int /\ 1 <= n + 1 /\ n - 1 + 1 = n /\ \A i \in 1..n : 1 + i - 1 = i
  OBVIOUS
<1>2. /\ SubSeq(s, 1, n) \in Seq(Nat) /\ Len(SubSeq(s, 1, n)) = n - 1 + 1
      /\ \A i \in 1..(n - 1 + 1) : SubSeq(s, 1, n)[i] = s[1 + i - 1]
  BY <1>1, Part
<1> QED BY <1>1, <1>2

\* The least element.
LEMMA MinIs ==
  ASSUME NEW T \in SUBSET Int, NEW m \in T, \A x \in T : m <= x
  PROVE  Min(T) = m
<1>1. \A x \in T : m <= x /\ (\A y \in T : x <= y) => x = m
  OBVIOUS
<1>2. Min(T) \in T /\ \A y \in T : Min(T) <= y
  BY DEF Min
<1> QED BY <1>1, <1>2

\* If i is the end of something, it is that of an occurrence of t.
Finds(i, s, t) ==
    /\ i \in Int
    /\ i > 0 => i \in Len(t)..Len(s) /\ \A j \in 1..Len(t) : s[i - Len(t) + j] = t[j]

\* Where a search ends, what was searched for is found.
LEMMA MatchIs ==
  ASSUME NEW s \in Seq(Nat), NEW t \in Seq(Nat)
  PROVE  Finds(MatchSubstr(s, t), s, t)
<1> PICK n \in Nat, m \in Nat : n = Len(s) /\ m = Len(t)
  BY LenProperties
<1> DEFINE at == {i \in 1..(n - m + 1) : SubSeq(s, i, i + m - 1) = t}
<1>1. MatchSubstr(s, t) = IF at = {} THEN 0 ELSE Min(at) + m - 1
  BY DEF MatchSubstr
<1>2. CASE at = {}
  BY <1>1, <1>2 DEF Finds
<1>3. CASE at # {}
  <2>1. at \in SUBSET Nat
    OBVIOUS
  <2>2. PICK p \in at : \A x \in at : p <= x
    <3> HIDE DEF at
    <3> QED BY <1>3, <2>1, LeastNatural
  <2>3. Min(at) = p
    <3> HIDE DEF at
    <3>1. at \in SUBSET Int
      BY <2>1
    <3> QED BY <2>2, <3>1, MinIs
  <2>4. p \in Nat /\ p >= 1 /\ p + m - 1 <= n /\ SubSeq(s, p, p + m - 1) = t
    OBVIOUS
  <2>5. MatchSubstr(s, t) = p + m - 1
    <3> HIDE DEF at
    <3> QED BY <1>1, <1>3, <2>3
  <2> HIDE DEF at
  <2>6. p + m - 1 \in Int /\ p + m - 1 >= m /\ p + m - 1 <= n
    BY <2>4
  <2>7. PICK q \in Int : q = p + m - 1
    BY <2>6
  <2>8. ASSUME NEW j \in 1..m PROVE s[q - m + j] = t[j]
    <3>1. p \in Nat /\ p <= q + 1 /\ q - p + 1 = m /\ q <= n
      BY <2>4, <2>7
    <3>2. SubSeq(s, p, q)[j] = s[p + j - 1]
      BY <2>4, <3>1, Part
    <3>3. q - m + j = p + j - 1
      BY <2>4, <2>7
    <3> QED BY <2>4, <2>7, <3>2, <3>3
  <2>9. q \in m..n
    BY <2>6, <2>7
  <2>10. Finds(q, s, t)
    BY <2>8, <2>9 DEF Finds
  <2> QED BY <2>5, <2>7, <2>10
<1> QED BY <1>2, <1>3

\* A single token.
LEMMA MatchOne ==
  ASSUME NEW s \in Seq(Nat), NEW x \in Nat, MatchSubstr(s, <<x>>) > 0
  PROVE  MatchSubstr(s, <<x>>) \in 1..Len(s) /\ s[MatchSubstr(s, <<x>>)] = x
<1> DEFINE t == <<x>>
           i == MatchSubstr(s, t)
<1>1. t \in Seq(Nat) /\ Len(t) = 1 /\ t[1] = x
  OBVIOUS
<1> HIDE DEF t
<1>2. Finds(i, s, t) /\ i > 0
  BY <1>1, MatchIs DEF t
<1> HIDE DEF i
<1>3. i \in 1..Len(s) /\ \A j \in 1..1 : s[i - 1 + j] = t[j]
  BY <1>1, <1>2 DEF Finds
<1>4. i - 1 + 1 = i /\ s[i - 1 + 1] = t[1]
  BY <1>3
<1> QED BY <1>1, <1>3, <1>4 DEF i, t

\* The digits of s from i on go up to e.
IsRun(s, i, e) ==
    /\ i \in Nat /\ i >= 1 /\ e \in Nat /\ i <= e /\ e <= Len(s) + 1
    /\ \A j \in i..(e - 1) : s[j] < Base
    /\ e <= Len(s) => s[e] >= Base

\* Reading digits ends where there are no more, or no more tokens.
LEMMA DigitsRun ==
  ASSUME NEW s \in Seq(Nat), NEW i, NEW e, IsRun(s, i, e)
  PROVE  /\ DigitsAt(s, i) \in Seq(Nat) /\ Len(DigitsAt(s, i)) = e - i
         /\ \A k \in 1..(e - i) : DigitsAt(s, i)[k] = s[i + k - 1]
<1> PICK n \in Nat : n = Len(s)
  BY LenProperties
<1>0. /\ i \in Nat /\ i >= 1 /\ e \in Nat /\ i <= e /\ e <= n + 1
      /\ \A j \in i..(e - 1) : s[j] < Base
      /\ e <= n => s[e] >= Base
  BY DEF IsRun
<1> DEFINE T == {j \in i..n : s[j] >= Base} \cup {n + 1}
<1>1. T \in SUBSET Int /\ e \in T
  BY <1>0
<1>2. ASSUME NEW x \in T PROVE e <= x
  <2>1. CASE x = n + 1
    BY <1>0, <2>1
  <2>2. CASE x \in i..n /\ s[x] >= Base
    <3> SUFFICES ASSUME x < e PROVE FALSE
      BY <1>0, <2>2
    <3>1. x \in i..(e - 1)
      BY <1>0, <2>2
    <3>2. s[x] < Base
      BY <1>0, <3>1
    <3>3. s[x] \in Nat
      <4>1. x \in 1..n
        BY <1>0, <2>2
      <4> QED BY <4>1, ElementOfSeq
    <3> QED BY <2>2, <3>2, <3>3, BaseIs
  <2> QED BY <2>1, <2>2
<1>3. Min(T) = e
  <2> HIDE DEF T
  <2> QED BY <1>1, <1>2, MinIs
<1>4. DigitsAt(s, i) = SubSeq(s, i, Min(T) - 1)
  BY DEF DigitsAt
<1> HIDE DEF T
<1>5. e - 1 \in Int /\ i <= (e - 1) + 1 /\ e - 1 <= n /\ (e - 1) - i + 1 = e - i
  BY <1>0
<1>6. /\ SubSeq(s, i, e - 1) \in Seq(Nat) /\ Len(SubSeq(s, i, e - 1)) = (e - 1) - i + 1
      /\ \A k \in 1..((e - 1) - i + 1) : SubSeq(s, i, e - 1)[k] = s[i + k - 1]
  BY <1>0, <1>5, Part
<1> QED BY <1>3, <1>4, <1>5, <1>6

\* Behind the end there are none.
LEMMA DigitsBehind ==
  ASSUME NEW s \in Seq(Nat), NEW i \in Nat, i > Len(s)
  PROVE  DigitsAt(s, i) = <<>> /\ Len(DigitsAt(s, i)) = 0
<1>1. PICK n \in Nat : n = Len(s)
  BY LenProperties
<1> DEFINE T == {j \in i..n : s[j] >= Base} \cup {n + 1}
<1>2. T = {n + 1}
  BY <1>1
<1>3. Min(T) = n + 1
  <2>1. T \in SUBSET Int /\ n + 1 \in T /\ \A x \in T : n + 1 <= x
    BY <1>2
  <2> HIDE DEF T
  <2> QED BY <2>1, MinIs
<1>4. DigitsAt(s, i) = SubSeq(s, i, Min(T) - 1)
  BY <1>1 DEF DigitsAt
<1> HIDE DEF T
<1>5. DigitsAt(s, i) = <<>>
  <2>1. i \in Int /\ n \in Int /\ n < i /\ Min(T) - 1 = n
    BY <1>1, <1>3
  <2> QED BY <1>4, <2>1, SubSeqEmpty
<1> QED BY <1>5

\* The string in an array of tokens is the array up to the first NUL.
LEMMA StringIs ==
  ASSUME NEW n \in Nat, NEW a \in [1..n -> Nat \cup {NUL}]
  PROVE  /\ String(a) \in Seq(Nat) /\ Len(String(a)) \in Nat /\ Len(String(a)) <= n
         /\ \A i \in 1..Len(String(a)) : String(a)[i] = a[i] /\ a[i] # NUL
<1> DEFINE ends == {i \in 1..n : a[i] = NUL}
<1>1. DOMAIN a = 1..n
  OBVIOUS
<1>2. CASE ends = {}
  <2>1. String(a) = a
    BY <1>1, <1>2 DEF String
  <2>2. \A i \in 1..n : a[i] # NUL /\ a[i] \in Nat
    BY <1>2
  <2>3. a \in [1..n -> Nat]
    BY <2>2
  <2>4. a \in Seq(Nat)
    BY <2>3, SeqDef
  <2>5. Len(a) = n
    <3>1. Len(a) \in Nat /\ 1..Len(a) = 1..n
      BY <1>1, <2>4, LenProperties
    <3> QED BY <3>1
  <2> QED BY <2>1, <2>2, <2>4, <2>5
<1>3. CASE ends # {}
  <2>1. ends \in SUBSET Nat
    OBVIOUS
  <2>2. PICK p \in ends : \A x \in ends : p <= x
    <3> HIDE DEF ends
    <3> QED BY <1>3, <2>1, LeastNatural
  <2>3. Min(ends) = p
    <3> HIDE DEF ends
    <3>1. ends \in SUBSET Int
      BY <2>1
    <3> QED BY <2>2, <3>1, MinIs
  <2>4. String(a) = SubSeq(a, 1, p - 1)
    BY <1>1, <1>3, <2>3 DEF String
  <2>5. ASSUME NEW i \in 1..(p - 1) PROVE a[i] # NUL /\ a[i] \in Nat
    <3>1. i \in 1..n /\ i < p /\ p \in 1..n
      BY <2>5
    <3>2. i \notin ends
      <4> HIDE DEF ends
      <4> QED BY <2>1, <2>2, <3>1
    <3> QED BY <3>1, <3>2
  <2>6. p \in 1..n
    OBVIOUS
  <2>7. 1 \in Int /\ p - 1 \in Int
    BY <2>6
  <2>8. /\ SubSeq(a, 1, p - 1) \in Seq(Nat)
        /\ Len(SubSeq(a, 1, p - 1)) = IF 1 <= p - 1 THEN (p - 1) - 1 + 1 ELSE 0
        /\ \A i \in 1..((p - 1) - 1 + 1) : SubSeq(a, 1, p - 1)[i] = a[1 + i - 1]
    <3> HIDE DEF ends
    <3>1. \A i \in 1..(p - 1) : a[i] \in Nat
      BY <2>5
    <3> QED BY <2>7, <3>1, SubSeqProperties
  <2>9. Len(SubSeq(a, 1, p - 1)) = p - 1 /\ (p - 1) - 1 + 1 = p - 1
    BY <2>6, <2>8
  <2>10. ASSUME NEW i \in 1..(p - 1) PROVE SubSeq(a, 1, p - 1)[i] = a[i]
    <3>1. 1 + i - 1 = i
      BY <2>6
    <3> QED BY <2>8, <2>9, <3>1
  <2> HIDE DEF ends
  <2> QED BY <2>4, <2>5, <2>6, <2>8, <2>9, <2>10
<1> QED BY <1>2, <1>3

-----------------------------------------------------------------------------
(* The answers *)

\* The answer with the whole page.
Page == GetResponse(PageRequest)

\* s is the beginning of t.
Starts(s, t) == Len(s) <= Len(t) /\ \A i \in 1..Len(s) : s[i] = t[i]

\* p is the answer with a file of f bytes; the numbers in it have k and x digits.
Laid(p, f, k, x) ==
    /\ p \in Seq(Nat) /\ Len(p) = 9 + k + x + f
    /\ p[1] = Status(200)[1] /\ p[2] = Status(200)[2] /\ p[3] = Status(200)[3]
    /\ p[4] = NL /\ p[5] = LEN /\ p[6 + k] = NL /\ p[7 + k] = EXP
    /\ p[8 + k + x] = NL /\ p[9 + k + x] = NL
    /\ \A i \in 1..k : p[5 + i] = Digits[f][i] /\ p[5 + i] < Base
    /\ \A i \in 1..x : p[7 + k + i] = Digits[EXPIRE][i] /\ p[7 + k + i] < Base
    /\ \A i \in 1..f : p[9 + k + x + i] = Byte(i)

\* The bytes of a file.
LEMMA FileBytes ==
  ASSUME NEW f \in Nat
  PROVE  Bytes(1, f) \in Seq(Nat) /\ Len(Bytes(1, f)) = f /\ \A i \in 1..f : Bytes(1, f)[i] = Byte(i)
<1>0. 1 \in Nat /\ f \in Int /\ f >= 1 - 1
  OBVIOUS
<1>1. /\ Bytes(1, f) \in Seq(Nat) /\ Len(Bytes(1, f)) = f - 1 + 1
      /\ \A i \in 1..(f - 1 + 1) : Bytes(1, f)[i] = Byte(1 + i - 1)
  BY <1>0, BytesAre
<1>2. f - 1 + 1 = f /\ \A i \in 1..f : 1 + i - 1 = i
  OBVIOUS
<1> QED BY <1>1, <1>2

\* One part after the other.
LEMMA PageLaid ==
  ASSUME file \in Nat
  PROVE  /\ Len(Digits[file]) \in Nat /\ Len(Digits[file]) >= 1
         /\ Len(Digits[EXPIRE]) \in Nat /\ Len(Digits[EXPIRE]) >= 1
         /\ Laid(Page, file, Len(Digits[file]), Len(Digits[EXPIRE]))
<1> PICK f \in Nat : f = file
  OBVIOUS
<1> DEFINE d == Digits[f]
           e == Digits[EXPIRE]
           bytes == Bytes(1, f)
           s == Status(200)
           line == <<NL>>
           len == <<LEN>>
           exp == <<NL, EXP>>
           blank == <<NL, NL>>
<1>1. /\ Page = s \o line \o (len \o d) \o exp \o e \o blank \o bytes
  <2>1. PageRequest.first = None /\ PageRequest.last = None
    BY DEF PageRequest
  <2>2. Page = AppendBytes(Header(200, <<LEN>> \o Digits[file]), 1, file)
    BY <2>1 DEF Page, GetResponse
  <2> QED BY <2>2 DEF AppendBytes, Header
<1>2. /\ d \in Seq(Nat) /\ Len(d) \in Nat /\ Len(d) >= 1
      /\ e \in Seq(Nat) /\ Len(e) \in Nat /\ Len(e) >= 1
  BY NumberHasNoLine, BaseIs
<1>20. (\A i \in 1..Len(d) : d[i] < Base) /\ \A i \in 1..Len(e) : e[i] < Base
  <2>1. \A n \in Nat : \A i \in 1..Len(Digits[n]) : Digits[n][i] \in 0..(Base - 1)
    BY DigitsTypes, ElementOfSeq
  <2>2. EXPIRE \in Nat /\ Base \in Nat
    BY BaseIs
  <2> QED BY <2>1, <2>2
<1>3. /\ bytes \in Seq(Nat) /\ Len(bytes) = f
      /\ \A i \in 1..f : bytes[i] = Byte(i)
  BY FileBytes
<1>4. s \in Seq(Nat) /\ Len(s) = 3
  <2>1. 200 \in Codes
    BY DEF Codes
  <2>2. PICK x \in Nat, y \in Nat, z \in Nat : s = <<x, y, z>>
    BY <2>1, StatusIs
  <2> HIDE DEF s
  <2> QED BY <2>2
<1>5. /\ line \in Seq(Nat) /\ Len(line) = 1 /\ line[1] = NL
      /\ len \in Seq(Nat) /\ Len(len) = 1 /\ len[1] = LEN
      /\ exp \in Seq(Nat) /\ Len(exp) = 2 /\ exp[1] = NL /\ exp[2] = EXP
      /\ blank \in Seq(Nat) /\ Len(blank) = 2 /\ blank[1] = NL /\ blank[2] = NL
  BY Tokens
<1> HIDE DEF d, e, bytes, s, line, len, exp, blank
<1> PICK k \in Nat, x \in Nat : k = Len(d) /\ x = Len(e)
  BY <1>2
<1> DEFINE p1 == s \o line
           p2 == len \o d
           p3 == p1 \o p2
           p4 == p3 \o exp
           p5 == p4 \o e
           p6 == p5 \o blank
           p7 == p6 \o bytes
<1>6. Page = p7
  BY <1>1
<1>7. p1 \in Seq(Nat) /\ Len(p1) = 4 /\ (\A i \in 1..3 : p1[i] = s[i]) /\ p1[4] = NL
  <2>0. Joins(p1, s, line)
    BY <1>4, <1>5, Cat
  <2> HIDE DEF p1
  <2>1. /\ p1 \in Seq(Nat) /\ Len(p1) = 3 + 1
        /\ \A i \in 1..3 : p1[i] = s[i]
        /\ \A i \in 1..1 : p1[3 + i] = line[i]
    BY <1>4, <1>5, <2>0 DEF Joins
  <2> QED BY <1>5, <2>1
<1>8. p2 \in Seq(Nat) /\ Len(p2) = 1 + k /\ p2[1] = LEN /\ \A i \in 1..k : p2[1 + i] = d[i]
  <2>0. Joins(p2, len, d)
    BY <1>2, <1>5, Cat
  <2> HIDE DEF p2
  <2>1. /\ p2 \in Seq(Nat) /\ Len(p2) = 1 + k
        /\ \A i \in 1..1 : p2[i] = len[i]
        /\ \A i \in 1..k : p2[1 + i] = d[i]
    BY <1>2, <1>5, <2>0 DEF Joins
  <2> QED BY <1>5, <2>1
<1> HIDE DEF p1, p2
<1>9. /\ p3 \in Seq(Nat) /\ Len(p3) = 5 + k /\ (\A i \in 1..3 : p3[i] = s[i])
      /\ p3[4] = NL /\ p3[5] = LEN /\ \A i \in 1..k : p3[5 + i] = d[i]
  <2>0. Joins(p3, p1, p2)
    BY <1>7, <1>8, Cat
  <2> HIDE DEF p3
  <2>1. /\ p3 \in Seq(Nat) /\ Len(p3) = 4 + (1 + k)
        /\ \A i \in 1..4 : p3[i] = p1[i]
        /\ \A i \in 1..(1 + k) : p3[4 + i] = p2[i]
    BY <1>7, <1>8, <2>0 DEF Joins
  <2>2. ASSUME NEW i \in 1..k PROVE p3[5 + i] = d[i]
    <3>1. 1 + i \in 1..(1 + k) /\ 5 + i = 4 + (1 + i)
      OBVIOUS
    <3> QED BY <1>8, <2>1, <3>1
  <2>3. 1 \in 1..(1 + k) /\ 4 + 1 = 5
    OBVIOUS
  <2>4. p3[5] = LEN
    BY <1>8, <2>1, <2>3
  <2>5. p3 \in Seq(Nat) /\ Len(p3) = 5 + k
    BY <2>1
  <2>6. \A i \in 1..3 : p3[i] = s[i]
    <3>1. \A i \in 1..3 : i \in 1..4
      OBVIOUS
    <3>2. \A i \in 1..3 : p3[i] = p1[i]
      BY <2>1, <3>1
    <3> QED BY <1>7, <3>2
  <2>7. p3[4] = NL
    BY <1>7, <2>1
  <2> QED BY <2>2, <2>4, <2>5, <2>6, <2>7
<1> HIDE DEF p3
<1>10. /\ p4 \in Seq(Nat) /\ Len(p4) = 7 + k /\ (\A i \in 1..(5 + k) : p4[i] = p3[i])
       /\ p4[6 + k] = NL /\ p4[7 + k] = EXP
  <2>0. Joins(p4, p3, exp)
    BY <1>5, <1>9, Cat
  <2> HIDE DEF p4
  <2>1. /\ p4 \in Seq(Nat) /\ Len(p4) = (5 + k) + 2
        /\ \A i \in 1..(5 + k) : p4[i] = p3[i]
        /\ \A i \in 1..2 : p4[(5 + k) + i] = exp[i]
    BY <1>5, <1>9, <2>0 DEF Joins
  <2>2. (5 + k) + 2 = 7 + k /\ (5 + k) + 1 = 6 + k
    OBVIOUS
  <2> QED BY <1>5, <2>1, <2>2
<1> HIDE DEF p4
<1>11. /\ p5 \in Seq(Nat) /\ Len(p5) = 7 + k + x /\ (\A i \in 1..(7 + k) : p5[i] = p4[i])
       /\ \A i \in 1..x : p5[7 + k + i] = e[i]
  <2>1. Joins(p5, p4, e)
    BY <1>2, <1>10, Cat
  <2> HIDE DEF p5
  <2> QED BY <1>2, <1>10, <2>1 DEF Joins
<1> HIDE DEF p5
<1>12. /\ p6 \in Seq(Nat) /\ Len(p6) = 9 + k + x /\ (\A i \in 1..(7 + k + x) : p6[i] = p5[i])
       /\ p6[8 + k + x] = NL /\ p6[9 + k + x] = NL
  <2>0. Joins(p6, p5, blank)
    BY <1>5, <1>11, Cat
  <2> HIDE DEF p6
  <2>1. /\ p6 \in Seq(Nat) /\ Len(p6) = (7 + k + x) + 2
        /\ \A i \in 1..(7 + k + x) : p6[i] = p5[i]
        /\ \A i \in 1..2 : p6[(7 + k + x) + i] = blank[i]
    BY <1>5, <1>11, <2>0 DEF Joins
  <2>2. (7 + k + x) + 2 = 9 + k + x /\ (7 + k + x) + 1 = 8 + k + x
    OBVIOUS
  <2> QED BY <1>5, <2>1, <2>2
<1> HIDE DEF p6
<1>13. /\ p7 \in Seq(Nat) /\ Len(p7) = 9 + k + x + f /\ (\A i \in 1..(9 + k + x) : p7[i] = p6[i])
       /\ \A i \in 1..f : p7[9 + k + x + i] = Byte(i)
  <2>0. Joins(p7, p6, bytes)
    BY <1>3, <1>12, Cat
  <2> HIDE DEF p7
  <2>1. /\ p7 \in Seq(Nat) /\ Len(p7) = (9 + k + x) + f
        /\ \A i \in 1..(9 + k + x) : p7[i] = p6[i]
        /\ \A i \in 1..f : p7[(9 + k + x) + i] = bytes[i]
    BY <1>3, <1>12, <2>0 DEF Joins
  <2> QED BY <1>3, <2>1
<1> HIDE DEF p7
<1>14. /\ \A i \in 1..(7 + k + x) : p7[i] = p5[i]
       /\ \A i \in 1..(7 + k) : p7[i] = p4[i]
       /\ \A i \in 1..(5 + k) : p7[i] = p3[i]
  <2>1. ASSUME NEW i \in 1..(7 + k + x) PROVE p7[i] = p5[i]
    <3>1. i \in 1..(9 + k + x)
      OBVIOUS
    <3> QED BY <1>12, <1>13, <3>1
  <2>2. ASSUME NEW i \in 1..(7 + k) PROVE p7[i] = p4[i]
    <3>1. i \in 1..(7 + k + x)
      OBVIOUS
    <3> QED BY <1>11, <2>1, <3>1
  <2>3. ASSUME NEW i \in 1..(5 + k) PROVE p7[i] = p3[i]
    <3>1. i \in 1..(7 + k)
      OBVIOUS
    <3> QED BY <1>10, <2>2, <3>1
  <2> QED BY <2>1, <2>2, <2>3
<1>15. p7[1] = s[1] /\ p7[2] = s[2] /\ p7[3] = s[3] /\ p7[4] = NL /\ p7[5] = LEN
  <2>1. \A i \in 1..5 : i \in 1..(5 + k)
    OBVIOUS
  <2>2. \A i \in 1..5 : p7[i] = p3[i]
    BY <1>14, <2>1
  <2> QED BY <1>9, <2>2
<1>16. p7[6 + k] = NL /\ p7[7 + k] = EXP /\ p7[8 + k + x] = NL /\ p7[9 + k + x] = NL
  <2>1. /\ 6 + k \in 1..(7 + k) /\ 7 + k \in 1..(7 + k)
        /\ 8 + k + x \in 1..(9 + k + x) /\ 9 + k + x \in 1..(9 + k + x)
    OBVIOUS
  <2>2. p7[6 + k] = p4[6 + k] /\ p7[7 + k] = p4[7 + k]
    BY <1>14, <2>1
  <2>3. p7[8 + k + x] = p6[8 + k + x] /\ p7[9 + k + x] = p6[9 + k + x]
    BY <1>13, <2>1
  <2> QED BY <1>10, <1>12, <2>2, <2>3
<1>17. ASSUME NEW i \in 1..k PROVE p7[5 + i] = d[i] /\ p7[5 + i] < Base
  <2>1. 5 + i \in 1..(5 + k)
    OBVIOUS
  <2>2. p7[5 + i] = p3[5 + i]
    BY <1>14, <2>1
  <2>3. p3[5 + i] = d[i] /\ d[i] < Base
    BY <1>9, <1>20
  <2> QED BY <2>2, <2>3
<1>18. ASSUME NEW i \in 1..x PROVE p7[7 + k + i] = e[i] /\ p7[7 + k + i] < Base
  <2>1. 7 + k + i \in 1..(7 + k + x)
    OBVIOUS
  <2>2. p7[7 + k + i] = p5[7 + k + i]
    BY <1>14, <2>1
  <2>3. p5[7 + k + i] = e[i] /\ e[i] < Base
    BY <1>11, <1>20
  <2> QED BY <2>2, <2>3
<1>19. Laid(p7, f, k, x)
  BY <1>13, <1>15, <1>16, <1>17, <1>18 DEF Laid, d, e, s
<1> QED BY <1>2, <1>6, <1>19 DEF d, e

\* Where the keywords and the newlines of a page are, and no others.
LEMMA PageTokens ==
  ASSUME NEW p, NEW f \in Nat, NEW k \in Nat, NEW x \in Nat, Laid(p, f, k, x)
  PROVE  \A i \in 1..(9 + k + x + f) :
           /\ p[i] = LEN => i = 5
           /\ p[i] = EXP => i = 7 + k
           /\ p[i] = NL => i \in {4, 6 + k, 8 + k + x, 9 + k + x}
           /\ i \in 6..(5 + k) \/ i \in (8 + k)..(7 + k + x) => p[i] < Base
<1>1. Base \in Nat /\ LEN = Base + 1 /\ EXP = Base + 3 /\ NL = Base
  BY BaseIs DEF LEN, EXP, NL
<1>3. \A i \in 1..3 : Status(200)[i] \in Nat /\ Status(200)[i] >= Base + 10
  <2>1. /\ Status(200)[1] = Base + 10 + 200 \div 100
        /\ Status(200)[2] = Base + 20 + ((200 \div 10) % 10)
        /\ Status(200)[3] = Base + 30 + (200 % 10)
    BY DEF Status
  <2> QED BY <1>1, <2>1
<1>4. \A i \in Nat : Byte(i) \in Nat /\ Byte(i) >= Base + 100
  BY <1>1 DEF Byte
<1>5. /\ Len(p) = 9 + k + x + f
      /\ p[1] = Status(200)[1] /\ p[2] = Status(200)[2] /\ p[3] = Status(200)[3]
      /\ p[4] = NL /\ p[5] = LEN /\ p[6 + k] = NL /\ p[7 + k] = EXP
      /\ p[8 + k + x] = NL /\ p[9 + k + x] = NL
  BY DEF Laid
<1>9. \A i \in 1..(9 + k + x + f) : p[i] \in Nat
  <2>1. p \in Seq(Nat) /\ Len(p) = 9 + k + x + f
    BY DEF Laid
  <2> QED BY <2>1, ElementOfSeq
<1>6. ASSUME NEW i \in 1..(9 + k + x + f), i \in 6..(5 + k) \/ i \in (8 + k)..(7 + k + x)
      PROVE  p[i] \in Nat /\ p[i] < Base
  <2>1. CASE i \in 6..(5 + k)
    <3>1. PICK j \in 1..k : i = 5 + j
      <4>1. i - 5 \in 1..k /\ i = 5 + (i - 5)
        BY <2>1
      <4> QED BY <4>1
    <3>2. 5 + j \in 1..(9 + k + x + f)
      OBVIOUS
    <3> QED BY <1>9, <3>1, <3>2 DEF Laid
  <2>2. CASE i \in (8 + k)..(7 + k + x)
    <3>1. PICK j \in 1..x : i = 7 + k + j
      <4>1. i - (7 + k) \in 1..x /\ i = 7 + k + (i - (7 + k))
        BY <2>2
      <4> QED BY <4>1
    <3>2. 7 + k + j \in 1..(9 + k + x + f)
      OBVIOUS
    <3> QED BY <1>9, <3>1, <3>2 DEF Laid
  <2> QED BY <1>6, <2>1, <2>2
<1>7. ASSUME NEW i \in 1..(9 + k + x + f), i > 9 + k + x PROVE p[i] \in Nat /\ p[i] >= Base + 100
  <2>1. PICK j \in 1..f : i = 9 + k + x + j
    <3>1. i - (9 + k + x) \in 1..f /\ i = 9 + k + x + (i - (9 + k + x))
      BY <1>7
    <3> QED BY <3>1
  <2>2. p[i] = Byte(j)
    BY <2>1 DEF Laid
  <2> QED BY <1>4, <2>2
<1>8. ASSUME NEW i \in 1..(9 + k + x + f)
      PROVE  /\ p[i] = LEN => i = 5
             /\ p[i] = EXP => i = 7 + k
             /\ p[i] = NL => i \in {4, 6 + k, 8 + k + x, 9 + k + x}
  <2>1. \/ i \in 1..3
        \/ i = 4 \/ i = 5 \/ i = 6 + k \/ i = 7 + k \/ i = 8 + k + x \/ i = 9 + k + x
        \/ i \in 6..(5 + k) \/ i \in (8 + k)..(7 + k + x)
        \/ i > 9 + k + x
    OBVIOUS
  <2>2. CASE i \in 1..3
    <3>1. i = 1 \/ i = 2 \/ i = 3
      BY <2>2
    <3>2. p[i] = Status(200)[i]
      BY <1>5, <3>1
    <3>3. p[i] \in Nat /\ p[i] >= Base + 10
      BY <1>3, <2>2, <3>2
    <3> QED BY <1>1, <3>3
  <2>3. CASE i = 4 \/ i = 5 \/ i = 6 + k \/ i = 7 + k \/ i = 8 + k + x \/ i = 9 + k + x
    <3>1. \/ p[i] = NL /\ i \in {4, 6 + k, 8 + k + x, 9 + k + x}
          \/ p[i] = LEN /\ i = 5
          \/ p[i] = EXP /\ i = 7 + k
      BY <1>5, <2>3
    <3> QED BY <1>1, <3>1
  <2>4. CASE i \in 6..(5 + k) \/ i \in (8 + k)..(7 + k + x)
    BY <1>1, <1>6, <2>4
  <2>5. CASE i > 9 + k + x
    BY <1>1, <1>7, <2>5
  <2> QED BY <2>1, <2>2, <2>3, <2>4, <2>5
<1> QED BY <1>6, <1>8

Errors == {Error(403), Error(404)}

\* An error has five tokens, and no keyword among them.
LEMMA ErrorTokens ==
  ASSUME NEW e \in Errors
  PROVE  /\ e \in Seq(Nat) /\ Len(e) = 5 /\ e[4] = NL
         /\ \A i \in 1..5 : e[i] # LEN
<1> PICK code \in {403, 404} : e = Error(code)
  BY DEF Errors
<1> DEFINE s == Status(code)
           blank == <<NL, NL>>
<1>1. /\ s \in Seq(Nat) /\ Len(s) = 3
      /\ \A i \in 1..3 : s[i] # LEN
  <2>1. code \in Codes
    BY DEF Codes
  <2>2. /\ s[1] = Base + 10 + code \div 100
        /\ s[2] = Base + 20 + ((code \div 10) % 10)
        /\ s[3] = Base + 30 + (code % 10)
    BY DEF Status
  <2>3. s[1] # LEN /\ s[2] # LEN /\ s[3] # LEN
    BY <2>2, BaseIs DEF LEN
  <2>4. PICK x \in Nat, y \in Nat, z \in Nat : s = <<x, y, z>>
    BY <2>1, StatusIs
  <2> HIDE DEF s
  <2> QED BY <2>3, <2>4
<1>2. blank \in Seq(Nat) /\ Len(blank) = 2 /\ blank[1] = NL /\ blank[2] = NL
  BY NewLine
<1>3. e = s \o blank
  BY DEF Error
<1> HIDE DEF s, blank
<1>4. /\ e \in Seq(Nat) /\ Len(e) = 3 + 2
      /\ \A i \in 1..3 : e[i] = s[i]
      /\ \A i \in 1..2 : e[3 + i] = blank[i]
  <2>1. Joins(e, s, blank)
    BY <1>1, <1>2, <1>3, Cat
  <2> QED BY <1>1, <1>2, <2>1 DEF Joins
<1>5. e[4] = NL /\ e[5] = NL
  <2>1. 3 + 1 = 4 /\ 3 + 2 = 5
    OBVIOUS
  <2> QED BY <1>2, <1>4, <2>1
<1>6. ASSUME NEW i \in 1..5 PROVE e[i] # LEN
  <2>1. CASE i \in 1..3
    BY <1>1, <1>4, <2>1
  <2>2. CASE i \notin 1..3
    <3>1. i = 4 \/ i = 5
      BY <2>2
    <3> QED BY <1>5, <3>1, Tokens
  <2> QED BY <2>1, <2>2
<1> QED BY <1>4, <1>5, <1>6

-----------------------------------------------------------------------------
(* What the dispatcher reads *)

\* What an attempt can be answered.
Answers == Errors \cup (IF file = Missing THEN {} ELSE {Page})

\* x can be left in the cell i by one of the attempts.
FromAnswer(i, x) == x = NUL \/ \E a \in Answers : i <= Len(a) /\ x = a[i]

(* The heart of the matter: a buffer that begins like a page and has its      *)
(* length came from pages alone, however many other answers, or beginnings of *)
(* them, were read into it before and after.                                  *)
LEMMA BufferIsPage ==
  ASSUME file \in Missing..MaxFile, buf \in [1..BufSize -> Int],
         \A i \in 1..BufSize : FromAnswer(i, buf[i]),
         IsPrefix(Status(200), String(buf)), Field(String(buf), LEN)
  PROVE  file # Missing /\ String(buf) \in Seq(Nat) /\ Starts(String(buf), Page)
<1> DEFINE s == String(buf)
<1>1. BufSize \in Nat
  BY ExchangeAssumption
<1>2. file # Missing => file \in Nat
  BY BaseIs DEF Missing
<1>3. \A a \in Answers : a \in Seq(Nat)
  <2>1. file # Missing => Page \in Seq(Nat)
    BY <1>2, PageLaid DEF Laid
  <2>2. \A a \in Errors : a \in Seq(Nat)
    BY ErrorTokens
  <2> QED BY <2>1, <2>2 DEF Answers
<1>4. buf \in [1..BufSize -> Nat \cup {NUL}]
  <2>1. ASSUME NEW i \in 1..BufSize PROVE buf[i] \in Nat \cup {NUL}
    <3>1. CASE buf[i] = NUL
      BY <3>1
    <3>2. CASE \E a \in Answers : i <= Len(a) /\ buf[i] = a[i]
      <4>1. PICK a \in Answers : i <= Len(a) /\ buf[i] = a[i]
        BY <3>2
      <4>2. a \in Seq(Nat) /\ i \in 1..Len(a)
        <5>1. i \in Nat /\ i >= 1
          BY <1>1
        <5>2. a \in Seq(Nat) /\ Len(a) \in Nat
          BY <1>3, LenProperties
        <5> QED BY <4>1, <5>1, <5>2
      <4> QED BY <4>1, <4>2, ElementOfSeq
    <3> QED BY <2>1, <3>1, <3>2 DEF FromAnswer
  <2> QED BY <2>1
<1>5. /\ s \in Seq(Nat) /\ Len(s) \in Nat /\ Len(s) <= BufSize
      /\ \A i \in 1..Len(s) : s[i] = buf[i] /\ buf[i] # NUL
  BY <1>1, <1>4, StringIs
<1>6. IsPrefix(Status(200), s) /\ Field(s, LEN)
  OBVIOUS
<1> HIDE DEF s
<1> PICK n \in Nat : n = Len(s)
  BY <1>5
<1>7. ASSUME NEW i \in 1..n PROVE \E a \in Answers : i <= Len(a) /\ s[i] = a[i]
  <2>1. i \in 1..BufSize /\ s[i] = buf[i] /\ buf[i] # NUL
    BY <1>1, <1>5
  <2>2. FromAnswer(i, buf[i])
    BY <2>1
  <2> QED BY <2>1, <2>2 DEF FromAnswer
<1>8. \E i \in 1..n : s[i] = LEN
  <2>1. MatchSubstr(s, <<LEN>>) > 0 /\ LEN \in Nat
    BY <1>6, Tokens DEF Field
  <2> QED BY <1>5, <2>1, MatchOne
<1>9. file # Missing /\ n >= 5 /\ s[5] = LEN
  <2>1. PICK i \in 1..n : s[i] = LEN
    BY <1>8
  <2>2. PICK a \in Answers : i <= Len(a) /\ s[i] = a[i]
    BY <1>7
  <2>3. a # Error(403) /\ a # Error(404)
    <3>1. ASSUME a \in Errors PROVE FALSE
      <4>1. Len(a) = 5 /\ \A j \in 1..5 : a[j] # LEN
        BY <3>1, ErrorTokens
      <4>2. i \in 1..5
        BY <2>2, <4>1
      <4> QED BY <2>1, <2>2, <4>1, <4>2
    <3> QED BY <3>1 DEF Errors
  <2>4. file # Missing /\ a = Page
    BY <2>2, <2>3 DEF Answers, Errors
  <2>5. PICK k \in Nat, x \in Nat, f \in Nat : f = file /\ Laid(Page, f, k, x)
    BY <1>2, <2>4, PageLaid
  <2>6. i \in 1..(9 + k + x + f)
    BY <2>2, <2>4, <2>5 DEF Laid
  <2>7. i = 5
    BY <2>1, <2>2, <2>4, <2>5, <2>6, PageTokens
  <2> QED BY <2>1, <2>4, <2>7
<1>10. PICK k \in Nat, x \in Nat, f \in Nat : f = file /\ Laid(Page, f, k, x)
  BY <1>2, <1>9, PageLaid
<1>11. s[1] = Status(200)[1] /\ s[2] = Status(200)[2] /\ s[3] = Status(200)[3]
  <2>1. 200 \in Codes
    BY DEF Codes
  <2>2. s \in Seq(Nat) /\ Len(s) >= 3
    BY <1>5, <1>9
  <2> QED BY <1>6, <2>1, <2>2, PrefixIs
<1>12. ASSUME NEW i \in 1..n PROVE i <= Len(Page) /\ s[i] = Page[i]
  <2>1. PICK a \in Answers : i <= Len(a) /\ s[i] = a[i]
    BY <1>7
  <2>2. CASE a = Page
    BY <2>1, <2>2
  <2>3. CASE a # Page
    <3>1. a \in Errors
      BY <2>3 DEF Answers
    <3>2. Len(a) = 5 /\ a[4] = NL
      BY <3>1, ErrorTokens
    <3>4. Len(Page) = 9 + k + x + f /\ Page[4] = NL /\ Page[5] = LEN
      BY <1>10 DEF Laid
    <3>5. Page[1] = s[1] /\ Page[2] = s[2] /\ Page[3] = s[3]
      BY <1>10, <1>11 DEF Laid
    <3>6. i = 1 \/ i = 2 \/ i = 3 \/ i = 4 \/ i = 5
      BY <2>1, <3>2
    <3>7. i <= Len(Page)
      BY <3>4, <3>6
    <3> QED BY <1>9, <2>1, <3>2, <3>4, <3>5, <3>6, <3>7
  <2> QED BY <2>2, <2>3
<1>13. n <= Len(Page)
  <2>1. n \in 1..n
    BY <1>9
  <2> QED BY <1>12, <2>1
<1>14. Starts(s, Page)
  BY <1>12, <1>13 DEF Starts
<1> QED BY <1>5, <1>9, <1>14 DEF s

-----------------------------------------------------------------------------
(* Beginnings of a page *)

\* How many of k digits from the token i on there are among the first n.
Digital(n, i, k) == IF n < i THEN 0 ELSE IF n < i + k THEN n - i + 1 ELSE k

\* In s, the beginning of a page, the numbers are where they are in the page.
HasDigits(s, f, k, x) ==
    /\ DigitsAt(s, 6) \in Seq(Nat) /\ Len(DigitsAt(s, 6)) = Digital(Len(s), 6, k)
    /\ Len(s) >= 6 + k => \A j \in 1..k : DigitsAt(s, 6)[j] = Digits[f][j]
    /\ DigitsAt(s, 8 + k) \in Seq(Nat) /\ Len(DigitsAt(s, 8 + k)) = Digital(Len(s), 8 + k, x)

\* Where its two numbers are, digits are read, as many as there are.
LEMMA PageDigits ==
  ASSUME NEW p, NEW f \in Nat, NEW k \in Nat, NEW x \in Nat, Laid(p, f, k, x),
         NEW s \in Seq(Nat), Starts(s, p)
  PROVE  HasDigits(s, f, k, x)
<1> PICK n \in Nat : n = Len(s)
  BY LenProperties
<1>1. /\ n <= 9 + k + x + f /\ \A i \in 1..n : s[i] = p[i]
      /\ p[6 + k] = NL /\ p[8 + k + x] = NL
      /\ \A j \in 1..k : p[5 + j] = Digits[f][j]
  BY DEF Starts, Laid
<1>2. \A i \in 1..n : i \in 1..(9 + k + x + f)
  BY <1>1
<1>3. \A i \in 1..n : i \in 6..(5 + k) \/ i \in (8 + k)..(7 + k + x) => s[i] < Base
  BY <1>1, <1>2, PageTokens
<1>4. Base \in Nat /\ NL = Base
  BY BaseIs DEF NL
<1>5. ASSUME NEW i \in Nat, i >= 1, NEW m \in Nat, n >= i,
             \A j \in i..(i + m - 1) : j <= n => s[j] < Base,
             n >= i + m => s[i + m] = NL
      PROVE  /\ DigitsAt(s, i) \in Seq(Nat) /\ Len(DigitsAt(s, i)) = Digital(n, i, m)
             /\ \A j \in 1..Digital(n, i, m) : DigitsAt(s, i)[j] = s[i + j - 1]
  <2> DEFINE e == i + Digital(n, i, m)
  <2>1. e \in Nat /\ i <= e /\ e <= n + 1 /\ e - i = Digital(n, i, m)
    BY <1>5 DEF Digital
  <2>2. \A j \in i..(e - 1) : s[j] < Base
    BY <1>5 DEF Digital
  <2>3. e <= n => s[e] >= Base
    BY <1>4, <1>5 DEF Digital
  <2> HIDE DEF e
  <2>5. IsRun(s, i, e)
    BY <1>5, <2>1, <2>2, <2>3 DEF IsRun
  <2>4. /\ DigitsAt(s, i) \in Seq(Nat) /\ Len(DigitsAt(s, i)) = e - i
        /\ \A j \in 1..(e - i) : DigitsAt(s, i)[j] = s[i + j - 1]
    BY <2>5, DigitsRun
  <2> QED BY <2>1, <2>4
<1>6. ASSUME NEW i \in Nat, NEW m \in Nat, n < i
      PROVE  DigitsAt(s, i) \in Seq(Nat) /\ Len(DigitsAt(s, i)) = Digital(n, i, m)
  <2>1. DigitsAt(s, i) = <<>> /\ Len(DigitsAt(s, i)) = 0
    BY <1>6, DigitsBehind
  <2>2. Digital(n, i, m) = 0
    BY <1>6 DEF Digital
  <2> QED BY <2>1, <2>2, EmptySeq
<1>7. ASSUME n >= 6
      PROVE  /\ DigitsAt(s, 6) \in Seq(Nat) /\ Len(DigitsAt(s, 6)) = Digital(n, 6, k)
             /\ \A j \in 1..Digital(n, 6, k) : DigitsAt(s, 6)[j] = s[6 + j - 1]
  <2>1. \A j \in 6..(6 + k - 1) : j <= n => s[j] < Base
    <3>1. \A j \in 6..(6 + k - 1) : j <= n => j \in 1..n /\ j \in 6..(5 + k)
      OBVIOUS
    <3> QED BY <1>3, <3>1
  <2>2. n >= 6 + k => s[6 + k] = NL
    <3>1. n >= 6 + k => 6 + k \in 1..n
      OBVIOUS
    <3> QED BY <1>1, <3>1
  <2>3. 6 \in Nat /\ 6 >= 1
    OBVIOUS
  <2> QED BY <1>5, <1>7, <2>1, <2>2, <2>3
<1>8. ASSUME n >= 8 + k
      PROVE  DigitsAt(s, 8 + k) \in Seq(Nat) /\ Len(DigitsAt(s, 8 + k)) = Digital(n, 8 + k, x)
  <2> PICK i \in Nat : i = 8 + k
    OBVIOUS
  <2>1. \A j \in i..(i + x - 1) : j <= n => s[j] < Base
    <3>1. \A j \in i..(i + x - 1) : j <= n => j \in 1..n /\ j \in (8 + k)..(7 + k + x)
      OBVIOUS
    <3> QED BY <1>3, <3>1
  <2>2. n >= i + x => s[i + x] = NL
    <3>1. n >= i + x => 8 + k + x \in 1..n /\ i + x = 8 + k + x
      OBVIOUS
    <3> QED BY <1>1, <3>1
  <2>3. i >= 1 /\ n >= i
    BY <1>8
  <2>4. DigitsAt(s, i) \in Seq(Nat) /\ Len(DigitsAt(s, i)) = Digital(n, i, x)
    BY <1>5, <2>1, <2>2, <2>3
  <2> QED BY <2>4
<1>9. DigitsAt(s, 6) \in Seq(Nat) /\ Len(DigitsAt(s, 6)) = Digital(n, 6, k)
  <2>1. 6 \in Nat /\ (n >= 6 \/ n < 6)
    OBVIOUS
  <2> QED BY <1>6, <1>7, <2>1
<1>10. DigitsAt(s, 8 + k) \in Seq(Nat) /\ Len(DigitsAt(s, 8 + k)) = Digital(n, 8 + k, x)
  <2>1. 8 + k \in Nat /\ (n >= 8 + k \/ n < 8 + k)
    OBVIOUS
  <2> QED BY <1>6, <1>8, <2>1
<1>11. ASSUME n >= 6 + k, NEW j \in 1..k PROVE DigitsAt(s, 6)[j] = Digits[f][j]
  <2>1. Digital(n, 6, k) = k /\ n >= 6
    BY <1>11 DEF Digital
  <2>2. DigitsAt(s, 6)[j] = s[6 + j - 1]
    BY <1>7, <2>1
  <2>3. 6 + j - 1 = 5 + j /\ 5 + j \in 1..n
    BY <1>11
  <2>4. s[5 + j] = p[5 + j] /\ p[5 + j] = Digits[f][j]
    BY <1>1, <2>3
  <2> QED BY <2>2, <2>3, <2>4
<1> QED BY <1>9, <1>10, <1>11 DEF HasDigits

\* The length of the file is read back when all of it has arrived.
LEMMA LengthRead ==
  ASSUME NEW p, NEW f \in Nat, NEW k \in Nat, NEW x \in Nat, Laid(p, f, k, x),
         NEW s \in Seq(Nat), Starts(s, p)
  PROVE  k = Len(Digits[f]) /\ Len(s) >= 6 + k => Value(DigitsAt(s, 6)) = f
<1>0. /\ DigitsAt(s, 6) \in Seq(Nat) /\ Len(DigitsAt(s, 6)) = Digital(Len(s), 6, k)
      /\ Len(s) >= 6 + k => \A j \in 1..k : DigitsAt(s, 6)[j] = Digits[f][j]
  <2>1. HasDigits(s, f, k, x)
    BY PageDigits
  <2> QED BY <2>1 DEF HasDigits
<1> SUFFICES ASSUME k = Len(Digits[f]), Len(s) >= 6 + k PROVE Value(DigitsAt(s, 6)) = f
  OBVIOUS
<1> DEFINE d == DigitsAt(s, 6)
           e == Digits[f]
<1>1. d \in Seq(Nat) /\ Len(d) = Digital(Len(s), 6, k) /\ \A j \in 1..k : d[j] = e[j]
  BY <1>0
<1>2. Digital(Len(s), 6, k) = k
  BY LenProperties DEF Digital
<1>3. e \in Seq(Nat)
  BY NumberHasNoLine
<1> HIDE DEF d, e
<1>4. k = Len(e)
  BY DEF e
<1>5. d = e
  BY <1>1, <1>2, <1>3, <1>4, SeqEqual
<1>6. Value(e) = f
  BY ReadBack DEF e
<1> QED BY <1>5, <1>6 DEF d

\* OkLine is how a page begins.
LEMMA OkLineIs ==
  ASSUME NEW p, NEW f \in Nat, NEW k \in Nat, NEW x \in Nat, Laid(p, f, k, x)
  PROVE  Len(OkLine) = 5 /\ \A j \in 1..5 : OkLine[j] = p[j]
<1> DEFINE s == Status(200)
           t == <<NL, LEN>>
           o == s \o t
<1>1. s \in Seq(Nat) /\ Len(s) = 3
  <2>1. 200 \in Codes
    BY DEF Codes
  <2>2. PICK u \in Nat, v \in Nat, w \in Nat : s = <<u, v, w>>
    BY <2>1, StatusIs
  <2> HIDE DEF s
  <2> QED BY <2>2
<1>2. t \in Seq(Nat) /\ Len(t) = 2 /\ t[1] = NL /\ t[2] = LEN
  BY Tokens
<1>3. p[1] = s[1] /\ p[2] = s[2] /\ p[3] = s[3] /\ p[4] = NL /\ p[5] = LEN
  BY DEF Laid
<1>4. OkLine = o
  BY DEF OkLine
<1> HIDE DEF s, t
<1>5. Joins(o, s, t)
  BY <1>1, <1>2, Cat
<1> HIDE DEF o
<1>6. Len(o) = 3 + 2 /\ (\A j \in 1..3 : o[j] = s[j]) /\ \A j \in 1..2 : o[3 + j] = t[j]
  BY <1>1, <1>2, <1>5 DEF Joins
<1>7. o[4] = NL /\ o[5] = LEN
  <2>1. 3 + 1 = 4 /\ 3 + 2 = 5
    OBVIOUS
  <2> QED BY <1>2, <1>6, <2>1
<1>8. ASSUME NEW j \in 1..5 PROVE o[j] = p[j]
  <2>1. j = 1 \/ j = 2 \/ j = 3 \/ j = 4 \/ j = 5
    OBVIOUS
  <2>2. o[1] = s[1] /\ o[2] = s[2] /\ o[3] = s[3]
    BY <1>6
  <2> QED BY <1>3, <1>7, <2>1, <2>2
<1> QED BY <1>4, <1>6, <1>8

\* What check200OK makes of the beginning s of a page of f bytes.
Reads(s, f, k, x) ==
    LET all == 9 + k + x + f
    IN  /\ ~WrongFormat(s)
        /\ Needed(s) \in Int /\ DataAt(s) \in Int
        /\ Len(s) < all => Len(s) < Needed(s)
        /\ Len(s) = all => Needed(s) = all /\ DataAt(s) = 10 + k + x

(* Client.c:440: the parts are looked for where what was received puts them,  *)
(* which is not where they are while a number is cut; then more is needed.    *)
LEMMA ClientReads ==
  ASSUME NEW p, NEW f \in Nat, NEW k \in Nat, NEW x \in Nat, Laid(p, f, k, x),
         k >= 1, x >= 1, Len(Digits[f]) = k,
         NEW s \in Seq(Nat), Starts(s, p)
  PROVE  Reads(s, f, k, x)
<1>1. PICK n \in Nat : n = Len(s)
  BY LenProperties
<1> DEFINE d == LenDigits(s)
           e == ExpireDigits(s)
           at == ExpireAt(s)
           dat == DataAt(s)
           a == Digital(n, 6, k)
           b == IF n < 6 + k THEN 0 ELSE Digital(n, 8 + k, x)
<1>2. /\ n <= 9 + k + x + f /\ \A i \in 1..n : s[i] = p[i]
      /\ p[6 + k] = NL /\ p[7 + k] = EXP /\ p[8 + k + x] = NL /\ p[9 + k + x] = NL
  BY <1>1 DEF Starts, Laid
<1>3. Len(OkLine) = 5 /\ \A j \in 1..5 : OkLine[j] = p[j]
  BY OkLineIs
<1>4. HasDigits(s, f, k, x)
  BY PageDigits
<1>5. k = Len(Digits[f]) /\ Len(s) >= 6 + k => Value(DigitsAt(s, 6)) = f
  BY LengthRead
<1>6. d = DigitsAt(s, 6) /\ d \in Seq(Nat) /\ Len(d) = a
  <2>1. d = DigitsAt(s, 5 + 1) /\ 5 + 1 = 6
    BY <1>3 DEF LenDigits
  <2> QED BY <1>1, <1>4, <2>1 DEF HasDigits
<1>7. Value(d) \in Nat /\ (n >= 6 + k => Value(d) = f)
  <2>1. Value(d) \in Nat
    <3> HIDE DEF d
    <3> QED BY <1>6, EmptySeq, ValueGrows
  <2> QED BY <1>1, <1>5, <1>6, <2>1
<1>8. at = 6 + a
  <2>1. at = 5 + Len(d) + 1
    BY <1>3 DEF ExpireAt
  <2>2. a \in Nat
    BY DEF Digital
  <2> HIDE DEF a, at, d
  <2> QED BY <1>6, <2>1, <2>2
<1>9. Len(e) = b
  <2>1. e = DigitsAt(s, at + 2)
    BY DEF ExpireDigits
  <2>2. CASE n >= 6 + k
    <3>1. a = k
      BY <2>2 DEF Digital
    <3>2. at + 2 = 8 + k
      <4> HIDE DEF at, a
      <4> QED BY <1>8, <3>1
    <3>3. b = Digital(n, 8 + k, x)
      BY <2>2
    <3> HIDE DEF a, b, at, e
    <3> QED BY <1>1, <1>4, <2>1, <3>2, <3>3 DEF HasDigits
  <2>3. CASE n < 6 + k
    <3>1. a \in Nat /\ 6 + a + 2 > n
      BY <2>3 DEF Digital
    <3>2. b = 0
      BY <2>3
    <3> HIDE DEF a, b, at, e
    <3>3. at + 2 \in Nat /\ at + 2 > Len(s)
      BY <1>1, <1>8, <3>1
    <3> QED BY <2>1, <3>2, <3>3, DigitsBehind
  <2> QED BY <2>2, <2>3
<1>10. a \in Nat /\ b \in Nat
  BY DEF Digital
<1>11. dat = 10 + a + b
  <2>1. dat = at + 2 + Len(e) + 2
    BY DEF DataAt
  <2> HIDE DEF a, b, at, e, dat
  <2> QED BY <1>8, <1>9, <1>10, <2>1
<1>12. ASSUME n < 6 + k PROVE a = (IF n < 6 THEN 0 ELSE n - 5) /\ b = 0
  BY <1>12 DEF Digital
<1>13. ASSUME n >= 6 + k, n < 8 + k + x
       PROVE  a = k /\ b = IF n < 8 + k THEN 0 ELSE n - k - 7
  BY <1>13 DEF Digital
<1>14. ASSUME n >= 8 + k + x PROVE a = k /\ b = x
  BY <1>14 DEF Digital
<1>15. Needed(s) = 9 + a + b + Value(d)
  <2>1. Needed(s) = dat - 1 + Value(d)
    BY DEF Needed
  <2> HIDE DEF a, b, d, dat
  <2> QED BY <1>7, <1>10, <1>11, <2>1
<1> HIDE DEF a, b, d, e, at, dat
<1>16. ~WrongFormat(s)
  <2>1. Matches(s, 1, OkLine)
    <3>1. ASSUME NEW j \in 1..5, 1 + j - 1 <= n PROVE s[1 + j - 1] = OkLine[j]
      <4>1. 1 + j - 1 = j /\ j \in 1..n
        BY <3>1
      <4> QED BY <1>2, <1>3, <4>1
    <3> QED BY <1>1, <1>3, <3>1 DEF Matches
  <2>2. n > 5 => d # <<>>
    <3>1. n > 5 => a >= 1
      BY DEF a, Digital
    <3> QED BY <1>6, <3>1, EmptySeq
  <2>3. Matches(s, at, <<NL, EXP>>)
    <3>1. at <= n => at = 6 + k
      <4>1. n < 6 + k => at > n
        BY <1>8, <1>12
      <4>2. n >= 6 + k => a = k
        BY <1>13, <1>14
      <4> QED BY <1>8, <4>1, <4>2
    <3>2. at + 1 - 1 <= n => s[at + 1 - 1] = NL
      <4>1. at + 1 - 1 = at /\ at \in Nat
        BY <1>8, <1>10
      <4>2. at <= n => at \in 1..n
        BY <1>8, <1>10
      <4> QED BY <1>2, <3>1, <4>1, <4>2
    <3>3. at + 2 - 1 <= n => s[at + 2 - 1] = EXP
      <4>1. at + 2 - 1 <= n => at + 2 - 1 = 7 + k /\ 7 + k \in 1..n
        BY <1>8, <1>10, <3>1
      <4> QED BY <1>2, <4>1
    <3>4. Len(<<NL, EXP>>) = 2 /\ <<NL, EXP>>[1] = NL /\ <<NL, EXP>>[2] = EXP
      OBVIOUS
    <3> DEFINE u == <<NL, EXP>>
    <3> HIDE DEF u
    <3>5. Len(u) = 2 /\ u[1] = NL /\ u[2] = EXP
      BY <3>4 DEF u
    <3>6. ASSUME NEW j \in 1..2, at + j - 1 <= n PROVE s[at + j - 1] = u[j]
      <4>1. j = 1 \/ j = 2
        OBVIOUS
      <4> QED BY <3>2, <3>3, <3>5, <3>6, <4>1
    <3>7. Matches(s, at, u)
      BY <1>1, <3>5, <3>6 DEF Matches
    <3> QED BY <3>7 DEF u
  <2>4. n > at + 1 => e # <<>>
    <3>1. n > at + 1 => n >= 6 + k
      BY <1>8, <1>12
    <3>2. n > at + 1 => b >= 1
      BY <1>8, <1>13, <1>14, <3>1
    <3> QED BY <1>9, <3>2, EmptySeq
  <2>5. Matches(s, dat - 2, <<NL, NL>>)
    <3>1. dat - 2 <= n => dat = 10 + k + x
      BY <1>11, <1>12, <1>13, <1>14
    <3>2. dat - 2 + 1 - 1 <= n => s[dat - 2 + 1 - 1] = NL
      <4>1. dat - 2 + 1 - 1 = dat - 2
        BY <1>10, <1>11
      <4>2. dat - 2 <= n => dat - 2 = 8 + k + x /\ 8 + k + x \in 1..n
        BY <3>1
      <4> QED BY <1>2, <4>1, <4>2
    <3>3. dat - 2 + 2 - 1 <= n => s[dat - 2 + 2 - 1] = NL
      <4>1. dat - 2 + 2 - 1 <= n => dat - 2 + 2 - 1 = 9 + k + x /\ 9 + k + x \in 1..n
        BY <1>10, <1>11, <3>1
      <4> QED BY <1>2, <4>1
    <3>4. Len(<<NL, NL>>) = 2 /\ <<NL, NL>>[1] = NL /\ <<NL, NL>>[2] = NL
      OBVIOUS
    <3> DEFINE u == <<NL, NL>>
    <3> HIDE DEF u
    <3>5. Len(u) = 2 /\ u[1] = NL /\ u[2] = NL
      BY <3>4 DEF u
    <3>6. ASSUME NEW j \in 1..2, dat - 2 + j - 1 <= n PROVE s[dat - 2 + j - 1] = u[j]
      <4>1. j = 1 \/ j = 2
        OBVIOUS
      <4> QED BY <3>2, <3>3, <3>5, <3>6, <4>1
    <3>7. Matches(s, dat - 2, u)
      BY <1>1, <3>5, <3>6 DEF Matches
    <3> QED BY <3>7 DEF u
  <2> QED BY <1>1, <1>3, <2>1, <2>2, <2>3, <2>4, <2>5 DEF WrongFormat, d, e, at, dat
<1>17. n < 9 + k + x + f => n < Needed(s)
  BY <1>7, <1>12, <1>13, <1>14, <1>15
<1>18. n = 9 + k + x + f => Needed(s) = 9 + k + x + f /\ dat = 10 + k + x
  BY <1>7, <1>11, <1>14, <1>15
<1>19. Needed(s) \in Int /\ dat \in Int
  BY <1>7, <1>10, <1>11, <1>15
<1> QED BY <1>1, <1>16, <1>17, <1>18, <1>19 DEF Reads, dat

(* Parser.c:149: what was parsed is complete only when it is the whole page:  *)
(* a length misread because len is not terminated is only ever too large.     *)
LEMMA CompleteIsWhole ==
  ASSUME NEW p, NEW f \in Nat, NEW k \in Nat, NEW x \in Nat, Laid(p, f, k, x),
         k >= 1, x >= 1, Len(Digits[f]) = k,
         NEW s \in Seq(Nat), Starts(s, p), Field(s, LEN), Field(s, EXP), DataStart(s) > 0,
         NEW len \in Lengths(s), Copied(s, len)
  PROVE  s = p
<1>1. PICK n \in Nat : n = Len(s)
  BY LenProperties
<1>2. n <= 9 + k + x + f /\ \A i \in 1..n : s[i] = p[i]
  BY <1>1 DEF Starts, Laid
<1>3. \A i \in 1..n : i \in 1..(9 + k + x + f)
  BY <1>2
<1>4. ASSUME NEW i \in 1..n
      PROVE  /\ s[i] = LEN => i = 5
             /\ s[i] = EXP => i = 7 + k
             /\ s[i] = NL => i \in {4, 6 + k, 8 + k + x, 9 + k + x}
  <2>1. i \in 1..(9 + k + x + f)
    BY <1>3
  <2>2. /\ p[i] = LEN => i = 5
        /\ p[i] = EXP => i = 7 + k
        /\ p[i] = NL => i \in {4, 6 + k, 8 + k + x, 9 + k + x}
    BY <2>1, PageTokens
  <2> QED BY <1>2, <2>2
<1>5. MatchSubstr(s, <<LEN>>) = 5 /\ n >= 6 + k
  <2> DEFINE i == MatchSubstr(s, <<LEN>>)
  <2>1. i > 0 /\ \E j \in (i + 1)..n : s[j] = NL
    BY <1>1 DEF Field
  <2>2. i \in 1..n /\ s[i] = LEN
    BY <1>1, <2>1, Tokens, MatchOne
  <2> HIDE DEF i
  <2>3. i = 5
    BY <1>4, <2>2
  <2>4. PICK j \in 6..n : s[j] = NL
    BY <2>1, <2>3
  <2>5. j \in 1..n /\ j >= 6
    OBVIOUS
  <2>6. n >= 6 + k
    BY <1>4, <2>4, <2>5
  <2> QED BY <2>3, <2>6 DEF i
<1>6. MatchSubstr(s, <<EXP>>) = 7 + k
  <2>1. MatchSubstr(s, <<EXP>>) > 0
    BY DEF Field
  <2>2. MatchSubstr(s, <<EXP>>) \in 1..n /\ s[MatchSubstr(s, <<EXP>>)] = EXP
    BY <1>1, <2>1, Tokens, MatchOne
  <2> QED BY <1>4, <2>2
<1>7. DataStart(s) = 9 + k + x
  <2> DEFINE u == <<NL, NL>>
             i == MatchSubstr(s, u)
  <2>1. u \in Seq(Nat) /\ Len(u) = 2 /\ u[1] = NL /\ u[2] = NL
    BY Tokens
  <2>2. DataStart(s) = i
    BY DEF DataStart
  <2> HIDE DEF u
  <2>3. Finds(i, s, u)
    BY <2>1, MatchIs
  <2> HIDE DEF i
  <2>4. i \in 2..n /\ s[i - 1] = NL /\ s[i] = NL
    <3>1. i \in 2..n /\ \A j \in 1..2 : s[i - 2 + j] = u[j]
      BY <1>1, <2>1, <2>2, <2>3 DEF Finds
    <3>2. i - 2 + 1 = i - 1 /\ i - 2 + 2 = i /\ s[i - 2 + 1] = u[1] /\ s[i - 2 + 2] = u[2]
      BY <3>1
    <3> QED BY <2>1, <3>1, <3>2
  <2>5. i - 1 \in 1..n /\ i \in 1..n
    BY <2>4
  <2>6. i - 1 \in {4, 6 + k, 8 + k + x, 9 + k + x} /\ i \in {4, 6 + k, 8 + k + x, 9 + k + x}
    BY <1>4, <2>4, <2>5
  <2> QED BY <2>2, <2>6
<1>8. len \in Nat /\ f <= len
  <2> DEFINE d == DigitsAt(s, 6)
             e == DigitsAt(s, 8 + k)
  <2>1. HasDigits(s, f, k, x)
    BY PageDigits
  <2>2. d \in Seq(Nat) /\ e \in Seq(Nat)
    BY <2>1 DEF HasDigits
  <2>3. k = Len(Digits[f]) /\ Len(s) >= 6 + k => Value(d) = f
    BY LengthRead
  <2>4. Value(d) = f
    BY <1>1, <1>5, <2>3
  <2>5. MatchSubstr(s, <<LEN>>) + 1 = 6 /\ MatchSubstr(s, <<EXP>>) + 1 = 8 + k
    BY <1>5, <1>6
  <2>6. len = Value(d) \/ len = Value(d \o e)
    BY <2>5 DEF Lengths
  <2> HIDE DEF d, e
  <2>7. Value(d \o e) \in Nat /\ Value(d) <= Value(d \o e)
    BY <2>2, ValueGrows
  <2> QED BY <2>4, <2>6, <2>7
<1>9. n = 9 + k + x + f
  BY <1>1, <1>2, <1>7, <1>8 DEF Copied
<1>10. p \in Seq(Nat) /\ Len(p) = 9 + k + x + f
  BY DEF Laid
<1> QED BY <1>1, <1>2, <1>9, <1>10, SeqEqual

-----------------------------------------------------------------------------
(* The invariant *)

\* The server thread of the attempt.
Serving ==
    /\ req = PageRequest /\ solorange = FALSE /\ file \in Missing..MaxFile
    /\ srv \in {"recv", "send", "frozen", "closed"} /\ got \in 0..Len(Fields(req))
    /\ \/ reply = <<>> /\ sent = 0
       \/ srv # "recv" /\ reply \in Answers /\ sent \in 0..Len(reply)

\* However many answers were read over one another, each cell is of one of them.
Reading ==
    /\ disp \in {"connect", "read", "parse", "done"}
    /\ buf \in [1..BufSize -> Int] /\ pos \in 0..sent
    /\ \A i \in 1..BufSize : FromAnswer(i, buf[i])

Parsed ==
    /\ resp.retcode \in {0, 200} \cup 402..405 /\ resp.complete \in BOOLEAN
    /\ resp.block \in Seq(Nat)
    /\ disp # "done" => resp = NoResponse /\ cli = "wait" /\ taken = 0
    /\ resp.retcode = 200 => /\ file # Missing /\ Starts(resp.block, Page)
                             /\ resp.complete => resp.block = Page

Received ==
    /\ cli \in {"wait", "bad", "error", "ok"} /\ taken \in 0..Len(resp.block)
    /\ cli # "ok" => page = <<>>
    /\ cli = "ok" /\ resp.retcode = 200 => page = Bytes(1, file)
    /\ file # Missing /\ resp.block = Page =>
         cli # "bad" /\ (cli = "wait" => taken < Len(Page))

ExchangeInv == Serving /\ Reading /\ Parsed /\ Received

\* An answer has two tokens at least, and a page is not empty.
LEMMA AnswerIs ==
  ASSUME file \in Missing..MaxFile
  PROVE  /\ \A a \in Answers : a \in Seq(Nat) /\ Len(a) \in Nat /\ Len(a) >= 5
         /\ file # Missing => Page \in Answers /\ Page # <<>>
<1>1. ASSUME NEW a \in Errors PROVE a \in Seq(Nat) /\ Len(a) \in Nat /\ Len(a) >= 5
  BY ErrorTokens
<1>2. ASSUME file # Missing PROVE Page \in Seq(Nat) /\ Len(Page) \in Nat /\ Len(Page) >= 5
  <2>1. PICK f \in Nat : f = file
    BY <1>2, BaseIs DEF Missing
  <2>2. PICK k \in Nat, x \in Nat : Laid(Page, f, k, x)
    BY <2>1, PageLaid
  <2>3. Page \in Seq(Nat) /\ Len(Page) = 9 + k + x + f
    BY <2>2 DEF Laid
  <2> QED BY <2>3
<1>3. ASSUME file # Missing PROVE Page # <<>>
  BY <1>2, <1>3, EmptySeq
<1> QED BY <1>1, <1>2, <1>3 DEF Answers

\* The answers depend on the file alone.
LEMMA SameFile ==
  ASSUME file' = file
  PROVE  /\ Page' = Page /\ Answers' = Answers
         /\ \A i, y : FromAnswer(i, y)' <=> FromAnswer(i, y)
<1>1. Page' = Page
  BY DEF Page, GetResponse
<1>2. Answers' = Answers
  BY <1>1 DEF Answers
<1> QED BY <1>1, <1>2 DEF FromAnswer

\* The invariant holds initially.
LEMMA ExchangeInvInit == ExchangeInit => ExchangeInv
<1> SUFFICES ASSUME ExchangeInit PROVE ExchangeInv
  OBVIOUS
<1>1. /\ req = PageRequest /\ solorange = FALSE /\ file \in Missing..MaxFile
      /\ srv = "recv" /\ got = 0 /\ reply = <<>> /\ sent = 0
      /\ disp = "connect" /\ buf = [i \in 1..BufSize |-> NUL] /\ pos = 0 /\ resp = NoResponse
      /\ cli = "wait" /\ taken = 0 /\ page = <<>>
  BY DEF ExchangeInit, Open
<1>2. Serving
  <2>1. Len(Fields(req)) \in Nat
    BY FieldsLength
  <2> QED BY <1>1, <2>1 DEF Serving
<1>3. Reading
  <2>1. NUL \in Int
    BY DEF NUL
  <2> QED BY <1>1, <2>1 DEF Reading, FromAnswer
<1>4. resp.retcode = 0 /\ resp.complete = FALSE /\ resp.block = <<>>
  BY <1>1 DEF NoResponse
<1>5. <<>> \in Seq(Nat) /\ Len(<<>>) = 0
  BY EmptySeq
<1>6. Parsed
  <2>1. resp.complete \in BOOLEAN
    BY <1>4
  <2>2. resp.retcode \in {0, 200} \cup 402..405 /\ resp.retcode # 200
    BY <1>4
  <2>3. resp.block \in Seq(Nat)
    BY <1>4, <1>5
  <2> QED BY <1>1, <2>1, <2>2, <2>3 DEF Parsed
<1>7. file # Missing => Page # <<>>
  BY <1>1, AnswerIs
<1>8. Received
  BY <1>1, <1>4, <1>5, <1>7 DEF Received
<1> QED BY <1>2, <1>3, <1>6, <1>8 DEF ExchangeInv

\* Steps that leave the file, the response and the client alone keep what is said of them.
LEMMA ClientFrame ==
  ASSUME ExchangeInv, file' = file, UNCHANGED <<resp, cli, taken, page>>,
         disp' # "done" => disp # "done"
  PROVE  Parsed' /\ Received'
<1>1. Page' = Page
  BY SameFile
<1>2. Parsed'
  BY <1>1 DEF ExchangeInv, Parsed, Starts
<1>3. Received'
  BY <1>1 DEF ExchangeInv, Received
<1> QED BY <1>2, <1>3

\* The server thread keeps the invariant.
LEMMA ServerKeeps ==
  ASSUME ExchangeInv, Server
  PROVE  ExchangeInv'
<1> DEFINE N == Len(Fields(req))
<1>1. /\ disp = "read" /\ UNCHANGED <<disp, buf, pos, resp, cli, taken, page>>
      /\ Receive \/ Send
  BY DEF Server
<1>2. /\ req = PageRequest /\ solorange = FALSE /\ file \in Missing..MaxFile
      /\ got \in 0..N /\ (srv = "recv" => reply = <<>> /\ sent = 0)
      /\ N \in Nat
  BY FieldsLength DEF ExchangeInv, Serving
<1>3. ASSUME UNCHANGED <<req, file, solorange>>, srv' \in {"recv", "send", "frozen", "closed"},
             got' \in 0..N, sent \in Nat => sent' \in Nat /\ sent <= sent',
             \/ reply' = <<>> /\ sent' = 0
             \/ srv' # "recv" /\ reply' \in Answers /\ sent' \in 0..Len(reply')
      PROVE  ExchangeInv'
  <2>1. Answers' = Answers /\ \A i, y : FromAnswer(i, y)' <=> FromAnswer(i, y)
    BY <1>3, SameFile
  <2>2. Fields(req)' = Fields(req)
    BY <1>3
  <2>3. Serving'
    BY <1>2, <1>3, <2>1, <2>2 DEF Serving
  <2>4. sent \in Nat
    <3>1. reply \in Answers => Len(reply) \in Nat
      BY <1>2, AnswerIs
    <3> QED BY <3>1 DEF ExchangeInv, Serving
  <2>5. pos' \in 0..sent'
    BY <1>1, <1>3, <2>4 DEF ExchangeInv, Reading
  <2>6. \A i \in 1..BufSize : FromAnswer(i, buf[i])'
    <3>1. ASSUME NEW i \in 1..BufSize PROVE FromAnswer(i, buf[i])'
      <4>1. FromAnswer(i, buf[i])
        BY DEF ExchangeInv, Reading
      <4> QED BY <1>1, <2>1, <4>1 DEF FromAnswer
    <3> QED BY <3>1
  <2>7. Reading'
    BY <1>1, <2>5, <2>6 DEF ExchangeInv, Reading
  <2>8. Parsed' /\ Received'
    BY <1>1, <1>3, ClientFrame
  <2> QED BY <2>3, <2>7, <2>8 DEF ExchangeInv
<1>4. \A a \in Answers : Len(a) \in Nat /\ Len(a) >= 5
  BY <1>2, AnswerIs
<1>5. Error(403) \in Answers /\ Responses(req) \subseteq Answers
  <2>1. PageRequest.type = "GET"
    BY DEF PageRequest
  <2>2. Responses(req) = {Error(404)} \cup IF file = Missing THEN {} ELSE {Page}
    BY <1>2, <2>1 DEF Responses, Page
  <2> QED BY <2>2 DEF Answers, Errors
<1>6. ASSUME NEW n \in 1..N, ReceivePart(n) PROVE ExchangeInv'
  <2>1. /\ UNCHANGED <<req, file, solorange>> /\ srv = "recv" /\ srv' = srv /\ got' = n
        /\ reply' = reply /\ sent' = sent
    BY <1>6 DEF ReceivePart
  <2>2. reply' = <<>> /\ sent' = 0 /\ sent = 0 /\ got' \in 0..N
    BY <1>2, <1>6, <2>1
  <2> QED BY <1>3, <2>1, <2>2
<1>7. ASSUME NEW n \in 1..N, srv = "recv", got' = n, NEW a \in Answers, Answer(a) PROVE ExchangeInv'
  <2>1. /\ UNCHANGED <<req, file, solorange>> /\ srv' = "send"
        /\ reply' = a /\ sent' = sent
    BY <1>7 DEF Answer
  <2>2. sent = 0 /\ sent' \in 0..Len(reply') /\ got' \in 0..N
    BY <1>2, <1>4, <1>7, <2>1
  <2> QED BY <1>3, <2>1, <2>2
<1>8. ASSUME NEW n \in 1..N, ReceiveRest(n) \/ Refuse(n) PROVE ExchangeInv'
  <2>1. srv = "recv" /\ got' = n /\ \E a \in Answers : Answer(a)
    BY <1>5, <1>8 DEF ReceiveRest, Refuse
  <2> QED BY <1>7, <2>1
<1>9. CASE Send
  <2>1. /\ UNCHANGED <<req, file, solorange, got, reply>> /\ srv = "send"
        /\ srv' \in {"send", "frozen", "closed"}
        /\ \/ sent' = sent
           \/ sent < Len(reply) /\ sent' = PieceEnd(Len(reply), sent)
    <3>1. CASE SendPiece
      BY <3>1 DEF SendPiece
    <3>2. CASE Close \/ Freeze
      <4>1. /\ UNCHANGED <<req, file, solorange, got, reply>> /\ srv = "send"
            /\ srv' \in {"send", "frozen", "closed"} /\ sent' = sent
        BY <3>2 DEF Close, Freeze
      <4> QED BY <4>1
    <3> QED BY <1>9, <3>1, <3>2 DEF Send
  <2>2. CASE reply = <<>>
    <3>1. sent = 0 /\ ~(sent < Len(reply))
      BY <1>4, <2>2, EmptySeq DEF ExchangeInv, Serving
    <3> QED BY <1>2, <1>3, <2>1, <2>2, <3>1
  <2>3. CASE reply # <<>>
    <3>1. reply \in Answers /\ sent \in 0..Len(reply)
      BY <2>3 DEF ExchangeInv, Serving
    <3>2. PICK n \in Nat : n = Len(reply) /\ n >= 5
      BY <1>4, <3>1
    <3>3. sent < n => PieceEnd(n, sent) \in (sent + 1)..n
      <4>1. n >= 2 /\ (sent < n => sent \in 0..(n - 1))
        BY <3>1, <3>2
      <4> QED BY <4>1, PieceEndInside
    <3>4. sent \in 0..n /\ sent' \in 0..n /\ sent <= sent'
      BY <2>1, <3>1, <3>2, <3>3
    <3> QED BY <1>2, <1>3, <2>1, <3>1, <3>2, <3>4
  <2> QED BY <2>2, <2>3
<1> QED BY <1>1, <1>6, <1>8, <1>9 DEF Receive

\* What Parsed says of a response, for the file as it is.
ParsedWell(r) ==
    /\ r.retcode \in {0, 200} \cup 402..405 /\ r.complete \in BOOLEAN
    /\ r.block \in Seq(Nat)
    /\ r.retcode = 200 => /\ file # Missing /\ Starts(r.block, Page)
                          /\ r.complete => r.block = Page

\* Whatever the buffer holds, what parseResponse makes of it is right.
LEMMA ParsesWell ==
  ASSUME ExchangeInv, Understood(String(buf)), NEW r \in ParseResponse(String(buf))
  PROVE  ParsedWell(r)
<1> DEFINE s == String(buf)
<1>1. RetCode(s) \in {200} \cup 402..405 /\ IsPrefix(Status(RetCode(s)), s)
  <2>1. \E code \in {200} \cup 402..405 : IsPrefix(Status(code), s)
    BY DEF Understood
  <2> HIDE DEF s
  <2> QED BY <2>1 DEF RetCode
<1>2. CASE RetCode(s) # 200
  <2>1. PICK c \in BOOLEAN, m \in Memory : r = [retcode |-> RetCode(s), complete |-> c, block |-> m]
    BY <1>2 DEF ParseResponse
  <2>2. m \in Seq(Nat)
    BY ExchangeAssumption
  <2>3. r.retcode = RetCode(s) /\ r.complete = c /\ r.block = m
    BY <2>1
  <2>4. r.complete \in BOOLEAN
    BY <2>3
  <2> HIDE DEF s
  <2> QED BY <1>1, <1>2, <2>2, <2>3, <2>4 DEF ParsedWell
<1>3. CASE RetCode(s) = 200
  <2>1. PICK len \in Lengths(s) : r = [retcode |-> 200, complete |-> Copied(s, len), block |-> s]
    BY <1>3 DEF ParseResponse
  <2>2. r.retcode = 200 /\ r.complete = Copied(s, len) /\ r.block = s
    BY <2>1
  <2>3. r.complete \in BOOLEAN
    BY <2>2 DEF Copied
  <2>4. IsPrefix(Status(200), s) /\ Field(s, LEN) /\ Field(s, EXP) /\ DataStart(s) > 0
    BY <1>1, <1>3 DEF Understood
  <2>5. file # Missing /\ s \in Seq(Nat) /\ Starts(s, Page)
    BY <2>4, BufferIsPage DEF ExchangeInv, Serving, Reading
  <2>6. ASSUME Copied(s, len) PROVE s = Page
    <3>1. PICK f \in Nat : f = file
      BY <2>5, BaseIs DEF ExchangeInv, Serving, Missing
    <3>2. PICK k \in Nat, x \in Nat : k >= 1 /\ x >= 1 /\ Len(Digits[f]) = k /\ Laid(Page, f, k, x)
      BY <3>1, PageLaid
    <3> HIDE DEF s
    <3> QED BY <2>4, <2>5, <2>6, <3>2, CompleteIsWhole
  <2> HIDE DEF s
  <2>7. 200 \in {0, 200} \cup 402..405
    OBVIOUS
  <2> QED BY <2>2, <2>3, <2>5, <2>6, <2>7 DEF ParsedWell
<1> QED BY <1>2, <1>3

\* The dispatcher keeps it.
LEMMA DispatcherKeeps ==
  ASSUME ExchangeInv, Dispatcher
  PROVE  ExchangeInv'
<1>1. /\ req = PageRequest /\ solorange = FALSE /\ file \in Missing..MaxFile
      /\ Len(Fields(req)) \in Nat
  BY FieldsLength DEF ExchangeInv, Serving
<1>2. ASSUME file' = file
      PROVE  /\ Answers' = Answers /\ Page' = Page
             /\ \A i, y : FromAnswer(i, y)' <=> FromAnswer(i, y)
  BY <1>2, SameFile
<1>3. ASSUME UNCHANGED serverVars PROVE Serving' /\ file' = file
  <2>1. Answers' = Answers /\ UNCHANGED <<req, file, solorange, srv, got, reply, sent>>
    BY <1>2, <1>3 DEF serverVars
  <2>2. Fields(req)' = Fields(req)
    BY <2>1
  <2> QED BY <2>1, <2>2 DEF ExchangeInv, Serving
<1>4. ASSUME buf' = buf, file' = file, disp' \in {"connect", "read", "parse", "done"}, pos' \in 0..sent'
      PROVE  Reading'
  <2>1. ASSUME NEW i \in 1..BufSize PROVE FromAnswer(i, buf[i])'
    <3>1. FromAnswer(i, buf[i])
      BY DEF ExchangeInv, Reading
    <3> QED BY <1>2, <1>4, <3>1 DEF FromAnswer
  <2> QED BY <1>4, <2>1 DEF ExchangeInv, Reading
<1>5. CASE Connect
  <2>1. /\ UNCHANGED <<req, file, solorange, buf, resp, cli, taken, page>>
        /\ disp = "connect" /\ disp' = "read" /\ pos' = 0
        /\ srv' \in {"recv", "frozen"} /\ got' = 0 /\ reply' = <<>> /\ sent' = 0
    BY <1>5 DEF Connect
  <2>2. Fields(req)' = Fields(req)
    BY <2>1
  <2>3. Serving'
    BY <1>1, <2>1, <2>2 DEF Serving
  <2>4. Reading'
    BY <1>4, <2>1
  <2>5. Parsed' /\ Received'
    BY <2>1, ClientFrame
  <2> QED BY <2>3, <2>4, <2>5 DEF ExchangeInv
<1>6. ASSUME NEW n \in 1..BufSize, Read(n) PROVE ExchangeInv'
  <2>1. /\ UNCHANGED <<serverVars, disp, resp, cli, taken, page>>
        /\ disp = "read" /\ n \in (pos + 1)..sent /\ pos' = n
        /\ buf' = [i \in DOMAIN buf |-> IF i \in (pos + 1)..n THEN reply[i] ELSE buf[i]]
    BY <1>6 DEF Read
  <2>2. Serving' /\ file' = file /\ sent' = sent
    BY <1>3, <2>1 DEF serverVars
  <2>3. pos \in 0..sent /\ buf \in [1..BufSize -> Int] /\ BufSize \in Nat
    BY ExchangeAssumption DEF ExchangeInv, Reading
  <2>4. reply \in Answers /\ sent \in 0..Len(reply)
    <3>1. sent # 0
      BY <2>1, <2>3
    <3> QED BY <3>1 DEF ExchangeInv, Serving
  <2>5. reply \in Seq(Nat) /\ Len(reply) \in Nat
    BY <1>1, <2>4, AnswerIs
  <2>6. ASSUME NEW i \in 1..BufSize, i \in (pos + 1)..n
        PROVE  reply[i] \in Int /\ FromAnswer(i, reply[i])
    <3>1. i \in 1..Len(reply)
      BY <2>1, <2>3, <2>4, <2>5, <2>6
    <3>2. reply[i] \in Nat /\ i <= Len(reply)
      BY <2>5, <3>1, ElementOfSeq
    <3> QED BY <2>4, <3>2 DEF FromAnswer
  <2>7. ASSUME NEW i \in 1..BufSize
        PROVE  buf'[i] \in Int /\ FromAnswer(i, buf'[i])
    <3>1. buf'[i] = IF i \in (pos + 1)..n THEN reply[i] ELSE buf[i]
      BY <2>1, <2>3
    <3>2. buf[i] \in Int /\ FromAnswer(i, buf[i])
      BY DEF ExchangeInv, Reading
    <3>3. CASE i \in (pos + 1)..n
      BY <2>6, <3>1, <3>3
    <3>4. CASE i \notin (pos + 1)..n
      BY <3>1, <3>2, <3>4
    <3> QED BY <3>3, <3>4
  <2>8. buf' \in [1..BufSize -> Int]
    <3>1. DOMAIN buf = 1..BufSize
      BY <2>3
    <3> QED BY <2>1, <2>7, <3>1
  <2>9. pos' \in 0..sent'
    BY <2>1, <2>2, <2>3
  <2>10. ASSUME NEW i \in 1..BufSize PROVE FromAnswer(i, buf[i])'
    BY <1>2, <2>2, <2>7 DEF FromAnswer
  <2>11. Reading'
    BY <2>1, <2>8, <2>9, <2>10 DEF Reading
  <2>12. Parsed' /\ Received'
    BY <2>1, <2>2, ClientFrame
  <2> QED BY <2>2, <2>11, <2>12 DEF ExchangeInv
<1>7. CASE ReadEnd \/ Timeout
  <2>1. /\ UNCHANGED <<serverVars, buf, pos, resp, cli, taken, page>>
        /\ disp = "read" /\ disp' \in {"parse", "connect"}
    BY <1>7 DEF ReadEnd, Timeout
  <2>2. Serving' /\ file' = file /\ sent' = sent
    BY <1>3, <2>1 DEF serverVars
  <2>3. pos' \in 0..sent'
    BY <2>1, <2>2 DEF ExchangeInv, Reading
  <2>4. Reading'
    BY <1>4, <2>1, <2>2, <2>3
  <2>5. Parsed' /\ Received'
    BY <2>1, <2>2, ClientFrame
  <2> QED BY <2>2, <2>4, <2>5 DEF ExchangeInv
<1>8. CASE Parse
  <2> DEFINE s == String(buf)
  <2>1. /\ UNCHANGED <<serverVars, buf, pos, cli, taken, page>>
        /\ disp = "parse"
        /\ \/ Understood(s) /\ resp' \in ParseResponse(s) /\ disp' = "done"
           \/ disp' = "connect" /\ resp' = resp
    BY <1>8 DEF Parse
  <2>2. Serving' /\ file' = file /\ sent' = sent
    BY <1>3, <2>1 DEF serverVars
  <2>3. pos' \in 0..sent'
    BY <2>1, <2>2 DEF ExchangeInv, Reading
  <2>4. Reading'
    BY <1>4, <2>1, <2>2, <2>3
  <2>5. CASE disp' = "connect" /\ resp' = resp
    <3>1. Parsed' /\ Received'
      BY <2>1, <2>2, <2>5, ClientFrame
    <3> QED BY <2>2, <2>4, <3>1 DEF ExchangeInv
  <2>6. CASE Understood(s) /\ resp' \in ParseResponse(s) /\ disp' = "done"
    <3>1. ParsedWell(resp')
      BY <2>6, ParsesWell
    <3>2. /\ resp'.retcode \in {0, 200} \cup 402..405 /\ resp'.complete \in BOOLEAN
          /\ resp'.block \in Seq(Nat)
      BY <3>1 DEF ParsedWell
    <3>3. resp'.retcode = 200 => /\ file' # Missing /\ Starts(resp'.block, Page')
                                 /\ resp'.complete => resp'.block = Page'
      BY <1>2, <2>2, <3>1 DEF ParsedWell
    <3>4. Parsed'
      BY <2>6, <3>2, <3>3 DEF Parsed, Starts
    <3>5. cli' = "wait" /\ taken' = 0 /\ page' = <<>>
      BY <2>1 DEF ExchangeInv, Parsed, Received
    <3>6. file' # Missing /\ resp'.block = Page' => Len(Page') \in Nat /\ Len(Page') >= 5
      BY <1>1, <1>2, <2>2, AnswerIs
    <3>7. Received'
      BY <3>2, <3>5, <3>6, LenProperties DEF Received
    <3> QED BY <2>2, <2>4, <3>4, <3>7 DEF ExchangeInv
  <2> QED BY <2>1, <2>5, <2>6
<1> QED BY <1>5, <1>6, <1>7, <1>8 DEF Dispatcher

\* The client keeps it.
LEMMA ClientKeeps ==
  ASSUME ExchangeInv, Client
  PROVE  ExchangeInv'
<1>1. UNCHANGED <<serverVars, disp, buf, pos, resp>> /\ disp = "done" /\ cli = "wait"
  BY DEF Client, ClientReceive, ClientEnd, ClientError
<1>2. UNCHANGED <<req, file, solorange, srv, got, reply, sent>>
  BY <1>1 DEF serverVars
<1>3. Answers' = Answers /\ Page' = Page /\ \A i, y : FromAnswer(i, y)' <=> FromAnswer(i, y)
  BY <1>2, SameFile
<1>4. Serving'
  <2>1. Fields(req)' = Fields(req)
    BY <1>2
  <2> QED BY <1>2, <1>3, <2>1 DEF ExchangeInv, Serving
<1>5. Reading'
  <2>1. ASSUME NEW i \in 1..BufSize PROVE FromAnswer(i, buf[i])'
    <3>1. FromAnswer(i, buf[i])
      BY DEF ExchangeInv, Reading
    <3> QED BY <1>1, <1>3, <3>1 DEF FromAnswer
  <2> QED BY <1>1, <1>2, <2>1 DEF ExchangeInv, Reading
<1>6. Parsed'
  BY <1>1, <1>2, <1>3 DEF ExchangeInv, Parsed, Starts
<1>7. /\ resp.block \in Seq(Nat) /\ Len(resp.block) \in Nat /\ taken \in 0..Len(resp.block)
      /\ page = <<>>
      /\ resp.retcode = 200 => file # Missing /\ Starts(resp.block, Page)
      /\ file # Missing /\ resp.block = Page => taken < Len(Page)
  BY <1>1, LenProperties DEF ExchangeInv, Parsed, Received
<1>8. CASE ClientEnd
  <2>1. cli' = "bad" /\ taken = Len(resp.block) /\ UNCHANGED <<taken, page>>
    BY <1>8 DEF ClientEnd
  <2>2. ~(file # Missing /\ resp.block = Page)
    BY <1>7, <2>1
  <2>3. Received'
    BY <1>1, <1>2, <1>3, <1>7, <2>1, <2>2 DEF Received
  <2> QED BY <1>4, <1>5, <1>6, <2>3 DEF ExchangeInv
<1>10. CASE ClientError
  <2>1. cli' = "error" /\ UNCHANGED <<taken, page>>
    BY <1>10 DEF ClientError
  <2>2. Received'
    BY <1>1, <1>2, <1>3, <1>7, <2>1 DEF Received
  <2> QED BY <1>4, <1>5, <1>6, <2>2 DEF ExchangeInv
<1>9. ASSUME NEW n \in 1..BufSize, ClientReceive(n) PROVE ExchangeInv'
  <2> DEFINE s == SubSeq(resp.block, 1, n)
             r == Check200OK(s)
  <2>1. /\ n \in (taken + 1)..Len(resp.block) /\ taken' = n
        /\ cli' = CASE r = 0 -> "wait" [] r = 1 -> "ok" [] OTHER -> "bad"
        /\ page' = IF r = 1 THEN SubSeq(s, DataAt(s), Needed(s)) ELSE <<>>
    BY <1>9 DEF ClientReceive
  <2>2. n \in 1..Len(resp.block)
    BY <1>7, <2>1
  <2>3. s \in Seq(Nat) /\ Len(s) = n /\ \A i \in 1..n : s[i] = resp.block[i]
    <3>1. n \in Nat /\ n <= Len(resp.block)
      BY <1>7, <2>2
    <3> QED BY <1>7, <3>1, Beginning
  <2>4. r \in {-1, 0, 1}
    BY DEF Check200OK
  <2> HIDE DEF s
  <2>5. /\ cli' \in {"wait", "bad", "error", "ok"} /\ taken' \in 0..Len(resp.block)
        /\ cli' # "ok" => page' = <<>>
        /\ cli' = "ok" => r = 1
        /\ cli' = "bad" => r = -1
        /\ cli' = "wait" => r = 0
    <3> HIDE DEF r
    <3> QED BY <1>7, <2>1, <2>2, <2>4
  <2>6. ASSUME file # Missing, Starts(resp.block, Page)
        PROVE  /\ r = IF n < Len(Page) THEN 0 ELSE 1
               /\ r = 1 => SubSeq(s, DataAt(s), Needed(s)) = Bytes(1, file)
    <3>1. PICK f \in Nat : f = file
      BY <2>6, BaseIs DEF ExchangeInv, Serving, Missing
    <3>2. PICK k \in Nat, x \in Nat : k >= 1 /\ x >= 1 /\ Len(Digits[f]) = k /\ Laid(Page, f, k, x)
      BY <3>1, PageLaid
    <3>3. Page \in Seq(Nat) /\ Len(Page) = 9 + k + x + f /\ \A i \in 1..f : Page[9 + k + x + i] = Byte(i)
      BY <3>2 DEF Laid
    <3>4. /\ Len(resp.block) <= 9 + k + x + f /\ n <= 9 + k + x + f
          /\ \A i \in 1..n : i \in 1..Len(resp.block)
      BY <1>7, <2>2, <2>6, <3>3 DEF Starts
    <3>5. Starts(s, Page)
      BY <2>3, <2>6, <3>3, <3>4 DEF Starts
    <3>6. Reads(s, f, k, x)
      BY <2>3, <3>2, <3>5, ClientReads
    <3>7. /\ ~WrongFormat(s) /\ Needed(s) \in Int
          /\ n < 9 + k + x + f => n < Needed(s)
          /\ n = 9 + k + x + f => Needed(s) = n /\ DataAt(s) = 10 + k + x
      BY <2>3, <3>6 DEF Reads
    <3>8. r = IF n < Needed(s) THEN 0 ELSE 1
      BY <2>3, <3>7 DEF Check200OK
    <3> HIDE DEF r
    <3>9. r = IF n < Len(Page) THEN 0 ELSE 1
      BY <3>3, <3>4, <3>7, <3>8
    <3>10. ASSUME r = 1 PROVE SubSeq(s, DataAt(s), Needed(s)) = Bytes(1, file)
      <4>1. n = 9 + k + x + f
        BY <3>3, <3>4, <3>9, <3>10
      <4>2. PICK i \in Nat : i = 10 + k + x
        OBVIOUS
      <4>3. DataAt(s) = i /\ Needed(s) = n
        BY <3>7, <4>1, <4>2
      <4> DEFINE u == SubSeq(s, i, n)
                 v == Bytes(1, f)
      <4>4. i >= 1 /\ i <= n + 1 /\ n - i + 1 = f /\ n \in Int /\ n <= Len(s)
        BY <2>3, <4>1, <4>2
      <4>5. u \in Seq(Nat) /\ Len(u) = f /\ \A j \in 1..f : u[j] = s[i + j - 1]
        BY <2>3, <4>4, Part
      <4>6. v \in Seq(Nat) /\ Len(v) = f /\ \A j \in 1..f : v[j] = Byte(j)
        BY FileBytes
      <4>7. ASSUME NEW j \in 1..f PROVE s[i + j - 1] = Byte(j)
        <5>1. i + j - 1 = 9 + k + x + j /\ 9 + k + x + j \in 1..n
          BY <4>1, <4>2
        <5>2. s[9 + k + x + j] = Page[9 + k + x + j]
          BY <2>3, <3>5, <5>1 DEF Starts
        <5> QED BY <3>3, <5>1, <5>2
      <4> HIDE DEF u, v
      <4>8. u = v
        BY <4>5, <4>6, <4>7, SeqEqual
      <4> QED BY <3>1, <4>3, <4>8 DEF u, v
    <3> QED BY <3>9, <3>10
  <2>7. ASSUME cli' = "ok", resp.retcode = 200 PROVE page' = Bytes(1, file)
    BY <1>7, <2>1, <2>5, <2>6, <2>7
  <2>8. ASSUME file # Missing, resp.block = Page
        PROVE  cli' # "bad" /\ (cli' = "wait" => taken' < Len(Page))
    <3>1. Starts(resp.block, Page)
      BY <1>7, <2>8 DEF Starts
    <3>2. r = IF n < Len(Page) THEN 0 ELSE 1
      BY <2>6, <2>8, <3>1
    <3> HIDE DEF r
    <3> QED BY <2>1, <2>5, <3>2
  <2>9. Received'
    <3> HIDE DEF r
    <3> QED BY <1>1, <1>2, <1>3, <2>5, <2>7, <2>8 DEF Received
  <2> QED BY <1>4, <1>5, <1>6, <2>9 DEF ExchangeInv
<1> QED BY <1>8, <1>9, <1>10 DEF Client

\* Every step keeps it.
LEMMA ExchangeInvKept == ExchangeInv /\ [ExchangeNext]_vars => ExchangeInv'
<1> SUFFICES ASSUME ExchangeInv, [ExchangeNext]_vars PROVE ExchangeInv'
  OBVIOUS
<1>1. CASE UNCHANGED vars
  <2>1. UNCHANGED <<req, file, solorange, srv, got, reply, sent>>
    BY <1>1 DEF vars, serverVars
  <2>2. UNCHANGED <<disp, buf, pos, resp, cli, taken, page>>
    BY <1>1 DEF vars
  <2>3. Answers' = Answers /\ \A i, y : FromAnswer(i, y)' <=> FromAnswer(i, y)
    BY <2>1, SameFile
  <2>4. Serving'
    <3>1. Fields(req)' = Fields(req)
      BY <2>1
    <3> QED BY <2>1, <2>3, <3>1 DEF ExchangeInv, Serving
  <2>5. Reading'
    <3>1. ASSUME NEW i \in 1..BufSize PROVE FromAnswer(i, buf[i])'
      <4>1. FromAnswer(i, buf[i])
        BY DEF ExchangeInv, Reading
      <4> QED BY <2>2, <2>3, <4>1 DEF FromAnswer
    <3> QED BY <2>1, <2>2, <3>1 DEF ExchangeInv, Reading
  <2>6. Parsed' /\ Received'
    BY <2>1, <2>2, ClientFrame
  <2> QED BY <2>4, <2>5, <2>6 DEF ExchangeInv
<1> QED BY <1>1, ServerKeeps, DispatcherKeeps, ClientKeeps DEF ExchangeNext

\* The invariant of an exchange.
LEMMA ExchangeInvariant == ExchangeSpec => []ExchangeInv
BY ExchangeInvInit, ExchangeInvKept, PTL DEF ExchangeSpec

-----------------------------------------------------------------------------
(* The theorems *)

(* Proxy.c:145: the types; no attempt reads more than was sent in it, and the *)
(* client no more than the proxy holds.                                       *)
THEOREM ExchangeTypeCorrect == ExchangeSpec => []ExchangeTypeOK
<1>1. ASSUME ExchangeInv PROVE ExchangeTypeOK
  <2>1. file \in Missing..MaxFile /\ req = PageRequest /\ solorange = FALSE
    BY <1>1 DEF ExchangeInv, Serving
  <2>2. reply \in Seq(Nat) /\ sent \in 0..Len(reply)
    <3>1. CASE reply = <<>> /\ sent = 0
      BY <3>1, EmptySeq
    <3>2. CASE reply \in Answers /\ sent \in 0..Len(reply)
      BY <2>1, <3>2, AnswerIs
    <3> QED BY <1>1, <3>1, <3>2 DEF ExchangeInv, Serving
  <2>3. \A i \in DOMAIN reply : reply[i] \in Nat
    BY <2>2, LenProperties, ElementOfSeq
  <2>4. req \in Request
    <3>1. None \in None..(MaxFile + 1)
      BY BaseIs DEF None
    <3> QED BY <2>1, <3>1 DEF Request, PageRequest
  <2>5. solorange \in BOOLEAN
    BY <2>1
  <2>6. TypeOK
    BY <1>1, <2>1, <2>2, <2>3, <2>4, <2>5 DEF TypeOK, ExchangeInv, Serving
  <2>7. DOMAIN buf = 1..BufSize /\ pos \in 0..sent /\ disp \in {"connect", "read", "parse", "done"}
    BY <1>1 DEF ExchangeInv, Reading
  <2>8. /\ resp.retcode \in {0, 200} \cup 402..405 /\ resp.complete \in BOOLEAN
        /\ cli \in {"wait", "bad", "error", "ok"} /\ taken \in 0..Len(resp.block)
        /\ cli # "ok" => page = <<>>
    BY <1>1 DEF ExchangeInv, Parsed, Received
  <2> QED BY <2>6, <2>7, <2>8 DEF ExchangeTypeOK
<1>2. ExchangeInv => ExchangeTypeOK
  BY <1>1
<1> QED BY <1>2, ExchangeInvariant, PTL

(* Parser.h:51: however many attempts fail and whatever they leave in         *)
(* resp_buf, what is taken for a page is the beginning of the page the server *)
(* sent, and what is called complete, and cached, is all of it.               *)
THEOREM ExchangeAnswerIsPrefix == ExchangeSpec => []AnswerIsPrefix
<1>1. ASSUME ExchangeInv, resp.retcode = 200
      PROVE  /\ file # Missing /\ IsPrefix(resp.block, GetResponse(req))
             /\ resp.complete => resp.block = GetResponse(req)
  <2>1. /\ file # Missing /\ Starts(resp.block, Page) /\ resp.block \in Seq(Nat)
        /\ resp.complete => resp.block = Page
    BY <1>1 DEF ExchangeInv, Parsed
  <2>2. Page = GetResponse(req)
    BY <1>1 DEF ExchangeInv, Serving, Page
  <2>3. Page \in Seq(Nat)
    BY <1>1, <2>1, AnswerIs DEF ExchangeInv, Serving
  <2> DEFINE b == resp.block
             p == Page
  <2>4. b \in Seq(Nat) /\ p \in Seq(Nat) /\ Starts(b, p)
    BY <2>1, <2>3
  <2> HIDE DEF b, p
  <2>5. PICK n \in Nat, m \in Nat : n = Len(b) /\ m = Len(p)
    BY <2>4, LenProperties
  <2>6. n <= m /\ \A i \in 1..n : b[i] = p[i]
    BY <2>4, <2>5 DEF Starts
  <2>7. SubSeq(b, 1, n) = SubSeq(p, 1, n)
    <3>1. /\ SubSeq(b, 1, n) \in Seq(Nat) /\ Len(SubSeq(b, 1, n)) = n
          /\ \A i \in 1..n : SubSeq(b, 1, n)[i] = b[i]
      BY <2>4, <2>5, Beginning
    <3>2. /\ SubSeq(p, 1, n) \in Seq(Nat) /\ Len(SubSeq(p, 1, n)) = n
          /\ \A i \in 1..n : SubSeq(p, 1, n)[i] = p[i]
      BY <2>4, <2>5, <2>6, Beginning
    <3>3. \A i \in 1..n : SubSeq(b, 1, n)[i] = SubSeq(p, 1, n)[i]
      BY <2>6, <3>1, <3>2
    <3> QED BY <3>1, <3>2, <3>3, SeqEqual
  <2>8. IsPrefix(b, p)
    BY <2>5, <2>6, <2>7 DEF IsPrefix
  <2> QED BY <2>1, <2>2, <2>8 DEF b, p
<1>2. ExchangeInv => AnswerIsPrefix
  BY <1>1 DEF AnswerIsPrefix
<1> QED BY <1>2, ExchangeInvariant, PTL

(* Client.c:375: Get returns 200 for a correct and complete answer: the       *)
(* client has the whole page or reports an error, wherever the answer was cut.*)
THEOREM ClientWholeOrNothing == ExchangeSpec => []WholeOrNothing
<1>1. ExchangeInv => WholeOrNothing
  BY DEF ExchangeInv, Received, WholeOrNothing
<1> QED BY <1>1, ExchangeInvariant, PTL

(* Client.c:440: no cut of a good answer, in a number or between two parts,   *)
(* makes the client take it for a bad one.                                    *)
THEOREM ClientGoodIsNotBad == ExchangeSpec => []GoodIsNotBad
<1>1. ExchangeInv => GoodIsNotBad
  BY DEF ExchangeInv, Serving, Received, GoodIsNotBad, Page
<1> QED BY <1>1, ExchangeInvariant, PTL
=============================================================================
