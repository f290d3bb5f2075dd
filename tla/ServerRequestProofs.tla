------------------------ MODULE ServerRequestProofs ------------------------
(***************************************************************************)
(* The proofs about module ServerRequest: one connection of the origin     *)
(* server, for files of any length, every range and every way to cut the   *)
(* request and the answer.                                                 *)
(* The invariant RequestInv says that a request is unanswered, and then    *)
(* not all of it was read, or answered with 403 or with one of its         *)
(* responses; which one is settled when all of it was read.  The larger    *)
(* part is about what the operators return: the digits of a number, where  *)
(* the only empty line of a header is, what follows it, and which status   *)
(* an answer begins with.                                                  *)
(***************************************************************************)
EXTENDS ServerRequest, Induction, SequenceTheorems

-----------------------------------------------------------------------------
(* Arithmetic *)

\* Division by a number that is not a constant: its bounds are all the provers know.
LEMMA Quotient ==
  ASSUME NEW n \in Nat, NEW b \in Nat, b > 0
  PROVE  n \div b \in Nat /\ b * (n \div b) <= n /\ n < b * (n \div b) + b /\ n % b \in 0..(b - 1)
<1>1. n \div b \in Int
  OBVIOUS
<1>2. b * (n \div b) <= n
  OBVIOUS
<1>3. n < b * (n \div b) + b
  OBVIOUS
<1>4. n % b \in 0..(b - 1)
  OBVIOUS
<1>5. n \div b >= 0
  OBVIOUS
<1> QED BY <1>1, <1>2, <1>3, <1>4, <1>5

\* A quotient by two or more is smaller.
LEMMA QuotientLess ==
  ASSUME NEW n \in Nat, NEW b \in Nat, b > 1, n > 0
  PROVE  n \div b \in Nat /\ n \div b < n
<1>1. n \div b \in Nat
  BY Quotient
<1>2. n \div b < n
  OBVIOUS
<1> QED BY <1>1, <1>2

\* Products grow with their factors.
LEMMA Times ==
  ASSUME NEW a \in Nat, NEW b \in Nat, NEW c \in Nat, a <= b
  PROVE  a * c \in Nat /\ a * c <= b * c
<1>1. a * c <= b * c
  OBVIOUS
<1>2. a * c \in Nat
  OBVIOUS
<1> QED BY <1>1, <1>2

\* Server.c:147: a piece is not empty and does not end behind the answer, whatever its length.
LEMMA PieceEndInside ==
  ASSUME NEW n \in Nat, n >= 2, NEW m \in 0..(n - 1)
  PROVE  PieceEnd(n, m) \in (m + 1)..n
<1> DEFINE k == Pieces(n)
           size == n \div k
           i == m \div size + 1
<1>1. PIECE \in Nat /\ PIECE > 0 /\ SHORT \in Nat /\ SHORT >= PIECE
  BY RequestAssumption
<1>2. k \in Nat /\ k >= 1 /\ k <= n
  <2>1. CASE n <= SHORT
    BY <2>1 DEF Pieces
  <2>2. CASE n > SHORT
    <3>1. k = n \div PIECE
      BY <1>1, <2>2 DEF Pieces
    <3> DEFINE q == n \div PIECE
    <3>2. q \in Nat /\ PIECE * q <= n /\ n < PIECE * q + PIECE
      BY <1>1, Quotient
    <3> HIDE DEF q
    <3>3. q # 0
      BY <1>1, <2>2, <3>2
    <3>4. 1 * q <= PIECE * q
      BY <1>1, <3>2, Times
    <3> QED BY <1>1, <3>1, <3>2, <3>3, <3>4 DEF q
  <2> QED BY <1>1, <2>1, <2>2
<1> HIDE DEF k
<1>3. size \in Nat /\ k * size <= n /\ n < k * size + k
  BY <1>2, Quotient
<1> HIDE DEF size
<1>4. size >= 1
  BY <1>2, <1>3
<1>5. i \in Nat /\ i >= 1
  <2>1. m \in Nat
    OBVIOUS
  <2>2. m \div size \in Nat
    BY <1>3, <1>4, <2>1, Quotient
  <2> QED BY <2>2
<1>8. m < i * size
  <2> DEFINE q == m \div size
  <2>1. m \in Nat
    OBVIOUS
  <2>2. q \in Nat /\ m < size * q + size
    BY <1>3, <1>4, <2>1, Quotient
  <2>3. i = q + 1
    OBVIOUS
  <2> HIDE DEF q, i
  <2>4. i * size = size * q + size
    BY <1>3, <2>2, <2>3
  <2> QED BY <2>2, <2>4
<1> HIDE DEF i
<1>6. ASSUME i < k PROVE i * size \in (m + 1)..n
  <2>1. i * size \in Nat /\ i * size <= k * size
    BY <1>2, <1>3, <1>5, <1>6, Times
  <2>2. k * size \in Nat
    BY <1>2, <1>3, Times
  <2>3. m \in Nat
    OBVIOUS
  <2> HIDE DEF k, size
  <2> QED BY <1>3, <1>8, <2>1, <2>2, <2>3
<1>7. PieceEnd(n, m) = IF i >= k THEN n ELSE i * size
  BY DEF PieceEnd, i, size, k
<1> QED BY <1>2, <1>5, <1>6, <1>7

-----------------------------------------------------------------------------
(* Numbers as digits *)

\* The constants are naturals.
LEMMA BaseIs == Base \in Nat /\ Base > 1 /\ MaxFile \in Nat /\ EXPIRE \in Nat
<1>1. Base * Base \in Nat
  BY RequestAssumption
<1> QED BY <1>1, RequestAssumption

\* Every value of p is that of f for the sequence of those before.
HasHistory(p, S, f) ==
    /\ p \in [Nat -> S]
    /\ \A n \in Nat :
         \E h \in Seq(S) : Len(h) = n /\ (\A i \in 1..n : h[i] = p[i - 1]) /\ p[n] = f[h]

(* Iteration with all the values before at hand: what a recursive definition  *)
(* needs to have a value, whichever smaller arguments it calls itself with.   *)
LEMMA CourseOfValues ==
  ASSUME NEW S, NEW f \in [Seq(S) -> S]
  PROVE  \E p : HasHistory(p, S, f)
<1> DEFINE g == [h \in Seq(S) |-> Append(h, f[h])]
           a == <<>>
<1>1. a \in Seq(S)
  BY EmptySeq
<1>2. g \in [Seq(S) -> Seq(S)]
  BY AppendProperties
<1>3. PICK q \in [Nat -> Seq(S)] : q[0] = a /\ \A n \in Nat : q[n + 1] = g[q[n]]
  <2> HIDE DEF a, g
  <2> DEFINE T == Seq(S)
  <2>1. a \in T /\ g \in [T -> T]
    BY <1>1, <1>2
  <2> HIDE DEF T
  <2>2. \E q : IsIteration(q, T, a, g)
    BY <2>1, Iteration
  <2>3. \E q \in [Nat -> T] : q[0] = a /\ \A n \in Nat : q[n + 1] = g[q[n]]
    BY <2>2 DEF IsIteration
  <2> QED BY <2>3 DEF T
<1> DEFINE p == [n \in Nat |-> f[q[n]]]
<1>4. ASSUME NEW n \in Nat
      PROVE  /\ q[n] \in Seq(S) /\ f[q[n]] \in S /\ q[n + 1] = Append(q[n], f[q[n]])
             /\ Len(q[n + 1]) = Len(q[n]) + 1 /\ q[n + 1][Len(q[n]) + 1] = f[q[n]]
             /\ \A i \in 1..Len(q[n]) : q[n + 1][i] = q[n][i]
  <2>1. q[n] \in Seq(S) /\ f[q[n]] \in S
    BY <1>3
  <2>2. q[n + 1] = Append(q[n], f[q[n]])
    BY <1>3, <2>1
  <2> QED BY <2>1, <2>2, AppendProperties
<1> DEFINE G(n) == Len(q[n]) = n /\ \A i \in 1..n : q[n][i] = f[q[i - 1]]
           P == {n \in Nat : G(n)}
<1>5. P = Nat
  <2>1. 0 \in P
    BY <1>3
  <2>2. ASSUME NEW n \in P PROVE n + 1 \in P
    <3>1. n \in Nat /\ G(n)
      OBVIOUS
    <3>2. Len(q[n + 1]) = n + 1 /\ q[n + 1][n + 1] = f[q[n]] /\ \A i \in 1..n : q[n + 1][i] = q[n][i]
      <4>1. Len(q[n]) = n
        BY <3>1
      <4>2. /\ Len(q[n + 1]) = Len(q[n]) + 1 /\ q[n + 1][Len(q[n]) + 1] = f[q[n]]
            /\ \A i \in 1..Len(q[n]) : q[n + 1][i] = q[n][i]
        BY <1>4, <3>1
      <4> QED BY <4>1, <4>2
    <3>3. ASSUME NEW i \in 1..(n + 1) PROVE q[n + 1][i] = f[q[i - 1]]
      <4>1. CASE i = n + 1
        <5>1. i - 1 = n
          BY <3>1, <4>1
        <5> QED BY <3>2, <4>1, <5>1
      <4>2. CASE i # n + 1
        <5>1. n + 1 \in Nat /\ i \in 1..n
          BY <3>1, <4>2
        <5>2. q[n][i] = f[q[i - 1]]
          BY <3>1, <5>1
        <5>3. q[n + 1][i] = q[n][i]
          BY <3>2, <5>1
        <5> QED BY <5>2, <5>3
      <4> QED BY <4>1, <4>2
    <3> QED BY <3>1, <3>2, <3>3
  <2>3. P \in SUBSET Nat
    OBVIOUS
  <2> HIDE DEF P
  <2> QED BY <2>1, <2>2, <2>3, SetInduction
<1>6. ASSUME NEW n \in Nat
      PROVE  \E h \in Seq(S) : Len(h) = n /\ (\A i \in 1..n : h[i] = p[i - 1]) /\ p[n] = f[h]
  <2>1. G(n)
    BY <1>5
  <2>2. \A i \in 1..n : q[n][i] = p[i - 1]
    BY <2>1
  <2>3. p[n] = f[q[n]] /\ q[n] \in Seq(S)
    BY <1>4
  <2> QED BY <2>1, <2>2, <2>3
<1>7. p \in [Nat -> S]
  BY <1>4
<1> HIDE DEF p
<1>8. HasHistory(p, S, f)
  BY <1>6, <1>7 DEF HasHistory
<1> QED BY <1>8

\* The recursive definition of Digits has a value, by CourseOfValues.
LEMMA DigitsStep ==
  ASSUME NEW n \in Nat
  PROVE  Digits[n] = IF n < Base THEN <<n>> ELSE Append(Digits[n \div Base], n % Base)
<1> DEFINE S == Seq(Nat)
           f == [h \in Seq(S) |-> IF Len(h) < Base THEN <<Len(h)>>
                                  ELSE Append(h[Len(h) \div Base + 1], Len(h) % Base)]
           Step(d) == [k \in Nat |-> IF k < Base THEN <<k>> ELSE Append(d[k \div Base], k % Base)]
<1>1. f \in [Seq(S) -> S]
  <2> SUFFICES ASSUME NEW h \in Seq(S)
               PROVE  (IF Len(h) < Base THEN <<Len(h)>>
                       ELSE Append(h[Len(h) \div Base + 1], Len(h) % Base)) \in S
    <3> HIDE DEF S
    <3> QED OBVIOUS
  <2> HIDE DEF S
  <2>1. Len(h) \in Nat
    BY LenProperties
  <2>2. CASE Len(h) < Base
    BY <2>1, <2>2 DEF S
  <2>3. CASE ~(Len(h) < Base)
    <3>1. Len(h) \div Base \in Nat /\ Len(h) \div Base < Len(h) /\ Len(h) % Base \in 0..(Base - 1)
      BY <2>1, <2>3, BaseIs, Quotient, QuotientLess
    <3>2. Len(h) \div Base + 1 \in 1..Len(h)
      BY <2>1, <3>1
    <3>3. h[Len(h) \div Base + 1] \in S
      BY <3>2, ElementOfSeq
    <3>4. Len(h) % Base \in Nat
      BY <3>1, BaseIs
    <3>5. Append(h[Len(h) \div Base + 1], Len(h) % Base) \in S
      BY <3>3, <3>4, AppendProperties DEF S
    <3> QED BY <2>3, <3>5
  <2> QED BY <2>2, <2>3
<1>2. PICK p \in [Nat -> S] : \A k \in Nat :
          \E h \in Seq(S) : Len(h) = k /\ (\A i \in 1..k : h[i] = p[i - 1]) /\ p[k] = f[h]
  <2> HIDE DEF S, f
  <2>1. \E p : HasHistory(p, S, f)
    BY <1>1, CourseOfValues
  <2> QED BY <2>1 DEF HasHistory
<1>3. p = Step(p)
  <2>1. ASSUME NEW k \in Nat PROVE p[k] = Step(p)[k]
    <3>1. PICK h \in Seq(S) : Len(h) = k /\ (\A i \in 1..k : h[i] = p[i - 1]) /\ p[k] = f[h]
      <4> HIDE DEF S, f
      <4> QED BY <1>2
    <3>2. f[h] = IF k < Base THEN <<k>> ELSE Append(h[k \div Base + 1], k % Base)
      <4> HIDE DEF S
      <4> QED BY <3>1
    <3>3. ASSUME ~(k < Base) PROVE h[k \div Base + 1] = p[k \div Base]
      <4> HIDE DEF S, f
      <4>1. k \div Base \in Nat /\ k \div Base < k
        <5>1. k \in Nat /\ k > 0
          BY <3>3, BaseIs
        <5> QED BY <5>1, BaseIs, QuotientLess
      <4> DEFINE q == k \div Base
      <4> HIDE DEF q
      <4>2. q \in Nat /\ q < k
        BY <4>1 DEF q
      <4>3. q + 1 \in 1..k /\ (q + 1) - 1 = q
        BY <4>2
      <4>4. h[q + 1] = p[q]
        BY <3>1, <4>3
      <4> QED BY <4>4 DEF q
    <3> HIDE DEF f, S
    <3> QED BY <3>1, <3>2, <3>3
  <2> QED BY <1>2, <2>1
<1>4. Digits = CHOOSE d : d = Step(d)
  BY DEF Digits
<1>5. Digits = Step(Digits)
  <2> HIDE DEF Step
  <2> QED BY <1>3, <1>4
<1>6. Digits[n] = Step(Digits)[n]
  BY <1>5
<1> QED BY <1>6

\* A number is one digit or more.
LEMMA DigitsTypes ==
  \A n \in Nat : Digits[n] \in Seq(0..(Base - 1)) /\ Digits[n] # <<>>
<1> DEFINE D == Seq(0..(Base - 1))
           G(n) == Digits[n] \in D /\ Digits[n] # <<>>
           P == {n \in Nat : \A k \in 0..n : G(k)}
<1>1. ASSUME NEW n \in Nat, \A k \in Nat : k < n => G(k) PROVE G(n)
  <2>1. CASE n < Base
    <3>1. Digits[n] = <<n>>
      BY <2>1, DigitsStep
    <3>2. n \in 0..(Base - 1)
      BY <2>1, BaseIs
    <3> QED BY <3>1, <3>2
  <2>2. CASE ~(n < Base)
    <3>1. Digits[n] = Append(Digits[n \div Base], n % Base)
      BY <2>2, DigitsStep
    <3>2. n \div Base \in Nat /\ n \div Base < n /\ n % Base \in 0..(Base - 1)
      BY <2>2, BaseIs, Quotient, QuotientLess
    <3>3. Digits[n \div Base] \in D
      BY <1>1, <3>2
    <3>4. /\ Append(Digits[n \div Base], n % Base) \in D
          /\ Append(Digits[n \div Base], n % Base) # <<>>
      BY <3>2, <3>3, AppendProperties
    <3> QED BY <3>1, <3>4
  <2> QED BY <2>1, <2>2
<1> HIDE DEF G
<1>2. 0 \in P
  BY <1>1
<1>3. ASSUME NEW n \in P PROVE n + 1 \in P
  <2>1. n \in Nat /\ \A k \in 0..n : G(k)
    OBVIOUS
  <2>2. G(n + 1)
    BY <1>1, <2>1
  <2> QED BY <2>1, <2>2
<1>4. P = Nat
  <2>1. P \in SUBSET Nat
    OBVIOUS
  <2> HIDE DEF P
  <2> QED BY <1>2, <1>3, <2>1, SetInduction
<1>5. ASSUME NEW n \in Nat PROVE G(n)
  <2>1. n \in P
    BY <1>4
  <2> QED BY <2>1
<1> QED BY <1>5 DEF G
-----------------------------------------------------------------------------
(* Answers *)

NoBlank(s) == \A j \in 1..(Len(s) - 1) : ~(s[j] = NL /\ s[j + 1] = NL)

\* s begins with the status of code, and has no empty line.
Begins(code, s) ==
    /\ s \in Seq(Nat) /\ Len(s) \in Nat /\ Len(s) >= 3
    /\ s[1] = Status(code)[1] /\ s[2] = Status(code)[2] /\ s[3] = Status(code)[3]
    /\ NoBlank(s)

\* A newline is a token of its own.
LEMMA Tokens ==
  /\ NL \in Nat /\ LEN \in Nat /\ RANGE \in Nat /\ EXP \in Nat /\ DASH \in Nat
  /\ LEN # NL /\ RANGE # NL /\ EXP # NL /\ DASH # NL
  /\ \A i \in Nat : Byte(i) \in Nat /\ Byte(i) # NL
BY BaseIs DEF NL, LEN, RANGE, EXP, DASH, Byte

\* Appending to an answer without an empty line keeps it so, unless a newline meets one.
LEMMA Join ==
  ASSUME NEW code, NEW s, Begins(code, s),
         NEW t \in Seq(Nat), t # <<>>, NoBlank(t), s[Len(s)] # NL \/ t[1] # NL
  PROVE  /\ Begins(code, s \o t)
         /\ Len(s \o t) = Len(s) + Len(t) /\ (s \o t)[Len(s \o t)] = t[Len(t)]
<1>1. s \in Seq(Nat) /\ Len(s) \in Nat /\ Len(t) \in Nat /\ Len(t) >= 1 /\ Len(s) >= 3
  BY EmptySeq, LenProperties DEF Begins
<1> PICK n \in Nat, m \in Nat : n = Len(s) /\ m = Len(t)
  BY <1>1
<1> DEFINE u == s \o t
<1>2. u \in Seq(Nat) /\ Len(u) = n + m
  BY <1>1, ConcatProperties
<1>3. (\A i \in 1..n : u[i] = s[i]) /\ (\A i \in 1..m : u[n + i] = t[i])
  <2>1. \A i \in 1..(n + m) : u[i] = IF i <= n THEN s[i] ELSE t[i - n]
    BY <1>1, ConcatProperties
  <2> HIDE DEF u
  <2>2. ASSUME NEW i \in 1..n PROVE u[i] = s[i]
    BY <2>1
  <2>3. ASSUME NEW i \in 1..m PROVE u[n + i] = t[i]
    <3>1. n + i \in 1..(n + m) /\ (n + i) - n = i /\ ~(n + i <= n)
      OBVIOUS
    <3> QED BY <2>1, <3>1
  <2> QED BY <2>2, <2>3
<1> HIDE DEF u
<1>4. \A j \in 1..(n - 1) : ~(s[j] = NL /\ s[j + 1] = NL)
  BY DEF Begins, NoBlank
<1>5. \A j \in 1..(m - 1) : ~(t[j] = NL /\ t[j + 1] = NL)
  BY DEF NoBlank
<1>6. ASSUME NEW j \in 1..(n + m - 1), u[j] = NL, u[j + 1] = NL PROVE FALSE
  <2>1. CASE j < n
    <3>1. j \in 1..n /\ j + 1 \in 1..n /\ j \in 1..(n - 1)
      BY <2>1
    <3> QED BY <1>3, <1>4, <1>6, <3>1
  <2>2. CASE j = n
    <3>1. u[j] = s[n] /\ u[j + 1] = t[1]
      BY <1>1, <1>3, <2>2
    <3> QED BY <1>6, <3>1
  <2>3. CASE j > n
    <3> PICK i \in 1..(m - 1) : j = n + i
      <4>1. j = n + (j - n) /\ j - n \in 1..(m - 1)
        BY <2>3
      <4> QED BY <4>1
    <3>1. i \in 1..m /\ i + 1 \in 1..m /\ n + i + 1 = n + (i + 1)
      OBVIOUS
    <3>2. u[j] = t[i] /\ u[j + 1] = t[i + 1]
      BY <1>3, <3>1
    <3> QED BY <1>5, <1>6, <3>2
  <2> QED BY <2>1, <2>2, <2>3
<1>7. u[1] = s[1] /\ u[2] = s[2] /\ u[3] = s[3] /\ u[n + m] = t[m]
  BY <1>1, <1>3
<1>8. Begins(code, u)
  BY <1>1, <1>2, <1>6, <1>7 DEF Begins, NoBlank
<1> QED BY <1>2, <1>7, <1>8 DEF u

\* The status line.
LEMMA StatusBegins ==
  ASSUME NEW code \in 200..405
  PROVE  /\ Begins(code, Status(code) \o <<NL>>)
         /\ Len(Status(code) \o <<NL>>) = 4 /\ (Status(code) \o <<NL>>)[4] = NL
<1> DEFINE a == Base + 10 + code \div 100
           b == Base + 20 + ((code \div 10) % 10)
           c == Base + 30 + (code % 10)
<1>1. /\ a \in Nat /\ b \in Nat /\ c \in Nat
      /\ a # NL /\ b # NL /\ c # NL
  BY BaseIs DEF NL
<1>2. Status(code) = <<a, b, c>>
  BY DEF Status
<1> HIDE DEF a, b, c
<1>3. Status(code) \o <<NL>> = <<a, b, c, NL>>
  <2> DEFINE x == <<a, b, c>>
             y == <<NL>>
             z == x \o y
  <2>1. x \in Seq(Nat) /\ y \in Seq(Nat) /\ Len(x) = 3 /\ Len(y) = 1
    BY <1>1, Tokens
  <2>2. /\ z \in Seq(Nat) /\ Len(z) = 4
        /\ \A i \in 1..4 : z[i] = IF i <= 3 THEN x[i] ELSE y[i - 3]
    <3> HIDE DEF x, y
    <3>1. /\ z \in Seq(Nat) /\ Len(z) = Len(x) + Len(y)
          /\ \A i \in 1..(Len(x) + Len(y)) : z[i] = IF i <= Len(x) THEN x[i] ELSE y[i - Len(x)]
      <4>1. \A s, t \in Seq(Nat) :
               /\ s \o t \in Seq(Nat) /\ Len(s \o t) = Len(s) + Len(t)
               /\ \A i \in 1..(Len(s) + Len(t)) : (s \o t)[i] = IF i <= Len(s) THEN s[i] ELSE t[i - Len(s)]
        BY ConcatProperties
      <4> QED BY <2>1, <4>1
    <3> HIDE DEF z
    <3>2. Len(x) + Len(y) = 4
      BY <2>1
    <3> QED BY <2>1, <3>1, <3>2
  <2> HIDE DEF z
  <2>3. z[1] = a /\ z[2] = b /\ z[3] = c /\ z[4] = NL
    BY <2>2
  <2>4. z = <<z[1], z[2], z[3], z[4]>>
    BY <2>2
  <2> QED BY <1>2, <2>3, <2>4 DEF z
<1>4. NL \in Nat
  BY Tokens
<1> QED BY <1>1, <1>2, <1>3, <1>4 DEF Begins, NoBlank
Codes == {200, 201, 202, 402, 403, 404, 405}

\* Status lines of different codes differ.
LEMMA StatusIs ==
  ASSUME NEW code \in Codes
  PROVE  /\ Status(code) = <<Status(code)[1], Status(code)[2], Status(code)[3]>>
         /\ \A i \in 1..3 : Status(code)[i] \in Nat /\ Status(code)[i] # NL
         /\ \A c \in Codes : (\A i \in 1..3 : Status(code)[i] = Status(c)[i]) => c = code
<1>1. Status(code) = <<Status(code)[1], Status(code)[2], Status(code)[3]>>
  BY DEF Status
<1>2. \A i \in 1..3 : Status(code)[i] \in Nat /\ Status(code)[i] # NL
  BY BaseIs DEF Status, Codes, NL
<1>3. ASSUME NEW c \in Codes, \A i \in 1..3 : Status(code)[i] = Status(c)[i]
      PROVE  c = code
  <2>1. \A d \in Codes : /\ Status(d)[1] = Base + 10 + d \div 100
                         /\ Status(d)[2] = Base + 20 + ((d \div 10) % 10)
                         /\ Status(d)[3] = Base + 30 + (d % 10)
    BY DEF Status
  <2>2. code \div 100 = c \div 100 /\ code % 10 = c % 10
    BY <1>3, <2>1, BaseIs DEF Codes
  <2> QED BY <2>2 DEF Codes
<1> QED BY <1>1, <1>2, <1>3

\* Which code an answer has shows in its first three tokens.
LEMMA PrefixIs ==
  ASSUME NEW s \in Seq(Nat), Len(s) >= 3, NEW c \in Codes
  PROVE  IsPrefix(Status(c), s) <=> s[1] = Status(c)[1] /\ s[2] = Status(c)[2] /\ s[3] = Status(c)[3]
<1> DEFINE t == Status(c)
<1>1. t \in Seq(Nat) /\ Len(t) = 3
  <2>1. \A i \in 1..3 : t[i] \in Nat
    BY StatusIs
  <2>2. t = <<t[1], t[2], t[3]>>
    BY StatusIs
  <2> HIDE DEF t
  <2>3. \A x, y, z \in Nat : <<x, y, z>> \in Seq(Nat) /\ Len(<<x, y, z>>) = 3
    OBVIOUS
  <2>4. PICK x \in Nat, y \in Nat, z \in Nat : t = <<x, y, z>>
    BY <2>1, <2>2
  <2> QED BY <2>3, <2>4
<1> HIDE DEF t
<1>2. Len(s) \in Nat
  BY LenProperties
<1>3. /\ SubSeq(t, 1, 3) \in Seq(Nat) /\ Len(SubSeq(t, 1, 3)) = 3
      /\ SubSeq(s, 1, 3) \in Seq(Nat) /\ Len(SubSeq(s, 1, 3)) = 3
      /\ \A i \in 1..3 : SubSeq(t, 1, 3)[i] = t[i] /\ SubSeq(s, 1, 3)[i] = s[i]
  <2>1. \A r \in Seq(Nat) : Len(r) >= 3 => \A i \in 1..3 : r[i] \in Nat
    BY ElementOfSeq, LenProperties
  <2>2. ASSUME NEW r \in Seq(Nat), Len(r) >= 3
        PROVE  /\ SubSeq(r, 1, 3) \in Seq(Nat) /\ Len(SubSeq(r, 1, 3)) = 3
               /\ \A i \in 1..3 : SubSeq(r, 1, 3)[i] = r[i]
    <3>1. \A i \in 1..3 : r[i] \in Nat
      BY <2>1, <2>2
    <3>2. /\ SubSeq(r, 1, 3) \in Seq(Nat) /\ Len(SubSeq(r, 1, 3)) = 3
          /\ \A i \in 1..3 : SubSeq(r, 1, 3)[i] = r[1 + i - 1]
      BY <3>1, SubSeqProperties, 1 \in Int, 3 \in Int, 3 - 1 + 1 = 3
    <3> QED BY <3>2
  <2>3. /\ SubSeq(t, 1, 3) \in Seq(Nat) /\ Len(SubSeq(t, 1, 3)) = 3
        /\ \A i \in 1..3 : SubSeq(t, 1, 3)[i] = t[i]
    <3>1. t \in Seq(Nat) /\ Len(t) >= 3
      BY <1>1
    <3> QED BY <2>2, <3>1
  <2>4. /\ SubSeq(s, 1, 3) \in Seq(Nat) /\ Len(SubSeq(s, 1, 3)) = 3
        /\ \A i \in 1..3 : SubSeq(s, 1, 3)[i] = s[i]
    BY <2>2
  <2> QED BY <2>3, <2>4
<1>4. SubSeq(t, 1, 3) = SubSeq(s, 1, 3) <=> s[1] = t[1] /\ s[2] = t[2] /\ s[3] = t[3]
  <2> DEFINE x == SubSeq(t, 1, 3)
             y == SubSeq(s, 1, 3)
  <2>1. /\ x \in Seq(Nat) /\ Len(x) = 3 /\ y \in Seq(Nat) /\ Len(y) = 3
        /\ \A i \in 1..3 : x[i] = t[i] /\ y[i] = s[i]
    BY <1>3
  <2> HIDE DEF x, y
  <2>2. x = y <=> x[1] = y[1] /\ x[2] = y[2] /\ x[3] = y[3]
    <3>1. (\A i \in 1..3 : x[i] = y[i]) => x = y
      BY <2>1, SeqEqual
    <3> QED BY <3>1
  <2>3. x = y <=> s[1] = t[1] /\ s[2] = t[2] /\ s[3] = t[3]
    <3>1. /\ x[1] = t[1] /\ x[2] = t[2] /\ x[3] = t[3]
          /\ y[1] = s[1] /\ y[2] = s[2] /\ y[3] = s[3]
      BY <2>1
    <3> QED BY <2>2, <3>1
  <2> QED BY <2>3 DEF x, y
<1> QED BY <1>1, <1>2, <1>4 DEF IsPrefix, t

\* The answer to code begins with its status.
StartsWith(code, s) ==
    /\ s \in Seq(Nat) /\ Len(s) \in Nat /\ Len(s) >= 3
    /\ s[1] = Status(code)[1] /\ s[2] = Status(code)[2] /\ s[3] = Status(code)[3]

\* An answer has the code it was made with, and no other.
LEMMA CodeOf ==
  ASSUME NEW code \in Codes, StartsWith(code, reply), NEW codes \in SUBSET Codes
  PROVE  CodeIs(codes) <=> code \in codes
<1>1. \A c \in Codes : IsPrefix(Status(c), reply) <=> c = code
  <2> SUFFICES ASSUME NEW c \in Codes PROVE IsPrefix(Status(c), reply) <=> c = code
    OBVIOUS
  <2>1. IsPrefix(Status(c), reply) <=> reply[1] = Status(c)[1] /\ reply[2] = Status(c)[2] /\ reply[3] = Status(c)[3]
    BY PrefixIs DEF StartsWith
  <2>2. IsPrefix(Status(c), reply) <=> \A i \in 1..3 : Status(code)[i] = Status(c)[i]
    BY <2>1 DEF StartsWith
  <2> QED BY <2>2, StatusIs
<1> QED BY <1>1 DEF CodeIs

\* No answer, no code.
LEMMA NoCode ==
  ASSUME reply = <<>>, NEW codes \in SUBSET Codes
  PROVE  ~CodeIs(codes)
<1>1. \A c \in Codes : Len(Status(c)) = 3
  BY DEF Status
<1> QED BY <1>1 DEF CodeIs, IsPrefix
\* h is a status and fields, up to and with the first empty line.
IsHeader(code, h) == \E p : Begins(code, p) /\ p[Len(p)] # NL /\ h = p \o <<NL, NL>>

\* There is no newline in a number.
LEMMA NumberHasNoLine ==
  ASSUME NEW n \in Nat
  PROVE  /\ Digits[n] \in Seq(Nat) /\ Len(Digits[n]) \in Nat /\ Len(Digits[n]) >= 1
         /\ \A i \in 1..Len(Digits[n]) : Digits[n][i] # NL
<1> DEFINE d == Digits[n]
<1>1. d \in Seq(0..(Base - 1)) /\ d # <<>>
  BY DigitsTypes
<1> HIDE DEF d
<1>2. 0..(Base - 1) \subseteq Nat
  BY BaseIs
<1>3. d \in Seq(Nat)
  BY <1>1, <1>2, SeqMonotonic
<1>4. Len(d) \in Nat /\ Len(d) >= 1
  BY <1>1, EmptySeq, LenProperties
<1>5. ASSUME NEW i \in 1..Len(d) PROVE d[i] # NL
  <2>1. d[i] \in 0..(Base - 1)
    BY <1>1, ElementOfSeq
  <2> QED BY <2>1, BaseIs DEF NL
<1> QED BY <1>3, <1>4, <1>5 DEF d

\* Nor an empty line where there is no newline.
LEMMA NoLineNoBlank ==
  ASSUME NEW t \in Seq(Nat), Len(t) \in Nat, \A i \in 1..Len(t) : t[i] # NL
  PROVE  NoBlank(t)
BY DEF NoBlank

\* Append for a part without newlines.
LEMMA JoinLine ==
  ASSUME NEW code, NEW s, Begins(code, s),
         NEW t \in Seq(Nat), Len(t) \in Nat, Len(t) >= 1, \A i \in 1..Len(t) : t[i] # NL
  PROVE  /\ Begins(code, s \o t)
         /\ (s \o t)[Len(s \o t)] # NL
<1>1. NoBlank(t) /\ t # <<>> /\ t[1] # NL /\ t[Len(t)] # NL
  BY NoLineNoBlank
<1> QED BY <1>1, Join

\* The separators of the header.
LEMMA NewLine ==
  /\ <<NL, EXP>> \in Seq(Nat) /\ <<NL, EXP>> # <<>> /\ NoBlank(<<NL, EXP>>)
  /\ Len(<<NL, EXP>>) = 2 /\ <<NL, EXP>>[2] # NL
  /\ <<NL, NL>> \in Seq(Nat) /\ Len(<<NL, NL>>) = 2 /\ <<NL, NL>>[1] = NL /\ <<NL, NL>>[2] = NL
BY Tokens DEF NoBlank

\* What Header returns: its only empty line is at its end.
LEMMA HeaderIs ==
  ASSUME NEW code \in 200..405, NEW field \in Seq(Nat),
         Len(field) \in Nat, Len(field) >= 1, \A i \in 1..Len(field) : field[i] # NL
  PROVE  IsHeader(code, Header(code, field))
<1> DEFINE a == Status(code) \o <<NL>>
           b == a \o field
           c == b \o <<NL, EXP>>
           p == c \o Digits[EXPIRE]
<1>1. Begins(code, a)
  BY StatusBegins
<1> HIDE DEF a
<1>2. Begins(code, b) /\ b[Len(b)] # NL
  BY <1>1, JoinLine
<1> HIDE DEF b
<1>3. Begins(code, c)
  BY <1>2, Join, NewLine
<1> HIDE DEF c
<1>4. Begins(code, p) /\ p[Len(p)] # NL
  BY <1>3, JoinLine, NumberHasNoLine, BaseIs
<1>5. Header(code, field) = p \o <<NL, NL>>
  <2>1. Header(code, field) = Status(code) \o <<NL>> \o field \o <<NL, EXP>> \o Digits[EXPIRE] \o <<NL, NL>>
    BY DEF Header
  <2>2. (Status(code) \o <<NL>> \o field \o <<NL, EXP>> \o Digits[EXPIRE]) \o <<NL, NL>>
        = Status(code) \o <<NL>> \o field \o <<NL, EXP>> \o Digits[EXPIRE] \o <<NL, NL>>
    OBVIOUS
  <2> QED BY <2>1 DEF p, c, b, a
<1> HIDE DEF p
<1> QED BY <1>4, <1>5 DEF IsHeader

\* A prefix, element by element.
LEMMA PrefixByElements ==
  ASSUME NEW s \in Seq(Nat), NEW t \in Seq(Nat)
  PROVE  IsPrefix(s, t) <=> Len(s) <= Len(t) /\ \A i \in 1..Len(s) : s[i] = t[i]
<1>1. Len(s) \in Nat /\ Len(t) \in Nat
  BY LenProperties
<1> SUFFICES ASSUME Len(s) <= Len(t)
             PROVE  SubSeq(s, 1, Len(s)) = SubSeq(t, 1, Len(s)) <=> \A i \in 1..Len(s) : s[i] = t[i]
  BY DEF IsPrefix
<1> PICK n \in Nat : n = Len(s)
  BY <1>1
<1> DEFINE x == SubSeq(s, 1, n)
           y == SubSeq(t, 1, n)
<1>2. \A i \in 1..n : s[i] \in Nat /\ t[i] \in Nat
  BY <1>1, ElementOfSeq
<1>3. n - 1 + 1 = n /\ 1 \in Int /\ n \in Int /\ (1 <= n \/ n = 0)
  OBVIOUS
<1>4. x \in Seq(Nat) /\ Len(x) = n /\ \A i \in 1..n : x[i] = s[1 + i - 1]
  <2>1. \A i \in 1..n : s[i] \in Nat
    BY <1>2
  <2> QED BY <1>3, <2>1, SubSeqProperties
<1>5. y \in Seq(Nat) /\ Len(y) = n /\ \A i \in 1..n : y[i] = t[1 + i - 1]
  <2>1. \A i \in 1..n : t[i] \in Nat
    BY <1>2
  <2> QED BY <1>3, <2>1, SubSeqProperties
<1> HIDE DEF x, y
<1>6. (\A i \in 1..n : x[i] = y[i]) <=> x = y
  BY <1>4, <1>5, SeqEqual
<1>7. (\A i \in 1..n : s[i] = t[i]) <=> x = y
  BY <1>4, <1>5, <1>6
<1> QED BY <1>7 DEF x, y

\* A prefix stays one when the sequence grows.
LEMMA PrefixGrows ==
  ASSUME NEW s \in Seq(Nat), NEW t \in Seq(Nat), NEW u \in Seq(Nat), IsPrefix(s, t)
  PROVE  IsPrefix(s, t \o u) /\ t \o u \in Seq(Nat)
<1> PICK n \in Nat, m \in Nat, k \in Nat : n = Len(s) /\ m = Len(t) /\ k = Len(u)
  BY LenProperties
<1> DEFINE w == t \o u
<1>1. /\ w \in Seq(Nat) /\ Len(w) = m + k
      /\ \A i \in 1..(m + k) : w[i] = IF i <= m THEN t[i] ELSE u[i - m]
  BY ConcatProperties
<1> HIDE DEF w
<1>2. n <= m /\ \A i \in 1..n : s[i] = t[i]
  BY PrefixByElements
<1>3. n <= Len(w) /\ \A i \in 1..n : s[i] = w[i]
  BY <1>1, <1>2
<1>4. IsPrefix(s, w)
  BY <1>1, <1>3, PrefixByElements
<1> QED BY <1>1, <1>4 DEF w

\* An answer begins with the line of its header.
LEMMA LineOf ==
  ASSUME NEW code \in 200..405, NEW field \in Seq(Nat), NEW b \in Seq(Nat)
  PROVE  IsPrefix(Line(code, field), Header(code, field) \o b)
<1> DEFINE a == Status(code) \o <<NL>>
           c == Line(code, field)
           d == Digits[EXPIRE]
           z == <<NL, NL>>
<1>1. c \in Seq(Nat)
  <2>1. a \in Seq(Nat)
    BY StatusBegins DEF Begins
  <2>2. c = (a \o field) \o <<NL, EXP>>
    BY DEF Line
  <2> HIDE DEF a, c
  <2>3. a \o field \in Seq(Nat)
    BY <2>1, ConcatProperties
  <2> QED BY <2>2, <2>3, ConcatProperties, NewLine
<1>2. d \in Seq(Nat) /\ z \in Seq(Nat)
  BY NumberHasNoLine, NewLine, BaseIs
<1>3. Header(code, field) = (c \o d) \o z
  BY DEF Header, Line
<1> HIDE DEF c, d, z
<1>4. IsPrefix(c, c)
  BY <1>1, PrefixByElements, LenProperties
<1>5. IsPrefix(c, c \o d) /\ c \o d \in Seq(Nat)
  BY <1>1, <1>2, <1>4, PrefixGrows
<1>6. IsPrefix(c, (c \o d) \o z) /\ (c \o d) \o z \in Seq(Nat)
  BY <1>1, <1>2, <1>5, PrefixGrows
<1>7. IsPrefix(c, Header(code, field) \o b)
  BY <1>1, <1>3, <1>6, PrefixGrows
<1> QED BY <1>7 DEF c

\* What Bytes returns.
LEMMA BytesAre ==
  ASSUME NEW i \in Nat, NEW j \in Int, j >= i - 1
  PROVE  /\ Bytes(i, j) \in Seq(Nat) /\ Len(Bytes(i, j)) = j - i + 1
         /\ \A k \in 1..(j - i + 1) : Bytes(i, j)[k] = Byte(i + k - 1)
<1>1. ASSUME NEW k \in 1..(j - i + 1) PROVE Byte(i + k - 1) \in Nat
  <2>1. i + k - 1 \in Nat
    OBVIOUS
  <2> QED BY <2>1, Tokens
<1>2. j - i + 1 \in Nat
  OBVIOUS
<1> DEFINE n == j - i + 1
<1> HIDE DEF n
<1>3. [k \in 1..n |-> Byte(i + k - 1)] \in Seq(Nat) /\ Len([k \in 1..n |-> Byte(i + k - 1)]) = n
  BY <1>1, <1>2, IsASeq DEF n
<1> QED BY <1>3 DEF Bytes, n

\* Body finds what was appended to a header.
LEMMA AnswerShape ==
  ASSUME NEW code, NEW h, IsHeader(code, h), NEW b \in Seq(Nat)
  PROVE  /\ StartsWith(code, h \o b) /\ Len(h \o b) >= 5
         /\ reply = h \o b => Body = b
<1>1. PICK p : Begins(code, p) /\ p[Len(p)] # NL /\ h = p \o <<NL, NL>>
  BY DEF IsHeader
<1>2. p \in Seq(Nat) /\ Len(p) \in Nat /\ Len(p) >= 3 /\ Len(b) \in Nat
  BY <1>1, LenProperties DEF Begins
<1> PICK n \in Nat, m \in Nat : n = Len(p) /\ m = Len(b)
  BY <1>2
<1> DEFINE z == <<NL, NL>>
<1>0. z \in Seq(Nat) /\ Len(z) = 2 /\ z[1] = NL /\ z[2] = NL /\ h = p \o z
  BY <1>1, NewLine
<1> HIDE DEF z
<1>3. /\ h \in Seq(Nat) /\ Len(h) = n + 2
      /\ \A i \in 1..(n + 2) : h[i] = IF i <= n THEN p[i] ELSE z[i - n]
  <2>1. /\ p \o z \in Seq(Nat) /\ Len(p \o z) = Len(p) + Len(z)
        /\ \A i \in 1..(Len(p) + Len(z)) : (p \o z)[i] = IF i <= Len(p) THEN p[i] ELSE z[i - Len(p)]
    BY <1>2, <1>0, ConcatProperties
  <2> QED BY <1>0, <2>1
<1>4. (\A i \in 1..n : h[i] = p[i]) /\ h[n + 1] = NL /\ h[n + 2] = NL
  <2>1. ASSUME NEW i \in 1..n PROVE h[i] = p[i]
    <3>1. i \in 1..(n + 2) /\ i <= n
      OBVIOUS
    <3> QED BY <1>3, <3>1
  <2>2. h[n + 1] = NL
    <3>1. h[n + 1] = z[(n + 1) - n]
      BY <1>3
    <3>2. (n + 1) - n = 1
      OBVIOUS
    <3> QED BY <1>0, <3>1, <3>2
  <2>3. h[n + 2] = NL
    <3>1. h[n + 2] = z[(n + 2) - n]
      BY <1>3
    <3>2. (n + 2) - n = 2
      OBVIOUS
    <3> QED BY <1>0, <3>1, <3>2
  <2> QED BY <2>1, <2>2, <2>3
<1> DEFINE u == h \o b
<1>5. /\ u \in Seq(Nat) /\ Len(u) = n + 2 + m
      /\ \A i \in 1..(n + 2 + m) : u[i] = IF i <= n + 2 THEN h[i] ELSE b[i - (n + 2)]
  <2>1. /\ u \in Seq(Nat) /\ Len(u) = Len(h) + Len(b)
        /\ \A i \in 1..(Len(h) + Len(b)) : u[i] = IF i <= Len(h) THEN h[i] ELSE b[i - Len(h)]
    BY <1>3, ConcatProperties
  <2> HIDE DEF u
  <2> QED BY <1>3, <2>1
<1> HIDE DEF u
<1>6. /\ \A i \in 1..n : u[i] = p[i]
      /\ u[n + 1] = NL /\ u[n + 2] = NL
  <2>1. ASSUME NEW i \in 1..(n + 2) PROVE u[i] = h[i]
    BY <1>5
  <2> QED BY <1>4, <2>1
<1>7. ASSUME NEW i \in 1..m PROVE u[n + 2 + i] = b[i]
  <2>1. n + 2 + i \in 1..(n + 2 + m) /\ ~(n + 2 + i <= n + 2) /\ (n + 2 + i) - (n + 2) = i
    OBVIOUS
  <2> QED BY <1>5, <2>1
<1>8. StartsWith(code, u) /\ Len(u) >= 5
  <2>1. u[1] = p[1] /\ u[2] = p[2] /\ u[3] = p[3]
    BY <1>2, <1>6
  <2>2. Len(u) \in Nat /\ Len(u) >= 5
    BY <1>2, <1>5
  <2> QED BY <1>1, <1>5, <2>1, <2>2 DEF StartsWith, Begins
<1>9. ASSUME reply = u PROVE Body = b
  <2> DEFINE T == {j \in 1..(Len(u) - 1) : u[j] = NL /\ u[j + 1] = NL}
  <2>1. n + 1 \in T
    <3>1. (n + 1) + 1 = n + 2 /\ n + 1 \in 1..(n + 2 + m - 1)
      OBVIOUS
    <3> QED BY <1>5, <1>6, <3>1
  <2>2. ASSUME NEW j \in T PROVE n + 1 <= j
    <3>1. j \in Nat /\ j >= 1 /\ u[j] = NL /\ u[j + 1] = NL
      BY <1>5
    <3> SUFFICES ASSUME j < n + 1 PROVE FALSE
      BY <3>1
    <3>2. u[j] = p[j]
      BY <1>6, <3>1
    <3>3. j # n
      BY <1>1, <3>1, <3>2
    <3>4. u[j + 1] = p[j + 1] /\ j \in 1..(n - 1)
      BY <1>6, <3>1, <3>3
    <3> QED BY <1>1, <3>1, <3>2, <3>4 DEF Begins, NoBlank
  <2> DEFINE i == Min(T)
  <2>3. i = n + 1
    <3>1. T \in SUBSET Nat
      BY <1>5
    <3> HIDE DEF T
    <3>2. i \in T /\ \A j \in T : i <= j
      BY <2>1, <2>2 DEF Min
    <3> HIDE DEF i
    <3> QED BY <2>1, <2>2, <3>1, <3>2
  <2>4. Body = SubSeq(u, i + 2, Len(u))
    BY <1>9 DEF Body
  <2> HIDE DEF i, T
  <2> DEFINE lo == n + 3
             hi == n + 2 + m
             v == SubSeq(u, lo, hi)
  <2>5. Body = v
    <3>1. i + 2 = lo /\ Len(u) = hi
      BY <1>5, <2>3
    <3> HIDE DEF lo, hi
    <3> QED BY <2>4, <3>1
  <2>6. \A k \in lo..hi : u[k] \in Nat
    <3>1. \A k \in 1..Len(u) : u[k] \in Nat
      BY <1>5, ElementOfSeq
    <3> QED BY <1>5, <3>1
  <2>7. /\ v \in Seq(Nat) /\ Len(v) = m
        /\ \A k \in 1..m : v[k] = u[n + 2 + k]
    <3>1. lo \in Int /\ hi \in Int /\ hi - lo + 1 = m /\ (IF lo <= hi THEN hi - lo + 1 ELSE 0) = m
      OBVIOUS
    <3>2. \A k \in 1..m : lo + k - 1 = n + 2 + k
      OBVIOUS
    <3>3. /\ v \in Seq(Nat) /\ Len(v) = IF lo <= hi THEN hi - lo + 1 ELSE 0
          /\ \A k \in 1..(hi - lo + 1) : v[k] = u[lo + k - 1]
      <4> HIDE DEF lo, hi
      <4> QED BY <2>6, <3>1, SubSeqProperties
    <3> HIDE DEF v, lo, hi
    <3> QED BY <3>1, <3>2, <3>3
  <2> HIDE DEF v
  <2>8. v = b
    BY <1>7, <2>7, SeqEqual
  <2> QED BY <2>5, <2>8
<1> QED BY <1>8, <1>9 DEF u

\* What Error returns.
LEMMA ErrorShape ==
  ASSUME NEW code \in Codes
  PROVE  StartsWith(code, Error(code)) /\ Len(Error(code)) >= 5
<1> DEFINE t == Status(code)
           z == <<NL, NL>>
<1>1. t \in Seq(Nat) /\ Len(t) = 3
  <2>1. \A x, y, w \in Nat : <<x, y, w>> \in Seq(Nat) /\ Len(<<x, y, w>>) = 3
    OBVIOUS
  <2>2. PICK x \in Nat, y \in Nat, w \in Nat : t = <<x, y, w>>
    BY StatusIs
  <2> HIDE DEF t
  <2> QED BY <2>1, <2>2
<1>2. z \in Seq(Nat) /\ Len(z) = 2
  BY NewLine
<1> HIDE DEF t, z
<1>3. /\ t \o z \in Seq(Nat) /\ Len(t \o z) = Len(t) + Len(z)
      /\ \A i \in 1..(Len(t) + Len(z)) : (t \o z)[i] = IF i <= Len(t) THEN t[i] ELSE z[i - Len(t)]
  BY <1>1, <1>2, ConcatProperties
<1>4. Error(code) = t \o z
  BY DEF Error, t, z
<1> DEFINE u == Error(code)
<1> HIDE DEF u
<1>5. u \in Seq(Nat) /\ Len(u) = 5 /\ u[1] = t[1] /\ u[2] = t[2] /\ u[3] = t[3]
  <2>1. /\ u \in Seq(Nat) /\ Len(u) = 5
        /\ \A i \in 1..5 : u[i] = IF i <= 3 THEN t[i] ELSE z[i - 3]
    BY <1>1, <1>2, <1>3, <1>4 DEF u
  <2> QED BY <2>1
<1> QED BY <1>5 DEF StartsWith, u, t
\* A field is not empty and has no end of line.
IsField(s) == /\ s \in Seq(Nat) /\ Len(s) \in Nat /\ Len(s) >= 1
              /\ \A i \in 1..Len(s) : s[i] # NL

\* The parts of a field joined are a field.
LEMMA FieldsJoin ==
  ASSUME NEW s, NEW t, IsField(s), IsField(t)
  PROVE  IsField(s \o t)
<1>1. /\ s \o t \in Seq(Nat) /\ Len(s \o t) = Len(s) + Len(t)
      /\ \A i \in 1..(Len(s) + Len(t)) : (s \o t)[i] = IF i <= Len(s) THEN s[i] ELSE t[i - Len(s)]
  BY ConcatProperties DEF IsField
<1> PICK n \in Nat, m \in Nat : n = Len(s) /\ m = Len(t)
  BY DEF IsField
<1> DEFINE u == s \o t
<1> HIDE DEF u
<1>2. /\ u \in Seq(Nat) /\ Len(u) = n + m
      /\ \A i \in 1..(n + m) : u[i] = IF i <= n THEN s[i] ELSE t[i - n]
  BY <1>1 DEF u
<1>3. ASSUME NEW i \in 1..(n + m) PROVE u[i] # NL
  <2>1. CASE i <= n
    <3>1. u[i] = s[i] /\ i \in 1..n
      BY <1>2, <2>1
    <3> QED BY <3>1 DEF IsField
  <2>2. CASE ~(i <= n)
    <3>1. u[i] = t[i - n] /\ i - n \in 1..m
      BY <1>2, <2>2
    <3> QED BY <3>1 DEF IsField
  <2> QED BY <2>1, <2>2
<1>4. n >= 1 /\ m >= 1
  BY DEF IsField
<1>5. IsField(u)
  BY <1>2, <1>3, <1>4 DEF IsField
<1> QED BY <1>5 DEF u

\* The parts of the fields the server writes.
LEMMA FieldTokens ==
  /\ IsField(<<LEN>>) /\ IsField(<<RANGE>>) /\ IsField(<<DASH>>)
  /\ \A n \in Nat : IsField(Digits[n])
<1>1. ASSUME NEW x \in Nat, x # NL PROVE IsField(<<x>>)
  BY <1>1 DEF IsField
<1> QED BY <1>1, Tokens, NumberHasNoLine DEF IsField

\* HeaderIs for fields.
LEMMA HeaderOfField ==
  ASSUME NEW code \in 200..405, NEW field, IsField(field)
  PROVE  IsHeader(code, Header(code, field))
BY HeaderIs DEF IsField

WellFormed ==
    /\ req \in Request /\ (req.first = None => req.last = None)
    /\ (req.type = "INF" => req.first = None)
    /\ file \in Missing..MaxFile

\* h is the header of an answer with the bytes from lo to hi.
Gives(answer, code, lo, hi) ==
    \E h : IsHeader(code, h) /\ answer = h \o Bytes(lo, hi)

Found == req.first = None \/ (Asked # {} /\ Asked \subseteq 1..file)

\* What GetResponse returns: the bytes asked for if the file has them all, an error otherwise.
LEMMA GetAnswer ==
  ASSUME WellFormed, file # Missing
  PROVE  /\ Found => \E code \in {200, 201}, lo \in Nat \ {0}, hi \in Int :
                        /\ hi >= lo - 1 /\ Asked = lo..hi
                        /\ Gives(GetResponse(req), code, lo, hi)
                        /\ IsPrefix(AnswerLine(hi - lo + 1), GetResponse(req))
         /\ ~Found => \E code \in {402, 405} : GetResponse(req) = Error(code)
<1> PICK f \in Int, l \in Int : f = req.first /\ l = req.last
  <2>1. req.first \in Int /\ req.last \in Int
    BY BaseIs DEF WellFormed, Request, None
  <2> QED BY <2>1
<1>1. f >= -1 /\ l >= -1 /\ file \in Nat /\ None = -1
  BY BaseIs DEF WellFormed, Request, None, Missing
<1> DEFINE last == IF l = None THEN file ELSE l
<1>2. CASE f = None
  <2>1. GetResponse(req) = AppendBytes(Header(200, <<LEN>> \o Digits[file]), 1, file)
    BY <1>2 DEF GetResponse
  <2>2. IsHeader(200, Header(200, <<LEN>> \o Digits[file]))
    <3>1. IsField(<<LEN>> \o Digits[file])
      BY <1>1, FieldTokens, FieldsJoin
    <3> QED BY <3>1, HeaderOfField
  <2>3. Gives(GetResponse(req), 200, 1, file)
    <3> DEFINE h == Header(200, <<LEN>> \o Digits[file])
    <3>1. IsHeader(200, h) /\ GetResponse(req) = AppendBytes(h, 1, file)
      BY <2>1, <2>2
    <3> HIDE DEF h
    <3>2. AppendBytes(h, 1, file) = h \o Bytes(1, file)
      BY DEF AppendBytes
    <3> QED BY <3>1, <3>2 DEF Gives
  <2>4. Found /\ Asked = 1..file /\ file \in Int /\ file >= 1 - 1
    BY <1>1, <1>2 DEF Found, Asked
  <2>5. IsPrefix(AnswerLine(file), GetResponse(req))
    <3> DEFINE field == <<LEN>> \o Digits[file]
    <3>1. IsField(field)
      BY <1>1, FieldTokens, FieldsJoin
    <3>2. GetResponse(req) = AppendBytes(Header(200, field), 1, file) /\ AnswerLine(file) = Line(200, field)
      BY <1>2, <2>1 DEF AnswerLine
    <3> HIDE DEF field
    <3> DEFINE h == Header(200, field)
    <3>3. GetResponse(req) = AppendBytes(h, 1, file)
      BY <3>2
    <3> HIDE DEF h
    <3>4. GetResponse(req) = h \o Bytes(1, file)
      BY <3>3 DEF AppendBytes
    <3>5. field \in Seq(Nat) /\ Bytes(1, file) \in Seq(Nat) /\ 200 \in 200..405
      BY <1>1, <3>1, BytesAre DEF IsField
    <3> QED BY <3>2, <3>4, <3>5, LineOf DEF h
  <2>6. file - 1 + 1 = file
    BY <1>1
  <2> QED BY <2>3, <2>4, <2>5, <2>6
<1>3. CASE f # None /\ (f > file \/ l > file \/ (l # None /\ l < f))
  <2>1. GetResponse(req) = Error(405)
    BY <1>3 DEF GetResponse
  <2>2. Asked = f..last
    BY <1>3 DEF Asked, LastAsked
  <2>3. ~(Asked # {} /\ Asked \subseteq 1..file)
    <3>1. ASSUME f <= last, f > file \/ last > file PROVE ~(Asked \subseteq 1..file)
      BY <1>1, <2>2, <3>1
    <3>2. ASSUME f > last PROVE Asked = {}
      BY <1>1, <2>2, <3>2
    <3>3. f > last \/ f > file \/ last > file
      BY <1>1, <1>3
    <3>4. f <= last \/ f > last
      BY <1>1
    <3> QED BY <3>1, <3>2, <3>3, <3>4
  <2>4. ~Found
    BY <1>3, <2>3 DEF Found
  <2> QED BY <2>1, <2>4
<1>4. CASE f # None /\ ~(f > file \/ l > file \/ (l # None /\ l < f))
  <2>1. GetResponse(req) = GetRange(f, last)
    BY <1>4 DEF GetResponse
  <2>2. Asked = f..last
    BY <1>4 DEF Asked, LastAsked
  <2>3. f \in Nat /\ last \in Nat /\ f <= last /\ last <= file
    BY <1>1, <1>4
  <2> DEFINE h == Header(201, <<RANGE>> \o Digits[f] \o <<DASH>> \o Digits[last])
  <2>4. GetRange(f, last) = AppendBytes(h, f, last)
    BY DEF GetRange
  <2> DEFINE field == <<RANGE>> \o Digits[f] \o <<DASH>> \o Digits[last]
  <2>8. IsField(field)
    <3>1. IsField(<<RANGE>> \o Digits[f])
      BY <2>3, FieldTokens, FieldsJoin
    <3>2. IsField(<<RANGE>> \o Digits[f] \o <<DASH>>)
      BY <3>1, FieldTokens, FieldsJoin
    <3> HIDE DEF last
    <3> QED BY <2>3, <3>2, FieldTokens, FieldsJoin
  <2>9. h = Header(201, field)
    OBVIOUS
  <2>10. AnswerLine(last - f + 1) = Line(201, field)
    BY <1>4 DEF AnswerLine, LastAsked
  <2> HIDE DEF field
  <2>5. IsHeader(201, h)
    BY <2>8, <2>9, HeaderOfField
  <2> HIDE DEF h, last
  <2>6. CASE f < 1
    <3>1. GetResponse(req) = Error(402)
      BY <2>1, <2>4, <2>6 DEF AppendBytes
    <3>2. f \in Asked /\ f \notin 1..file
      BY <2>2, <2>3, <2>6
    <3>3. ~Found
      BY <1>4, <3>2 DEF Found
    <3> QED BY <3>1, <3>3
  <2>7. CASE f >= 1
    <3>1. Gives(GetResponse(req), 201, f, last)
      <4>1. AppendBytes(h, f, last) = h \o Bytes(f, last)
        BY <2>3, <2>7 DEF AppendBytes
      <4> QED BY <2>1, <2>4, <2>5, <4>1 DEF Gives
    <3>2. Found
      <4>1. f \in Asked /\ Asked \subseteq 1..file
        BY <1>1, <2>2, <2>3, <2>7
      <4> QED BY <4>1 DEF Found
    <3>3. f \in Nat \ {0} /\ last \in Int /\ last >= f - 1
      BY <2>3, <2>7
    <3>4. IsPrefix(AnswerLine(last - f + 1), GetResponse(req))
      <4>1. GetResponse(req) = h \o Bytes(f, last) /\ Bytes(f, last) \in Seq(Nat)
        <5>1. GetResponse(req) = h \o Bytes(f, last)
          BY <2>1, <2>3, <2>4, <2>7 DEF AppendBytes
        <5>2. f \in Nat /\ last \in Int /\ last >= f - 1
          BY <3>3
        <5> QED BY <5>1, <5>2, BytesAre
      <4>2. IsPrefix(Line(201, field), h \o Bytes(f, last))
        <5>1. field \in Seq(Nat) /\ 201 \in 200..405
          BY <2>8 DEF IsField
        <5> QED BY <4>1, <5>1, <2>9, LineOf
      <4> QED BY <2>10, <4>1, <4>2
    <3> QED BY <2>2, <3>1, <3>2, <3>3, <3>4
  <2> QED BY <2>3, <2>6, <2>7
<1> QED BY <1>2, <1>3, <1>4

\* An answer with bytes has its code, and the bytes for its body.
LEMMA GivesShape ==
  ASSUME NEW answer, NEW code, NEW lo \in Nat, NEW hi \in Int, hi >= lo - 1,
         Gives(answer, code, lo, hi)
  PROVE  /\ StartsWith(code, answer) /\ Len(answer) >= 5
         /\ reply = answer => Body = Bytes(lo, hi)
<1>1. PICK h : IsHeader(code, h) /\ answer = h \o Bytes(lo, hi)
  BY DEF Gives
<1>2. Bytes(lo, hi) \in Seq(Nat)
  BY BytesAre
<1> QED BY <1>1, <1>2, AnswerShape

\* The codes of the answers to a GET.
LEMMA GetShape ==
  ASSUME WellFormed, file # Missing
  PROVE  \E code \in {200, 201, 402, 405} :
             StartsWith(code, GetResponse(req)) /\ Len(GetResponse(req)) >= 5
<1>1. CASE Found
  <2>1. PICK code \in {200, 201}, lo \in Nat \ {0}, hi \in Int :
            hi >= lo - 1 /\ Gives(GetResponse(req), code, lo, hi)
    BY <1>1, GetAnswer
  <2>2. lo \in Nat
    BY <2>1
  <2>3. StartsWith(code, GetResponse(req)) /\ Len(GetResponse(req)) >= 5
    BY <2>1, <2>2, GivesShape
  <2> QED BY <2>1, <2>3
<1>2. CASE ~Found
  <2>1. PICK code \in {402, 405} : GetResponse(req) = Error(code)
    BY <1>2, GetAnswer
  <2> QED BY <2>1, ErrorShape DEF Codes
<1> QED BY <1>1, <1>2

\* The answer to an INF.
LEMMA InfShape ==
  ASSUME file \in Nat
  PROVE  StartsWith(202, InfResponse) /\ Len(InfResponse) >= 5
<1> DEFINE h == Header(202, <<LEN>> \o Digits[file])
<1>1. IsHeader(202, h)
  <2>1. IsField(<<LEN>> \o Digits[file])
    BY FieldTokens, FieldsJoin
  <2> QED BY <2>1, HeaderOfField
<1>2. InfResponse = h
  BY DEF InfResponse
<1> HIDE DEF h
<1>3. h = h \o <<>>
  <2>1. h \in Seq(Nat)
    <3>1. PICK p : Begins(202, p) /\ h = p \o <<NL, NL>>
      BY <1>1 DEF IsHeader
    <3>2. p \in Seq(Nat) /\ <<NL, NL>> \in Seq(Nat)
      BY <3>1, NewLine DEF Begins
    <3> QED BY <3>1, <3>2, ConcatProperties
  <2> QED BY <2>1, ConcatEmptySeq
<1>4. <<>> \in Seq(Nat)
  BY EmptySeq
<1> QED BY <1>1, <1>2, <1>3, <1>4, AnswerShape

\* No request that was understood is answered with 403.
LEMMA ResponseShape ==
  ASSUME WellFormed, NEW a \in Responses(req)
  PROVE  \E code \in {200, 201, 202, 402, 404, 405} :
             /\ StartsWith(code, a) /\ Len(a) >= 5
             /\ req.type = "GET" /\ code # 404 => file # Missing /\ a = GetResponse(req)
<1>1. CASE a = Error(404)
  BY <1>1, ErrorShape DEF Codes
<1>2. CASE file # Missing /\ req.type = "GET" /\ a = GetResponse(req)
  BY <1>2, GetShape
<1>3. CASE file # Missing /\ req.type # "GET" /\ a = InfResponse
  <2>1. file \in Nat
    BY <1>3 DEF WellFormed, Missing
  <2> QED BY <1>3, <2>1, InfShape
<1> QED BY <1>1, <1>2, <1>3 DEF Responses

\* A request without a Range has nine fields, others have more.
LEMMA FieldsLength ==
  ASSUME NEW r
  PROVE  /\ Len(Fields(r)) \in Nat /\ Len(Fields(r)) >= 9
         /\ r.first = None => Len(Fields(r)) = 9
<1> DEFINE a == <<"method", "method", "IP", "IP", "port", "port", "path", "EOL">>
           b == RangeFields(r)
           c == <<"EOL">>
           W == {"method", "IP", "port", "path", "EOL", "Range", "first", "dash", "last"}
<1>1. a \in Seq(W) /\ Len(a) = 8 /\ c \in Seq(W) /\ Len(c) = 1
  OBVIOUS
<1>2. b \in Seq(W) /\ (r.first = None => b = <<>>)
  <2>1. /\ <<"Range", "first", "dash">> \in Seq(W) /\ <<>> \in Seq(W)
        /\ <<"last">> \in Seq(W) /\ <<"EOL">> \in Seq(W)
    OBVIOUS
  <2> HIDE DEF W
  <2> DEFINE d == IF r.last = None THEN <<>> ELSE <<"last">>
  <2>2. d \in Seq(W)
    BY <2>1
  <2> HIDE DEF d
  <2>3. <<"Range", "first", "dash">> \o d \in Seq(W)
    BY <2>1, <2>2, ConcatProperties
  <2>4. <<"Range", "first", "dash">> \o d \o <<"EOL">> \in Seq(W)
    BY <2>1, <2>3, ConcatProperties
  <2>5. b = IF r.first = None THEN <<>> ELSE <<"Range", "first", "dash">> \o d \o <<"EOL">>
    BY DEF RangeFields, d
  <2> QED BY <2>1, <2>4, <2>5
<1>3. Fields(r) = a \o b \o c
  BY DEF Fields
<1> HIDE DEF a, b, c, W
<1>4. a \o b \in Seq(W) /\ Len(a \o b) = Len(a) + Len(b)
  BY <1>1, <1>2, ConcatProperties
<1> DEFINE ab == a \o b
<1> HIDE DEF ab
<1>5. Len(ab \o c) = Len(ab) + Len(c)
  BY <1>1, <1>4, ConcatProperties DEF ab
<1>6. Len(b) \in Nat /\ (r.first = None => Len(b) = 0)
  BY <1>2, LenProperties, EmptySeq
<1> QED BY <1>1, <1>3, <1>4, <1>5, <1>6 DEF ab
-----------------------------------------------------------------------------
(* The invariant *)

WantsRange == solorange /\ req.type = "GET" /\ req.first = None

Typed ==
    /\ WellFormed
    /\ solorange \in BOOLEAN
    /\ srv \in {"recv", "send", "frozen", "closed"}
    /\ got \in 0..Len(Fields(req))

Unanswered ==
    /\ srv \in {"recv", "closed"} /\ got < Len(Fields(req))
    /\ reply = <<>> /\ sent = 0

Answered ==
    /\ srv # "recv" /\ sent \in 0..Len(reply)
    /\ reply \in {Error(403)} \cup Responses(req)
    /\ got = Len(Fields(req)) => IF WantsRange THEN reply = Error(403) ELSE reply \in Responses(req)

RequestInv == Typed /\ (Unanswered \/ Answered)

\* The reply of the invariant is empty or one of the answers.
LEMMA ReplyShape ==
  ASSUME RequestInv
  PROVE  \/ reply = <<>>
         \/ Len(reply) \in Nat /\ Len(reply) >= 5 /\ \E code \in Codes : StartsWith(code, reply)
<1>1. CASE reply = Error(403)
  <2>1. 403 \in Codes
    BY DEF Codes
  <2>2. StartsWith(403, Error(403)) /\ Len(Error(403)) >= 5
    BY <2>1, ErrorShape
  <2> QED BY <1>1, <2>1, <2>2 DEF StartsWith
<1>2. CASE reply \in Responses(req)
  <2>1. PICK code \in {200, 201, 202, 402, 404, 405} : StartsWith(code, reply) /\ Len(reply) >= 5
    BY <1>2, ResponseShape DEF RequestInv, Typed
  <2>2. code \in Codes
    BY DEF Codes
  <2> QED BY <2>1, <2>2 DEF StartsWith
<1> QED BY <1>1, <1>2 DEF RequestInv, Unanswered, Answered

\* The answers to a request depend on the request and the file.
LEMMA SameResponses ==
  ASSUME req' = req, file' = file
  PROVE  Responses(req)' = Responses(req) /\ Fields(req)' = Fields(req) /\ (WellFormed => WellFormed')
<1>1. Responses(req)' = Responses(req)
  BY DEF Responses, GetResponse, InfResponse
<1>2. Fields(req)' = Fields(req)
  OBVIOUS
<1> QED BY <1>1, <1>2 DEF WellFormed

\* The invariant holds initially.
LEMMA RequestInvInit == Init => RequestInv
<1> SUFFICES ASSUME Init PROVE RequestInv
  OBVIOUS
<1>1. PICK r \in Request : /\ r.first = None => r.last = None
                           /\ r.type = "INF" => r.first = None
                           /\ Open(r)
  BY DEF Init
<1>2. Len(Fields(req)) \in Nat /\ Len(Fields(req)) >= 9
  BY FieldsLength
<1>3. Typed
  BY <1>1, <1>2 DEF Open, Typed, WellFormed
<1>4. Unanswered
  BY <1>1, <1>2 DEF Open, Unanswered
<1> QED BY <1>3, <1>4 DEF RequestInv

\* Every step keeps it.
LEMMA RequestInvKept == RequestInv /\ [Next]_serverVars => RequestInv'
<1> SUFFICES ASSUME RequestInv, [Next]_serverVars PROVE RequestInv'
  OBVIOUS
<1> DEFINE N == Len(Fields(req))
<1>1. N \in Nat /\ N >= 9 /\ (req.first = None => N = 9)
  BY FieldsLength
<1>2. ASSUME srv = "recv" PROVE got \in Nat /\ got < N /\ reply = <<>> /\ sent = 0
  BY <1>1, <1>2 DEF RequestInv, Typed, Unanswered, Answered
<1>3. ASSUME UNCHANGED <<req, file, solorange>>, srv' \in {"recv", "send", "frozen", "closed"},
             got' \in 0..N
      PROVE  /\ Typed'
             /\ Responses(req)' = Responses(req) /\ Fields(req)' = Fields(req)
             /\ WantsRange' <=> WantsRange
  <2>1. /\ Responses(req)' = Responses(req) /\ Fields(req)' = Fields(req)
        /\ WellFormed'
    BY <1>3, SameResponses DEF RequestInv, Typed
  <2>2. solorange' \in BOOLEAN
    BY <1>3 DEF RequestInv, Typed
  <2>3. WantsRange' <=> WantsRange
    BY <1>3 DEF WantsRange
  <2> QED BY <1>3, <2>1, <2>2, <2>3 DEF Typed
<1>4. CASE UNCHANGED serverVars
  <2>1. UNCHANGED <<req, file, solorange>> /\ srv' = srv /\ got' = got /\ reply' = reply /\ sent' = sent
    BY <1>4 DEF serverVars
  <2>2. Typed' /\ Responses(req)' = Responses(req) /\ Fields(req)' = Fields(req) /\ (WantsRange' <=> WantsRange)
    BY <1>3, <2>1 DEF RequestInv, Typed
  <2> QED BY <2>1, <2>2 DEF RequestInv, Unanswered, Answered
<1>5. ASSUME NEW n \in 1..N, ReceivePart(n) PROVE RequestInv'
  <2>1. /\ UNCHANGED <<req, file, solorange>> /\ srv = "recv" /\ srv' = srv /\ got' = n
        /\ reply' = reply /\ sent' = sent /\ n # N
    BY <1>5 DEF ReceivePart, Complete
  <2>2. Typed' /\ Fields(req)' = Fields(req)
    BY <1>3, <2>1
  <2>3. Unanswered'
    BY <1>1, <1>2, <2>1, <2>2 DEF Unanswered
  <2> QED BY <2>2, <2>3 DEF RequestInv
<1>6. ASSUME NEW n \in 1..N, ReceiveRest(n) PROVE RequestInv'
  <2>1. /\ UNCHANGED <<req, file, solorange>> /\ srv = "recv" /\ srv' = "send" /\ got' = N
        /\ reply' \in Responses(req) /\ sent' = sent /\ ~LacksRange(req, N)
    BY <1>6 DEF ReceiveRest, Complete, Malformed, Answer
  <2>2. Typed' /\ Fields(req)' = Fields(req) /\ Responses(req)' = Responses(req)
        /\ (WantsRange' <=> WantsRange)
    BY <1>1, <1>3, <2>1
  <2>3. ~WantsRange
    BY <1>1, <2>1 DEF WantsRange, LacksRange
  <2>4. sent' \in 0..Len(reply')
    <3>1. Len(reply') \in Nat
      BY <2>1, ResponseShape DEF RequestInv, Typed, StartsWith
    <3> QED BY <1>2, <2>1, <3>1
  <2>5. Answered'
    BY <2>1, <2>2, <2>3, <2>4 DEF Answered
  <2> QED BY <2>2, <2>5 DEF RequestInv
<1>7. ASSUME got' \in 0..N, Answer(Error(403)), srv = "recv", got' = N => WantsRange PROVE RequestInv'
  <2>1. /\ UNCHANGED <<req, file, solorange>> /\ srv' = "send"
        /\ reply' = Error(403) /\ sent' = sent
    BY <1>7 DEF Answer
  <2>2. Typed' /\ Fields(req)' = Fields(req) /\ (WantsRange' <=> WantsRange)
    BY <1>3, <1>7, <2>1
  <2>3. sent' \in 0..Len(reply')
    <3>1. Len(reply') \in Nat
      BY <2>1, ErrorShape DEF Codes, StartsWith
    <3> QED BY <1>2, <1>7, <2>1, <3>1
  <2>4. Answered'
    BY <1>7, <2>1, <2>2, <2>3 DEF Answered
  <2> QED BY <2>2, <2>4 DEF RequestInv
<1>8. ASSUME NEW n \in 1..N, Refuse(n) PROVE RequestInv'
  <2>1. srv = "recv" /\ Malformed(req, n) /\ got' = n /\ Answer(Error(403))
    BY <1>8 DEF Refuse
  <2>2. n = N => WantsRange
    BY <1>1, <2>1 DEF Malformed, CutField, LacksRange, WantsRange
  <2> QED BY <1>1, <1>7, <2>1, <2>2
<1>9. CASE PeerCloses
  <2>1. srv = "recv" /\ Answer(Error(403)) /\ got' = got
    BY <1>9 DEF PeerCloses
  <2> QED BY <1>1, <1>2, <1>7, <2>1
<1>10. CASE ReadError
  <2>1. /\ UNCHANGED <<req, file, solorange>> /\ srv = "recv" /\ srv' = "closed" /\ got' = got
        /\ reply' = reply /\ sent' = sent
    BY <1>10 DEF ReadError
  <2>2. Typed' /\ Fields(req)' = Fields(req)
    BY <1>1, <1>2, <1>3, <2>1
  <2>3. Unanswered'
    BY <1>2, <2>1, <2>2 DEF Unanswered
  <2> QED BY <2>2, <2>3 DEF RequestInv
<1>11. ASSUME UNCHANGED <<req, file, solorange, got, reply>>, srv = "send",
              srv' \in {"send", "frozen", "closed"}, Len(reply) \in Nat => sent' \in 0..Len(reply)
       PROVE  RequestInv'
  <2>1. Answered /\ got \in 0..N
    BY <1>11 DEF RequestInv, Unanswered, Typed
  <2>2. Typed' /\ Fields(req)' = Fields(req) /\ Responses(req)' = Responses(req)
        /\ (WantsRange' <=> WantsRange)
    BY <1>3, <1>11, <2>1
  <2>3. Len(reply) \in Nat
    <3>1. reply = <<>> => Len(reply) \in Nat
      BY EmptySeq
    <3> QED BY <3>1, ReplyShape
  <2>4. Answered'
    BY <1>11, <2>1, <2>2, <2>3 DEF Answered
  <2> QED BY <2>2, <2>4 DEF RequestInv
<1>12. CASE SendPiece
  <2>1. /\ srv = "send" /\ sent < Len(reply) /\ sent' = PieceEnd(Len(reply), sent) /\ srv' = srv
        /\ UNCHANGED <<req, file, solorange, got, reply>>
    BY <1>12 DEF SendPiece
  <2>2. ASSUME Len(reply) \in Nat PROVE sent' \in 0..Len(reply)
    <3>1. sent \in 0..Len(reply)
      BY <2>1 DEF RequestInv, Unanswered, Answered
    <3>2. Len(reply) >= 5
      BY <2>1, <3>1, ReplyShape, EmptySeq
    <3>3. sent \in 0..(Len(reply) - 1)
      BY <2>1, <2>2, <3>1
    <3> QED BY <2>1, <2>2, <3>2, <3>3, PieceEndInside
  <2> QED BY <1>11, <2>1, <2>2
<1>13. CASE Close \/ Freeze
  <2>1. /\ srv = "send" /\ srv' \in {"frozen", "closed"} /\ sent' = sent
        /\ UNCHANGED <<req, file, solorange, got, reply>>
    BY <1>13 DEF Close, Freeze
  <2>2. sent' \in 0..Len(reply)
    BY <2>1 DEF RequestInv, Unanswered, Answered
  <2> QED BY <1>11, <2>1, <2>2
<1> QED BY <1>4, <1>5, <1>6, <1>8, <1>9, <1>10, <1>12, <1>13 DEF Next, Receive, Send

\* The invariant of a connection.
LEMMA RequestInvariant == Spec => []RequestInv
BY RequestInvInit, RequestInvKept, PTL DEF Spec
-----------------------------------------------------------------------------
(* The theorems *)

(* Server.c:508: the types; what is sent of an answer never exceeds it,       *)
(* whatever its length and the size of a piece.                               *)
THEOREM RequestTypeCorrect == Spec => []TypeOK
<1>1. ASSUME RequestInv PROVE TypeOK
  <2>1. (reply = <<>> /\ sent = 0) \/ sent \in 0..Len(reply)
    BY <1>1 DEF RequestInv, Unanswered, Answered
  <2>2. reply \in Seq(Nat)
    BY <1>1, ReplyShape, EmptySeq DEF StartsWith
  <2>3. (\A i \in DOMAIN reply : reply[i] \in Nat) /\ sent \in 0..Len(reply)
    BY <2>1, <2>2, LenProperties, ElementOfSeq, EmptySeq
  <2> QED BY <1>1, <2>3 DEF RequestInv, Typed, WellFormed, TypeOK
<1>2. RequestInv => TypeOK
  BY <1>1
<1> QED BY <1>2, RequestInvariant, PTL

\* Bytes lists the bytes of its range, in order.
LEMMA BytesInOrder ==
  ASSUME NEW lo \in Nat, NEW hi \in Int, hi >= lo - 1, NEW b, b = Bytes(lo, hi)
  PROVE  /\ ToSet(b) = {Byte(i) : i \in lo..hi}
         /\ \A j, k \in DOMAIN b : j < k => b[j] < b[k]
<1> DEFINE n == hi - lo + 1
<1>1. n \in Nat /\ b \in Seq(Nat) /\ DOMAIN b = 1..n /\ \A k \in 1..n : b[k] = Byte(lo + k - 1)
  BY BytesAre, LenProperties
<1> HIDE DEF n
<1>2. ToSet(b) = {Byte(lo + k - 1) : k \in 1..n}
  BY <1>1 DEF ToSet
<1>3. \A k \in 1..n : lo + k - 1 \in lo..hi
  BY DEF n
<1>4. \A i \in lo..hi : i - lo + 1 \in 1..n /\ lo + (i - lo + 1) - 1 = i
  BY DEF n
<1>5. ToSet(b) = {Byte(i) : i \in lo..hi}
  BY <1>2, <1>3, <1>4
<1>6. \A i, j \in Nat : i < j => Byte(i) < Byte(j)
  BY BaseIs DEF Byte
<1>7. ASSUME NEW j \in 1..n, NEW k \in 1..n, j < k PROVE b[j] < b[k]
  <2>1. lo + j - 1 \in Nat /\ lo + k - 1 \in Nat /\ lo + j - 1 < lo + k - 1
    BY <1>1, <1>7
  <2> QED BY <1>1, <1>6, <2>1
<1> QED BY <1>1, <1>5, <1>7

\* A reply with one of the codes of a GET is the one GetResponse computed.
LEMMA GetReply ==
  ASSUME RequestInv, req.type = "GET", CodeIs({200, 201, 402, 405})
  PROVE  file # Missing /\ reply = GetResponse(req)
<1>1. {200, 201, 402, 405} \in SUBSET Codes
  BY DEF Codes
<1>2. reply # <<>>
  BY <1>1, NoCode
<1>3. reply # Error(403)
  <2>1. 403 \in Codes
    BY DEF Codes
  <2>2. StartsWith(403, Error(403))
    BY <2>1, ErrorShape
  <2> QED BY <1>1, <2>1, <2>2, CodeOf
<1>4. reply \in Responses(req)
  BY <1>2, <1>3 DEF RequestInv, Unanswered, Answered
<1>5. PICK code \in {200, 201, 202, 402, 404, 405} :
          StartsWith(code, reply) /\ (code # 404 => file # Missing /\ reply = GetResponse(req))
  BY <1>4, ResponseShape DEF RequestInv, Typed
<1>6. code # 404
  <2>1. code \in Codes
    BY DEF Codes
  <2> QED BY <1>1, <1>5, <2>1, CodeOf
<1> QED BY <1>5, <1>6

(* Server.c:645: for files of any length and every range, with numbers in any *)
(* base, a GET that is understood gets the bytes it asks for, all of them and *)
(* in order, behind a header that tells how many they are or which, or an     *)
(* error.                                                                     *)
THEOREM ServerAnswersTheRange == Spec => []AnswersTheRange
<1>1. ASSUME RequestInv, req.type = "GET", CodeIs({200, 201, 402, 405})
      PROVE  /\ CodeIs({200, 201}) <=> Found
             /\ Found => /\ ToSet(Body) = {Byte(i) : i \in Asked}
                         /\ \A j, k \in DOMAIN Body : j < k => Body[j] < Body[k]
                         /\ IsPrefix(AnswerLine(Len(Body)), reply)
  <2>1. WellFormed /\ file # Missing /\ reply = GetResponse(req)
    BY <1>1, GetReply DEF RequestInv, Typed
  <2>2. {200, 201} \in SUBSET Codes
    BY DEF Codes
  <2>3. CASE Found
    <3>1. PICK code \in {200, 201}, lo \in Nat \ {0}, hi \in Int :
              /\ hi >= lo - 1 /\ Asked = lo..hi /\ Gives(GetResponse(req), code, lo, hi)
              /\ IsPrefix(AnswerLine(hi - lo + 1), GetResponse(req))
      BY <2>1, <2>3, GetAnswer
    <3>2. lo \in Nat /\ code \in Codes
      BY DEF Codes
    <3>3. StartsWith(code, reply) /\ Body = Bytes(lo, hi)
      BY <2>1, <3>1, <3>2, GivesShape
    <3>4. CodeIs({200, 201})
      BY <2>2, <3>2, <3>3, CodeOf
    <3> DEFINE b == Body
    <3>5. b = Bytes(lo, hi)
      BY <3>3
    <3> HIDE DEF b
    <3>6. /\ ToSet(b) = {Byte(i) : i \in lo..hi}
          /\ \A j, k \in DOMAIN b : j < k => b[j] < b[k]
      BY <3>1, <3>2, <3>5, BytesInOrder
    <3>7. IsPrefix(AnswerLine(Len(b)), reply)
      <4>1. Len(b) = hi - lo + 1
        BY <3>1, <3>2, <3>5, BytesAre
      <4> QED BY <2>1, <3>1, <4>1
    <3> QED BY <2>3, <3>1, <3>4, <3>6, <3>7 DEF b
  <2>4. CASE ~Found
    <3>1. PICK code \in {402, 405} : GetResponse(req) = Error(code)
      BY <2>1, <2>4, GetAnswer
    <3>2. code \in Codes
      BY DEF Codes
    <3>3. StartsWith(code, reply)
      BY <2>1, <3>1, <3>2, ErrorShape
    <3>4. ~CodeIs({200, 201})
      BY <2>2, <3>2, <3>3, CodeOf
    <3> QED BY <2>4, <3>4
  <2> QED BY <2>3, <2>4
<1>2. RequestInv => AnswersTheRange
  BY <1>1 DEF AnswersTheRange, Found
<1> QED BY <1>2, RequestInvariant, PTL
=============================================================================
