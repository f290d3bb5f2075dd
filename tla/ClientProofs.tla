---------------------------- MODULE ClientProofs ----------------------------
(***************************************************************************)
(* The proofs about module Client, for every site.                         *)
(* References is defined by recursion along the page: FoundStep shows, by  *)
(* Iteration (module Induction), that the definition has a value, and what *)
(* it adds with one more item.  The invariant ClientInv says that the part *)
(* of the page read so far is assembled (Assembling), that nothing was     *)
(* chosen before the page is shown (NotYetChosen), and that the row of     *)
(* each reference holds the longest path of those read there (Tails):      *)
(* nothing shorter could tell which of the names read back are longer than *)
(* the reference.                                                          *)
(***************************************************************************)
EXTENDS Client, Induction, SequenceTheorems

\* The two kinds of references.
LEMMA KindsAre == Kinds = {"REF", "IDX"}
BY DEF Kinds

(* The bound of an idx, as an equation: a range with two numerals for its     *)
(* ends is written out by the provers.                                        *)
LEMMA MaxIdxIs == MaxIdx = 65535
BY DEF MaxIdx

(* The recursive definition of Found has a value: it is the second component  *)
(* of a pair, of a number of items and their references, that is iterated.    *)
LEMMA FoundStep ==
  ASSUME NEW u \in URL, NEW k \in Kinds
  PROVE  /\ Found(u, k)[0] = <<>>
         /\ \A n \in Nat : Found(u, k)[n + 1] = IF Content[u][n + 1].kind = k
                                                THEN Append(Found(u, k)[n], Content[u][n + 1])
                                                ELSE Found(u, k)[n]
<1> DEFINE V == {Content[u][n] : n \in Nat}
           S == Nat \X Seq(V)
           a == <<0, <<>>>>
           f == [p \in S |-> <<p[1] + 1, IF Content[u][p[1] + 1].kind = k
                                         THEN Append(p[2], Content[u][p[1] + 1]) ELSE p[2]>>]
           Step(g) == [n \in Nat |-> IF n = 0 THEN <<>>
                                     ELSE IF Content[u][n].kind = k THEN Append(g[n - 1], Content[u][n])
                                     ELSE g[n - 1]]
<1>1. a \in S
  <2> HIDE DEF V
  <2>1. <<>> \in Seq(V)
    BY EmptySeq
  <2> QED BY <2>1
<1>2. f \in [S -> S]
  <2> DEFINE F(p) == <<p[1] + 1, IF Content[u][p[1] + 1].kind = k
                                 THEN Append(p[2], Content[u][p[1] + 1]) ELSE p[2]>>
  <2> SUFFICES ASSUME NEW p \in S PROVE F(p) \in S
    <3> HIDE DEF S
    <3> QED OBVIOUS
  <2>1. p[1] \in Nat /\ p[2] \in Seq(V) /\ p[1] + 1 \in Nat
    OBVIOUS
  <2>2. Content[u][p[1] + 1] \in V
    BY <2>1
  <2> HIDE DEF V
  <2>3. Append(p[2], Content[u][p[1] + 1]) \in Seq(V)
    BY <2>1, <2>2, AppendProperties
  <2> QED BY <2>1, <2>3
<1>3. PICK q \in [Nat -> S] : q[0] = a /\ \A n \in Nat : q[n + 1] = f[q[n]]
  <2> HIDE DEF S, f, a
  <2>1. \E q : IsIteration(q, S, a, f)
    BY <1>1, <1>2, Iteration
  <2> QED BY <2>1 DEF IsIteration
<1> HIDE DEF V
<1>4. \A n \in Nat : q[n] \in S
  BY <1>3
<1>5. \A n \in Nat : q[n][1] = n
  <2> DEFINE P == {n \in Nat : q[n][1] = n}
  <2>1. 0 \in P
    BY <1>3
  <2>2. ASSUME NEW n \in P PROVE n + 1 \in P
    <3>1. n \in Nat /\ q[n] \in S /\ q[n + 1] = f[q[n]] /\ q[n][1] = n
      BY <1>3, <1>4
    <3>2. q[n + 1][1] = n + 1
      BY <3>1
    <3> QED BY <3>1, <3>2
  <2>3. P \in SUBSET Nat
    OBVIOUS
  <2>4. P = Nat
    <3> HIDE DEF P
    <3> QED BY <2>1, <2>2, <2>3, SetInduction
  <2> QED BY <2>4
<1> DEFINE g == [n \in Nat |-> q[n][2]]
<1>6. g = Step(g)
  <2>1. ASSUME NEW n \in Nat PROVE g[n] = Step(g)[n]
    <3>1. CASE n = 0
      BY <1>3, <3>1
    <3>2. CASE n # 0
      <4>1. n - 1 \in Nat /\ (n - 1) + 1 = n
        BY <3>2
      <4> PICK m \in Nat : m = n - 1
        BY <4>1
      <4>2. n = m + 1
        OBVIOUS
      <4>3. q[m + 1] = f[q[m]] /\ q[m] \in S /\ q[m][1] = m
        BY <1>3, <1>4, <1>5
      <4>4. q[m + 1][2] = IF Content[u][m + 1].kind = k THEN Append(q[m][2], Content[u][m + 1])
                          ELSE q[m][2]
        <5>1. q[m][1] + 1 = m + 1
          BY <4>3
        <5>2. f[q[m]][2] = IF Content[u][q[m][1] + 1].kind = k
                           THEN Append(q[m][2], Content[u][q[m][1] + 1]) ELSE q[m][2]
          <6> HIDE DEF S
          <6> QED BY <4>3
        <5> QED BY <4>3, <5>1, <5>2
      <4> QED BY <3>2, <4>2, <4>4
    <3> QED BY <3>1, <3>2
  <2> HIDE DEF g
  <2>2. g = [n \in Nat |-> g[n]]
    BY DEF g
  <2> QED BY <2>1, <2>2
<1>7. Found(u, k) = CHOOSE h : h = Step(h)
  BY DEF Found
<1>8. Found(u, k) = Step(Found(u, k))
  <2> HIDE DEF Step, g
  <2> QED BY <1>6, <1>7
<1> DEFINE r == Found(u, k)
<1>9. \A n \in Nat : r[n] = Step(r)[n]
  BY <1>8
<1> HIDE DEF r
<1>10. r[0] = <<>>
  BY <1>9
<1>11. ASSUME NEW n \in Nat
       PROVE  r[n + 1] = IF Content[u][n + 1].kind = k THEN Append(r[n], Content[u][n + 1]) ELSE r[n]
  <2>1. n + 1 \in Nat /\ n + 1 # 0 /\ (n + 1) - 1 = n
    OBVIOUS
  <2>2. r[n + 1] = Step(r)[n + 1]
    BY <1>9, <2>1
  <2> QED BY <2>1, <2>2
<1> QED BY <1>10, <1>11 DEF r
-----------------------------------------------------------------------------
(* The pages *)

\* What a reference is made of.
LEMMA ReferenceItems ==
  ASSUME NEW x \in Item, x.kind \in Kinds
  PROVE  /\ x.url \in URL /\ x.idx \in 0..MaxIdx
         /\ Length[x.url] \in Nat \ {0}
<1>1. CASE x \in [kind : {"text", "bad"}, idx : Nat, url : {NoURL}]
  BY <1>1, KindsAre
<1>2. CASE x \in [kind : {"REF"}, idx : {0}, url : URL]
  <2>1. x.url \in URL /\ x.idx = 0
    BY <1>2
  <2>2. x.idx \in 0..MaxIdx
    BY <2>1, MaxIdxIs
  <2> QED BY <2>1, <2>2, PagesAssumption
<1>3. CASE x \in [kind : {"IDX"}, idx : 0..MaxIdx, url : URL]
  <2>1. x.url \in URL /\ x.idx \in 0..MaxIdx
    BY <1>3
  <2> QED BY <2>1, PagesAssumption
<1> QED BY <1>1, <1>2, <1>3 DEF Item

\* A page is a sequence of items.
LEMMA PageItems ==
  ASSUME NEW u \in URL
  PROVE  /\ Content[u] \in Seq(Item) /\ Len(Content[u]) \in Nat
         /\ DOMAIN Content[u] = 1..Len(Content[u])
         /\ \A i \in 1..Len(Content[u]) : Content[u][i] \in Item /\ Content[u][i] \in SiteItems
<1>1. Content[u] \in Seq(Item)
  BY PagesAssumption
<1>2. \A i \in DOMAIN Content[u] : Content[u][i] \in SiteItems
  BY DEF SiteItems, ToSet
<1> QED BY <1>1, <1>2, LenProperties, ElementOfSeq

OfKind(k) == {x \in Item \cap SiteItems : x.kind = k}

(* The references found in a part of a page are of the kind looked for, and   *)
(* no more than its items.                                                    *)
LEMMA FoundTypes ==
  ASSUME NEW u \in URL, NEW k \in Kinds
  PROVE  \A n \in 0..Len(Content[u]) :
             Found(u, k)[n] \in Seq(OfKind(k)) /\ Len(Found(u, k)[n]) \in 0..n
<1> DEFINE N == Len(Content[u])
           r == Found(u, k)
           G(n) == r[n] \in Seq(OfKind(k)) /\ Len(r[n]) \in 0..n
           P == {n \in Nat : n <= N => G(n)}
<1>1. N \in Nat
  BY PageItems
<1>2. \A n \in 1..N : Content[u][n] \in Item \cap SiteItems
  BY PageItems
<1>3. r[0] = <<>> /\ \A n \in Nat : r[n + 1] = IF Content[u][n + 1].kind = k
                                              THEN Append(r[n], Content[u][n + 1]) ELSE r[n]
  BY FoundStep
<1> HIDE DEF N, r
<1>4. G(0)
  BY <1>3, EmptySeq
<1>5. ASSUME NEW n \in P PROVE n + 1 \in P
  <2>1. n \in Nat /\ n + 1 \in Nat
    OBVIOUS
  <2> SUFFICES ASSUME n + 1 <= N PROVE G(n + 1)
    BY <2>1
  <2>2. G(n) /\ n + 1 \in 1..N
    BY <1>1, <2>1
  <2>3. CASE Content[u][n + 1].kind = k
    <3>1. r[n + 1] = Append(r[n], Content[u][n + 1])
      BY <1>3, <2>1, <2>3
    <3>2. Content[u][n + 1] \in OfKind(k)
      BY <1>2, <2>2, <2>3 DEF OfKind
    <3> QED BY <2>1, <2>2, <3>1, <3>2, AppendProperties
  <2>4. CASE Content[u][n + 1].kind # k
    <3>1. r[n + 1] = r[n]
      BY <1>3, <2>1, <2>4
    <3> QED BY <2>1, <2>2, <3>1
  <2> QED BY <2>3, <2>4
<1>6. P = Nat
  <2>1. P \in SUBSET Nat /\ 0 \in P
    BY <1>4
  <2> HIDE DEF P
  <2> QED BY <1>5, <2>1, SetInduction
<1>7. ASSUME NEW n \in 0..N PROVE G(n)
  <2>1. n \in P
    BY <1>1, <1>6
  <2> QED BY <1>1, <2>1
<1> QED BY <1>7 DEF r, N

\* So are those of the whole page.
LEMMA ReferencesOfPage ==
  ASSUME NEW u \in URL, NEW k \in Kinds
  PROVE  /\ References[u][k] = Found(u, k)[Len(Content[u])]
         /\ References[u][k] \in Seq(OfKind(k)) /\ Len(References[u][k]) \in Nat
         /\ DOMAIN References[u][k] = 1..Len(References[u][k])
         /\ \A i \in DOMAIN References[u][k] :
                /\ References[u][k][i] \in OfKind(k)
                /\ References[u][k][i].url \in URL /\ References[u][k][i].idx \in 0..MaxIdx
                /\ Length[References[u][k][i].url] \in Nat \ {0}
<1>1. References[u][k] = Found(u, k)[Len(Content[u])]
  BY DEF References
<1>2. Len(Content[u]) \in 0..Len(Content[u])
  BY PageItems
<1> DEFINE r == References[u][k]
<1>3. r \in Seq(OfKind(k))
  BY <1>1, <1>2, FoundTypes
<1> HIDE DEF r
<1>4. Len(r) \in Nat /\ DOMAIN r = 1..Len(r)
  BY <1>3, LenProperties
<1>5. ASSUME NEW i \in DOMAIN r
      PROVE  /\ r[i] \in OfKind(k) /\ r[i].url \in URL /\ r[i].idx \in 0..MaxIdx
             /\ Length[r[i].url] \in Nat \ {0}
  <2>1. r[i] \in OfKind(k)
    BY <1>3, <1>4, ElementOfSeq
  <2>2. r[i] \in Item /\ r[i].kind \in Kinds
    BY <2>1 DEF OfKind
  <2> QED BY <2>1, <2>2, ReferenceItems
<1>6. Found(u, k)[Len(Content[u])] = r
  BY <1>1 DEF r
<1>7. References[u][k] = r
  BY DEF r
<1> QED BY <1>3, <1>4, <1>5, <1>6, <1>7
-----------------------------------------------------------------------------
(* The invariant *)

Typed ==
    /\ TypeOK
    /\ place \in Nat
    /\ pc \in {"get", "parse", "ask"} => url \in URL
    /\ links \in Seq(OfKind("IDX"))

\* The part of the page that was read is assembled, and has no error.
Assembling ==
    pc = "parse" \/ (pc = "ask" /\ whole) =>
        /\ Len(buf) = place /\ \A i \in 1..place : buf[i] = Assembled(url)[i]
        /\ links = Found(url, "IDX")[place]
        /\ \A i \in 1..place : Content[url][i].kind # "bad"
        /\ pc = "ask" => place = Len(Content[url])

NotYetChosen == pc \in {"parse", "ask"} => chosen = None

\* The path in a row is the longest of those that the pages read have there.
Longest(len, pages, k, i) ==
    /\ \A p \in pages : i \in Kept(p, k) => Length[References[p][k][i].url] <= len
    /\ len = 0 \/ \E p \in pages : i \in Kept(p, k) /\ len = Length[References[p][k][i].url]

Tails == \A k \in Kinds : \A i \in 1..MAXNUMREF : Longest(rows[k][i], seen[k], k, i)

ClientInv == Typed /\ Assembling /\ NotYetChosen /\ Tails
-----------------------------------------------------------------------------
(* The dispatcher *)

\* The references that are kept are references and have a row.
LEMMA KeptRows ==
  ASSUME NEW u \in URL, NEW k \in Kinds
  PROVE  /\ Kept(u, k) \subseteq 1..MAXNUMREF /\ Kept(u, k) \subseteq DOMAIN References[u][k]
         /\ \A i \in Kept(u, k) : /\ References[u][k][i].url \in URL
                                  /\ Length[References[u][k][i].url] \in Nat \ {0}
<1>1. MAXNUMREF \in Nat
  BY PagesAssumption
<1>2. \A i \in DOMAIN References[u][k] : i \in Nat /\ 1 <= i
  BY ReferencesOfPage
<1>3. \A i \in Kept(u, k) : i \in DOMAIN References[u][k] /\ i <= MAXNUMREF
  BY DEF Kept
<1> QED BY <1>1, <1>2, <1>3, ReferencesOfPage

\* Writing a row leaves the longer of the two paths.
LEMMA RowsWritten ==
  ASSUME NEW u \in URL, NEW k \in Kinds, NEW r \in [1..MAXNUMREF -> Nat]
  PROVE  /\ WriteRows(r, u, k) \in [1..MAXNUMREF -> Nat]
         /\ \A i \in 1..MAXNUMREF :
                IF i \in Kept(u, k) /\ Length[References[u][k][i].url] > r[i]
                THEN WriteRows(r, u, k)[i] = Length[References[u][k][i].url]
                ELSE WriteRows(r, u, k)[i] = r[i]
<1>1. \A i \in Kept(u, k) : Length[References[u][k][i].url] \in Nat
  BY KeptRows
<1> QED BY <1>1 DEF WriteRows

\* A row that holds the longest of the paths read does so after one more page.
LEMMA LongestWritten ==
  ASSUME NEW u \in URL, NEW k \in Kinds, NEW r \in [1..MAXNUMREF -> Nat],
         NEW pages \in SUBSET URL, NEW i \in 1..MAXNUMREF, Longest(r[i], pages, k, i)
  PROVE  Longest(WriteRows(r, u, k)[i], pages \cup {u}, k, i)
<1> DEFINE w == WriteRows(r, u, k)[i]
           len(p) == Length[References[p][k][i].url]
<1>1. r[i] \in Nat
  OBVIOUS
<1>2. \A p \in URL : i \in Kept(p, k) => len(p) \in Nat \ {0}
  BY KeptRows
<1>3. IF i \in Kept(u, k) /\ len(u) > r[i] THEN w = len(u) ELSE w = r[i]
  BY RowsWritten
<1> HIDE DEF w, len
<1>4. \A p \in pages : i \in Kept(p, k) => len(p) <= r[i]
  BY DEF Longest, len
<1>5. r[i] = 0 \/ \E p \in pages : i \in Kept(p, k) /\ r[i] = len(p)
  BY DEF Longest, len
<1>6. \A p \in pages \cup {u} : i \in Kept(p, k) => len(p) <= w
  BY <1>1, <1>2, <1>3, <1>4
<1>7. w = 0 \/ \E p \in pages \cup {u} : i \in Kept(p, k) /\ w = len(p)
  BY <1>3, <1>5
<1> QED BY <1>6, <1>7 DEF Longest, w, len

\* insertResource keeps the types and the invariant of the rows.
LEMMA ReadKeeps ==
  ASSUME rows \in Rows, seen \in [Kinds -> SUBSET URL],
         NEW u \in URL, NEW kinds \in SUBSET Kinds, Read(u, kinds)
  PROVE  /\ rows' \in Rows /\ seen' \in [Kinds -> SUBSET URL]
         /\ Tails => Tails'
<1>1. \A k \in Kinds : rows[k] \in [1..MAXNUMREF -> Nat]
  BY DEF Rows
<1>2. \A k \in Kinds : WriteRows(rows[k], u, k) \in [1..MAXNUMREF -> Nat]
  BY <1>1, RowsWritten
<1>3. /\ rows' = [k \in Kinds |-> IF k \in kinds THEN WriteRows(rows[k], u, k) ELSE rows[k]]
      /\ seen' = [k \in Kinds |-> IF k \in kinds THEN seen[k] \cup {u} ELSE seen[k]]
  BY DEF Read
<1>4. rows' \in Rows /\ seen' \in [Kinds -> SUBSET URL]
  BY <1>1, <1>2, <1>3 DEF Rows
<1>5. ASSUME Tails, NEW k \in Kinds, NEW i \in 1..MAXNUMREF
      PROVE  Longest(rows'[k][i], seen'[k], k, i)
  <2>1. Longest(rows[k][i], seen[k], k, i)
    BY <1>5 DEF Tails
  <2>2. CASE k \in kinds
    <3>1. rows'[k] = WriteRows(rows[k], u, k) /\ seen'[k] = seen[k] \cup {u}
      BY <1>3, <2>2
    <3>2. Longest(WriteRows(rows[k], u, k)[i], seen[k] \cup {u}, k, i)
      BY <1>1, <2>1, LongestWritten
    <3> QED BY <3>1, <3>2
  <2>3. CASE k \notin kinds
    <3>1. rows'[k] = rows[k] /\ seen'[k] = seen[k]
      BY <1>3, <2>3
    <3> QED BY <2>1, <3>1
  <2> QED BY <2>2, <2>3
<1> QED BY <1>4, <1>5 DEF Tails
-----------------------------------------------------------------------------
(* Every step *)

\* The item the client has come to.
LEMMA ThisItemIs ==
  ASSUME Typed, NEW kind, AtItem(kind)
  PROVE  /\ url \in URL /\ pc = "parse" /\ chosen \in None..MaxIdx
         /\ place \in Nat /\ place + 1 \in 1..Len(Content[url]) /\ Len(Content[url]) \in Nat
         /\ ThisItem \in Item /\ ThisItem \in SiteItems /\ ThisItem.kind = kind
         /\ kind \in Kinds => ThisItem \in OfKind(kind) /\ ThisItem.url \in URL
<1>1. url \in URL /\ pc = "parse" /\ chosen \in None..MaxIdx /\ place \in Nat
  BY DEF Typed, TypeOK, AtItem
<1>2. Len(Content[url]) \in Nat
  BY <1>1, PageItems
<1>3. place < Len(Content[url]) /\ ThisItem.kind = kind
  BY DEF AtItem, ThisItem
<1>4. place + 1 \in 1..Len(Content[url])
  BY <1>1, <1>2, <1>3
<1>5. ThisItem \in Item /\ ThisItem \in SiteItems
  BY <1>1, <1>4, PageItems DEF ThisItem
<1>6. ASSUME kind \in Kinds PROVE ThisItem \in OfKind(kind) /\ ThisItem.url \in URL
  BY <1>3, <1>5, <1>6, ReferenceItems DEF OfKind
<1> QED BY <1>1, <1>2, <1>3, <1>4, <1>5, <1>6

\* No step writes the rows but by reading a page.
LEMMA ReadsOrNot ==
  ASSUME Typed, [Next]_vars
  PROVE  \/ \E u \in URL, kinds \in SUBSET Kinds : Read(u, kinds)
         \/ rows' = rows /\ seen' = seen
<1>1. CASE UNCHANGED vars
  BY <1>1 DEF vars, dispVars
<1>2. CASE Exit
  BY <1>2 DEF Exit, dispVars
<1>3. CASE GetPage
  <2>1. url \in URL
    BY <1>3 DEF GetPage, Typed
  <2>2. Read(url, Kinds) \/ UNCHANGED <<rows, seen>>
    BY <1>3 DEF GetPage
  <2> QED BY <2>1, <2>2
<1>4. CASE GetPageFails
  BY <1>4 DEF GetPageFails, dispVars
<1>5. CASE ParseText \/ ParseLink \/ EmbedFails \/ ParseFails \/ ParseEnds
  BY <1>5 DEF ParseText, ParseLink, EmbedFails, ParseFails, ParseEnds, dispVars
<1>6. CASE Embed
  <2>1. AtItem("REF") /\ Answer(ThisItem.url)
    BY <1>6 DEF Embed
  <2>2. ThisItem.url \in URL
    BY <2>1, ThisItemIs, KindsAre
  <2> QED BY <2>1, <2>2 DEF Answer
<1>7. CASE Leave
  BY <1>7 DEF Leave
<1>8. ASSUME NEW u \in URL, NextURL(u) PROVE rows' = rows /\ seen' = seen
  BY <1>8 DEF NextURL, dispVars
<1>9. ASSUME NEW u \in URL, ReadOther(u) PROVE \E kinds \in SUBSET Kinds : Read(u, kinds)
  <2>1. {"REF"} \in SUBSET Kinds /\ Kinds \in SUBSET Kinds
    BY KindsAre
  <2> QED BY <1>9, <2>1 DEF ReadOther
<1>10. ASSUME NEW j \in DOMAIN links, Choose(j) PROVE rows' = rows /\ seen' = seen
  BY <1>10 DEF Choose
<1> QED BY <1>1, <1>2, <1>3, <1>4, <1>5, <1>6, <1>7, <1>8, <1>9, <1>10 DEF Next, GetAll

\* Nothing is chosen until a page is shown.
LEMMA NotYetChosenKept ==
  ASSUME NotYetChosen, [Next]_vars
  PROVE  NotYetChosen'
<1>1. CASE UNCHANGED vars
  BY <1>1 DEF vars, NotYetChosen
<1>2. CASE Exit
  BY <1>2 DEF Exit, NotYetChosen
<1>3. CASE GetPage \/ GetPageFails
  BY <1>3 DEF GetPage, GetPageFails, NotYetChosen
<1>4. CASE ParseText \/ ParseLink \/ Embed
  BY <1>4 DEF ParseText, ParseLink, Embed, NotYetChosen
<1>5. CASE EmbedFails \/ ParseFails \/ ParseEnds
  BY <1>5 DEF EmbedFails, ParseFails, ParseEnds, Fails, AtItem, NotYetChosen
<1>6. CASE Leave
  BY <1>6 DEF Leave, NotYetChosen
<1>7. ASSUME NEW u \in URL, NextURL(u) \/ ReadOther(u) PROVE NotYetChosen'
  BY <1>7 DEF NextURL, ReadOther, NotYetChosen
<1>8. ASSUME NEW j \in DOMAIN links, Choose(j) PROVE NotYetChosen'
  BY <1>8 DEF Choose, NotYetChosen
<1> QED BY <1>1, <1>2, <1>3, <1>4, <1>5, <1>6, <1>7, <1>8 DEF Next, GetAll

\* The links of the page.
LEMMA LinkTypes ==
  ASSUME Typed
  PROVE  /\ Len(links) \in Nat /\ DOMAIN links = 1..Len(links)
         /\ \A j \in DOMAIN links : links[j] \in Item /\ links[j].url \in URL /\ links[j].idx \in 0..MaxIdx
<1>1. links \in Seq(OfKind("IDX"))
  BY DEF Typed
<1>2. Len(links) \in Nat /\ DOMAIN links = 1..Len(links)
  BY <1>1, LenProperties
<1>3. \A j \in DOMAIN links : links[j] \in OfKind("IDX")
  BY <1>1, <1>2, ElementOfSeq
<1>4. \A x \in OfKind("IDX") : x \in Item /\ x.kind \in Kinds
  BY KindsAre DEF OfKind
<1> QED BY <1>2, <1>3, <1>4, ReferenceItems

(* What the loop over the links of navigaFromRisorsa finds: the first of      *)
(* those with the idx looked for.                                             *)
LEMMA TargetIs ==
  ASSUME Typed, NEW ch
  PROVE  IF whole /\ Matching(ch) # {}
         THEN \E j \in Matching(ch) : Target(ch) = links[j].url /\ \A i \in Matching(ch) : j <= i
         ELSE Target(ch) = url
<1>1. CASE whole /\ Matching(ch) # {}
  <2>1. Matching(ch) \in SUBSET Nat
    BY LinkTypes DEF Matching
  <2>2. \E j \in Matching(ch) : \A i \in Matching(ch) : j <= i
    BY <1>1, <2>1, LeastNatural
  <2> DEFINE m == CHOOSE j \in Matching(ch) : \A i \in Matching(ch) : j <= i
  <2>3. m \in Matching(ch) /\ \A i \in Matching(ch) : m <= i
    BY <2>2
  <2>4. Target(ch) = links[m].url
    BY <1>1 DEF Target
  <2> HIDE DEF m
  <2> QED BY <1>1, <2>3, <2>4
<1>2. CASE ~(whole /\ Matching(ch) # {})
  BY <1>2 DEF Target
<1> QED BY <1>1, <1>2

\* It leads to a URL.
LEMMA TargetTyped ==
  ASSUME Typed, url \in URL, NEW ch
  PROVE  Target(ch) \in URL
<1>1. \A j \in Matching(ch) : links[j].url \in URL
  BY LinkTypes DEF Matching
<1> QED BY <1>1, TargetIs

\* The names the dispatcher looks up.
LEMMA NamesTyped ==
  ASSUME NEW u \in URL, NEW k \in Kinds, NEW r
  PROVE  Names(r, u, k) \subseteq [kind : Kinds, url : URL, exact : BOOLEAN]
<1>1. ASSUME NEW i \in Kept(u, k)
      PROVE  ReadRow(r, u, k, i) \in [kind : Kinds, url : URL, exact : BOOLEAN]
  <2>1. References[u][k][i].url \in URL
    BY KeptRows
  <2>2. (Length[References[u][k][i].url] >= r[i]) \in BOOLEAN
    OBVIOUS
  <2> QED BY <2>1, <2>2 DEF ReadRow
<1> QED BY <1>1 DEF Names

Shown == SiteItems \cup {Object(u) : u \in URL}

\* The parts of Typed, apart from the dispatcher's.
PageTyped ==
    /\ mode \in 0..2 /\ left \in 0..MaxURLs
    /\ pc \in {"next", "get", "parse", "ask", "exit"}
    /\ url \in URL \cup {NoURL}
    /\ pc \in {"get", "parse", "ask"} => url \in URL
    /\ place \in Nat
    /\ pc \in {"parse", "ask"} => place \in 0..Len(Content[url])
    /\ buf \in Seq(Shown) /\ Len(buf) <= place
    /\ links \in Seq(OfKind("IDX")) /\ Len(links) <= place
    /\ whole \in BOOLEAN /\ fresh \in BOOLEAN
    /\ chosen \in None..MaxIdx
    /\ wanted \subseteq [kind : Kinds, url : URL, exact : BOOLEAN]

\* TypeOK in the form that the steps keep, and the dispatcher's part of it.
LEMMA TypedParts == Typed <=> PageTyped /\ rows \in Rows /\ seen \in [Kinds -> SUBSET URL]
<1>1. OfKind("IDX") \subseteq SiteItems
  BY DEF OfKind
<1>2. links \in Seq(OfKind("IDX")) => links \in Seq(SiteItems)
  BY <1>1, SeqMonotonic
<1> QED BY <1>2 DEF Typed, TypeOK, PageTyped, Shown

\* Every step keeps the types of the client's state.
LEMMA PageTypedKept ==
  ASSUME Typed, [Next]_vars
  PROVE  PageTyped'
<1>1. PageTyped
  BY TypedParts
<1>2. MaxURLs \in Nat /\ None \in None..MaxIdx /\ \A i \in 0..MaxIdx : i \in None..MaxIdx
  <2>1. MaxIdx \in Nat
    BY MaxIdxIs
  <2> QED BY <2>1, ClientAssumption DEF None
<1>3. CASE UNCHANGED vars
  BY <1>1, <1>3 DEF vars, pageVars, dispVars, PageTyped
<1>4. CASE Exit
  BY <1>1, <1>4 DEF Exit, pageVars, dispVars, PageTyped
<1>5. ASSUME NEW u \in URL, NextURL(u) PROVE PageTyped'
  BY <1>1, <1>2, <1>5 DEF NextURL, pageVars, dispVars, PageTyped
<1>6. ASSUME NEW u \in URL, ReadOther(u) PROVE PageTyped'
  BY <1>1, <1>6 DEF ReadOther, pageVars, PageTyped
<1>7. <<>> \in Seq(Shown) /\ <<>> \in Seq(OfKind("IDX")) /\ Len(<<>>) = 0
  BY EmptySeq
<1>8. CASE GetPage
  <2>1. url \in URL
    BY <1>1, <1>8 DEF GetPage, PageTyped
  <2>2. Len(Content[url]) \in Nat
    BY <2>1, PageItems
  <2>3. wanted' \subseteq [kind : Kinds, url : URL, exact : BOOLEAN]
    <3>1. \A k \in Kinds : Names(rows[k], url, k) \subseteq [kind : Kinds, url : URL, exact : BOOLEAN]
      BY <2>1, NamesTyped
    <3>2. wanted' = UNION {Names(rows[k], url, k) : k \in Kinds} \/ wanted' = {}
      BY <1>8 DEF GetPage
    <3> QED BY <3>1, <3>2
  <2>4. /\ mode' = mode /\ left' = left /\ pc' = "parse" /\ url' = url /\ place' = 0
        /\ buf' = <<>> /\ links' = <<>> /\ whole' = whole /\ fresh' \in BOOLEAN /\ chosen' = None
    BY <1>8 DEF GetPage, InitMDV
  <2> QED BY <1>1, <1>2, <1>7, <2>1, <2>2, <2>3, <2>4 DEF PageTyped
<1>9. CASE GetPageFails
  <2>1. url \in URL
    BY <1>1, <1>9 DEF GetPageFails, PageTyped
  <2>2. Len(Content[url]) \in Nat
    BY <2>1, PageItems
  <2>3. /\ mode' = mode /\ left' = left /\ pc' = "ask" /\ url' = url /\ place' = 0
        /\ buf' = <<>> /\ links' = <<>> /\ whole' \in BOOLEAN /\ fresh' = fresh /\ chosen' = None
        /\ wanted' = wanted
    BY <1>9 DEF GetPageFails, InitMDV, dispVars
  <2> QED BY <1>1, <1>2, <1>7, <2>1, <2>2, <2>3 DEF PageTyped
<1>10. ASSUME NEW kind, AtItem(kind), place' = place + 1,
              mode' = mode, left' = left, url' = url, pc' \in {"parse", "ask"},
              whole' \in BOOLEAN, fresh' = fresh, chosen' = chosen, wanted' = wanted,
              \/ buf' = buf
              \/ buf' = Append(buf, ThisItem)
              \/ ThisItem.kind \in Kinds /\ buf' = Append(buf, Object(ThisItem.url)),
              \/ links' = links
              \/ kind = "IDX" /\ links' = Append(links, ThisItem)
       PROVE  PageTyped'
  <2>1. /\ url \in URL /\ place \in Nat /\ place + 1 \in 1..Len(Content[url])
        /\ ThisItem \in SiteItems /\ ThisItem.kind = kind
        /\ Len(Content[url]) \in Nat
        /\ kind \in Kinds => ThisItem \in OfKind(kind) /\ ThisItem.url \in URL
    BY <1>10, ThisItemIs
  <2>2. buf' \in Seq(Shown) /\ Len(buf') <= place + 1
    <3>1. buf \in Seq(Shown) /\ Len(buf) <= place
      BY <1>1 DEF PageTyped
    <3>2. \A x \in Shown : Append(buf, x) \in Seq(Shown) /\ Len(Append(buf, x)) = Len(buf) + 1
      BY <3>1, AppendProperties
    <3>3. ThisItem \in Shown /\ (ThisItem.kind \in Kinds => Object(ThisItem.url) \in Shown)
      BY <2>1 DEF Shown
    <3>4. Len(buf) \in Nat
      BY <3>1, LenProperties
    <3>5. \/ buf' = buf
          \/ \E x \in Shown : buf' = Append(buf, x)
      BY <1>10, <3>3
    <3>6. CASE buf' = buf
      BY <2>1, <3>1, <3>4, <3>6
    <3>7. ASSUME NEW x \in Shown, buf' = Append(buf, x) PROVE buf' \in Seq(Shown) /\ Len(buf') <= place + 1
      <4>1. buf' \in Seq(Shown) /\ Len(buf') = Len(buf) + 1
        BY <3>2, <3>7
      <4> QED BY <2>1, <3>1, <3>4, <4>1
    <3> QED BY <3>5, <3>6, <3>7
  <2>3. links' \in Seq(OfKind("IDX")) /\ Len(links') <= place + 1
    <3>1. links \in Seq(OfKind("IDX")) /\ Len(links) <= place
      BY <1>1 DEF PageTyped
    <3>2. \A x \in OfKind("IDX") : Append(links, x) \in Seq(OfKind("IDX"))
                                   /\ Len(Append(links, x)) = Len(links) + 1
      BY <3>1, AppendProperties
    <3>3. Len(links) \in Nat
      BY <3>1, LenProperties
    <3>4. kind = "IDX" => ThisItem \in OfKind("IDX")
      BY <2>1, KindsAre
    <3> QED BY <1>10, <2>1, <3>1, <3>2, <3>3, <3>4
  <2> QED BY <1>1, <1>10, <2>1, <2>2, <2>3 DEF PageTyped
<1>11. whole \in BOOLEAN /\ (\A kind : AtItem(kind) => pc = "parse")
  BY <1>1 DEF PageTyped, AtItem
<1>12. CASE ParseText
  BY <1>10, <1>11, <1>12 DEF ParseText, dispVars
<1>13. CASE ParseLink
  BY <1>10, <1>11, <1>13 DEF ParseLink, dispVars
<1>14. CASE Embed
  <2>1. ThisItem.kind \in Kinds
    BY <1>14, ThisItemIs, KindsAre DEF Embed
  <2> QED BY <1>10, <1>11, <1>14, <2>1 DEF Embed, AddObject
<1>15. CASE EmbedFails \/ ParseFails
  BY <1>10, <1>15 DEF EmbedFails, ParseFails, Fails, dispVars
<1>16. CASE ParseEnds
  BY <1>1, <1>16 DEF ParseEnds, pageVars, dispVars, PageTyped
<1>17. CASE Leave
  BY <1>1, <1>2, <1>17 DEF Leave, Turn, pageVars, PageTyped
<1>18. ASSUME NEW j \in DOMAIN links, Choose(j) PROVE PageTyped'
  <2>1. url \in URL
    BY <1>1, <1>18 DEF Choose, PageTyped
  <2>2. chosen' \in None..MaxIdx
    BY <1>2, <1>18, LinkTypes DEF Choose
  <2>3. (pc' = "next" /\ url' = url) \/ (pc' = "get" /\ url' \in URL)
    BY <1>18, <2>1, TargetTyped DEF Choose
  <2>4. /\ mode' = mode /\ left' = left /\ place' = place /\ buf' = buf /\ links' = links
        /\ whole' = whole /\ fresh' = FALSE /\ wanted' = {}
    BY <1>18 DEF Choose, Turn, pageVars
  <2> QED BY <1>1, <2>1, <2>2, <2>3, <2>4 DEF PageTyped
<1> QED BY <1>3, <1>4, <1>5, <1>6, <1>8, <1>9, <1>12, <1>13, <1>14, <1>15, <1>16, <1>17, <1>18
    DEF Next, GetAll

\* Every step keeps all the types.
LEMMA TypedKept ==
  ASSUME Typed, [Next]_vars
  PROVE  Typed'
<1>1. rows \in Rows /\ seen \in [Kinds -> SUBSET URL]
  BY TypedParts
<1>2. PageTyped'
  BY PageTypedKept
<1>3. rows' \in Rows /\ seen' \in [Kinds -> SUBSET URL]
  BY <1>1, ReadsOrNot, ReadKeeps
<1>4. (Typed <=> PageTyped /\ rows \in Rows /\ seen \in [Kinds -> SUBSET URL])'
  BY TypedParts, PTL
<1> QED BY <1>2, <1>3, <1>4

\* Every step keeps the longest paths in the rows.
LEMMA TailsKept ==
  ASSUME Typed, Tails, [Next]_vars
  PROVE  Tails'
<1>1. rows \in Rows /\ seen \in [Kinds -> SUBSET URL]
  BY TypedParts
<1>2. ASSUME NEW u \in URL, NEW kinds \in SUBSET Kinds, Read(u, kinds) PROVE Tails'
  BY <1>1, <1>2, ReadKeeps
<1>3. ASSUME rows' = rows, seen' = seen PROVE Tails'
  BY <1>3 DEF Tails
<1> QED BY <1>2, <1>3, ReadsOrNot

(* Every step of parse adds the item it has read, or its object, to the page  *)
(* assembled so far; the other steps begin a page or leave it alone.          *)
LEMMA AssemblingKept ==
  ASSUME Typed, Assembling, [Next]_vars
  PROVE  Assembling'
<1>1. CASE UNCHANGED vars
  BY <1>1 DEF vars, pageVars, Assembling
<1>2. CASE Exit
  BY <1>2 DEF Exit, Assembling
<1>3. ASSUME NEW u \in URL, NextURL(u) PROVE Assembling'
  BY <1>3 DEF NextURL, Assembling
<1>4. ASSUME NEW u \in URL, ReadOther(u) PROVE Assembling'
  BY <1>4 DEF ReadOther, pageVars, Assembling
<1>5. CASE GetPage
  <2>1. url \in URL
    BY <1>5 DEF GetPage, Typed
  <2>2. Found(url, "IDX")[0] = <<>>
    BY <2>1, FoundStep, KindsAre
  <2>3. pc' = "parse" /\ buf' = <<>> /\ links' = <<>> /\ place' = 0 /\ url' = url
    BY <1>5 DEF GetPage, InitMDV
  <2> QED BY <2>2, <2>3 DEF Assembling
<1>6. CASE GetPageFails
  BY <1>6 DEF GetPageFails, Assembling
<1>7. CASE EmbedFails \/ ParseFails
  BY <1>7 DEF EmbedFails, ParseFails, Fails, Assembling
<1>8. ASSUME NEW kind \in {"text", "IDX", "REF"}, AtItem(kind), place' = place + 1, url' = url, pc' = pc,
             buf' = Append(buf, IF kind = "REF" THEN Object(ThisItem.url) ELSE ThisItem),
             links' = IF kind = "IDX" THEN Append(links, ThisItem) ELSE links
      PROVE  Assembling'
  <2>1. /\ url \in URL /\ pc = "parse" /\ place \in Nat /\ place + 1 \in 1..Len(Content[url])
        /\ Len(Content[url]) \in Nat /\ ThisItem \in SiteItems /\ ThisItem.kind = kind
        /\ kind \in Kinds => ThisItem.url \in URL
    BY <1>8, ThisItemIs
  <2>2. /\ Len(buf) = place /\ \A i \in 1..place : buf[i] = Assembled(url)[i]
        /\ links = Found(url, "IDX")[place]
        /\ \A i \in 1..place : Content[url][i].kind # "bad"
    BY <2>1 DEF Assembling
  <2>3. Assembled(url)[place + 1] = IF kind = "REF" THEN Object(ThisItem.url) ELSE ThisItem
    <3>1. place + 1 \in DOMAIN Content[url]
      BY <2>1, PageItems
    <3> QED BY <2>1, <3>1 DEF Assembled, ThisItem
  <2> DEFINE x == IF kind = "REF" THEN Object(ThisItem.url) ELSE ThisItem
  <2>4. buf \in Seq(Shown) /\ x \in Shown
    <3>1. buf \in Seq(Shown)
      BY TypedParts DEF PageTyped
    <3>2. kind = "REF" => ThisItem.url \in URL
      BY <2>1, KindsAre
    <3> QED BY <2>1, <3>1, <3>2 DEF Shown
  <2>5. Len(buf') = place + 1 /\ \A i \in 1..(place + 1) : buf'[i] = Assembled(url)[i]
    <3>1. buf' = Append(buf, x)
      BY <1>8
    <3>2. Assembled(url)[place + 1] = x
      BY <2>3
    <3> HIDE DEF x
    <3>3. /\ Len(Append(buf, x)) = Len(buf) + 1 /\ Append(buf, x)[Len(buf) + 1] = x
          /\ \A i \in 1..Len(buf) : Append(buf, x)[i] = buf[i]
      BY <2>4, AppendProperties
    <3> QED BY <2>1, <2>2, <3>1, <3>2, <3>3
  <2>6. links' = Found(url, "IDX")[place + 1]
    <3>1. Found(url, "IDX")[place + 1] = IF Content[url][place + 1].kind = "IDX"
                                         THEN Append(Found(url, "IDX")[place], Content[url][place + 1])
                                         ELSE Found(url, "IDX")[place]
      BY <2>1, FoundStep, KindsAre
    <3> QED BY <1>8, <2>1, <2>2, <3>1 DEF ThisItem
  <2>7. \A i \in 1..(place + 1) : Content[url][i].kind # "bad"
    <3>1. Content[url][place + 1].kind = kind
      BY <2>1 DEF ThisItem
    <3> QED BY <2>1, <2>2, <3>1
  <2> QED BY <1>8, <2>1, <2>5, <2>6, <2>7 DEF Assembling
<1>9. CASE ParseText
  <2>1. /\ AtItem("text") /\ place' = place + 1 /\ url' = url /\ pc' = pc
        /\ buf' = Append(buf, ThisItem) /\ links' = links
    BY <1>9 DEF ParseText
  <2> QED BY <1>8, <2>1
<1>10. CASE ParseLink
  <2>1. /\ AtItem("IDX") /\ place' = place + 1 /\ url' = url /\ pc' = pc
        /\ buf' = Append(buf, ThisItem) /\ links' = Append(links, ThisItem)
    BY <1>10 DEF ParseLink
  <2> QED BY <1>8, <2>1
<1>11. CASE Embed
  <2>1. /\ AtItem("REF") /\ place' = place + 1 /\ url' = url /\ pc' = pc
        /\ buf' = Append(buf, Object(ThisItem.url)) /\ links' = links
    BY <1>11 DEF Embed, AddObject
  <2> QED BY <1>8, <2>1
<1>12. CASE ParseEnds
  <2>1. pc = "parse" /\ place = Len(Content[url]) /\ pc' = "ask" /\ url' = url
        /\ place' = place /\ buf' = buf /\ links' = links
    BY <1>12 DEF ParseEnds, pageVars
  <2> QED BY <2>1 DEF Assembling
<1>13. CASE Leave
  BY <1>13 DEF Leave, Assembling
<1>14. ASSUME NEW j \in DOMAIN links, Choose(j) PROVE Assembling'
  BY <1>14 DEF Choose, Assembling
<1> QED BY <1>1, <1>2, <1>3, <1>4, <1>5, <1>6, <1>7, <1>9, <1>10, <1>11, <1>12, <1>13, <1>14
    DEF Next, GetAll
-----------------------------------------------------------------------------
(* The theorems *)

\* The invariant holds initially.
LEMMA ClientInvInit == Init => ClientInv
<1> SUFFICES ASSUME Init PROVE ClientInv
  OBVIOUS
<1>1. <<>> \in Seq(Shown) /\ <<>> \in Seq(OfKind("IDX")) /\ Len(<<>>) = 0
  BY EmptySeq
<1>2. rows \in Rows /\ seen \in [Kinds -> SUBSET URL]
  <2>1. [i \in 1..MAXNUMREF |-> 0] \in [1..MAXNUMREF -> Nat]
    OBVIOUS
  <2> QED BY <2>1 DEF Init, NewRows, Rows
<1>3. PageTyped
  <2>1. None \in None..MaxIdx
    BY MaxIdxIs DEF None
  <2>2. whole \in BOOLEAN /\ fresh \in BOOLEAN
    BY DEF Init
  <2>3. /\ mode \in 0..2 /\ left \in 0..MaxURLs /\ pc = "next" /\ url = NoURL
        /\ place = 0 /\ buf = <<>> /\ links = <<>> /\ chosen = None /\ wanted = {}
    BY DEF Init
  <2> QED BY <1>1, <2>1, <2>2, <2>3 DEF PageTyped
<1>4. Tails
  BY DEF Init, Tails, Longest, NewRows
<1>5. Assembling /\ NotYetChosen
  BY DEF Init, Assembling, NotYetChosen
<1> QED BY <1>2, <1>3, <1>4, <1>5, TypedParts DEF ClientInv

\* Every step keeps it.
LEMMA ClientInvKept == ClientInv /\ [Next]_vars => ClientInv'
BY TypedKept, AssemblingKept, NotYetChosenKept, TailsKept DEF ClientInv

\* The invariant of the client and the dispatcher beside it.
LEMMA ClientInvariant == Spec => []ClientInv
BY ClientInvInit, ClientInvKept, PTL DEF Spec

(* Client.c: the state of the client keeps its types; place never leaves the  *)
(* page, and the page in mdv never has more items than were read.             *)
THEOREM ClientTypeCorrect == Spec => []TypeOK
<1>1. ClientInv => TypeOK
  BY DEF ClientInv, Typed
<1> QED BY <1>1, ClientInvariant, PTL

\* When the page is shown all of it has been read: it is the assembled one.
LEMMA WholePage ==
  ASSUME ClientInv, pc = "ask", whole
  PROVE  /\ url \in URL
         /\ buf = Assembled(url) /\ links = References[url].IDX
         /\ \A i \in DOMAIN Content[url] : Content[url][i].kind # "bad"
<1>1. url \in URL /\ place \in Nat
  BY DEF ClientInv, Typed
<1>2. /\ place = Len(Content[url]) /\ Len(buf) = place
      /\ \A i \in 1..place : buf[i] = Assembled(url)[i]
      /\ links = Found(url, "IDX")[place]
      /\ \A i \in 1..place : Content[url][i].kind # "bad"
  BY DEF ClientInv, Assembling
<1>3. DOMAIN Content[url] = 1..place
  BY <1>1, <1>2, PageItems
<1>4. buf = Assembled(url)
  <2>1. buf \in Seq(Shown)
    BY TypedParts DEF ClientInv, PageTyped
  <2>2. buf \in [1..Len(buf) -> Shown]
    BY <2>1, LenProperties
  <2>3. buf = [i \in 1..place |-> buf[i]]
    BY <1>2, <2>2
  <2>4. Assembled(url) = [i \in 1..place |-> Assembled(url)[i]]
    BY <1>3 DEF Assembled
  <2> QED BY <1>2, <2>3, <2>4
<1>5. links = References[url].IDX
  <2>1. References[url]["IDX"] = Found(url, "IDX")[Len(Content[url])]
    BY <1>1, ReferencesOfPage, KindsAre
  <2> QED BY <1>2, <2>1
<1> QED BY <1>1, <1>2, <1>3, <1>4, <1>5

(* Client.c:520: on any site, the page shown is its source with every REF     *)
(* replaced by the object, in its place, with all its links, in order, and    *)
(* without an error.                                                          *)
THEOREM ShownPageIsAssembled == Spec => []PageAssembled
<1>1. ClientInv => PageAssembled
  BY WholePage DEF PageAssembled
<1> QED BY <1>1, ClientInvariant, PTL

\* An idx and its char are equal modulo 256.
LEMMA Chars ==
  ASSUME NEW x \in Int, NEW y \in Int, Char(x) = y
  PROVE  x % 256 = y % 256
BY DEF Char

\* A char holds the idx below 128.
LEMMA SmallChars ==
  ASSUME NEW x \in Int, 0 <= x, x < 128
  PROVE  Char(x) = x
BY DEF Char

\* A page that is shown is left for another only by a choice.
LEMMA OnlyChooseMoves ==
  ASSUME ClientInv, [Next]_vars, pc = "ask", url' # url \/ chosen' # None
  PROVE  \E j \in DOMAIN links : Choose(j)
<1>1. chosen = None
  BY DEF ClientInv, NotYetChosen
<1>2. CASE UNCHANGED vars
  BY <1>1, <1>2 DEF vars
<1>3. CASE Exit
  BY <1>3 DEF Exit
<1>4. CASE GetPage \/ GetPageFails
  BY <1>4 DEF GetPage, GetPageFails
<1>5. CASE ParseText \/ ParseLink \/ Embed \/ EmbedFails \/ ParseFails \/ ParseEnds
  BY <1>5 DEF ParseText, ParseLink, Embed, EmbedFails, ParseFails, ParseEnds, AtItem
<1>6. CASE Leave
  BY <1>6 DEF Leave
<1>7. ASSUME NEW u \in URL, NextURL(u) \/ ReadOther(u) PROVE FALSE
  BY <1>1, <1>7 DEF NextURL, ReadOther
<1> QED BY <1>2, <1>3, <1>4, <1>5, <1>6, <1>7 DEF Next, GetAll

(* Client.c:671: on any site, the client leaves a page for another one only   *)
(* if it was complete, and to a link of it with the idx chosen, modulo 256.   *)
THEOREM ClientNeverElsewhere == Spec => NeverElsewhere
<1> DEFINE A == pc = "ask" /\ url' # url =>
                  /\ buf = Assembled(url)
                  /\ \E l \in ToSet(References[url].IDX) : l.url = url' /\ l.idx % 256 = chosen' % 256
<1>1. ASSUME ClientInv, [Next]_vars PROVE A
  <2> SUFFICES ASSUME pc = "ask", url' # url
               PROVE  /\ buf = Assembled(url)
                      /\ \E l \in ToSet(References[url].IDX) : l.url = url' /\ l.idx % 256 = chosen' % 256
    OBVIOUS
  <2>1. PICK j \in DOMAIN links : Choose(j)
    BY <1>1, OnlyChooseMoves
  <2>2. Typed /\ url' = Target(Char(links[j].idx)) /\ chosen' = links[j].idx
    BY <1>1, <2>1 DEF Choose, ClientInv
  <2> DEFINE ch == Char(links[j].idx)
  <2>3. whole /\ \E i \in Matching(ch) : Target(ch) = links[i].url
    BY <2>2, TargetIs
  <2>4. PICK i \in Matching(ch) : Target(ch) = links[i].url
    BY <2>3
  <2>5. buf = Assembled(url) /\ links = References[url].IDX
    BY <1>1, <2>3, WholePage
  <2>6. i \in DOMAIN links /\ links[i].idx = ch
    BY DEF Matching
  <2>7. links[i] \in ToSet(References[url].IDX)
    BY <2>5, <2>6 DEF ToSet
  <2>8. links[i].idx % 256 = chosen' % 256
    <3>1. links[i].idx \in Int /\ links[j].idx \in Int
      BY <2>2, <2>6, LinkTypes
    <3> QED BY <2>2, <2>6, <3>1, Chars
  <2> QED BY <2>2, <2>4, <2>5, <2>7, <2>8
<1>2. ClientInv /\ [Next]_vars => [A]_vars
  BY <1>1
<1> QED BY <1>2, ClientInvariant, PTL DEF Spec, NeverElsewhere

(* Client.c:671: an idx below 128, other than the q, leads to the first link  *)
(* of the page with that idx, whatever other links there are.                 *)
THEOREM ClientFollowsTheChoice == Spec => FollowsTheChoice
<1> DEFINE A == pc = "ask" /\ whole /\ chosen' \in 0..127 \ {Quit} =>
                  /\ pc' = "get"
                  /\ \E j \in LinksWith(chosen') : /\ url' = References[url].IDX[j].url
                                                  /\ \A i \in LinksWith(chosen') : j <= i
<1>1. ASSUME ClientInv, [Next]_vars PROVE A
  <2> SUFFICES ASSUME pc = "ask", whole, chosen' \in 0..127 \ {Quit}
               PROVE  /\ pc' = "get"
                      /\ \E j \in LinksWith(chosen') : /\ url' = References[url].IDX[j].url
                                                      /\ \A i \in LinksWith(chosen') : j <= i
    OBVIOUS
  <2>1. chosen' \in Int /\ 0 <= chosen' /\ chosen' < 128 /\ chosen' # Quit
    OBVIOUS
  <2>2. PICK j \in DOMAIN links : Choose(j)
    BY <1>1, <2>1, OnlyChooseMoves DEF None
  <2>3. chosen' = links[j].idx /\ Char(chosen') = chosen'
    BY <2>1, <2>2, SmallChars DEF Choose
  <2>4. pc' = "get" /\ url' = Target(chosen')
    BY <2>1, <2>2, <2>3 DEF Choose
  <2>5. j \in Matching(chosen')
    BY <2>3 DEF Matching
  <2>6. PICK m \in Matching(chosen') : Target(chosen') = links[m].url /\ \A i \in Matching(chosen') : m <= i
    <3>1. Typed
      BY <1>1 DEF ClientInv
    <3> QED BY <2>5, <3>1, TargetIs
  <2>7. links = References[url].IDX
    BY <1>1, WholePage
  <2>8. Matching(chosen') = LinksWith(chosen')
    BY <2>7 DEF Matching, LinksWith
  <2> QED BY <2>4, <2>6, <2>7, <2>8
<1>2. ClientInv /\ [Next]_vars => [A]_vars
  BY <1>1
<1> QED BY <1>2, ClientInvariant, PTL DEF Spec, FollowsTheChoice

\* The names read back from the rows are exact where no page read before had a
\* longer path.
LEMMA NamedAhead ==
  ASSUME NEW u \in URL, NEW k \in Kinds, Typed, Tails
  PROVE  {n.url : n \in {w \in Names(rows[k], u, k) : w.exact}}
         = {References[u][k][i].url : i \in {j \in DOMAIN References[u][k] :
                                               j <= MAXNUMREF /\ NeverLonger(u, k, j)}}
<1> DEFINE Ref(p, i) == References[p][k][i].url
<1>1. \A p \in URL : /\ Kept(p, k) \subseteq 1..MAXNUMREF
                     /\ \A i \in Kept(p, k) : Length[Ref(p, i)] \in Nat \ {0}
  BY KeptRows
<1>2. seen[k] \subseteq URL /\ rows[k] \in [1..MAXNUMREF -> Nat]
  BY TypedParts DEF Rows
<1>3. ASSUME NEW i \in Kept(u, k)
      PROVE  Length[Ref(u, i)] >= rows[k][i] <=> NeverLonger(u, k, i)
  <2>1. i \in 1..MAXNUMREF /\ rows[k][i] \in Nat
    BY <1>1, <1>2
  <2>2. Longest(rows[k][i], seen[k], k, i)
    BY <2>1 DEF Tails
  <2>3. \A p \in seen[k] : i \in DOMAIN References[p][k] <=> i \in Kept(p, k)
    BY <2>1, PagesAssumption DEF Kept
  <2>4. NeverLonger(u, k, i) <=> \A p \in seen[k] : i \in Kept(p, k) => Length[Ref(p, i)] <= Length[Ref(u, i)]
    BY <2>3 DEF NeverLonger
  <2>5. Length[Ref(u, i)] \in Nat \ {0}
    BY <1>1
  <2>6. \A p \in seen[k] : i \in Kept(p, k) => Length[Ref(p, i)] \in Nat /\ Length[Ref(p, i)] <= rows[k][i]
    BY <1>1, <1>2, <2>2 DEF Longest
  <2>7. rows[k][i] = 0 \/ \E p \in seen[k] : i \in Kept(p, k) /\ rows[k][i] = Length[Ref(p, i)]
    BY <2>2 DEF Longest
  <2> HIDE DEF Ref
  <2> QED BY <2>1, <2>4, <2>5, <2>6, <2>7
<1>4. Kept(u, k) = {j \in DOMAIN References[u][k] : j <= MAXNUMREF}
  BY DEF Kept
<1>5. \A i \in Kept(u, k) : /\ ReadRow(rows[k], u, k, i).url = Ref(u, i)
                            /\ ReadRow(rows[k], u, k, i).exact <=> Length[Ref(u, i)] >= rows[k][i]
  BY DEF ReadRow
<1>6. {n.url : n \in {w \in Names(rows[k], u, k) : w.exact}}
      = {Ref(u, i) : i \in {j \in Kept(u, k) : Length[Ref(u, j)] >= rows[k][j]}}
  <2> HIDE DEF Ref
  <2> QED BY <1>5 DEF Names
<1>7. {j \in Kept(u, k) : Length[Ref(u, j)] >= rows[k][j]}
      = {j \in DOMAIN References[u][k] : j <= MAXNUMREF /\ NeverLonger(u, k, j)}
  <2> HIDE DEF Ref
  <2> QED BY <1>3, <1>4
<1> QED BY <1>6, <1>7

\* The names of a kind come from the rows of that kind.
LEMMA NamesOfKind ==
  ASSUME NEW u, NEW k \in Kinds
  PROVE  {w \in UNION {Names(rows[c], u, c) : c \in Kinds} : w.kind = k /\ w.exact}
         = {w \in Names(rows[k], u, k) : w.exact}
<1>1. \A c \in Kinds : \A w \in Names(rows[c], u, c) : w.kind = c
  BY DEF Names, ReadRow
<1> QED BY <1>1

(* Cache.c:110: the dispatcher looks up the references of a page under their  *)
(* own names exactly where no page it read before had a longer path in the    *)
(* same place, for every site and every number of references kept.            *)
THEOREM ClientAskedAhead == Spec => AskedAhead
<1> DEFINE Ahead(k) == {References[url][k][i].url : i \in {j \in DOMAIN References[url][k] :
                                                       j <= MAXNUMREF /\ NeverLonger(url, k, j)}}
           A == pc = "get" /\ pc' = "parse" /\ fresh' =>
                   \A k \in Kinds : {n.url : n \in {w \in wanted' : w.kind = k /\ w.exact}} = Ahead(k)
<1>1. ASSUME ClientInv, [Next]_vars PROVE A
  <2> SUFFICES ASSUME pc = "get", pc' = "parse", fresh', NEW k \in Kinds
               PROVE  {n.url : n \in {w \in wanted' : w.kind = k /\ w.exact}} = Ahead(k)
    OBVIOUS
  <2>1. GetPage
    <3>1. CASE UNCHANGED vars
      BY <3>1 DEF vars
    <3>2. CASE Exit
      BY <3>2 DEF Exit
    <3>3. CASE GetPageFails
      BY <3>3 DEF GetPageFails
    <3>4. CASE ParseText \/ ParseLink \/ Embed \/ EmbedFails \/ ParseFails \/ ParseEnds
      BY <3>4 DEF ParseText, ParseLink, Embed, EmbedFails, ParseFails, ParseEnds, AtItem
    <3>5. CASE Leave
      BY <3>5 DEF Leave
    <3>6. ASSUME NEW u \in URL, NextURL(u) \/ ReadOther(u) PROVE FALSE
      BY <3>6 DEF NextURL, ReadOther
    <3>7. ASSUME NEW j \in DOMAIN links, Choose(j) PROVE FALSE
      BY <3>7 DEF Choose
    <3> QED BY <1>1, <3>1, <3>2, <3>3, <3>4, <3>5, <3>6, <3>7 DEF Next, GetAll
  <2>2. url \in URL /\ Typed /\ Tails
    BY <1>1 DEF ClientInv, Typed
  <2>3. wanted' = UNION {Names(rows[c], url, c) : c \in Kinds}
    BY <2>1 DEF GetPage
  <2>4. {w \in wanted' : w.kind = k /\ w.exact} = {w \in Names(rows[k], url, k) : w.exact}
    BY <2>3, NamesOfKind
  <2> QED BY <2>2, <2>4, NamedAhead
<1>2. ClientInv /\ [Next]_vars => [A]_vars
  BY <1>1
<1> QED BY <1>2, ClientInvariant, PTL DEF Spec, AskedAhead
=============================================================================
