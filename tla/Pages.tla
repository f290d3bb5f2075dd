-------------------------------- MODULE Pages --------------------------------
(***************************************************************************)
(* The text of a page, and what parseRef of Parser.c reads in it.          *)
(*                                                                         *)
(* A page is a sequence of items: text, <REF=url>, <IDX=idx;REF=url>, and  *)
(* "bad", a < that starts neither of the two.                              *)
(*                                                                         *)
(* parseRef copies a path into a row of an array of its caller without a   *)
(* terminator.  The array lies at the same place of a dispatcher's stack   *)
(* in every call, the rows in use are below what other calls write, and a  *)
(* new stack is zero: a path is followed by the tail of the longest one    *)
(* its row ever held.                                                      *)
(***************************************************************************)
EXTENDS Integers, Sequences, SequencesExt, FiniteSets

CONSTANTS URL,       \* what pages refer to
          Content,   \* the page at each URL
          Length,    \* of each URL, in characters
          MAXNUMREF, \* Consts.h: references kept of each kind
          NoURL

MaxIdx == 65535  \* an idx is read like a port

Item == [kind : {"text", "bad"}, idx : Nat, url : {NoURL}]
        \cup [kind : {"REF"}, idx : {0}, url : URL]
        \cup [kind : {"IDX"}, idx : 0..MaxIdx, url : URL]

ASSUME PagesAssumption ==
    /\ NoURL \notin URL
    /\ Content \in [URL -> Seq(Item)]
    /\ Length \in [URL -> Nat \ {0}]
    /\ MAXNUMREF \in Nat \ {0}

Text(t) == [kind |-> "text", idx |-> t, url |-> NoURL]
REF(u) == [kind |-> "REF", idx |-> 0, url |-> u]
IDXREF(i, u) == [kind |-> "IDX", idx |-> i, url |-> u]
Bad == [kind |-> "bad", idx |-> 0, url |-> NoURL]

Kinds == {"REF", "IDX"}

\* The references of a kind in the first n items of a page, in order.
Found(u, kind) ==
    LET found[n \in Nat] == IF n = 0 THEN <<>>
                            ELSE IF Content[u][n].kind = kind THEN Append(found[n - 1], Content[u][n])
                            ELSE found[n - 1]
    IN  found

References == [u \in URL |-> [kind \in Kinds |-> Found(u, kind)[Len(Content[u])]]]

-----------------------------------------------------------------------------
(* parseRef *)

\* The longest path each row of each array has held.
Rows == [Kinds -> [1..MAXNUMREF -> Nat]]
NewRows == [k \in Kinds |-> [i \in 1..MAXNUMREF |-> 0]]

\* Those that fit: the loop is left when MAXNUMREF of them were found.
Kept(u, kind) == {i \in DOMAIN References[u][kind] : i <= MAXNUMREF}

\* Mutant: what lies behind the path is cleared.
WriteRowsCleared(rows, u, kind) ==
    [i \in DOMAIN rows |-> IF i \in Kept(u, kind) THEN Length[References[u][kind][i].url] ELSE rows[i]]

\* The tail of the row stays.
WriteRows(rows, u, kind) ==
    [i \in DOMAIN rows |-> IF i \in Kept(u, kind) /\ Length[References[u][kind][i].url] > rows[i]
                           THEN Length[References[u][kind][i].url] ELSE rows[i]]

\* The name read back is the reference itself, or longer.
ReadRow(rows, u, kind, i) ==
    LET path == References[u][kind][i].url
    IN  [kind |-> kind, url |-> path, exact |-> Length[path] >= rows[i]]

Names(rows, u, kind) == {ReadRow(rows, u, kind, i) : i \in Kept(u, kind)}
=============================================================================
