---------------------------- MODULE ServerRequest ----------------------------
(***************************************************************************)
(* One connection inside RecvAndSend of Server.c: the request arrives in   *)
(* the pieces TCP cuts it into, getRequest checks it again after each,     *)
(* prepareResponse computes the answer and SendnWithError sends it piece   *)
(* by piece, failing or freezing on purpose.                               *)
(*                                                                         *)
(* A request is a sequence of fields.  A field that occurs twice in a row  *)
(* is one that a piece can end in the middle of with consequences.  An     *)
(* answer is a sequence of tokens: digits in base Base, keywords, and one  *)
(* token per byte of the file, so that bytes of different places differ.   *)
(***************************************************************************)
EXTENDS Integers, Sequences, SequencesExt

CONSTANTS Base,     \* numbers are written in this base; the code writes base 10
          MaxFile,  \* the longest file
          EXPIRE,   \* Server.c:601: seconds of validity of every answer
          SHORT,    \* Server.c:104: answers up to this length are sent in two pieces
          PIECE     \* Server.c:110: the length of a piece of a longer one

ASSUME RequestAssumption == /\ Base \in Nat \ {0, 1} /\ MaxFile \in Nat
                            /\ EXPIRE \in 0..(Base * Base)
                            /\ PIECE \in Nat \ {0} /\ SHORT \in Nat /\ SHORT >= PIECE

VARIABLES req,        \* the request on its way: type and range
          file,       \* length of the file it names; Missing if there is none
          solorange,  \* is this Server2, built with SOLORANGE?
          srv,        \* recv, send, frozen or closed
          got,        \* fields received
          reply,      \* the answer prepared
          sent        \* tokens of it sent

serverVars == <<req, file, solorange, srv, got, reply, sent>>

Missing == -1
None == -1  \* range.first or range.last not specified

Request == [type : {"GET", "INF"}, first : None..(MaxFile + 1), last : None..(MaxFile + 1)]

-----------------------------------------------------------------------------
(* Tokens *)

NUL == -1
NL == Base
LEN == Base + 1
RANGE == Base + 2
EXP == Base + 3
DASH == Base + 4
Status(code) == <<Base + 10 + code \div 100, Base + 20 + ((code \div 10) % 10), Base + 30 + (code % 10)>>
Byte(i) == Base + 100 + i

Digits[n \in Nat] == IF n < Base THEN <<n>> ELSE Append(Digits[n \div Base], n % Base)

Bytes(i, j) == [k \in 1..(j - i + 1) |-> Byte(i + k - 1)]

Header(code, field) == Status(code) \o <<NL>> \o field \o <<NL, EXP>> \o Digits[EXPIRE] \o <<NL, NL>>
Error(code) == Status(code) \o <<NL, NL>>

-----------------------------------------------------------------------------
(* checkRequest *)

RangeFields(r) == IF r.first = None THEN <<>>
                  ELSE <<"Range", "first", "dash">>
                       \o (IF r.last = None THEN <<>> ELSE <<"last">>) \o <<"EOL">>

Fields(r) == <<"method", "method", "IP", "IP", "port", "port", "path", "EOL">>
             \o RangeFields(r) \o <<"EOL">>

\* A piece that ends inside GET mhttp:// or INF mhttp://, or after some but not all digits of
\* the last number of the IP or of the port, is compared with the whole one and refused.
CutField(r, n) == /\ n < Len(Fields(r))
                  /\ Fields(r)[n] = Fields(r)[n + 1]
                  /\ Fields(r)[n] \in {"method", "IP", "port"}

\* Server2 refuses the empty line in the place of the Range.
LacksRange(r, n) == solorange /\ r.type = "GET" /\ r.first = None /\ n > 8

\* Mutant: one more byte than the request has is waited for.
CompleteLate(r, n) == n > Len(Fields(r))

Malformed(r, n) == CutField(r, n) \/ LacksRange(r, n)
Complete(r, n) == n = Len(Fields(r))

-----------------------------------------------------------------------------
(* prepareResponse *)

\* Mutant: ranges count from 0 like files.
AppendBytesFromZero(header, first, last) ==
    IF first <= last /\ last + 1 > file THEN Error(402) ELSE header \o Bytes(first + 1, last + 1)

\* AppendBytesFromFile: the fseek to first - 1 fails below 0, and the answer is another one.
AppendBytes(header, first, last) ==
    IF first < 1 THEN Error(402) ELSE header \o Bytes(first, last)

GetRange(first, last) ==
    AppendBytes(Header(201, <<RANGE>> \o Digits[first] \o <<DASH>> \o Digits[last]), first, last)

GetResponse(r) ==
    LET last == IF r.last = None THEN file ELSE r.last IN
    CASE r.first = None -> AppendBytes(Header(200, <<LEN>> \o Digits[file]), 1, file)
      [] r.first # None /\ (r.first > file \/ r.last > file \/ (r.last # None /\ r.last < r.first))
           -> Error(405)
      [] OTHER -> GetRange(r.first, last)

InfResponse == Header(202, <<LEN>> \o Digits[file])

\* fopen fails on a file that is not there, and on any file when descriptors have run out.
Responses(r) == {Error(404)} \cup (IF file = Missing THEN {}
                                   ELSE {IF r.type = "GET" THEN GetResponse(r) ELSE InfResponse})

-----------------------------------------------------------------------------
(* The connection *)

Open(r) == /\ req = r
           /\ solorange \in BOOLEAN
           /\ file \in Missing..MaxFile
           /\ srv = "recv" /\ got = 0 /\ reply = <<>> /\ sent = 0

Answer(a) == reply' = a /\ srv' = "send" /\ UNCHANGED <<req, file, solorange, sent>>

ReceivePart(n) ==
    /\ srv = "recv" /\ n \in (got + 1)..Len(Fields(req))
    /\ ~Malformed(req, n) /\ ~Complete(req, n)
    /\ got' = n
    /\ UNCHANGED <<req, file, solorange, srv, reply, sent>>

ReceiveRest(n) ==
    /\ srv = "recv" /\ n \in (got + 1)..Len(Fields(req))
    /\ ~Malformed(req, n) /\ Complete(req, n)
    /\ got' = n
    /\ \E a \in Responses(req) : Answer(a)

Refuse(n) ==
    /\ srv = "recv" /\ n \in (got + 1)..Len(Fields(req))
    /\ Malformed(req, n)
    /\ got' = n
    /\ Answer(Error(403))

\* recv returns 0, or fails.
PeerCloses ==
    /\ srv = "recv"
    /\ Answer(Error(403)) /\ UNCHANGED got

ReadError ==
    /\ srv = "recv"
    /\ srv' = "closed"
    /\ UNCHANGED <<req, file, solorange, got, reply, sent>>

Pieces(n) == IF n <= SHORT THEN 2 ELSE n \div PIECE

\* Mutant: the remainder is spread over the pieces, and the last one is not shortened.
PieceEndLong(n, m) == m + n \div Pieces(n) + 1

\* Where the piece that starts after m of n tokens ends; the last one takes the remainder.
PieceEnd(n, m) == LET size == n \div Pieces(n)
                      i == m \div size + 1
                  IN  IF i >= Pieces(n) THEN n ELSE i * size

SendPiece ==
    /\ srv = "send" /\ sent < Len(reply)
    /\ sent' = PieceEnd(Len(reply), sent)
    /\ UNCHANGED <<req, file, solorange, srv, got, reply>>

\* The whole answer was sent, or an error was simulated: close.
Close ==
    /\ srv = "send"
    /\ srv' = "closed"
    /\ UNCHANGED <<req, file, solorange, got, reply, sent>>

Freeze ==
    /\ srv = "send" /\ sent < Len(reply)
    /\ srv' = "frozen"
    /\ UNCHANGED <<req, file, solorange, got, reply, sent>>

Receive == \E n \in 1..Len(Fields(req)) : ReceivePart(n) \/ ReceiveRest(n) \/ Refuse(n)
Send == SendPiece \/ Close \/ Freeze

Init == \E r \in Request : /\ r.first = None => r.last = None
                           /\ r.type = "INF" => r.first = None
                           /\ Open(r)

Next == Receive \/ PeerCloses \/ ReadError \/ Send

Spec == Init /\ [][Next]_serverVars

FairSpec == Spec /\ WF_serverVars(Receive) /\ WF_serverVars(Send)

-----------------------------------------------------------------------------
(* Properties *)

TypeOK == /\ req \in Request
          /\ file \in Missing..MaxFile /\ solorange \in BOOLEAN
          /\ srv \in {"recv", "send", "frozen", "closed"}
          /\ got \in 0..Len(Fields(req))
          /\ \A i \in DOMAIN reply : reply[i] \in Nat
          /\ sent \in 0..Len(reply)

CodeIs(codes) == \E c \in codes : IsPrefix(Status(c), reply)

\* The tokens after the first empty line.
Body == LET i == Min({j \in 1..(Len(reply) - 1) : reply[j] = NL /\ reply[j + 1] = NL})
        IN  SubSeq(reply, i + 2, Len(reply))

\* The bytes of the file a GET asks for; the first byte is byte 1.
LastAsked == IF req.last = None THEN file ELSE req.last
Asked == IF req.first = None THEN 1..file ELSE req.first..LastAsked

\* How the answer to it with n bytes begins, up to the keyword Expire.
Line(code, field) == Status(code) \o <<NL>> \o field \o <<NL, EXP>>
AnswerLine(n) == IF req.first = None THEN Line(200, <<LEN>> \o Digits[n])
                 ELSE Line(201, <<RANGE>> \o Digits[req.first] \o <<DASH>> \o Digits[LastAsked])

(* Server.c:645: a range counts from 1, a file from 0.  A GET that is         *)
(* understood gets exactly the bytes it asks for, in order, if the file has   *)
(* them all, and an error otherwise; a whole file may be empty, a range not.  *)
(* The header tells how many bytes follow it, or which.                       *)
AnswersTheRange ==
    req.type = "GET" /\ CodeIs({200, 201, 402, 405}) =>
        LET found == req.first = None \/ (Asked # {} /\ Asked \subseteq 1..file) IN
        /\ CodeIs({200, 201}) <=> found
        /\ found => /\ ToSet(Body) = {Byte(i) : i \in Asked}
                    /\ \A j, k \in DOMAIN Body : j < k => Body[j] < Body[k]
                    /\ IsPrefix(AnswerLine(Len(Body)), reply)

(* A request ends: with the connection closed, or frozen on purpose.          *)
RequestEnds == (srv = "recv") ~> (srv \in {"closed", "frozen"})
=============================================================================
