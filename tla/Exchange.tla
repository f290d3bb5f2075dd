------------------------------ MODULE Exchange ------------------------------
(***************************************************************************)
(* One page on its way from the origin server, through a dispatcher of the *)
(* proxy, to a client: the loop of Proxy.c:173 that asks until an answer   *)
(* is understood, readn, parseResponse, and check200OK of Client.c, which  *)
(* looks at the answer again after every piece it receives.                *)
(*                                                                         *)
(* resp_buf is cleared once, before the loop: what a read that timed out   *)
(* left there is still there when the next attempt is parsed.  The server  *)
(* variables are those of the thread that serves the current attempt; the  *)
(* threads of abandoned ones write to a descriptor nobody reads.           *)
(***************************************************************************)
EXTENDS ServerRequest

CONSTANTS LenCells,  \* Parser.c:152: the size of len, with its terminator
          Memory,    \* what the block of a response that is not 200 can hold
          BufSize    \* cells of resp_buf

\* A block holds a string, and a page with its header fits resp_buf.
ASSUME ExchangeAssumption ==
    /\ LenCells \in Nat /\ BufSize \in Nat /\ Memory \subseteq Seq(Nat)
    /\ \A n \in 0..MaxFile : Len(Header(200, <<LEN>> \o Digits[n])) + n <= BufSize

VARIABLES disp,  \* the dispatcher: connect, read, parse or done
          buf,   \* resp_buf
          pos,   \* what this attempt has read
          resp,  \* the response parsed
          cli,   \* the client's Get: wait, ok (return 200), bad or error (return 0)
          taken, \* what the client has received
          page   \* what it copied to its buffer

vars == <<serverVars, disp, buf, pos, resp, cli, taken, page>>

PageRequest == [type |-> "GET", first |-> None, last |-> None]

NoResponse == [retcode |-> 0, complete |-> FALSE, block |-> <<>>]

ExchangeInit ==
    /\ Open(PageRequest) /\ ~solorange
    /\ disp = "connect" /\ buf = [i \in 1..BufSize |-> NUL] /\ pos = 0 /\ resp = NoResponse
    /\ cli = "wait" /\ taken = 0 /\ page = <<>>

-----------------------------------------------------------------------------
(* Sequences of tokens as C strings *)

\* The string in an array: what precedes the first NUL.
String(a) == LET ends == {i \in DOMAIN a : a[i] = NUL}
             IN  IF ends = {} THEN a ELSE SubSeq(a, 1, Min(ends) - 1)

\* matchSubstr: where the first occurrence of sub ends, 0 if there is none.
MatchSubstr(s, sub) ==
    LET at == {i \in 1..(Len(s) - Len(sub) + 1) : SubSeq(s, i, i + Len(sub) - 1) = sub}
    IN  IF at = {} THEN 0 ELSE Min(at) + Len(sub) - 1

\* The digits of s from i on.
DigitsAt(s, i) ==
    LET stop == Min({j \in i..Len(s) : s[j] >= Base} \cup {Len(s) + 1})
    IN  SubSeq(s, i, stop - 1)

Value(digits) ==
    LET v[n \in 0..Len(digits)] == IF n = 0 THEN 0 ELSE Base * v[n - 1] + digits[n]
    IN  v[Len(digits)]

-----------------------------------------------------------------------------
(* parseResponse *)

\* The number behind a keyword ends with a newline, not with the string.
Field(s, keyword) == LET i == MatchSubstr(s, <<keyword>>)
                     IN  i > 0 /\ \E j \in (i + 1)..Len(s) : s[j] = NL

\* atoi(len): the digits, or, when they leave no cell for the terminator, what lies behind
\* len as well, which can be the digits of exp.
Lengths(s) == LET len == DigitsAt(s, MatchSubstr(s, <<LEN>>) + 1)
                  exp == DigitsAt(s, MatchSubstr(s, <<EXP>>) + 1)
              IN  {Value(len)} \cup (IF Len(len) < LenCells THEN {} ELSE {Value(len \o exp)})

DataStart(s) == MatchSubstr(s, <<NL, NL>>)

\* Mutant: <= instead of =.
CopiedSome(s, len) == Len(s) - DataStart(s) <= len

\* The loop stops at the length announced or at the end of the string.
Copied(s, len) == Len(s) - DataStart(s) >= len

Understood(s) ==
    IF IsPrefix(Status(200), s)
    THEN Field(s, LEN) /\ Field(s, EXP) /\ DataStart(s) > 0
    ELSE \E code \in 402..405 : IsPrefix(Status(code), s)

RetCode(s) == CHOOSE code \in {200} \cup 402..405 : IsPrefix(Status(code), s)

\* Only a 200 response gets its block and its complete; others hold what malloc found.
ParseResponse(s) ==
    IF RetCode(s) = 200
    THEN {[retcode |-> 200, complete |-> Copied(s, len), block |-> s] : len \in Lengths(s)}
    ELSE {[retcode |-> RetCode(s), complete |-> c, block |-> m] : c \in BOOLEAN, m \in Memory}

-----------------------------------------------------------------------------
(* The dispatcher *)

\* Mutant: readn goes on where the attempt before stopped.
ConnectKeepsPos ==
    /\ disp = "connect" /\ disp' = "read"
    /\ srv' \in {"recv", "frozen"} /\ got' = 0 /\ reply' = <<>> /\ sent' = 0
    /\ UNCHANGED <<req, file, solorange, buf, pos, resp, cli, taken, page>>

\* The server admits the connection, or lets it wait for ever.
Connect ==
    /\ disp = "connect" /\ disp' = "read" /\ pos' = 0
    /\ srv' \in {"recv", "frozen"} /\ got' = 0 /\ reply' = <<>> /\ sent' = 0
    /\ UNCHANGED <<req, file, solorange, buf, resp, cli, taken, page>>

Server ==
    /\ disp = "read"
    /\ Receive \/ Send
    /\ UNCHANGED <<disp, buf, pos, resp, cli, taken, page>>

\* read returns some of the bytes that have arrived.
Read(n) ==
    /\ disp = "read" /\ n \in (pos + 1)..sent
    /\ buf' = [i \in DOMAIN buf |-> IF i \in (pos + 1)..n THEN reply[i] ELSE buf[i]]
    /\ pos' = n
    /\ UNCHANGED <<serverVars, disp, resp, cli, taken, page>>

\* read returns 0.  A server that closes with a part of the request unread resets the
\* connection, and bytes that were not read yet may be lost.
ReadEnd ==
    /\ disp = "read" /\ srv = "closed"
    /\ pos = sent \/ got < Len(Fields(req))
    /\ disp' = "parse"
    /\ UNCHANGED <<serverVars, buf, pos, resp, cli, taken, page>>

\* Ten seconds without a byte: readn returns -1, and the descriptor is forgotten.
Timeout ==
    /\ disp = "read" /\ srv # "closed" /\ pos = sent
    /\ disp' = "connect"
    /\ UNCHANGED <<serverVars, buf, pos, resp, cli, taken, page>>

\* A retcode of -1 starts another attempt.
Parse ==
    /\ disp = "parse"
    /\ IF Understood(String(buf))
       THEN /\ resp' \in ParseResponse(String(buf))
            /\ disp' = "done"
       ELSE /\ disp' = "connect"
            /\ UNCHANGED resp
    /\ UNCHANGED <<serverVars, buf, pos, cli, taken, page>>

-----------------------------------------------------------------------------
(* The client *)

\* t stands in s from i on, as far as s goes.
Matches(s, i, t) == \A j \in 1..Len(t) : i + j - 1 <= Len(s) => s[i + j - 1] = t[j]

OkLine == Status(200) \o <<NL, LEN>>

\* Where check200OK expects the parts of an answer of which it has read s.
LenDigits(s) == DigitsAt(s, Len(OkLine) + 1)
ExpireAt(s) == Len(OkLine) + Len(LenDigits(s)) + 1
ExpireDigits(s) == DigitsAt(s, ExpireAt(s) + 2)
DataAt(s) == ExpireAt(s) + 2 + Len(ExpireDigits(s)) + 2

\* Mutant: the test before the second sscanf is gone, which then finds no number yet.
WrongFormatNoWait(s) ==
    \/ ~Matches(s, 1, OkLine)
    \/ Len(s) > Len(OkLine) /\ LenDigits(s) = <<>>
    \/ ~Matches(s, ExpireAt(s), <<NL, EXP>>)
    \/ Len(s) > Len(OkLine) /\ ExpireDigits(s) = <<>>
    \/ ~Matches(s, DataAt(s) - 2, <<NL, NL>>)

WrongFormat(s) ==
    \/ ~Matches(s, 1, OkLine)
    \/ Len(s) > Len(OkLine) /\ LenDigits(s) = <<>>
    \/ ~Matches(s, ExpireAt(s), <<NL, EXP>>)
    \/ Len(s) > ExpireAt(s) + 1 /\ ExpireDigits(s) = <<>>
    \/ ~Matches(s, DataAt(s) - 2, <<NL, NL>>)

\* Mutant: the data is not waited for.
NeededHeader(s) == DataAt(s) - 1

\* How long the answer is.  A number that s ends with may go on: then all that follows it is
\* missing, and the answer is longer than s whatever the number is.
Needed(s) == DataAt(s) - 1 + Value(LenDigits(s))

Check200OK(s) == IF WrongFormat(s) THEN -1 ELSE IF Len(s) < Needed(s) THEN 0 ELSE 1

\* recv returns some of what the proxy sent; the loop of Get goes on while check200OK
\* returns 0.
ClientReceive(n) ==
    /\ disp = "done" /\ cli = "wait" /\ n \in (taken + 1)..Len(resp.block)
    /\ taken' = n
    /\ LET s == SubSeq(resp.block, 1, n)
           r == Check200OK(s)
       IN  /\ cli' = CASE r = 0 -> "wait" [] r = 1 -> "ok" [] OTHER -> "bad"
           /\ page' = IF r = 1 THEN SubSeq(s, DataAt(s), Needed(s))
                      ELSE <<>>
    /\ UNCHANGED <<serverVars, disp, buf, pos, resp>>

\* The proxy has closed the connection.
ClientEnd ==
    /\ disp = "done" /\ cli = "wait" /\ taken = Len(resp.block)
    /\ cli' = "bad"
    /\ UNCHANGED <<serverVars, disp, buf, pos, resp, taken, page>>

\* recv fails.
ClientError ==
    /\ disp = "done" /\ cli = "wait"
    /\ cli' = "error"
    /\ UNCHANGED <<serverVars, disp, buf, pos, resp, taken, page>>

Dispatcher == Connect \/ (\E n \in 1..BufSize : Read(n)) \/ ReadEnd \/ Timeout \/ Parse

Client == (\E n \in 1..BufSize : ClientReceive(n)) \/ ClientEnd \/ ClientError

ExchangeNext == Server \/ Dispatcher \/ Client

ExchangeSpec == ExchangeInit /\ [][ExchangeNext]_vars

-----------------------------------------------------------------------------
(* Properties *)

ExchangeTypeOK ==
    /\ TypeOK
    /\ disp \in {"connect", "read", "parse", "done"}
    /\ DOMAIN buf = 1..BufSize /\ pos \in 0..sent
    /\ resp.retcode \in {0, 200} \cup 402..405 /\ resp.complete \in BOOLEAN
    /\ cli \in {"wait", "bad", "error", "ok"}
    /\ taken \in 0..Len(resp.block)
    /\ cli # "ok" => page = <<>>

(* Parser.h:51: a response is complete when its block has the length Len      *)
(* announces.  However many attempts left their bytes in resp_buf, what the   *)
(* dispatcher takes for a page is the server's answer or the beginning of it, *)
(* and it calls it complete, and caches it, only when nothing is missing.     *)
AnswerIsPrefix ==
    resp.retcode = 200 => /\ file # Missing /\ IsPrefix(resp.block, GetResponse(req))
                          /\ resp.complete => resp.block = GetResponse(req)

(* Client.c:375: Get returns 200 for a correct and complete answer, copied to *)
(* the client's buffer.  The client has the whole page or reports an error.   *)
WholeOrNothing == cli = "ok" /\ resp.retcode = 200 => page = Bytes(1, file)

(* Client.c:403: wherever the answer is cut on its way, the client does not   *)
(* take a part of a good one for a bad one, nor its end for a missing part;   *)
(* what is left for Get to fail on is an error of recv.                       *)
GoodIsNotBad == file # Missing /\ resp.block = GetResponse(req) => cli # "bad"
=============================================================================
