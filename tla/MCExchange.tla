----------------------------- MODULE MCExchange -----------------------------
EXTENDS Exchange

(* A recycled block holds nothing, or the answer with another page.          *)
Recycled == {<<>>, Header(200, <<LEN>> \o Digits[2]) \o <<Byte(MaxFile + 1), Byte(MaxFile + 2)>>}
=============================================================================
