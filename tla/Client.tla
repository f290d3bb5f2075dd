------------------------------- MODULE Client -------------------------------
(***************************************************************************)
(* Client.c from main to parse: a client visits the URLs of its command    *)
(* line; it gets a page through the proxy, replaces each REF by the object *)
(* it names, keeps the IDX+REFs as links, shows the page and goes on to    *)
(* the link chosen by the user, or at random.                              *)
(*                                                                         *)
(* Beside it, one dispatcher of the proxy, which reads some of the pages   *)
(* first (insertResource, parseRef) to request what they refer to.         *)
(*                                                                         *)
(* A Get may fail at any time, and brings the page asked for otherwise     *)
(* (modules Exchange and Proxy say when).  Counters of files and errors,   *)
(* and the screen, are left out.                                           *)
(***************************************************************************)
EXTENDS Pages

CONSTANT MaxURLs  \* bound: URLs on the command line

MAXNUMLINK == 10
MAXNUMEMBEDDEDOBJECT == 10

\* "Valori da esplicitare come specifiche": the code looks at neither limit, and what a page
\* and that many objects of up to MAXLENDATA bytes need is what mdv.buf has.
ASSUME ClientAssumption ==
    /\ MaxURLs \in Nat
    /\ \A u \in URL : /\ Len(References[u].IDX) <= MAXNUMLINK
                      /\ Len(References[u].REF) <= MAXNUMEMBEDDEDOBJECT

VARIABLES mode,    \* accettaInputTastiera: 0 no input, 1 from the keyboard, 2 at random
          left,    \* URLs of the command line not visited yet
          pc,      \* of the client
          url,     \* currentURL
          place,   \* lenparsed, in items
          buf,     \* mdv.buf, in items
          links,   \* mdv.L
          whole,   \* did GetAll return 1?
          chosen,  \* history: the idx the last choice was of, None for q
          rows,    \* the dispatcher's stack
          wanted,  \* the names it looked up when it served the page at url
          fresh,   \* history: did it read the page at url, this time?
          seen     \* history: the pages it has read for references of each kind

pageVars == <<place, buf, links>>
dispVars == <<rows, wanted, fresh, seen>>
vars == <<mode, left, pc, url, pageVars, whole, chosen, dispVars>>

None == -1
Object(u) == [kind |-> "object", idx |-> 0, url |-> u]

Init ==
    /\ mode \in 0..2
    /\ left \in 0..MaxURLs
    /\ pc = "next" /\ url = NoURL
    /\ place = 0 /\ buf = <<>> /\ links = <<>> /\ whole = FALSE
    /\ chosen = None
    /\ rows = NewRows /\ wanted = {} /\ fresh = FALSE
    /\ seen = [k \in Kinds |-> {}]

-----------------------------------------------------------------------------
(* The dispatcher *)

\* insertResource with the kinds of references that its prefetch_flag asks for.
Read(u, kinds) ==
    /\ rows' = [k \in Kinds |-> IF k \in kinds THEN WriteRows(rows[k], u, k) ELSE rows[k]]
    /\ seen' = [k \in Kinds |-> IF k \in kinds THEN seen[k] \cup {u} ELSE seen[k]]

\* A page for somebody else, or an IDX+REF it prefetches.
ReadOther(u) ==
    /\ Read(u, Kinds) \/ Read(u, {"REF"})
    /\ UNCHANGED <<mode, left, pc, url, pageVars, whole, chosen, wanted, fresh>>

\* An answer to the client: read by this dispatcher, or from the cache or another one.
Answer(u) == Read(u, Kinds) \/ UNCHANGED <<rows, seen>>

-----------------------------------------------------------------------------
(* main *)

NextURL(u) ==
    /\ pc = "next" /\ left > 0 /\ left' = left - 1
    /\ pc' = "get" /\ url' = u
    /\ UNCHANGED <<mode, pageVars, whole, chosen, dispVars>>

Exit ==
    /\ pc = "next" /\ left = 0
    /\ pc' = "exit"
    /\ UNCHANGED <<mode, left, url, pageVars, whole, chosen, dispVars>>

-----------------------------------------------------------------------------
(* GetAll *)

\* Mutant: initMDV forgets the links.
InitMDVKeepsLinks == buf' = <<>> /\ UNCHANGED links

InitMDV == buf' = <<>> /\ links' = <<>>

\* Get of the page.
GetPage ==
    /\ pc = "get" /\ pc' = "parse"
    /\ InitMDV /\ place' = 0
    /\ \/ /\ Read(url, Kinds) /\ fresh' = TRUE
          /\ wanted' = UNION {Names(rows[k], url, k) : k \in Kinds}
       \/ UNCHANGED <<rows, seen>> /\ fresh' = FALSE /\ wanted' = {}
    /\ chosen' = None
    /\ UNCHANGED <<mode, left, url, whole>>

GetPageFails ==
    /\ pc = "get" /\ pc' = "ask" /\ whole' = FALSE
    /\ InitMDV /\ place' = 0
    /\ chosen' = None
    /\ UNCHANGED <<mode, left, url, dispVars>>

AtItem(kind) == pc = "parse" /\ place < Len(Content[url]) /\ Content[url][place + 1].kind = kind
ThisItem == Content[url][place + 1]

ParseText ==
    /\ AtItem("text")
    /\ place' = place + 1 /\ buf' = Append(buf, ThisItem)
    /\ UNCHANGED <<mode, left, pc, url, links, whole, chosen, dispVars>>

\* isIDXREF: a link, and <idx> in the text.
ParseLink ==
    /\ AtItem("IDX")
    /\ place' = place + 1 /\ buf' = Append(buf, ThisItem)
    /\ links' = Append(links, ThisItem)
    /\ UNCHANGED <<mode, left, pc, url, whole, chosen, dispVars>>

\* Mutant: the object comes in front.
AddObjectFirst(u) == buf' = <<Object(u)>> \o buf

\* aggiungiaMDV: the object as it is, whatever references it has.
AddObject(u) == buf' = Append(buf, Object(u))

\* parse returns 1: Get of the object.
Embed ==
    /\ AtItem("REF")
    /\ place' = place + 1
    /\ AddObject(ThisItem.url)
    /\ Answer(ThisItem.url)
    /\ UNCHANGED <<mode, left, pc, url, links, whole, chosen, wanted, fresh>>

Fails(result) == pc' = "ask" /\ whole' = result

\* Mutant: the page is shown without the object.
EmbedFailsShown ==
    /\ AtItem("REF") /\ Fails(TRUE)
    /\ place' = place + 1
    /\ UNCHANGED <<mode, left, url, buf, links, chosen, dispVars>>

EmbedFails ==
    /\ AtItem("REF") /\ Fails(FALSE)
    /\ place' = place + 1
    /\ UNCHANGED <<mode, left, url, buf, links, chosen, dispVars>>

\* parse returns -1.
ParseFails ==
    /\ AtItem("bad") /\ Fails(FALSE)
    /\ place' = place + 1
    /\ UNCHANGED <<mode, left, url, buf, links, chosen, dispVars>>

\* parse returns 0: the page is shown.
ParseEnds ==
    /\ pc = "parse" /\ place = Len(Content[url])
    /\ pc' = "ask" /\ whole' = TRUE
    /\ UNCHANGED <<mode, left, url, pageVars, chosen, dispVars>>

-----------------------------------------------------------------------------
(* navigaFromRisorsa: the choice *)

\* The conversion of an idx to char, a signed byte.
Char(idx) == ((idx + 128) % 256) - 128
Quit == 113

\* Mutant: no test of what has been returned.
MatchingAny(ch) == {j \in DOMAIN links : Char(links[j].idx) = ch}

Matching(ch) == {j \in DOMAIN links : links[j].idx = ch}

\* Where the next turn of the loop goes when ch is returned.
Target(ch) == IF whole /\ Matching(ch) # {}
              THEN links[CHOOSE j \in Matching(ch) : \A i \in Matching(ch) : j <= i].url
              ELSE url

\* Done with the page.
Turn == wanted' = {} /\ fresh' = FALSE

\* From the keyboard, one of the links there are, also those of a page that failed;
\* at random, only after a page that did not.
Choose(j) ==
    /\ pc = "ask" /\ (mode = 1 \/ (mode = 2 /\ whole))
    /\ chosen' = links[j].idx
    /\ IF Char(links[j].idx) = Quit
       THEN pc' = "next" /\ UNCHANGED url
       ELSE pc' = "get" /\ url' = Target(Char(links[j].idx))
    /\ Turn
    /\ UNCHANGED <<mode, left, pageVars, whole, rows, seen>>

\* q, or no more input.
Leave ==
    /\ pc = "ask"
    /\ mode = 2 /\ whole => links = <<>>
    /\ pc' = "next" /\ chosen' = None
    /\ Turn
    /\ UNCHANGED <<mode, left, url, pageVars, whole, rows, seen>>

GetAll == \/ GetPage \/ GetPageFails \/ ParseText \/ ParseLink \/ Embed \/ EmbedFails
          \/ ParseFails \/ ParseEnds

Next == \/ Exit \/ GetAll \/ Leave
        \/ \E u \in URL : NextURL(u) \/ ReadOther(u)
        \/ \E j \in DOMAIN links : Choose(j)

Spec == Init /\ [][Next]_vars

-----------------------------------------------------------------------------
(* Properties *)

SiteItems == UNION {ToSet(Content[u]) : u \in URL}

TypeOK ==
    /\ mode \in 0..2 /\ left \in 0..MaxURLs
    /\ pc \in {"next", "get", "parse", "ask", "exit"}
    /\ url \in URL \cup {NoURL}
    /\ pc \in {"parse", "ask"} => place \in 0..Len(Content[url])
    /\ buf \in Seq(SiteItems \cup {Object(u) : u \in URL}) /\ Len(buf) <= place
    /\ links \in Seq(SiteItems) /\ Len(links) <= place
    /\ whole \in BOOLEAN /\ fresh \in BOOLEAN
    /\ chosen \in None..MaxIdx
    /\ rows \in Rows
    /\ wanted \subseteq [kind : Kinds, url : URL, exact : BOOLEAN]
    /\ seen \in [Kinds -> SUBSET URL]

\* The page a reader of the source of u expects to see.
Assembled(u) == [i \in DOMAIN Content[u] |->
                    IF Content[u][i].kind = "REF" THEN Object(Content[u][i].url) ELSE Content[u][i]]

(* Client.c:520: what is shown is the page with every REF replaced by its     *)
(* object, in its place, and the links offered are the page's, in order; a    *)
(* page of which a part is missing or wrong is never shown.                   *)
PageAssembled ==
    pc = "ask" /\ whole =>
        /\ buf = Assembled(url) /\ links = References[url].IDX
        /\ \A i \in DOMAIN Content[url] : Content[url][i].kind # "bad"

(* The client leaves a page only once the page was complete, and only to a    *)
(* link of it whose idx is the chosen one modulo 256; after a page that       *)
(* failed, any choice but q gets the same page again.                         *)
NeverElsewhere ==
    [][pc = "ask" /\ url' # url =>
          /\ buf = Assembled(url)
          /\ \E l \in ToSet(References[url].IDX) : l.url = url' /\ l.idx % 256 = chosen' % 256]_vars

LinksWith(idx) == {j \in DOMAIN References[url].IDX : References[url].IDX[j].idx = idx}

(* Client.c:671: the idx chosen is looked up among the links.  The idx passes *)
(* through a char: a choice below 128, except the q, leads to the first link  *)
(* with that idx, even if others are equal to it as chars.                    *)
FollowsTheChoice ==
    [][pc = "ask" /\ whole /\ chosen' \in 0..127 \ {Quit} =>
          /\ pc' = "get"
          /\ \E j \in LinksWith(chosen') : /\ url' = References[url].IDX[j].url
                                          /\ \A i \in LinksWith(chosen') : j <= i]_vars

\* No page read before had a longer path in the place of the i-th reference of u.
NeverLonger(u, k, i) ==
    \A p \in seen[k] :
        i \in DOMAIN References[p][k] =>
            Length[References[p][k][i].url] <= Length[References[u][k][i].url]

(* Cache.c:110: the references of a page that are not cached are requested.   *)
(* They are, under their own names, up to MAXNUMREF of each kind, as long as  *)
(* the dispatcher never read a page with a longer path at the same place; the *)
(* others are not, whatever was read in between.                              *)
AskedAhead ==
    [][pc = "get" /\ pc' = "parse" /\ fresh' =>
          \A k \in Kinds :
              {n.url : n \in {w \in wanted' : w.kind = k /\ w.exact}}
              = {References[url][k][i].url : i \in {j \in DOMAIN References[url][k] :
                                                      j <= MAXNUMREF /\ NeverLonger(url, k, j)}}]_vars
=============================================================================
