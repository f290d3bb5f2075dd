---------------------------- MODULE ProxyProofs ----------------------------
(***************************************************************************)
(* Proofs about the proxy, for any number of dispatchers, clients, pages   *)
(* and addresses, any site, and with or without expiry, truncated and      *)
(* error responses, rows that run on and failing mallocs of requests.  The *)
(* inductive invariant ProxyInv has four parts:                            *)
(*   Typed    the types, and what a dispatcher's locals hold at each step; *)
(*   Carried  which place has the request of each client;                  *)
(*   Owned    who may use a block of the heap;                             *)
(*   Bounded  how deep the requests under way may go.                      *)
(***************************************************************************)
EXTENDS Proxy, Induction, SequenceTheorems

-----------------------------------------------------------------------------
(* The helpers of Proxy *)

\* The fields of a request: only one with prefetch = 0 has a client.
LEMMA RequestFields ==
  /\ \A r \in Request : /\ r.prefetch \in {0, 1, 2} /\ r.dir \in Resource
                        /\ r.client \in Clients \cup {Nobody}
                        /\ r.client \in Clients <=> r.prefetch = 0
                        /\ r.prefetch = 0 => r.dir \in ClientPages
  /\ \A c \in Clients, k \in ClientPages : [prefetch |-> 0, dir |-> k, client |-> c] \in Request
  /\ \A r \in RefRequest : r \in Request /\ r.client = Nobody
  /\ \A k \in Resource, p \in {1, 2} : [prefetch |-> p, dir |-> k, client |-> Nobody] \in RefRequest
BY ProxyAssumption, NamesAssumption DEF Request, RefRequest

\* The rows of parseRef hold names that are, or begin with, references of the page.
LEMMA RowsType ==
  ASSUME NEW s \in Seq(Resource), NEW t \in Rows(s)
  PROVE  /\ t \in Seq(Resource)
         /\ \A i \in DOMAIN t : t[i] \in ReadAs(ToSet(s))
<1> DEFINE n == Smaller(Len(s), MAXNUMREF)
<1>1. n \in Nat /\ n <= Len(s)
  BY ProxyAssumption DEF Smaller
<1>2. /\ t \in [1..n -> Resource]
      /\ \A i \in 1..n : t[i] = s[i] \/ t[i] \in Longer[s[i]]
  BY DEF Rows
<1> HIDE DEF n
<1>3. \A i \in 1..n : s[i] \in ToSet(s)
  BY <1>1 DEF ToSet
<1>4. t \in Seq(Resource)
  BY <1>1, <1>2, SeqDef
<1> QED BY <1>2, <1>3, <1>4 DEF ReadAs

\* insertResource turns each row into a request without a client.
LEMMA RefRequestsType ==
  ASSUME NEW s \in Seq(Resource), NEW kind \in {1, 2}
  PROVE  RefRequests(s, kind) \in Seq(RefRequest)
<1>1. DOMAIN s = 1..Len(s) /\ Len(s) \in Nat /\ \A i \in 1..Len(s) : s[i] \in Resource
  OBVIOUS
<1>2. RefRequests(s, kind) \in [1..Len(s) -> RefRequest]
  BY <1>1, RequestFields DEF RefRequests
<1> QED BY <1>1, <1>2, SeqDef

\* What a response to a request of this kind makes the dispatcher request.
Within(r, body, kind) ==
    /\ body \in Resource /\ r.prefetch \in {1, 2}
    /\ r.prefetch = 1 => r.dir \in ReadAs(ToSet(Ref[body]))
    /\ r.prefetch = 2 => kind # 2 /\ r.dir \in ReadAs(ToSet(IdxRef[body]))

\* The requests made of the rows of one kind of reference.
LEMMA RowRequests ==
  ASSUME NEW s \in Seq(Resource), NEW t \in Rows(s), NEW kind \in {1, 2}
  PROVE  /\ RefRequests(t, kind) \in Seq(RefRequest)
         /\ \A i \in DOMAIN RefRequests(t, kind) :
              /\ RefRequests(t, kind)[i].prefetch = kind
              /\ RefRequests(t, kind)[i].dir \in ReadAs(ToSet(s))
BY RowsType, RefRequestsType DEF RefRequests

\* What insertResource requests: names read for the REFs of the page, and for its
\* IDX+REFs if the page is not an IDX+REF itself.
LEMMA PrefetchesType ==
  ASSUME NEW body \in Resource \cup {Junk}, NEW kind, NEW refs \in Prefetches(body, kind)
  PROVE  /\ refs \in Seq(RefRequest)
         /\ \A i \in DOMAIN refs : Within(refs[i], body, kind)
<1>1. CASE body = Junk
  <2>1. refs = <<>>
    BY <1>1 DEF Prefetches
  <2>2. <<>> \in Seq(RefRequest) /\ DOMAIN <<>> = {}
    OBVIOUS
  <2> QED BY <2>1, <2>2
<1>2. CASE body \in Resource
  <2>1. Ref[body] \in Seq(Resource) /\ IdxRef[body] \in Seq(Resource) /\ body # Junk
    BY <1>2, ProxyAssumption, CacheAssumption
  <2>2. CASE kind = 2
    <3>1. PICK r \in Rows(Ref[body]) : refs = RefRequests(r, 1)
      BY <2>1, <2>2 DEF Prefetches
    <3> QED BY <1>2, <2>1, <3>1, RowRequests DEF Within
  <2>3. CASE kind # 2
    <3>1. PICK r \in Rows(Ref[body]), x \in Rows(IdxRef[body]) :
             refs = RefRequests(r, 1) \o RefRequests(x, 2)
      BY <2>1, <2>3 DEF Prefetches
    <3> DEFINE p == RefRequests(r, 1)
               q == RefRequests(x, 2)
    <3>2. /\ p \in Seq(RefRequest) /\ q \in Seq(RefRequest)
          /\ \A i \in DOMAIN p : p[i].prefetch = 1 /\ p[i].dir \in ReadAs(ToSet(Ref[body]))
          /\ \A i \in DOMAIN q : q[i].prefetch = 2 /\ q[i].dir \in ReadAs(ToSet(IdxRef[body]))
      BY <2>1, RowRequests
    <3>3. refs = p \o q
      BY <3>1
    <3> HIDE DEF p, q
    <3>4. /\ p \o q \in Seq(RefRequest)
          /\ Len(p \o q) = Len(p) + Len(q)
          /\ \A i \in 1..(Len(p) + Len(q)) :
               (p \o q)[i] = IF i <= Len(p) THEN p[i] ELSE q[i - Len(p)]
      BY <3>2, ConcatProperties
    <3>5. ASSUME NEW i \in DOMAIN refs PROVE Within(refs[i], body, kind)
      <4>1. i \in 1..(Len(p) + Len(q))
        BY <3>3, <3>4
      <4>2. CASE i <= Len(p)
        <5>1. i \in DOMAIN p
          BY <4>1, <4>2, <3>2
        <5> QED BY <5>1, <4>1, <4>2, <3>2, <3>3, <3>4, <1>2 DEF Within
      <4>3. CASE i > Len(p)
        <5>1. i - Len(p) \in DOMAIN q
          BY <4>1, <4>3, <3>2
        <5>2. refs[i] = q[i - Len(p)]
          BY <4>1, <4>3, <3>2, <3>3, <3>4
        <5> QED BY <5>1, <5>2, <3>2, <1>2, <2>3 DEF Within
      <4> QED BY <4>1, <4>2, <4>3, <3>2
    <3> QED BY <3>3, <3>4, <3>5
  <2> QED BY <2>2, <2>3
<1> QED BY <1>1, <1>2

-----------------------------------------------------------------------------
(* Sequences of the cache *)

\* list_del of an entry: those before it keep their place, those behind it move up.
LEMMA RemoveAtType ==
  ASSUME NEW S, NEW s \in Seq(S), NEW i \in 1..Len(s)
  PROVE  /\ RemoveAt(s, i) \in Seq(S)
         /\ Len(RemoveAt(s, i)) = Len(s) - 1
         /\ \A j \in 1..(Len(s) - 1) : RemoveAt(s, i)[j] = s[IF j < i THEN j ELSE j + 1]
<1> DEFINE before == SubSeq(s, 1, i - 1)
           behind == SubSeq(s, i + 1, Len(s))
<1>1. Len(s) \in Nat /\ i \in Nat /\ 1 <= i /\ i <= Len(s)
  OBVIOUS
<1>2. /\ before \in Seq(S) /\ Len(before) = i - 1
      /\ \A j \in 1..(i - 1) : before[j] = s[j]
  <2>1. \A j \in 1..(i - 1) : s[j] \in S
    BY <1>1
  <2>2. /\ SubSeq(s, 1, i - 1) \in Seq(S)
        /\ Len(SubSeq(s, 1, i - 1)) = IF 1 <= i - 1 THEN i - 1 - 1 + 1 ELSE 0
        /\ \A j \in 1..(i - 1 - 1 + 1) : SubSeq(s, 1, i - 1)[j] = s[1 + j - 1]
    BY <1>1, <2>1, SubSeqProperties
  <2> QED BY <1>1, <2>2
<1>3. /\ behind \in Seq(S) /\ Len(behind) = Len(s) - i
      /\ \A j \in 1..(Len(s) - i) : behind[j] = s[i + j]
  <2>1. \A j \in (i + 1)..Len(s) : s[j] \in S
    BY <1>1
  <2>2. /\ SubSeq(s, i + 1, Len(s)) \in Seq(S)
        /\ Len(SubSeq(s, i + 1, Len(s))) = IF i + 1 <= Len(s) THEN Len(s) - (i + 1) + 1 ELSE 0
        /\ \A j \in 1..(Len(s) - (i + 1) + 1) : SubSeq(s, i + 1, Len(s))[j] = s[i + 1 + j - 1]
    BY <1>1, <2>1, SubSeqProperties
  <2> QED BY <1>1, <2>2
<1> HIDE DEF before, behind
<1>4. RemoveAt(s, i) = before \o behind
  BY DEF RemoveAt, before, behind
<1>5. /\ before \o behind \in Seq(S)
      /\ Len(before \o behind) = Len(before) + Len(behind)
      /\ \A j \in 1..(Len(before) + Len(behind)) :
           (before \o behind)[j] = IF j <= Len(before) THEN before[j] ELSE behind[j - Len(before)]
  BY <1>2, <1>3, ConcatProperties
<1>6. ASSUME NEW j \in 1..(Len(s) - 1)
      PROVE  RemoveAt(s, i)[j] = s[IF j < i THEN j ELSE j + 1]
  <2>1. RemoveAt(s, i)[j] = IF j <= i - 1 THEN before[j] ELSE behind[j - (i - 1)]
    BY <1>1, <1>2, <1>3, <1>4, <1>5
  <2>2. CASE j < i
    BY <1>1, <1>2, <2>1, <2>2
  <2>3. CASE j >= i
    <3>1. j - (i - 1) \in 1..(Len(s) - i) /\ i + (j - (i - 1)) = j + 1
      BY <1>1, <2>3
    <3> QED BY <1>1, <1>3, <2>1, <2>3, <3>1
  <2> QED BY <1>1, <2>2, <2>3
<1> QED BY <1>1, <1>2, <1>3, <1>4, <1>5, <1>6

\* What the list holds without the entry.
LEMMA UnlinkCell ==
  ASSUME NEW S, NEW s \in Seq(S), NEW i \in 1..Len(s), IsInjective(s)
  PROVE  /\ ToSet(RemoveAt(s, i)) = ToSet(s) \ {s[i]}
         /\ IsInjective(RemoveAt(s, i))
<1> DEFINE t == RemoveAt(s, i)
           place(j) == IF j < i THEN j ELSE j + 1
<1>1. /\ DOMAIN s = 1..Len(s) /\ Len(s) \in Nat /\ i \in Nat /\ 1 <= i /\ i <= Len(s)
      /\ DOMAIN t = 1..(Len(s) - 1)
      /\ \A j \in 1..(Len(s) - 1) : t[j] = s[place(j)]
  BY RemoveAtType
<1> HIDE DEF t
<1>2. \A j \in 1..(Len(s) - 1) : place(j) \in 1..Len(s) /\ place(j) # i
  BY <1>1
<1>3. \A j \in 1..Len(s) : j # i => \E l \in 1..(Len(s) - 1) : place(l) = j
  <2> SUFFICES ASSUME NEW j \in 1..Len(s), j # i
               PROVE  \E l \in 1..(Len(s) - 1) : place(l) = j
    OBVIOUS
  <2>1. CASE j < i
    <3>1. j \in 1..(Len(s) - 1) /\ place(j) = j
      BY <1>1, <2>1
    <3> QED BY <3>1
  <2>2. CASE j > i
    <3>1. j - 1 \in 1..(Len(s) - 1) /\ place(j - 1) = j
      BY <1>1, <2>2
    <3> QED BY <3>1
  <2> QED BY <1>1, <2>1, <2>2
<1>4. \A j, l \in 1..(Len(s) - 1) : place(j) = place(l) => j = l
  BY <1>1
<1> HIDE DEF place
<1>5. IsInjective(t)
  BY <1>1, <1>2, <1>4 DEF IsInjective
<1>6. ToSet(t) = ToSet(s) \ {s[i]}
  <2>1. ASSUME NEW c \in ToSet(t) PROVE c \in ToSet(s) \ {s[i]}
    BY <1>1, <1>2 DEF ToSet, IsInjective
  <2>2. ASSUME NEW c \in ToSet(s) \ {s[i]} PROVE c \in ToSet(t)
    <3>1. PICK j \in 1..Len(s) : c = s[j] /\ j # i
      BY <1>1 DEF ToSet
    <3>2. PICK l \in 1..(Len(s) - 1) : place(l) = j
      BY <1>3, <3>1
    <3> QED BY <1>1, <3>1, <3>2 DEF ToSet
  <2> QED BY <2>1, <2>2
<1> QED BY <1>5, <1>6 DEF t

\* What it holds with a new entry.
LEMMA AppendCell ==
  ASSUME NEW S, NEW s \in Seq(S), NEW c \in S
  PROVE  /\ Append(s, c) \in Seq(S)
         /\ ToSet(Append(s, c)) = ToSet(s) \cup {c}
         /\ IsInjective(s) /\ c \notin ToSet(s) => IsInjective(Append(s, c))
<1> DEFINE t == Append(s, c)
           n == Len(s)
<1>1. /\ n \in Nat /\ DOMAIN s = 1..n /\ DOMAIN t = 1..(n + 1) /\ t \in Seq(S)
      /\ \A i \in 1..n : t[i] = s[i]
      /\ t[n + 1] = c
  BY AppendProperties
<1> HIDE DEF t, n
<1>2. ToSet(t) = ToSet(s) \cup {c}
  <2>1. \A i \in 1..(n + 1) : i \in 1..n \/ i = n + 1
    BY <1>1
  <2>2. 1..n \subseteq 1..(n + 1) /\ n + 1 \in 1..(n + 1)
    BY <1>1
  <2>3. ASSUME NEW e \in ToSet(t) PROVE e \in ToSet(s) \cup {c}
    BY <1>1, <2>1 DEF ToSet
  <2>4. ASSUME NEW e \in ToSet(s) \cup {c} PROVE e \in ToSet(t)
    BY <1>1, <2>2 DEF ToSet
  <2> QED BY <2>3, <2>4
<1>3. IsInjective(s) /\ c \notin ToSet(s) => IsInjective(t)
  BY <1>1 DEF IsInjective, ToSet
<1> QED BY <1>1, <1>2, <1>3 DEF t

\* The walk of getResource stops at an entry with the path it looks for.
LEMMA FirstEntryType ==
  ASSUME CacheTypeOK, NEW k, Found(k)
  PROVE  /\ FirstEntry(k) \in 1..Len(resources)
         /\ resources[FirstEntry(k)] \in Cell \cap ToSet(resources)
         /\ mem[entry[resources[FirstEntry(k)]]].dir = k
<1>1. Entries(k) \in SUBSET Nat /\ Entries(k) # {}
  BY DEF CacheTypeOK, Found, Entries
<1>2. FirstEntry(k) \in Entries(k)
  BY <1>1, LeastNatural DEF FirstEntry
<1> QED BY <1>2 DEF Entries, CacheTypeOK, ToSet

\* One block is freed.
LEMMA FreeType ==
  ASSUME CacheTypeOK, NEW a \in Addr, mem' = [mem EXCEPT ![a].live = FALSE]
  PROVE  /\ mem' \in [Addr -> Response] /\ ~mem'[a].live
         /\ \A b \in Addr : /\ mem'[b].complete = mem[b].complete
                            /\ mem'[b].body = mem[b].body /\ mem'[b].dir = mem[b].dir
                            /\ b # a => mem'[b] = mem[b]
<1>1. mem[a] \in Response
  BY DEF CacheTypeOK
<1> DEFINE new == [mem[a] EXCEPT !.live = FALSE]
<1>2. /\ new \in Response /\ ~new.live
      /\ new.complete = mem[a].complete /\ new.body = mem[a].body /\ new.dir = mem[a].dir
  BY <1>1 DEF Response
<1>3. mem' = [mem EXCEPT ![a] = new]
  OBVIOUS
<1> HIDE DEF new
<1> QED BY <1>2, <1>3 DEF CacheTypeOK

-----------------------------------------------------------------------------
(* Types *)

\* d looks up, requests or stores on behalf of a response of its own.
Storing(d) == todo[d] # <<>> \/ pc[d] \in {"insert", "store"}

\* d fills its response in, or reads it.
Parsing == {"complete", "block", "name", "judge", "refs"}

\* What the locals of a dispatcher hold at each of its steps.
Local(d) ==
    /\ pc[d] = "pop" <=> held[d] = NoReq
    /\ todo[d] # <<>> => pc[d] \in {"server", "relink", "search", "found", "expire", "insert"}
    /\ pc[d] = "insert" => todo[d] # <<>>
    /\ pc[d] = "refs" => held[d].prefetch # 1
    /\ re[d] # Nobody <=> pc[d] \in {"found", "expire"}
    /\ pc[d] # "release" =>
         (resp[d] # Nobody <=> Storing(d) \/ pc[d] \in Parsing \cup {"send", "test", "free"})

Locals ==
    /\ conn # Nobody => incoming = NoReq
    /\ incoming # NoReq => incoming.prefetch = 0
    /\ \A d \in Dispatchers : Local(d)

\* An entry is once in the list, or with one dispatcher that has unlinked it.
Entered ==
    /\ IsInjective(resources)
    /\ \A c \in ToSet(resources) : entry[c] \in Addr
    /\ \A d \in Dispatchers : re[d] # Nobody => entry[re[d]] \in Addr
    /\ \A d \in Dispatchers : pc[d] = "expire" => re[d] \notin ToSet(resources)
    /\ \A d, e \in Dispatchers : pc[d] = "expire" /\ pc[e] = "expire" /\ re[d] = re[e] => d = e

Typed == TypeOK /\ Locals /\ Entered

\* The program starts with values of the right types, and idle threads.
LEMMA TypedInit == Init => Typed
<1> SUFFICES ASSUME Init PROVE Typed
  OBVIOUS
<1> USE DEF Init, CacheInit, Queue!Init
<1>1. mem \in [Addr -> Response]
  BY DEF NewMemory, Response
<1>2. /\ resources \in Seq(Cell) /\ DOMAIN resources = {}
      /\ \A d \in Dispatchers : todo[d] \in Seq(RefRequest)
  OBVIOUS
<1>3. TypeOK
  BY <1>1, <1>2 DEF TypeOK, CacheTypeOK, PC
<1>4. Locals
  BY DEF Locals, Local, Storing, Parsing
<1>5. Entered
  BY <1>2 DEF Entered, IsInjective, ToSet
<1> QED BY <1>3, <1>4, <1>5 DEF Typed

\* A step that leaves the entries alone.
LEMMA EnteredFrame ==
  ASSUME Entered, UNCHANGED <<entry, resources, re>>,
         \A d \in Dispatchers : pc'[d] = "expire" <=> pc[d] = "expire"
  PROVE  Entered'
BY DEF Entered

\* The proxy thread and the clients respect the types.
LEMMA TypedEnvironment ==
  ASSUME Typed, ProxyThread \/ FromClient PROVE Typed'
<1> USE DEF Typed, cacheVars, queueVars, proxyVars, history
<1>1. Entered'
  <2>1. UNCHANGED <<entry, resources, re, pc>>
    BY DEF ProxyThread, FromClient, Accept, Receive, ReceiveFails, InsertIncoming
  <2> QED BY <2>1, EnteredFrame
<1> USE CacheAssumption, NamesAssumption
    DEF TypeOK, CacheTypeOK, Locals, Local, Storing
<1>2. ASSUME NEW c \in Clients, Accept(c) PROVE Typed'
  BY <1>1, <1>2 DEF Accept
<1>3. ASSUME NEW k \in ClientPages, Receive(k) PROVE Typed'
  <2>1. incoming' \in Request /\ incoming'.prefetch = 0
    BY <1>3, RequestFields DEF Receive
  <2> QED BY <1>1, <1>3, <2>1 DEF Receive
<1>4. CASE ReceiveFails
  BY <1>1, <1>4 DEF ReceiveFails
<1>5. CASE InsertIncoming
  <2>1. incoming \in Request /\ incoming.client \in Clients
    BY <1>5, RequestFields DEF InsertIncoming
  <2>2. TypeOK'
    BY <1>5, <2>1 DEF InsertIncoming, Queue!Put, Queue!Fail
  <2>3. Locals'
    BY <1>5 DEF InsertIncoming, Queue!Put, Queue!Fail
  <2> QED BY <1>1, <2>2, <2>3
<1> QED BY <1>2, <1>3, <1>4, <1>5 DEF ProxyThread, FromClient

\* The references still to be looked at are requests without a client.
LEMMA TodoType ==
  ASSUME TypeOK, NEW d \in Dispatchers, todo[d] # <<>>
  PROVE  Head(todo[d]) \in RefRequest /\ Tail(todo[d]) \in Seq(RefRequest)
BY HeadTailProperties DEF TypeOK

\* The locals of the other dispatchers, and the proxy thread's, stay as they are.
Alone(d) ==
    /\ UNCHANGED <<conn, incoming>>
    /\ \A e \in Dispatchers \ {d} : /\ pc'[e] = pc[e] /\ held'[e] = held[e] /\ re'[e] = re[e]
                                    /\ resp'[e] = resp[e] /\ todo'[e] = todo[e]

\* The steps of a dispatcher are its own.
LEMMA DispatchAlone == ASSUME TypeOK, NEW d \in Dispatchers, Dispatch(d) PROVE Alone(d)
<1> USE DEF Alone, TypeOK, CacheTypeOK, Goto, cacheVars, queueVars, proxyVars
<1>1. CASE Pop(d) \/ UnlinkServer(d) \/ RelinkServer(d) \/ CopyDir(d) \/ Judge(d)
  BY <1>1 DEF Pop, UnlinkServer, RelinkServer, CopyDir, Judge, MoveServer, RestoreServer,
     WriteDir, Write, Queue!Take
<1>2. CASE Lookup(d)
  BY <1>2 DEF Lookup, Hit, Expired, Miss
<1>3. CASE ReturnFound(d) \/ FreeExpired(d)
  BY <1>3 DEF ReturnFound, FreeExpired, ReadEntry, FreeEntry, NextRef
<1>4. CASE ParseResponse(d)
  BY <1>4 DEF ParseResponse, AllocResponse, SetComplete, CopyBlock, Malloc, WriteComplete,
     WriteBlock, Write
<1>5. CASE ParseRef(d) \/ InsertRef(d) \/ StoreResource(d)
  BY <1>5 DEF ParseRef, InsertRef, StoreResource, NextRef, Store, Queue!Put, Queue!Fail
<1>6. CASE Send(d) \/ TestComplete(d) \/ FreeOwn(d) \/ Release(d)
  BY <1>6 DEF Send, TestComplete, FreeOwn, Release, FreeResponse, Leak, Write, Queue!Release
<1> QED BY <1>1, <1>2, <1>3, <1>4, <1>5, <1>6 DEF Dispatch, GetResource, InsertResource

\* A step of d alone.
LEMMA LocalsFrame ==
  ASSUME Locals, NEW d \in Dispatchers, Alone(d), Local(d)'
  PROVE  Locals'
BY DEF Locals, Local, Storing, Alone

\* The walk of getResource, for what d looks for.
LEMMA TypedLookup ==
  ASSUME Typed, NEW d \in Dispatchers, Lookup(d) PROVE Typed'
<1> DEFINE k == Wanted(d)
           i == FirstEntry(k)
           c == resources[i]
<1> USE DEF Typed, queueVars, proxyVars, history, Goto
<1>1. /\ pc[d] = "search" /\ UNCHANGED <<queueVars, proxyVars, resp, todo, alive, history>>
      /\ UNCHANGED <<mem, entry, moving>> /\ pc \in [Dispatchers -> PC] /\ re \in [Dispatchers -> Cell \cup {Nobody}]
  BY DEF Lookup, Hit, Expired, Miss, cacheVars, TypeOK, CacheTypeOK
<1>2. Local(d) /\ re[d] = Nobody /\ resources \in Seq(Cell)
  BY <1>1 DEF Locals, Local, TypeOK, CacheTypeOK
<1>3. ASSUME NEW to \in {"fetch", "insert", "found", "expire"}, pc' = [pc EXCEPT ![d] = to],
             NEW a \in Cell \cup {Nobody}, re' = [re EXCEPT ![d] = a],
             a # Nobody <=> to \in {"found", "expire"},
             to = "fetch" => todo[d] = <<>>, to = "insert" => todo[d] # <<>>,
             resources' \in Seq(Cell), Entered'
      PROVE  Typed'
  <2>1. TypeOK'
    BY <1>1, <1>3 DEF TypeOK, CacheTypeOK, PC
  <2>2. pc'[d] = to /\ re'[d] = a
    BY <1>1, <1>3
  <2>3. Local(d)'
    BY <1>1, <1>2, <1>3, <2>2 DEF Local, Storing, Parsing
  <2>4. Locals'
    BY <2>3, LocalsFrame, DispatchAlone DEF Dispatch, GetResource
  <2> QED BY <1>3, <2>1, <2>4
<1>4. CASE pc' = [pc EXCEPT ![d] = NotFound(d)] /\ Miss(k)
  <2>1. re' = [re EXCEPT ![d] = Nobody] /\ UNCHANGED <<re, resources>>
    BY <1>1, <1>2, <1>4 DEF Miss, cacheVars
  <2>2. NotFound(d) = IF todo[d] = <<>> THEN "fetch" ELSE "insert"
    BY DEF NotFound
  <2>3. Entered'
    BY <1>1, <1>4, <2>1, <2>2, EnteredFrame
  <2> QED BY <1>2, <1>3, <1>4, <2>1, <2>2, <2>3
<1>5. CASE pc' = [pc EXCEPT ![d] = "found"] /\ Hit(d, k)
  <2>1. c \in Cell \cap ToSet(resources)
    BY <1>5, FirstEntryType DEF Hit, TypeOK
  <2>2. re' = [re EXCEPT ![d] = c] /\ UNCHANGED resources
    BY <1>5 DEF Hit
  <2> HIDE DEF c
  <2>3. Entered'
    BY <1>1, <1>5, <2>1, <2>2 DEF Entered
  <2> QED BY <1>2, <1>3, <1>5, <2>1, <2>2, <2>3, CacheAssumption
<1>6. CASE pc' = [pc EXCEPT ![d] = "expire"] /\ Expired(d, k)
  <2>1. i \in 1..Len(resources) /\ c \in Cell \cap ToSet(resources)
    BY <1>6, FirstEntryType DEF Expired, TypeOK
  <2>2. re' = [re EXCEPT ![d] = c] /\ resources' = RemoveAt(resources, i)
    BY <1>6 DEF Expired
  <2>3. /\ resources' \in Seq(Cell) /\ IsInjective(resources')
        /\ ToSet(resources') = ToSet(resources) \ {c}
    BY <1>2, <2>1, <2>2, RemoveAtType, UnlinkCell DEF Entered
  <2> HIDE DEF c, i
  <2>4. Entered'
    BY <1>1, <1>6, <2>1, <2>2, <2>3 DEF Entered
  <2> QED BY <1>3, <1>6, <2>1, <2>2, <2>3, <2>4, CacheAssumption
<1> QED BY <1>4, <1>5, <1>6 DEF Lookup

\* Every step of a dispatcher respects the types and the locals of its turn.
LEMMA TypedDispatch == ASSUME Typed, NEW d \in Dispatchers, Dispatch(d) PROVE Typed'
<1> USE DEF Typed, queueVars, proxyVars, history, Goto
<1>1. TypeOK /\ Local(d) /\ Entered /\ pc \in [Dispatchers -> PC]
  BY DEF Locals, TypeOK
<1>2. ASSUME TypeOK', Local(d)', Entered' PROVE Typed'
  BY <1>1, <1>2, LocalsFrame, DispatchAlone
<1>3. ASSUME UNCHANGED <<entry, resources, re>>, pc'[d] = "expire" <=> pc[d] = "expire"
      PROVE  Entered'
  <2>1. \A e \in Dispatchers : pc'[e] = "expire" <=> pc[e] = "expire"
    BY <1>1, <1>3, DispatchAlone DEF Alone
  <2> QED BY <1>1, <1>3, <2>1, EnteredFrame
<1> USE CacheAssumption, NamesAssumption
<1>4. CASE Pop(d)
  <2>1. TypeOK'
    BY <1>1, <1>4 DEF Pop, Queue!Take, TypeOK, CacheTypeOK, cacheVars, PC
  <2>2. Local(d)'
    BY <1>1, <1>4 DEF Pop, Queue!Take, TypeOK, CacheTypeOK, cacheVars, Local, Storing, Parsing
  <2>3. Entered'
    BY <1>1, <1>3, <1>4 DEF Pop, cacheVars
  <2> QED BY <1>2, <2>1, <2>2, <2>3
<1>5. CASE UnlinkServer(d) \/ RelinkServer(d)
  <2>1. /\ \E to \in {"relink", "relink_fetch", "search", "malloc"} :
             /\ pc' = [pc EXCEPT ![d] = to]
             /\ pc[d] \in {"server", "relink"} <=> to \in {"relink", "search"}
        /\ pc[d] \in {"server", "relink", "fetch", "relink_fetch"}
        /\ UNCHANGED <<mem, entry, resources, re, queueVars, proxyVars, resp, todo, alive, history>>
        /\ moving' \in {d, Nobody}
    BY <1>5 DEF UnlinkServer, RelinkServer, MoveServer, RestoreServer
  <2>2. TypeOK'
    BY <1>1, <2>1 DEF TypeOK, CacheTypeOK, PC
  <2>3. Local(d)'
    BY <1>1, <2>1 DEF Local, Storing, Parsing
  <2>4. Entered'
    BY <1>1, <1>3, <2>1
  <2> QED BY <1>2, <2>2, <2>3, <2>4
<1>6. CASE Lookup(d)
  BY <1>6, TypedLookup
<1>7. CASE ReturnFound(d)
  <2>1. /\ pc[d] = "found" /\ re' = [re EXCEPT ![d] = Nobody] /\ entry[re[d]] \in Addr
        /\ UNCHANGED <<mem, entry, resources, moving, queueVars, proxyVars, alive, history>>
    BY <1>1, <1>7 DEF ReturnFound, ReadEntry, Local, Entered
  <2>2. /\ \/ todo[d] = <<>> /\ UNCHANGED todo
           \/ /\ todo[d] # <<>> /\ Tail(todo[d]) \in Seq(RefRequest)
              /\ todo' = [todo EXCEPT ![d] = Tail(todo[d])]
        /\ IF todo[d] = <<>> THEN /\ pc' = [pc EXCEPT ![d] = "send"]
                                  /\ resp' = [resp EXCEPT ![d] = entry[re[d]]]
           ELSE /\ pc' = [pc EXCEPT ![d] = IF Tail(todo[d]) = <<>> THEN "store" ELSE "server"]
                /\ UNCHANGED resp
    BY <1>1, <1>7, TodoType DEF ReturnFound, NextRef
  <2>3. TypeOK'
    <3>1. pc' \in [Dispatchers -> PC] /\ resp' \in [Dispatchers -> Addr \cup {Nobody}]
      BY <1>1, <2>1, <2>2 DEF TypeOK, PC
    <3>2. todo' \in [Dispatchers -> Seq(RefRequest)]
      BY <1>1, <2>2 DEF TypeOK
    <3> QED BY <1>1, <2>1, <3>1, <3>2 DEF TypeOK, CacheTypeOK
  <2>4. Local(d)'
    BY <1>1, <2>1, <2>2 DEF Local, Storing, Parsing, TypeOK, CacheTypeOK
  <2>5. Entered'
    BY <1>1, <2>1, <2>2 DEF Entered, TypeOK, CacheTypeOK
  <2> QED BY <1>2, <2>3, <2>4, <2>5
<1>8. CASE FreeExpired(d)
  <2>1. /\ pc[d] = "expire" /\ re' = [re EXCEPT ![d] = Nobody] /\ entry[re[d]] \in Addr
        /\ re[d] \in Cell /\ re[d] \notin ToSet(resources)
        /\ UNCHANGED <<resources, moving, queueVars, proxyVars, resp, todo, mistaken>>
        /\ mem' = [mem EXCEPT ![entry[re[d]]].live = FALSE]
        /\ pc' = [pc EXCEPT ![d] = IF todo[d] = <<>> THEN "fetch" ELSE "insert"]
        /\ alive' = mem[entry[re[d]]].live
        /\ overtaken' \in BOOLEAN
        /\ entry' = IF \E e \in Dispatchers \ {d} : re[e] = re[d] THEN entry
                    ELSE [entry EXCEPT ![re[d]] = Nobody]
    BY <1>1, <1>8 DEF FreeExpired, FreeEntry, NotFound, Local, Entered, TypeOK, CacheTypeOK
  <2>2. /\ mem' \in [Addr -> Response] /\ alive' \in BOOLEAN
        /\ entry' \in [Cell -> Addr \cup {Nobody}]
    BY <1>1, <2>1, FreeType DEF TypeOK, CacheTypeOK, Response
  <2>3. TypeOK'
    <3>1. CacheTypeOK'
      BY <1>1, <2>1, <2>2 DEF TypeOK, CacheTypeOK
    <3> QED BY <1>1, <2>1, <2>2, <3>1 DEF TypeOK, PC
  <2>4. Local(d)'
    BY <1>1, <2>1 DEF Local, Storing, Parsing, TypeOK, CacheTypeOK
  <2>5. Entered'
    BY <1>1, <2>1 DEF Entered, TypeOK, CacheTypeOK
  <2> QED BY <1>2, <2>3, <2>4, <2>5
<1>9. CASE ParseResponse(d) \/ CopyDir(d)
  <2>1. held[d] \in Request /\ held[d].dir \in Resource
    BY <1>1, <1>9, RequestFields
       DEF ParseResponse, AllocResponse, SetComplete, CopyBlock, CopyDir, Local, TypeOK
  <2>2. /\ \E to \in {"complete", "block", "name", "judge"} : pc' = [pc EXCEPT ![d] = to]
        /\ pc[d] \in {"malloc", "complete", "block", "name"}
        /\ UNCHANGED <<entry, resources, re, moving, queueVars, proxyVars, todo, alive, history>>
    BY <1>9 DEF ParseResponse, AllocResponse, SetComplete, CopyBlock, CopyDir, Malloc,
       WriteComplete, WriteBlock, WriteDir, Write
  <2>3. \E a \in Addr, r \in Response :
           mem' = [mem EXCEPT ![a] = r] /\ resp' = [resp EXCEPT ![d] = a]
    <3>1. CASE AllocResponse(d)
      <4>1. PICK a \in Addr : Malloc(a) /\ resp' = [resp EXCEPT ![d] = a]
        BY <3>1 DEF AllocResponse
      <4>2. mem[a] \in Response
        BY <1>1 DEF TypeOK, CacheTypeOK
      <4>3. PICK c \in {mem[a].complete, 0, 2}, b \in {mem[a].body, Junk} :
               mem' = [mem EXCEPT ![a] = [mem[a] EXCEPT !.live = TRUE, !.complete = c, !.body = b]]
        BY <4>1 DEF Malloc, Write
      <4>4. [mem[a] EXCEPT !.live = TRUE, !.complete = c, !.body = b] \in Response
        BY <4>2 DEF Response
      <4> QED BY <4>1, <4>3, <4>4
    <3>2. CASE SetComplete(d) \/ CopyBlock(d) \/ CopyDir(d)
      <4> DEFINE a == resp[d]
      <4>1. a \in Addr /\ mem[a] \in Response /\ UNCHANGED resp /\ resp \in [Dispatchers -> Addr \cup {Nobody}]
        BY <1>1, <3>2 DEF SetComplete, CopyBlock, CopyDir, Local, Parsing, TypeOK, CacheTypeOK
      <4>2. resp' = [resp EXCEPT ![d] = a]
        BY <4>1
      <4>3. \/ \E c \in {0, 1} : mem' = [mem EXCEPT ![a] = [mem[a] EXCEPT !.complete = c]]
            \/ mem' = [mem EXCEPT ![a] = [mem[a] EXCEPT !.body = held[d].dir]]
            \/ mem' = [mem EXCEPT ![a] = [mem[a] EXCEPT !.dir = held[d].dir]]
        BY <3>2 DEF SetComplete, CopyBlock, CopyDir, WriteComplete, WriteBlock, WriteDir, Write
      <4> HIDE DEF a
      <4>4. /\ \A c \in {0, 1} : [mem[a] EXCEPT !.complete = c] \in Response
            /\ [mem[a] EXCEPT !.body = held[d].dir] \in Response
            /\ [mem[a] EXCEPT !.dir = held[d].dir] \in Response
        BY <2>1, <4>1 DEF Response
      <4> QED BY <4>1, <4>2, <4>3, <4>4
    <3> QED BY <1>9, <3>1, <3>2 DEF ParseResponse
  <2>4. TypeOK'
    BY <1>1, <2>2, <2>3 DEF TypeOK, CacheTypeOK, PC
  <2>5. Local(d)'
    BY <1>1, <2>2, <2>3 DEF Local, Storing, Parsing, TypeOK
  <2>6. Entered'
    BY <1>1, <1>3, <2>2
  <2> QED BY <1>2, <2>4, <2>5, <2>6
<1>10. CASE Judge(d)
  <2>1. /\ \E to \in {"refs", "store", "send"} : pc' = [pc EXCEPT ![d] = to]
        /\ pc[d] = "judge" /\ (pc'[d] = "refs" => held[d].prefetch # 1)
        /\ UNCHANGED <<cacheVars, queueVars, proxyVars, resp, todo, alive, history>>
    BY <1>1, <1>10 DEF Judge
  <2>2. TypeOK'
    BY <1>1, <2>1 DEF TypeOK, CacheTypeOK, cacheVars, PC
  <2>3. Local(d)'
    BY <1>1, <2>1 DEF Local, Storing, Parsing, cacheVars
  <2>4. Entered'
    BY <1>1, <1>3, <2>1 DEF cacheVars
  <2> QED BY <1>2, <2>2, <2>3, <2>4
<1>11. CASE ParseRef(d)
  <2>1. resp[d] \in Addr /\ mem[resp[d]].body \in Resource \cup {Junk}
    BY <1>1, <1>11 DEF ParseRef, Local, Parsing, TypeOK, CacheTypeOK, Response
  <2>2. PICK refs \in Prefetches(mem[resp[d]].body, held[d].prefetch) :
           /\ todo' = [todo EXCEPT ![d] = refs]
           /\ pc' = [pc EXCEPT ![d] = IF refs = <<>> THEN "store" ELSE "server"]
    BY <1>11 DEF ParseRef
  <2>3. refs \in Seq(RefRequest)
    BY <2>1, PrefetchesType
  <2>4. /\ pc[d] = "refs" /\ mistaken' \in BOOLEAN
        /\ UNCHANGED <<cacheVars, queueVars, proxyVars, resp, alive, overtaken>>
    BY <1>1, <1>11 DEF ParseRef, TypeOK
  <2>5. TypeOK'
    BY <1>1, <2>2, <2>3, <2>4 DEF TypeOK, CacheTypeOK, cacheVars, PC
  <2>6. Local(d)'
    BY <1>1, <2>2, <2>4 DEF Local, Storing, Parsing, cacheVars, TypeOK
  <2>7. Entered'
    BY <1>1, <1>3, <2>2, <2>4 DEF cacheVars
  <2> QED BY <1>2, <2>5, <2>6, <2>7
<1>12. CASE InsertRef(d)
  <2>1. /\ pc[d] = "insert" /\ slot' \in Request \cup {NoReq} /\ jammed' \in BOOLEAN
        /\ UNCHANGED <<cacheVars, held, proxyVars, resp, alive, history>>
        /\ todo' = [todo EXCEPT ![d] = Tail(todo[d])] /\ Tail(todo[d]) \in Seq(RefRequest)
        /\ pc' = [pc EXCEPT ![d] = IF Tail(todo[d]) = <<>> THEN "store" ELSE "server"]
    BY <1>1, <1>12, TodoType, RequestFields
       DEF InsertRef, NextRef, Queue!Put, Queue!Fail, Local, TypeOK
  <2>2. TypeOK'
    BY <1>1, <2>1 DEF TypeOK, CacheTypeOK, cacheVars, PC
  <2>3. Local(d)'
    BY <1>1, <2>1 DEF Local, Storing, Parsing, cacheVars, TypeOK
  <2>4. Entered'
    BY <1>1, <1>3, <2>1 DEF cacheVars
  <2> QED BY <1>2, <2>2, <2>3, <2>4
<1>13. CASE StoreResource(d)
  <2>1. PICK c \in Cell \ InUse : Store(c, resp[d])
    BY <1>13 DEF StoreResource
  <2>2. /\ pc[d] = "store" /\ pc' = [pc EXCEPT ![d] = "send"]
        /\ UNCHANGED <<mem, re, moving, queueVars, proxyVars, resp, todo, alive, history>>
        /\ entry' = [entry EXCEPT ![c] = resp[d]] /\ resources' = Append(resources, c)
    BY <1>13, <2>1 DEF StoreResource, Store
  <2>3. /\ resources' \in Seq(Cell) /\ IsInjective(resources')
        /\ ToSet(resources') = ToSet(resources) \cup {c}
    BY <1>1, <2>1, <2>2, AppendCell DEF Entered, InUse, TypeOK, CacheTypeOK
  <2>4. resp[d] \in Addr
    BY <1>1, <2>2 DEF Local, Storing, TypeOK
  <2>5. TypeOK'
    BY <1>1, <2>1, <2>2, <2>3, <2>4 DEF TypeOK, CacheTypeOK, PC
  <2>6. Local(d)'
    BY <1>1, <2>2 DEF Local, Storing, Parsing
  <2>7. Entered'
    <3>1. \A e \in Dispatchers : pc[e] = "expire" => re[e] # c
      BY <2>1 DEF InUse
    <3>2. \A e \in Dispatchers : pc'[e] = "expire" <=> pc[e] = "expire"
      BY <1>1, <2>2
    <3>3. \A b \in Cell : entry'[b] = IF b = c THEN resp[d] ELSE entry[b]
      BY <1>1, <2>1, <2>2 DEF TypeOK, CacheTypeOK
    <3>4. \A e \in Dispatchers : re'[e] = re[e] /\ (re[e] # Nobody => re[e] \in Cell)
      BY <1>1, <2>2 DEF TypeOK, CacheTypeOK
    <3>5. ToSet(resources) \subseteq Cell
      BY <1>1 DEF TypeOK, CacheTypeOK, ToSet
    <3> QED BY <1>1, <2>1, <2>3, <2>4, <3>1, <3>2, <3>3, <3>4, <3>5 DEF Entered
  <2> QED BY <1>2, <2>5, <2>6, <2>7
<1>14. CASE Send(d) \/ TestComplete(d)
  <2>1. /\ \E to \in {"test", "release", "free"} : pc' = [pc EXCEPT ![d] = to]
        /\ pc[d] \in {"send", "test"}
        /\ UNCHANGED <<cacheVars, queueVars, conn, incoming, resp, todo, alive, history>>
    BY <1>14 DEF Send, TestComplete
  <2>2. status' \in [Clients -> {"idle", "connected", "waiting", "answered", "dropped", "lost"}]
    <3>1. held[d] \in Request
      BY <1>1, <2>1 DEF Local, TypeOK
    <3>2. held[d].prefetch = 0 => held[d].client \in Clients
      BY <3>1, RequestFields
    <3> QED BY <1>1, <1>14, <3>2 DEF Send, TestComplete, TypeOK
  <2>3. TypeOK'
    BY <1>1, <2>1, <2>2 DEF TypeOK, CacheTypeOK, cacheVars, PC
  <2>4. Local(d)'
    BY <1>1, <2>1 DEF Local, Storing, Parsing, cacheVars
  <2>5. Entered'
    BY <1>1, <1>3, <2>1 DEF cacheVars
  <2> QED BY <1>2, <2>3, <2>4, <2>5
<1>15. CASE FreeOwn(d)
  <2>1. /\ pc[d] = "free" /\ pc' = [pc EXCEPT ![d] = "release"] /\ alive' = mem[resp[d]].live
        /\ resp' = [resp EXCEPT ![d] = Nobody] /\ resp[d] \in Addr
        /\ mem' = [mem EXCEPT ![resp[d]].live = FALSE]
        /\ UNCHANGED <<entry, resources, re, moving, queueVars, proxyVars, todo, history>>
    BY <1>1, <1>15 DEF FreeOwn, FreeResponse, Write, Local, TypeOK
  <2>2. mem' \in [Addr -> Response] /\ alive' \in BOOLEAN
    BY <1>1, <2>1, FreeType DEF TypeOK, CacheTypeOK, Response
  <2>3. TypeOK'
    BY <1>1, <2>1, <2>2 DEF TypeOK, CacheTypeOK, PC
  <2>4. Local(d)'
    BY <1>1, <2>1 DEF Local, Storing, Parsing, TypeOK
  <2>5. Entered'
    BY <1>1, <1>3, <2>1
  <2> QED BY <1>2, <2>3, <2>4, <2>5
<1>16. CASE Release(d)
  <2>1. /\ pc[d] = "release" /\ pc' = [pc EXCEPT ![d] = "pop"]
        /\ held' = [held EXCEPT ![d] = NoReq] /\ resp' = [resp EXCEPT ![d] = Nobody]
        /\ UNCHANGED <<slot, jammed, entry, resources, re, moving, proxyVars, todo, alive, history>>
    BY <1>16 DEF Release, Queue!Release, Leak, Write, cacheVars
  <2>2. mem' \in [Addr -> Response]
    <3>1. CASE resp[d] \in Addr /\ mem' = [mem EXCEPT ![resp[d]] = NewMemory]
      BY <1>1, <3>1 DEF NewMemory, Response, TypeOK, CacheTypeOK
    <3>2. CASE UNCHANGED mem
      BY <1>1, <3>2 DEF TypeOK, CacheTypeOK
    <3> QED BY <1>1, <1>16, <3>1, <3>2 DEF Release, Leaks, Leak, Write, cacheVars, TypeOK
  <2>3. TypeOK'
    BY <1>1, <2>1, <2>2 DEF TypeOK, CacheTypeOK, PC
  <2>4. Local(d)'
    BY <1>1, <2>1 DEF Local, Storing, Parsing, TypeOK
  <2>5. Entered'
    BY <1>1, <1>3, <2>1
  <2> QED BY <1>2, <2>3, <2>4, <2>5
<1> QED BY <1>4, <1>5, <1>6, <1>7, <1>8, <1>9, <1>10, <1>11, <1>12, <1>13, <1>14, <1>15, <1>16
        DEF Dispatch, GetResource, InsertResource

\* Every step of the program does.
LEMMA TypedStep == Typed /\ [Next]_vars => Typed'
<1> SUFFICES ASSUME Typed, [Next]_vars PROVE Typed'
  OBVIOUS
<1>1. CASE ProxyThread \/ FromClient
  BY <1>1, TypedEnvironment
<1>2. ASSUME NEW d \in Dispatchers, Dispatch(d) PROVE Typed'
  BY <1>2, TypedDispatch
<1>3. CASE UNCHANGED vars
  <2> USE <1>3 DEF vars, cacheVars, queueVars, proxyVars, history
  <2>1. TypeOK'
    BY DEF Typed, TypeOK, CacheTypeOK
  <2>2. Locals'
    BY DEF Typed, Locals, Local, Storing
  <2>3. Entered'
    BY EnteredFrame DEF Typed
  <2> QED BY <2>1, <2>2, <2>3 DEF Typed
<1> QED BY <1>1, <1>2, <1>3 DEF Next

(* The types of the proxy's variables, for any number of dispatchers, clients, *)
(* pages and addresses. *)
THEOREM ProxyTyped == Spec => []TypeOK
<1>1. Typed /\ [Next]_vars => Typed'
  BY TypedStep
<1>2. Typed => TypeOK
  BY DEF Typed
<1> QED BY TypedInit, <1>1, <1>2, PTL DEF Spec

-----------------------------------------------------------------------------
(* Where the clients' requests are *)

\* x has the request of client c.
Carries(x, c) ==
    \/ x = "incoming" /\ incoming # NoReq /\ incoming.client = c
    \/ x = "list" /\ slot # NoReq /\ slot.client = c
    \/ x \in Dispatchers /\ held[x] # NoReq /\ held[x].client = c /\ pc[x] \notin Answered

Places == {"incoming", "list"} \cup Dispatchers

\* Once a request is lost nothing can be inserted any more, so no second one is.
Lost ==
    /\ \A c \in Clients : status[c] = "lost" => jammed
    /\ \A c, e \in Clients : status[c] = "lost" /\ status[e] = "lost" => c = e

Carried ==
    /\ conn # Nobody => status[conn] = "connected"
    /\ \A c \in Clients :
         /\ status[c] = "waiting" <=> \E x \in Places : Carries(x, c)
         /\ \A x, y \in Places : Carries(x, c) /\ Carries(y, c) => x = y
    /\ Lost

\* A client that waits is carried by one place, any other by none: OneCarrier.
LEMMA CarriedOne == Carried => OneCarrier
<1> SUFFICES ASSUME Carried, NEW c \in Clients
             PROVE  Cardinality(Carriers(c)) = IF status[c] = "waiting" THEN 1 ELSE 0
  BY DEF OneCarrier, Carried, Lost
<1>1. Carriers(c) = {x \in Places : Carries(x, c)}
  BY NamesAssumption DEF Carriers, Carries, Places
<1>2. CASE status[c] = "waiting"
  <2>1. PICK x \in Places : Carries(x, c)
    BY <1>2 DEF Carried
  <2>2. Carriers(c) = {x}
    BY <1>1, <2>1 DEF Carried
  <2> QED BY <1>2, <2>2, FS_Singleton
<1>3. CASE status[c] # "waiting"
  <2>1. Carriers(c) = {}
    BY <1>1, <1>3 DEF Carried
  <2> QED BY <1>3, <2>1, FS_EmptySet
<1> QED BY <1>2, <1>3

\* At the start nobody waits and nothing is carried.
LEMMA CarriedInit == Init => Carried
BY DEF Init, Queue!Init, Carried, Carries, Lost

(* A step that leaves requests, connections and clients alone, and that does  *)
(* not enter or leave the last part of a dispatcher's turn.                   *)
LEMMA CarriedFrame ==
  ASSUME Carried, UNCHANGED <<incoming, queueVars, conn, status>>,
         \A d \in Dispatchers : held[d] # NoReq => (pc'[d] \in Answered <=> pc[d] \in Answered)
  PROVE  Carried'
<1>1. \A x \in Places, c \in Clients : Carries(x, c)' <=> Carries(x, c)
  BY DEF Carries, queueVars
<1> QED BY <1>1 DEF Carried, Lost, Places, queueVars

\* The proxy thread takes a connection and hands its request over, or loses it.
LEMMA CarriedEnvironment ==
  ASSUME Typed, Carried, ProxyThread \/ FromClient PROVE Carried'
<1> USE DEF queueVars
<1>1. ASSUME NEW c \in Clients, Accept(c) PROVE Carried'
  <2>1. \A x \in Places, b \in Clients : Carries(x, b)' <=> Carries(x, b)
    BY <1>1 DEF Accept, Carries
  <2>2. /\ conn' = c /\ status[c] = "idle" /\ UNCHANGED jammed
        /\ \A b \in Clients : status'[b] = IF b = c THEN "connected" ELSE status[b]
    BY <1>1 DEF Accept, Typed, TypeOK
  <2> QED BY <2>1, <2>2 DEF Carried, Lost, Places
<1>2. ASSUME NEW k \in ClientPages, Receive(k) PROVE Carried'
  <2>1. conn \in Clients /\ conn # Nobody /\ incoming = NoReq /\ status[conn] = "connected" /\ conn' = Nobody
    BY <1>2 DEF Receive, Typed, TypeOK, Locals, Carried
  <2>2. incoming' # NoReq /\ incoming'.client = conn
    BY <1>2, <2>1, RequestFields, NamesAssumption DEF Receive
  <2>3. \A x \in Places, c \in Clients :
           Carries(x, c)' <=> Carries(x, c) \/ (x = "incoming" /\ c = conn)
    BY <1>2, <2>1, <2>2, NamesAssumption DEF Receive, Carries
  <2>4. \A x \in Places : ~Carries(x, conn)
    BY <2>1 DEF Carried
  <2>5. UNCHANGED jammed /\ \A c \in Clients : status'[c] = IF c = conn THEN "waiting" ELSE status[c]
    BY <1>2, <2>1 DEF Receive, Typed, TypeOK
  <2> QED BY <2>1, <2>3, <2>4, <2>5 DEF Carried, Lost, Places
<1>3. CASE ReceiveFails
  <2>1. \A x \in Places, c \in Clients : Carries(x, c)' <=> Carries(x, c)
    BY <1>3 DEF ReceiveFails, Carries
  <2>2. /\ conn \in Clients /\ status[conn] = "connected" /\ conn' = Nobody /\ UNCHANGED jammed
        /\ \A c \in Clients : status'[c] = IF c = conn THEN "dropped" ELSE status[c]
    BY <1>3 DEF ReceiveFails, Typed, TypeOK, Carried
  <2> QED BY <2>1, <2>2 DEF Carried, Lost, Places
<1>4. CASE InsertIncoming
  <2>1. /\ slot = NoReq /\ ~jammed /\ incoming' = NoReq /\ incoming # NoReq /\ incoming \in Request
        /\ UNCHANGED <<conn, held, pc>> /\ conn = Nobody /\ incoming.client \in Clients
    BY <1>4, RequestFields DEF InsertIncoming, Queue!Put, Queue!Fail, Typed, TypeOK, Locals
  <2>2. CASE Queue!Put(incoming) /\ UNCHANGED status
    <3>1. \A c \in Clients :
             /\ ~Carries("list", c) /\ ~Carries("incoming", c)'
             /\ Carries("list", c)' <=> Carries("incoming", c)
             /\ \A x \in Dispatchers : Carries(x, c)' <=> Carries(x, c)
      BY <2>1, <2>2, NamesAssumption DEF Queue!Put, Carries
    <3>2. UNCHANGED <<status, jammed>>
      BY <2>2 DEF Queue!Put
    <3> QED BY <2>1, <3>1, <3>2 DEF Carried, Lost, Places
  <2>3. CASE Queue!Fail /\ status' = [status EXCEPT ![incoming.client] = "lost"]
    <3>1. PICK b \in Clients :
          /\ b = incoming.client /\ Carries("incoming", b) /\ jammed' /\ UNCHANGED slot
          /\ \A c \in Clients : status'[c] = IF c = b THEN "lost" ELSE status[c]
      BY <2>1, <2>3 DEF Queue!Fail, Carries, Typed, TypeOK
    <3>2. \A c \in Clients :
             /\ ~Carries("incoming", c)' /\ (Carries("incoming", c) <=> c = b)
             /\ \A x \in Places \ {"incoming"} : Carries(x, c)' <=> Carries(x, c)
      BY <2>1, <3>1, NamesAssumption DEF Carries, Places
    <3>3. \A x \in Places : ~Carries(x, b)'
      <4>1. \A x \in Places \ {"incoming"} : ~Carries(x, b)
        BY <3>1 DEF Carried, Places
      <4>2. \A x \in Places \ {"incoming"} : ~Carries(x, b)'
        BY <3>2, <4>1
      <4>3. ~Carries("incoming", b)'
        BY <3>2
      <4> QED BY <4>2, <4>3 DEF Places
    <3>4. \A c \in Clients : c # b =>
             /\ status'[c] = "waiting" <=> \E x \in Places : Carries(x, c)'
             /\ \A x, y \in Places : Carries(x, c)' /\ Carries(y, c)' => x = y
      BY <3>1, <3>2 DEF Carried
    <3>5. Lost'
      BY <2>1, <3>1 DEF Carried, Lost
    <3>6. ASSUME NEW c \in Clients
          PROVE  /\ status'[c] = "waiting" <=> \E x \in Places : Carries(x, c)'
                 /\ \A x, y \in Places : Carries(x, c)' /\ Carries(y, c)' => x = y
      <4>1. CASE c = b
        <5>1. status'[c] = "lost"
          BY <3>1, <4>1
        <5> QED BY <3>3, <4>1, <5>1
      <4> QED BY <3>4, <4>1
    <3>7. conn' = Nobody
      BY <2>1
    <3> QED BY <3>5, <3>6, <3>7 DEF Carried, Places
  <2> QED BY <1>4, <2>2, <2>3 DEF InsertIncoming
<1> QED BY <1>1, <1>2, <1>3, <1>4 DEF ProxyThread, FromClient

\* The steps of a dispatcher between popReq and the answer, and after the answer, leave
\* the requests where they are.
LEMMA CarriedInner ==
  ASSUME Typed, Carried, NEW d \in Dispatchers, Dispatch(d),
         UNCHANGED <<queueVars, status>>,
         NEW to \in PC, pc' = [pc EXCEPT ![d] = to], to \in Answered <=> pc[d] \in Answered
  PROVE  Carried'
<1>1. \A e \in Dispatchers : pc'[e] \in Answered <=> pc[e] \in Answered
  BY DEF Typed, TypeOK
<1> QED BY <1>1, CarriedFrame, DispatchAlone DEF Alone, Typed

\* popReq takes the request over, an insertion brings one without a client, and the answer
\* ends the wait.
LEMMA CarriedDispatch ==
  ASSUME Typed, Carried, NEW d \in Dispatchers, Dispatch(d) PROVE Carried'
<1> USE DEF Goto, proxyVars, queueVars
<1>1. CASE Pop(d)
  <2>1. /\ slot # NoReq /\ held[d] = NoReq /\ slot' = NoReq /\ held' = [held EXCEPT ![d] = slot]
        /\ pc' = [pc EXCEPT ![d] = "server"] /\ UNCHANGED <<incoming, conn, status, jammed>>
    BY <1>1 DEF Pop, Queue!Take
  <2>2. \A c \in Clients :
           /\ ~Carries(d, c) /\ ~Carries("list", c)'
           /\ Carries(d, c)' <=> Carries("list", c)
           /\ \A x \in Places \ {d, "list"} : Carries(x, c)' <=> Carries(x, c)
    BY <2>1, NamesAssumption DEF Carries, Places, Answered, Typed, TypeOK
  <2> QED BY <2>1, <2>2 DEF Carried, Lost, Places
<1>2. CASE UnlinkServer(d) \/ RelinkServer(d) \/ Judge(d)
  <2>1. \E to \in PC : pc' = [pc EXCEPT ![d] = to] /\ to \notin Answered /\ pc[d] \notin Answered
    BY <1>2 DEF UnlinkServer, RelinkServer, Judge, Answered, PC
  <2> QED BY <1>2, <2>1, CarriedInner DEF UnlinkServer, RelinkServer, Judge
<1>3. CASE Lookup(d)
  <2>1. \E to \in PC : pc' = [pc EXCEPT ![d] = to] /\ to \notin Answered /\ pc[d] \notin Answered
    BY <1>3 DEF Lookup, NotFound, Answered, PC
  <2> QED BY <1>3, <2>1, CarriedInner DEF Lookup
<1>4. CASE ReturnFound(d) \/ FreeExpired(d)
  <2>1. \E to \in PC : pc' = [pc EXCEPT ![d] = to] /\ to \notin Answered /\ pc[d] \notin Answered
    BY <1>4 DEF ReturnFound, FreeExpired, NextRef, NotFound, Answered, PC
  <2> QED BY <1>4, <2>1, CarriedInner DEF ReturnFound, FreeExpired
<1>5. CASE ParseResponse(d) \/ CopyDir(d)
  <2>1. \E to \in PC : pc' = [pc EXCEPT ![d] = to] /\ to \notin Answered /\ pc[d] \notin Answered
    BY <1>5 DEF ParseResponse, AllocResponse, SetComplete, CopyBlock, CopyDir, Answered, PC
  <2> QED BY <1>5, <2>1, CarriedInner DEF ParseResponse, AllocResponse, SetComplete, CopyBlock, CopyDir
<1>6. CASE ParseRef(d) \/ StoreResource(d)
  <2>1. \E to \in PC : pc' = [pc EXCEPT ![d] = to] /\ to \notin Answered /\ pc[d] \notin Answered
    BY <1>6 DEF ParseRef, StoreResource, Answered, PC
  <2> QED BY <1>6, <2>1, CarriedInner DEF ParseRef, StoreResource
<1>7. CASE InsertRef(d)
  <2>1. /\ ~jammed /\ UNCHANGED <<held, incoming, conn, status>> /\ slot = NoReq
        /\ slot' \in {NoReq, Head(todo[d])}
        /\ pc[d] = "insert"
        /\ \E to \in {"store", "server"} : pc' = [pc EXCEPT ![d] = to]
    BY <1>7 DEF InsertRef, NextRef, Queue!Put, Queue!Fail
  <2>2. slot' # NoReq => slot'.client \notin Clients
    BY <2>1, TodoType, RequestFields, NamesAssumption DEF Typed, Locals, Local
  <2>3. \A c \in Clients :
           /\ ~Carries("list", c) /\ ~Carries("list", c)'
           /\ \A x \in Places \ {"list"} : Carries(x, c)' <=> Carries(x, c)
    BY <2>1, <2>2, NamesAssumption DEF Carries, Places, Answered, Typed, TypeOK
  <2>4. Lost'
    BY <2>1 DEF Carried, Lost
  <2> QED BY <2>1, <2>3, <2>4 DEF Carried, Places
<1>8. CASE Send(d)
  <2>1. /\ pc[d] = "send" /\ held[d] \in Request /\ held[d] # NoReq
        /\ \E to \in {"test", "release"} : pc' = [pc EXCEPT ![d] = to]
        /\ UNCHANGED <<incoming, slot, held, jammed, conn>>
        /\ status' = IF held[d].prefetch = 0 THEN [status EXCEPT ![held[d].client] = "answered"]
                     ELSE status
    BY <1>8 DEF Send, Typed, TypeOK, Locals, Local
  <2>2. \A c \in Clients :
           /\ Carries(d, c) <=> held[d].client = c
           /\ ~Carries(d, c)'
           /\ \A x \in Places \ {d} : Carries(x, c)' <=> Carries(x, c)
    BY <2>1, NamesAssumption DEF Carries, Places, Answered, Typed, TypeOK
  <2>3. CASE held[d].prefetch = 0
    <3>1. held[d].client \in Clients
      BY <2>1, <2>3, RequestFields
    <3>2. \A c \in Clients : status'[c] = IF c = held[d].client THEN "answered" ELSE status[c]
      BY <2>1, <2>3, <3>1 DEF Typed, TypeOK
    <3>3. conn # Nobody => conn # held[d].client
      BY <2>2, <3>1 DEF Carried, Places
    <3>4. conn' # Nobody => status'[conn'] = "connected"
      BY <2>1, <3>2, <3>3 DEF Carried, Typed, TypeOK
    <3>5. \A x \in Places : Carries(x, held[d].client) => x = d
      BY <2>2, <3>1 DEF Carried, Places
    <3>6. Lost'
      BY <2>1, <3>2 DEF Carried, Lost
    <3> QED BY <2>2, <3>1, <3>2, <3>4, <3>5, <3>6 DEF Carried
  <2>4. CASE held[d].prefetch # 0
    <3>1. held[d].client \notin Clients
      BY <2>1, <2>4, RequestFields
    <3> QED BY <2>1, <2>2, <2>4, <3>1 DEF Carried, Lost, Places
  <2> QED BY <2>3, <2>4
<1>9. CASE TestComplete(d) \/ FreeOwn(d)
  <2>1. \E to \in PC : pc' = [pc EXCEPT ![d] = to] /\ to \in Answered /\ pc[d] \in Answered
    BY <1>9 DEF TestComplete, FreeOwn, Answered, PC
  <2> QED BY <1>9, <2>1, CarriedInner DEF TestComplete, FreeOwn
<1>10. CASE Release(d)
  <2>1. /\ pc[d] = "release" /\ pc' = [pc EXCEPT ![d] = "pop"] /\ held' = [held EXCEPT ![d] = NoReq]
        /\ UNCHANGED <<slot, jammed, incoming, conn, status>>
    BY <1>10 DEF Release, Queue!Release
  <2>2. \A x \in Places, c \in Clients : Carries(x, c)' <=> Carries(x, c)
    BY <2>1 DEF Carries, Answered, Typed, TypeOK
  <2> QED BY <2>1, <2>2 DEF Carried, Lost, Places
<1> QED BY <1>1, <1>2, <1>3, <1>4, <1>5, <1>6, <1>7, <1>8, <1>9, <1>10
        DEF Dispatch, GetResource, InsertResource

\* No step forgets a client's request or has it twice.
LEMMA CarriedStep == Typed /\ Carried /\ [Next]_vars => Carried'
<1> SUFFICES ASSUME Typed, Carried, [Next]_vars PROVE Carried'
  OBVIOUS
<1>1. CASE ProxyThread \/ FromClient
  BY <1>1, CarriedEnvironment
<1>2. ASSUME NEW d \in Dispatchers, Dispatch(d) PROVE Carried'
  BY <1>2, CarriedDispatch
<1>3. CASE UNCHANGED vars
  BY <1>3, CarriedFrame DEF vars, proxyVars
<1> QED BY <1>1, <1>2, <1>3 DEF Next

-----------------------------------------------------------------------------
(* Who may use a block *)

\* A complete response, and that of the page it is filed under, if there is one.
Filed(r) == r.live /\ r.complete = 1 /\ (r.dir \in Exists => r.body = r.dir)

\* No two entries in use share a block.
EntriesSound ==
    /\ \A c \in InUse : Filed(mem[entry[c]])
    /\ \A b, c \in InUse : entry[b] = entry[c] => b = c

\* The entry d found has what d looks for, until d reads it.
FoundSound(d) == pc[d] = "found" => re[d] \in InUse /\ mem[entry[re[d]]].dir = Wanted(d)

\* What the block of d holds at each of its steps.
BlockSound(d) == resp[d] # Nobody =>
    LET r == mem[resp[d]] IN
    /\ r.live
    /\ pc[d] \notin Filling => r.dir = held[d].dir
    /\ pc[d] \notin {"complete", "block"} /\ held[d].dir \in Exists => r.body = held[d].dir
    /\ pc[d] = "refs" \/ Storing(d) => r.complete = 1
    /\ pc[d] = "free" => r.complete = 0

\* d parses its response, stores it, or will never store it: it is not in the cache.
Private(d) == resp[d] # Nobody /\ (pc[d] \in Parsing \/ Storing(d) \/ mem[resp[d]].complete # 1)

PrivateSound(d) == Private(d) =>
    /\ \A e \in Dispatchers : resp[e] = resp[d] => e = d
    /\ \A c \in InUse : entry[c] # resp[d]

OwnSound(d) == FoundSound(d) /\ BlockSound(d) /\ PrivateSound(d)

Owned == ~overtaken => EntriesSound /\ \A d \in Dispatchers : OwnSound(d)

\* So entries and dispatchers have the blocks the properties say they have.
LEMMA OwnedSound == Typed /\ Owned => CacheSound /\ UsesOwnBlock
<1> SUFFICES ASSUME Typed, Owned, ~overtaken PROVE CacheSound /\ UsesOwnBlock
  BY DEF CacheSound, UsesOwnBlock
<1>1. CacheSound
  BY DEF CacheSound, Owned, EntriesSound, Filed, InUse, ToSet, Typed, Entered, IsInjective
<1>2. UsesOwnBlock
  <2> SUFFICES ASSUME NEW d \in Dispatchers, resp[d] # Nobody
               PROVE  LET r == mem[resp[d]] IN
                      /\ r.live
                      /\ pc[d] \notin Filling =>
                           r.dir = held[d].dir /\ (r.dir \in Exists => r.body = r.dir)
                      /\ pc[d] \in Filling \/ r.complete = 0 =>
                           \A e \in Dispatchers \ {d} : resp[e] # resp[d]
    BY DEF UsesOwnBlock
  <2>1. OwnSound(d)
    BY DEF Owned
  <2> QED BY <2>1 DEF OwnSound, BlockSound, PrivateSound, Private, Filling, Parsing
<1> QED BY <1>1, <1>2

\* At the start the cache is empty and no dispatcher has a response.
LEMMA OwnedInit == Init => Owned
<1> SUFFICES ASSUME Init PROVE Owned
  OBVIOUS
<1>1. InUse = {}
  BY DEF Init, CacheInit, InUse, ToSet
<1> QED BY <1>1 DEF Init, CacheInit, Owned, EntriesSound, OwnSound, FoundSound, BlockSound,
        PrivateSound, Private

\* The entries in use are addresses of entries, and have blocks.
LEMMA InUseType ==
  ASSUME Typed
  PROVE  /\ \A c \in InUse : c \in Cell /\ entry[c] \in Addr
         /\ \A d \in Dispatchers : /\ re[d] # Nobody => re[d] \in Cell /\ entry[re[d]] \in Addr
                                   /\ pc[d] = "expire" => re[d] \in InUse
         /\ \A d \in Dispatchers : resp[d] # Nobody => resp[d] \in Addr
<1>1. ToSet(resources) \subseteq Cell
  BY DEF Typed, TypeOK, CacheTypeOK, ToSet
<1>2. \A d \in Dispatchers : pc[d] = "expire" => re[d] # Nobody
  BY DEF Typed, Locals, Local
<1> QED BY <1>1, <1>2 DEF InUse, Typed, TypeOK, CacheTypeOK, Entered

\* d does nothing to the entries in use, their blocks and those of the other dispatchers,
\* and shares no block of theirs it might change.
Harmless(d) ==
    /\ Alone(d)
    /\ InUse' = InUse /\ \A c \in InUse : entry'[c] = entry[c]
    /\ \A c \in InUse : mem'[entry[c]] = mem[entry[c]]
    /\ \A e \in Dispatchers \ {d} : resp[e] # Nobody => mem'[resp[e]] = mem[resp[e]]

\* Such a step leaves the rest as it was.
LEMMA OwnedFrame ==
  ASSUME Typed, EntriesSound, \A e \in Dispatchers : OwnSound(e),
         NEW d \in Dispatchers, Harmless(d),
         \A e \in Dispatchers \ {d} : Private(e) => resp'[d] # resp[e],
         OwnSound(d)'
  PROVE  Owned'
<1>1. EntriesSound'
  BY DEF EntriesSound, Harmless
<1>2. ASSUME NEW e \in Dispatchers \ {d} PROVE OwnSound(e)'
  <2>1. /\ pc'[e] = pc[e] /\ held'[e] = held[e] /\ re'[e] = re[e] /\ resp'[e] = resp[e]
        /\ todo'[e] = todo[e] /\ OwnSound(e)
        /\ resp[e] # Nobody => mem'[resp[e]] = mem[resp[e]]
    BY DEF Harmless, Alone
  <2>2. Storing(e)' <=> Storing(e)
    BY <2>1 DEF Storing
  <2>3. Wanted(e)' = Wanted(e)
    BY <2>1 DEF Wanted
  <2>4. FoundSound(e)'
    BY <2>1, <2>3 DEF OwnSound, FoundSound, Harmless
  <2>5. BlockSound(e)'
    BY <2>1, <2>2 DEF OwnSound, BlockSound
  <2>6. Private(e)' => Private(e)
    BY <2>1, <2>2 DEF Private
  <2>7. PrivateSound(e)'
    <3> SUFFICES ASSUME Private(e)
                 PROVE  /\ \A f \in Dispatchers : resp'[f] = resp'[e] => f = e
                        /\ \A c \in InUse : entry'[c] # resp'[e]
      BY <2>6 DEF PrivateSound, Harmless
    <3>1. \A f \in Dispatchers \ {d} : resp'[f] = resp[f]
      BY DEF Harmless, Alone
    <3> QED BY <2>1, <3>1 DEF OwnSound, PrivateSound, Harmless
  <2> QED BY <2>4, <2>5, <2>7 DEF OwnSound
<1> QED BY <1>1, <1>2 DEF Owned

\* d goes on with the response it has.
LEMMA OwnedQuiet ==
  ASSUME Typed, EntriesSound, \A e \in Dispatchers : OwnSound(e),
         NEW d \in Dispatchers, Harmless(d), resp'[d] = resp[d],
         FoundSound(d)', BlockSound(d)', Private(d)' => Private(d)
  PROVE  Owned'
<1>1. \A e \in Dispatchers \ {d} : Private(e) => resp'[d] # resp[e]
  BY DEF OwnSound, PrivateSound
<1>2. PrivateSound(d)'
  <2> SUFFICES ASSUME Private(d)
               PROVE  /\ \A e \in Dispatchers : resp'[e] = resp'[d] => e = d
                      /\ \A c \in InUse : entry'[c] # resp'[d]
    BY DEF PrivateSound, Harmless
  <2>1. \A e \in Dispatchers : resp'[e] = resp[e]
    BY DEF Harmless, Alone
  <2> QED BY <2>1 DEF OwnSound, PrivateSound, Harmless
<1> QED BY <1>1, <1>2, OwnedFrame DEF OwnSound

\* d is done with it.
LEMMA OwnedDone ==
  ASSUME Typed, EntriesSound, \A e \in Dispatchers : OwnSound(e),
         NEW d \in Dispatchers, Harmless(d), resp'[d] = Nobody, pc'[d] # "found"
  PROVE  Owned'
<1>1. \A e \in Dispatchers \ {d} : Private(e) => resp'[d] # resp[e]
  BY DEF Private
<1>2. OwnSound(d)'
  BY DEF OwnSound, FoundSound, BlockSound, PrivateSound, Private
<1> QED BY <1>1, <1>2, OwnedFrame

\* The entries in use change only when one is stored, or freed.
LEMMA InUseFrame ==
  ASSUME Typed, NEW d \in Dispatchers, Alone(d), UNCHANGED resources,
         pc[d] # "expire", pc'[d] # "expire"
  PROVE  InUse' = InUse
<1>1. \A e \in Dispatchers : /\ pc'[e] = "expire" <=> pc[e] = "expire"
                             /\ pc[e] = "expire" => re'[e] = re[e]
  BY DEF Alone
<1> QED BY <1>1 DEF InUse

\* A block no entry in use and no other dispatcher has may be changed.
LEMMA HarmlessWrite ==
  ASSUME Typed, NEW d \in Dispatchers, Alone(d), UNCHANGED <<entry, resources>>,
         pc[d] # "expire", pc'[d] # "expire",
         NEW a, \A b \in Addr \ {a} : mem'[b] = mem[b],
         \A c \in InUse : entry[c] # a, \A e \in Dispatchers \ {d} : resp[e] # a
  PROVE  Harmless(d)
<1>1. InUse' = InUse
  BY InUseFrame
<1> QED BY <1>1, InUseType DEF Harmless

\* A step that changes no memory.
LEMMA HarmlessFrame ==
  ASSUME Typed, NEW d \in Dispatchers, Alone(d), UNCHANGED <<mem, entry, resources>>,
         pc[d] # "expire", pc'[d] # "expire"
  PROVE  Harmless(d)
BY InUseFrame DEF Harmless

\* getResource up to the unlock.
LEMMA OwnedLookup ==
  ASSUME Typed, EntriesSound, \A e \in Dispatchers : OwnSound(e),
         NEW d \in Dispatchers, Lookup(d)
  PROVE  Harmless(d) /\ Owned'
<1> DEFINE k == Wanted(d)
           c == resources[FirstEntry(k)]
<1> USE DEF Goto
<1>1. /\ pc[d] = "search" /\ UNCHANGED <<held, resp, todo, mem, entry>> /\ Alone(d)
      /\ pc \in [Dispatchers -> PC] /\ re \in [Dispatchers -> Cell \cup {Nobody}]
      /\ Wanted(d)' = Wanted(d) /\ (Storing(d) <=> todo[d] # <<>>)
      /\ resp[d] # Nobody <=> Storing(d)
  BY DispatchAlone DEF Dispatch, GetResource, Lookup, Hit, Expired, Miss, cacheVars, queueVars,
     Wanted, Storing, Parsing, Typed, TypeOK, CacheTypeOK, Locals, Local
<1>2. BlockSound(d) /\ (resp[d] # Nobody => Private(d))
  BY <1>1 DEF OwnSound, Private
<1>3. ASSUME NEW to \in {"fetch", "insert", "found", "expire"}, pc' = [pc EXCEPT ![d] = to],
             to = "insert" => todo[d] # <<>>
      PROVE  BlockSound(d)' /\ (Private(d)' => Private(d))
  <2>1. pc'[d] = to
    BY <1>1, <1>3
  <2>2. Storing(d)' <=> Storing(d)
    BY <1>1, <1>3, <2>1 DEF Storing
  <2>3. BlockSound(d)'
    BY <1>1, <1>2, <1>3, <2>1, <2>2 DEF BlockSound, Filling
  <2> QED BY <1>1, <1>2, <2>3 DEF Private
<1>4. CASE pc' = [pc EXCEPT ![d] = NotFound(d)] /\ Miss(k)
  <2>1. NotFound(d) = IF todo[d] = <<>> THEN "fetch" ELSE "insert"
    BY DEF NotFound
  <2>2. pc'[d] \notin {"found", "expire"} /\ UNCHANGED resources
    BY <1>1, <1>4, <2>1 DEF Miss, cacheVars
  <2>3. Harmless(d)
    BY <1>1, <2>2, HarmlessFrame
  <2>4. FoundSound(d)'
    BY <2>2 DEF FoundSound
  <2> QED BY <1>1, <1>3, <1>4, <2>1, <2>3, <2>4, OwnedQuiet
<1>5. CASE pc' = [pc EXCEPT ![d] = "found"] /\ Hit(d, k)
  <2>1. c \in Cell \cap ToSet(resources) /\ mem[entry[c]].dir = k
    BY <1>5, FirstEntryType DEF Hit, Typed, TypeOK
  <2>2. re'[d] = c /\ UNCHANGED resources /\ pc'[d] = "found"
    BY <1>1, <1>5 DEF Hit
  <2> HIDE DEF c, k
  <2>3. Harmless(d)
    BY <1>1, <2>2, HarmlessFrame
  <2>4. FoundSound(d)'
    BY <1>1, <2>1, <2>2, <2>3 DEF FoundSound, Harmless, InUse, k
  <2> QED BY <1>1, <1>3, <1>5, <2>3, <2>4, OwnedQuiet
<1>6. CASE pc' = [pc EXCEPT ![d] = "expire"] /\ Expired(d, k)
  <2>1. FirstEntry(k) \in 1..Len(resources) /\ c \in Cell \cap ToSet(resources)
    BY <1>6, FirstEntryType DEF Expired, Typed, TypeOK
  <2>2. re'[d] = c /\ resources' = RemoveAt(resources, FirstEntry(k)) /\ pc'[d] = "expire"
    BY <1>1, <1>6 DEF Expired
  <2>3. ToSet(resources') = ToSet(resources) \ {c}
    BY <2>1, <2>2, UnlinkCell DEF Typed, TypeOK, CacheTypeOK, Entered
  <2> HIDE DEF c, k
  <2>4. InUse' = InUse
    <3>1. \A e \in Dispatchers \ {d} : /\ pc'[e] = "expire" <=> pc[e] = "expire"
                                       /\ pc[e] = "expire" => re'[e] = re[e]
      BY <1>1 DEF Alone
    <3>2. \A x : x \in InUse' <=> x \in InUse
      BY <1>1, <2>1, <2>2, <2>3, <3>1 DEF InUse
    <3> QED BY <3>2
  <2>5. Harmless(d)
    BY <1>1, <2>4 DEF Harmless
  <2>6. FoundSound(d)'
    BY <2>2 DEF FoundSound
  <2> QED BY <1>1, <1>3, <1>6, <2>5, <2>6, OwnedQuiet
<1> QED BY <1>4, <1>5, <1>6 DEF Lookup

\* What getResource returns after the unlock.
LEMMA OwnedReturn ==
  ASSUME Typed, EntriesSound, \A e \in Dispatchers : OwnSound(e),
         NEW d \in Dispatchers, ReturnFound(d)
  PROVE  Harmless(d) /\ Owned'
<1> DEFINE a == entry[re[d]]
<1> USE DEF Goto
<1>1. /\ pc[d] = "found" /\ pc'[d] \in {"send", "store", "server"} /\ Alone(d)
      /\ UNCHANGED <<mem, entry, resources, held>>
      /\ resp \in [Dispatchers -> Addr \cup {Nobody}] /\ todo \in [Dispatchers -> Seq(RefRequest)]
  BY DispatchAlone DEF Dispatch, GetResource, ReturnFound, ReadEntry, NextRef, queueVars, Typed, TypeOK
<1>2. Harmless(d)
  BY <1>1, HarmlessFrame
<1>3. FoundSound(d)'
  BY <1>1 DEF FoundSound
<1>4. CASE todo[d] = <<>> /\ Goto(d, "found", "send") /\ resp' = [resp EXCEPT ![d] = a] /\ UNCHANGED todo
  <2>1. re[d] \in InUse /\ mem[a].dir = held[d].dir /\ Filed(mem[a])
    BY <1>1, <1>4 DEF OwnSound, FoundSound, Wanted, EntriesSound
  <2>2. resp'[d] = a
    BY <1>1, <1>4
  <2>3. pc'[d] = "send"
    BY <1>4 DEF Typed, TypeOK
  <2>4. \A e \in Dispatchers \ {d} : Private(e) => resp'[d] # resp[e]
    BY <2>1, <2>2 DEF OwnSound, PrivateSound
  <2> HIDE DEF a
  <2>5. BlockSound(d)'
    BY <1>1, <2>1, <2>2, <2>3 DEF BlockSound, Filed
  <2>6. ~Private(d)'
    BY <1>1, <1>4, <2>1, <2>2, <2>3 DEF Private, Filed, Storing, Parsing
  <2> QED BY <1>2, <1>3, <2>4, <2>5, <2>6, OwnedFrame DEF OwnSound, PrivateSound
<1>5. CASE todo[d] # <<>> /\ NextRef(d) /\ UNCHANGED resp
  <2>1. Storing(d) /\ Storing(d)'
    BY <1>1, <1>5 DEF Storing, NextRef, Typed, TypeOK
  <2>2. resp[d] # Nobody
    BY <1>1, <2>1 DEF Typed, Locals, Local
  <2>3. BlockSound(d)'
    BY <1>1, <1>5, <2>1 DEF OwnSound, BlockSound, Filling
  <2> QED BY <1>2, <1>3, <1>5, <2>1, <2>2, <2>3, OwnedQuiet DEF Private
<1> QED BY <1>4, <1>5 DEF ReturnFound

\* The block malloc returned was nobody's.
LEMMA OwnedAlloc ==
  ASSUME Typed, EntriesSound, \A e \in Dispatchers : OwnSound(e),
         NEW d \in Dispatchers, AllocResponse(d)
  PROVE  Harmless(d) /\ Owned'
<1> USE DEF Goto
<1>1. PICK a \in Addr : Malloc(a) /\ resp' = [resp EXCEPT ![d] = a]
  BY DEF AllocResponse
<1>2. PICK c \in {mem[a].complete, 0, 2}, b \in {mem[a].body, Junk} :
         mem' = [mem EXCEPT ![a] = [mem[a] EXCEPT !.live = TRUE, !.complete = c, !.body = b]]
  BY <1>1 DEF Malloc, Write
<1>3. /\ ~mem[a].live /\ UNCHANGED <<entry, resources, held>> /\ Alone(d) /\ todo[d] = <<>>
      /\ pc[d] = "malloc" /\ todo'[d] = <<>>
      /\ \A x \in Addr \ {a} : mem'[x] = mem[x]
      /\ mem'[a].live /\ resp'[d] = a
  <2>1. /\ ~mem[a].live /\ UNCHANGED <<entry, resources, held, todo>> /\ pc[d] = "malloc"
    BY <1>1 DEF AllocResponse, Malloc, Write, queueVars
  <2>2. todo[d] = <<>>
    BY <2>1 DEF Typed, Locals, Local
  <2>3. Alone(d)
    BY DispatchAlone DEF Dispatch, ParseResponse, Typed
  <2>4. resp'[d] = a
    BY <1>1 DEF Typed, TypeOK
  <2>5. mem[a] \in Response /\ mem \in [Addr -> Response]
    BY DEF Typed, TypeOK, CacheTypeOK
  <2>6. mem'[a].live
    BY <1>2, <2>5 DEF Response
  <2> QED BY <1>2, <2>1, <2>2, <2>3, <2>4, <2>5, <2>6
<1>4. pc'[d] = IF held[d].dir \in Exists THEN "complete" ELSE "name"
  BY DEF AllocResponse, Typed, TypeOK
<1>5. \A x \in InUse : entry[x] # a
  BY <1>3 DEF EntriesSound, Filed
<1>6. \A e \in Dispatchers : resp[e] # a
  BY <1>1, <1>3, CacheAssumption DEF OwnSound, BlockSound
<1>7. Harmless(d)
  BY <1>3, <1>4, <1>5, <1>6, HarmlessWrite
<1>8. \A e \in Dispatchers \ {d} : Private(e) => resp'[d] # resp[e]
  BY <1>3, <1>6
<1>9. OwnSound(d)'
  <2>1. FoundSound(d)'
    BY <1>4 DEF FoundSound
  <2>2. BlockSound(d)'
    BY <1>3, <1>4 DEF BlockSound, Filling, Storing
  <2>3. PrivateSound(d)'
    BY <1>3, <1>5, <1>6, <1>7 DEF PrivateSound, Harmless, Alone
  <2> QED BY <2>1, <2>2, <2>3 DEF OwnSound
<1> QED BY <1>7, <1>8, <1>9, OwnedFrame

\* parseResponse and dispatchRequest fill in a block nobody else has.
LEMMA OwnedFill ==
  ASSUME Typed, EntriesSound, \A e \in Dispatchers : OwnSound(e),
         NEW d \in Dispatchers, SetComplete(d) \/ CopyBlock(d) \/ CopyDir(d)
  PROVE  Harmless(d) /\ Owned'
<1> DEFINE a == resp[d]
<1> USE DEF Goto
<1>1. /\ pc[d] \in Filling /\ Alone(d) /\ a \in Addr /\ mem[a] \in Response
      /\ UNCHANGED <<entry, resources, resp, held, todo>> /\ todo[d] = <<>>
      /\ mem \in [Addr -> Response] /\ pc \in [Dispatchers -> PC]
  BY DispatchAlone DEF Dispatch, ParseResponse, SetComplete, CopyBlock, CopyDir, WriteComplete,
     WriteBlock, WriteDir, Write, queueVars, Filling, Parsing, Typed, TypeOK, CacheTypeOK, Locals, Local
<1>2. /\ Private(d) /\ BlockSound(d) /\ a # Nobody
      /\ \A c \in InUse : entry[c] # a
      /\ \A e \in Dispatchers \ {d} : resp[e] # a
  BY <1>1, CacheAssumption DEF OwnSound, PrivateSound, Private, Filling, Parsing
<1>3. \/ /\ pc[d] = "complete" /\ pc'[d] = "block"
         /\ \E c \in {0, 1} : mem' = [mem EXCEPT ![a] = [mem[a] EXCEPT !.complete = c]]
      \/ /\ pc[d] = "block" /\ pc'[d] = "name"
         /\ mem' = [mem EXCEPT ![a] = [mem[a] EXCEPT !.body = held[d].dir]]
      \/ /\ pc[d] = "name" /\ pc'[d] = "judge"
         /\ mem' = [mem EXCEPT ![a] = [mem[a] EXCEPT !.dir = held[d].dir]]
  BY <1>1 DEF SetComplete, CopyBlock, CopyDir, WriteComplete, WriteBlock, WriteDir, Write
<1> HIDE DEF a
<1>4. \A b \in Addr \ {a} : mem'[b] = mem[b]
  BY <1>1, <1>3
<1>5. Harmless(d)
  BY <1>1, <1>2, <1>3, <1>4, HarmlessWrite DEF a
<1>6. ~Storing(d)' /\ pc'[d] # "refs" /\ pc'[d] # "free"
  BY <1>1, <1>3 DEF Storing
<1>7. BlockSound(d)'
  <2>1. resp'[d] = a /\ held'[d] = held[d] /\ mem[a].live
    BY <1>1, <1>2 DEF a, BlockSound
  <2>2. mem'[a].live
    BY <1>1, <1>3, <2>1 DEF Response
  <2>3. pc'[d] = "judge" => mem'[a].dir = held[d].dir
    BY <1>1, <1>3 DEF Response
  <2>4. pc'[d] \in {"name", "judge"} /\ held[d].dir \in Exists => mem'[a].body = held[d].dir
    BY <1>1, <1>2, <1>3 DEF Response, BlockSound, a
  <2>5. pc'[d] \in {"block", "name", "judge"}
    BY <1>3
  <2> QED BY <1>6, <2>1, <2>2, <2>3, <2>4, <2>5 DEF BlockSound, Filling
<1>8. FoundSound(d)'
  BY <1>3 DEF FoundSound
<1> QED BY <1>1, <1>2, <1>5, <1>7, <1>8, OwnedQuiet

\* The steps that change no memory and keep the response, or have none.
LEMMA OwnedOther ==
  ASSUME Typed, EntriesSound, \A e \in Dispatchers : OwnSound(e), NEW d \in Dispatchers,
         \/ Pop(d) \/ UnlinkServer(d) \/ RelinkServer(d) \/ Judge(d)
         \/ ParseRef(d) \/ InsertRef(d) \/ Send(d) \/ TestComplete(d)
  PROVE  Harmless(d) /\ Owned'
<1> USE DEF Goto, cacheVars
<1>1. /\ Alone(d) /\ UNCHANGED <<mem, entry, resources, resp>>
      /\ pc \in [Dispatchers -> PC] /\ pc[d] \notin {"found", "expire"} /\ pc'[d] \notin {"found", "expire"}
      /\ Local(d) /\ OwnSound(d) /\ todo \in [Dispatchers -> Seq(RefRequest)]
  BY DispatchAlone DEF Dispatch, GetResource, InsertResource, Pop, UnlinkServer, RelinkServer, Judge,
     ParseRef, InsertRef, Send, TestComplete, NextRef, MoveServer, RestoreServer, queueVars,
     Typed, TypeOK, Locals
<1>2. Harmless(d)
  BY <1>1, HarmlessFrame
<1>3. FoundSound(d)'
  BY <1>1 DEF FoundSound
<1>4. ASSUME UNCHANGED held, pc[d] \notin Filling, pc'[d] \notin Filling,
             (pc'[d] = "refs" \/ Storing(d)') => mem[resp[d]].complete = 1,
             pc'[d] = "free" => mem[resp[d]].complete = 0
      PROVE  BlockSound(d)'
  BY <1>1, <1>4 DEF OwnSound, BlockSound, Filling
<1>5. ASSUME BlockSound(d)', Private(d)' => Private(d) PROVE Owned'
  BY <1>1, <1>2, <1>3, <1>5, OwnedQuiet
<1>6. CASE Pop(d)
  <2>1. resp[d] = Nobody /\ resp'[d] = Nobody
    BY <1>1, <1>6 DEF Pop, Local, Storing, Parsing
  <2> QED BY <1>2, <1>5, <2>1 DEF BlockSound, Private
<1>7. CASE UnlinkServer(d) \/ RelinkServer(d)
  <2>1. /\ pc[d] \in {"server", "relink", "fetch", "relink_fetch"}
        /\ pc'[d] \in {"relink", "relink_fetch", "search", "malloc"} /\ UNCHANGED <<held, todo>>
    BY <1>1, <1>7 DEF UnlinkServer, RelinkServer, queueVars
  <2>2. Storing(d)' <=> Storing(d)
    BY <2>1 DEF Storing
  <2>3. Storing(d) => mem[resp[d]].complete = 1
    BY <1>1, <2>1 DEF OwnSound, BlockSound, Local
  <2>4. BlockSound(d)'
    BY <1>4, <2>1, <2>2, <2>3 DEF Filling
  <2> QED BY <1>1, <1>2, <1>5, <2>1, <2>2, <2>4 DEF Private, Parsing
<1>8. CASE Judge(d)
  <2>1. /\ pc[d] = "judge" /\ pc'[d] \in {"refs", "store", "send"} /\ UNCHANGED <<held, todo>>
        /\ todo[d] = <<>> /\ resp[d] # Nobody
        /\ pc'[d] # "send" => mem[resp[d]].complete = 1
    BY <1>1, <1>8 DEF Judge, queueVars, Storable, Local, Parsing
  <2>2. BlockSound(d)'
    BY <1>4, <2>1 DEF Filling, Storing
  <2>3. Private(d)
    BY <2>1 DEF Private, Parsing
  <2> QED BY <1>2, <1>5, <2>2, <2>3
<1>9. CASE ParseRef(d) \/ InsertRef(d)
  <2>1. /\ pc[d] = "refs" \/ Storing(d)
        /\ pc[d] \in {"refs", "insert"} /\ pc'[d] \in {"store", "server"} /\ UNCHANGED held
    BY <1>1, <1>9 DEF ParseRef, InsertRef, NextRef, queueVars, Queue!Put, Queue!Fail, Storing
  <2>2. resp[d] # Nobody
    BY <1>1, <2>1 DEF Local, Parsing
  <2>3. BlockSound(d)'
    BY <1>1, <1>4, <2>1, <2>2 DEF OwnSound, BlockSound, Filling
  <2>4. Private(d)
    BY <2>1, <2>2 DEF Private, Parsing
  <2> QED BY <1>2, <1>5, <2>3, <2>4
<1>10. CASE Send(d) \/ TestComplete(d)
  <2>1. /\ pc[d] \in {"send", "test"} /\ pc'[d] \in {"test", "free", "release"}
        /\ UNCHANGED <<held, todo>> /\ todo[d] = <<>>
        /\ pc'[d] = "free" => mem[resp[d]].complete = 0
    BY <1>1, <1>10 DEF Send, TestComplete, queueVars, Frees, Local
  <2>2. BlockSound(d)'
    BY <1>4, <2>1 DEF Filling, Storing
  <2>3. Private(d)' => Private(d)
    BY <1>1, <2>1 DEF Private, Parsing, Storing
  <2> QED BY <1>2, <1>5, <2>2, <2>3
<1> QED BY <1>6, <1>7, <1>8, <1>9, <1>10

\* free(resp), and the last pointer to a response that nobody frees.
LEMMA OwnedEnd ==
  ASSUME Typed, EntriesSound, \A e \in Dispatchers : OwnSound(e),
         NEW d \in Dispatchers, FreeOwn(d) \/ Release(d)
  PROVE  Harmless(d) /\ Owned'
<1> USE DEF Goto
<1>1. /\ Alone(d) /\ UNCHANGED <<entry, resources>>
      /\ pc[d] \in {"free", "release"} /\ pc'[d] \in {"release", "pop"} /\ resp'[d] = Nobody
  BY DispatchAlone DEF Dispatch, FreeOwn, Release, FreeResponse, Leak, Write, cacheVars,
     Typed, TypeOK
<1>2. CASE UNCHANGED mem
  <2>1. Harmless(d)
    BY <1>1, <1>2, HarmlessFrame
  <2> QED BY <1>1, <2>1, OwnedDone
<1>3. CASE FreeOwn(d)
  <2>1. resp[d] \in Addr /\ pc[d] = "free"
    BY <1>3 DEF FreeOwn, Typed, TypeOK, Locals, Local
  <2>2. Private(d)
    BY <2>1, CacheAssumption DEF OwnSound, BlockSound, Private
  <2>3. \A b \in Addr \ {resp[d]} : mem'[b] = mem[b]
    BY <1>3, <2>1, FreeType DEF FreeOwn, FreeResponse, Write, Typed, TypeOK
  <2>4. Harmless(d)
    BY <1>1, <2>2, <2>3, HarmlessWrite DEF OwnSound, PrivateSound
  <2> QED BY <1>1, <2>4, OwnedDone
<1>4. CASE Release(d) /\ Leaks(d) /\ Leak(resp[d])
  <2>1. resp[d] \in Addr /\ LastPointer(d)
    BY <1>4 DEF Leaks, Typed, TypeOK
  <2>2. \A c \in InUse : entry[c] # resp[d]
    <3>1. \A c \in InUse : c # Nobody /\ c \in ToSet(resources) \cup {re[e] : e \in Dispatchers}
      BY InUseType, CacheAssumption DEF InUse
    <3> QED BY <2>1, <3>1 DEF LastPointer
  <2>3. \A b \in Addr \ {resp[d]} : mem'[b] = mem[b]
    BY <1>4, <2>1 DEF Leak, Write, Typed, TypeOK, CacheTypeOK
  <2>4. Harmless(d)
    BY <1>1, <2>1, <2>2, <2>3, HarmlessWrite DEF LastPointer
  <2> QED BY <1>1, <2>4, OwnedDone
<1> QED BY <1>2, <1>3, <1>4 DEF Release, cacheVars

\* The block stored was in no entry, and allocated and complete.
LEMMA OwnedStore ==
  ASSUME Typed, EntriesSound, \A e \in Dispatchers : OwnSound(e),
         NEW d \in Dispatchers, StoreResource(d)
  PROVE  Owned'
<1> USE DEF Goto
<1>1. PICK c \in Cell \ InUse : Store(c, resp[d])
  BY DEF StoreResource
<1>2. /\ pc[d] = "store" /\ pc'[d] = "send" /\ UNCHANGED <<mem, re, resp, held, todo>> /\ Alone(d)
      /\ Storing(d) /\ todo[d] = <<>> /\ resp[d] # Nobody
  BY <1>1, DispatchAlone DEF Dispatch, InsertResource, StoreResource, Store, queueVars, Storing,
     Typed, TypeOK, Locals, Local
<1>3. /\ \A x \in Cell : entry'[x] = IF x = c THEN resp[d] ELSE entry[x]
      /\ ToSet(resources') = ToSet(resources) \cup {c}
  BY <1>1, AppendCell DEF Store, Typed, TypeOK, CacheTypeOK
<1>4. InUse' = InUse \cup {c}
  <2>1. \A e \in Dispatchers : pc'[e] = "expire" <=> pc[e] = "expire"
    BY <1>2 DEF Alone
  <2>2. \A x : x \in InUse' <=> x \in InUse \cup {c}
    BY <1>2, <1>3, <2>1 DEF InUse
  <2> QED BY <2>2
<1>5. Private(d) /\ mem[resp[d]].complete = 1 /\ mem[resp[d]].live /\ mem[resp[d]].dir = held[d].dir
      /\ (held[d].dir \in Exists => mem[resp[d]].body = held[d].dir)
  BY <1>2 DEF Private, OwnSound, BlockSound, Filling
<1>6. InUse \subseteq Cell /\ entry'[c] = resp[d] /\ \A x \in InUse : x # c /\ entry'[x] = entry[x]
  BY <1>1, <1>3, InUseType
<1>7. EntriesSound'
  BY <1>2, <1>4, <1>5, <1>6 DEF EntriesSound, Filed, OwnSound, PrivateSound
<1>8. ASSUME NEW e \in Dispatchers PROVE OwnSound(e)'
  <2>1. FoundSound(e)'
    <3>1. CASE e = d
      BY <1>2, <3>1 DEF FoundSound
    <3>2. CASE e # d
      <4>1. pc'[e] = pc[e] /\ Wanted(e)' = Wanted(e) /\ re'[e] = re[e]
        BY <1>2, <3>2 DEF Alone, Wanted
      <4> QED BY <4>1, <1>2, <1>4, <1>6 DEF OwnSound, FoundSound
    <3> QED BY <3>1, <3>2
  <2>2. CASE e = d
    <3>1. BlockSound(d)'
      BY <1>2, <1>5 DEF BlockSound, Storing
    <3>2. ~Private(d)'
      BY <1>2, <1>5 DEF Private, Storing, Parsing
    <3> QED BY <2>1, <2>2, <3>1, <3>2 DEF OwnSound, PrivateSound
  <2>3. CASE e # d
    <3>1. /\ pc'[e] = pc[e] /\ resp'[e] = resp[e] /\ held'[e] = held[e]
          /\ (Storing(e)' <=> Storing(e))
      BY <1>2, <2>3 DEF Alone, Storing
    <3>2. BlockSound(e)' /\ (Private(e)' => Private(e))
      BY <1>2, <3>1 DEF OwnSound, BlockSound, Private
    <3>3. Private(e) => resp[d] # resp[e]
      BY <2>3 DEF OwnSound, PrivateSound
    <3>4. PrivateSound(e)'
      BY <1>2, <1>4, <1>6, <3>1, <3>2, <3>3 DEF OwnSound, PrivateSound
    <3> QED BY <2>1, <3>2, <3>4 DEF OwnSound
  <2> QED BY <2>2, <2>3
<1> QED BY <1>7, <1>8 DEF Owned

\* An expired entry and its block go; unless that overtakes another dispatcher, nobody
\* had them.
LEMMA OwnedExpired ==
  ASSUME Typed, EntriesSound, \A e \in Dispatchers : OwnSound(e),
         NEW d \in Dispatchers, FreeExpired(d), ~overtaken'
  PROVE  Owned'
<1> DEFINE c == re[d]
           a == entry[c]
<1> USE DEF Goto
<1>1. /\ pc[d] = "expire" /\ pc'[d] \in {"fetch", "insert"} /\ Alone(d)
      /\ UNCHANGED <<resources, resp, held, todo>>
      /\ pc'[d] = "insert" => todo[d] # <<>>
  BY DispatchAlone DEF Dispatch, GetResource, FreeExpired, FreeEntry, NotFound, queueVars,
     Typed, TypeOK
<1>2. c \in InUse /\ c \in Cell /\ a \in Addr
  BY <1>1, InUseType
<1>3. ~Overtakes(d)
  BY DEF FreeExpired
<1>4. /\ \A e \in Dispatchers : resp[e] # a
      /\ \A e \in Dispatchers \ {d} : re[e] # c
  BY <1>3 DEF Overtakes
<1>5. /\ \A x \in Cell \ {c} : entry'[x] = entry[x]
      /\ \A b \in Addr \ {a} : mem'[b] = mem[b]
  BY <1>2, FreeType DEF FreeExpired, FreeEntry, Typed, TypeOK, CacheTypeOK
<1> HIDE DEF a, c
<1>6. InUse' = InUse \ {c}
  <2>1. \A e \in Dispatchers \ {d} : (pc'[e] = "expire" <=> pc[e] = "expire") /\ re'[e] = re[e]
    BY <1>1 DEF Alone
  <2>2. c \notin ToSet(resources)
    BY <1>1 DEF Typed, Entered, c
  <2>3. \A x : x \in InUse' <=> x \in InUse \ {c}
    BY <1>1, <1>4, <2>1, <2>2 DEF InUse, c
  <2> QED BY <2>3
<1>7. \A x \in InUse \ {c} : entry'[x] = entry[x] /\ entry[x] \in Addr \ {a}
  BY <1>2, <1>5, InUseType DEF EntriesSound, a
<1>8. \A e \in Dispatchers : resp[e] # Nobody => resp[e] \in Addr \ {a}
  BY <1>4, InUseType
<1>9. EntriesSound'
  BY <1>5, <1>6, <1>7 DEF EntriesSound
<1>10. ASSUME NEW e \in Dispatchers PROVE OwnSound(e)'
  <2>1. /\ resp'[e] = resp[e] /\ held'[e] = held[e] /\ (Storing(e)' <=> Storing(e))
        /\ resp[e] # Nobody => mem'[resp[e]] = mem[resp[e]]
    <3>1. resp'[e] = resp[e] /\ held'[e] = held[e] /\ todo'[e] = todo[e]
      BY <1>1
    <3>2. Storing(e)' <=> Storing(e)
      BY <1>1, <3>1 DEF Storing, Alone
    <3> QED BY <1>5, <1>8, <3>1, <3>2
  <2>2. FoundSound(e)'
    <3>1. CASE e = d
      BY <1>1, <3>1 DEF FoundSound
    <3>2. CASE e # d
      <4>1. pc'[e] = pc[e] /\ Wanted(e)' = Wanted(e) /\ re'[e] = re[e] /\ re[e] # c
        BY <1>1, <1>4, <3>2 DEF Alone, Wanted
      <4> QED BY <4>1, <1>5, <1>6, <1>7 DEF OwnSound, FoundSound
    <3> QED BY <3>1, <3>2
  <2>3. /\ pc'[e] \in Filling <=> pc[e] \in Filling
        /\ pc'[e] \in {"complete", "block"} <=> pc[e] \in {"complete", "block"}
        /\ pc'[e] \in Parsing <=> pc[e] \in Parsing
        /\ pc'[e] = "refs" <=> pc[e] = "refs"
        /\ pc'[e] = "free" <=> pc[e] = "free"
    BY <1>1 DEF Alone, Filling, Parsing
  <2>4. BlockSound(e)'
    BY <2>1, <2>3 DEF OwnSound, BlockSound
  <2>5. Private(e)' => Private(e)
    BY <2>1, <2>3 DEF Private
  <2>6. PrivateSound(e)'
    BY <1>1, <1>6, <1>7, <2>1, <2>5 DEF OwnSound, PrivateSound
  <2> QED BY <2>2, <2>4, <2>6 DEF OwnSound
<1> QED BY <1>9, <1>10 DEF Owned

\* Every step of a dispatcher but the last two is harmless.
LEMMA HarmlessStep ==
  ASSUME Typed, Owned, ~overtaken, NEW d \in Dispatchers, Dispatch(d),
         ~StoreResource(d), ~FreeExpired(d)
  PROVE  Harmless(d) /\ Owned'
<1>1. EntriesSound /\ \A e \in Dispatchers : OwnSound(e)
  BY DEF Owned
<1> QED BY <1>1, OwnedLookup, OwnedReturn, OwnedAlloc, OwnedFill, OwnedOther, OwnedEnd
        DEF Dispatch, GetResource, ParseResponse, InsertResource

\* Neither of the two accidents is ever forgotten.
LEMMA HistoryStep ==
  ASSUME [Next]_vars PROVE (~overtaken' => ~overtaken) /\ (~mistaken' => ~mistaken)
<1> USE DEF history
<1>1. CASE ProxyThread \/ FromClient \/ UNCHANGED vars
  BY <1>1 DEF ProxyThread, FromClient, Accept, Receive, ReceiveFails, InsertIncoming, vars
<1>2. ASSUME NEW d \in Dispatchers, Dispatch(d), ~FreeExpired(d), ~ParseRef(d)
      PROVE  UNCHANGED history
  <2>1. CASE GetResource(d) \/ Pop(d)
    BY <1>2, <2>1 DEF GetResource, Pop, UnlinkServer, RelinkServer, Lookup, ReturnFound
  <2>2. CASE ParseResponse(d) \/ CopyDir(d) \/ Judge(d) \/ InsertResource(d)
    BY <1>2, <2>2 DEF ParseResponse, InsertResource, AllocResponse, SetComplete, CopyBlock, CopyDir,
       Judge, InsertRef, StoreResource
  <2>3. CASE Send(d) \/ TestComplete(d) \/ FreeOwn(d) \/ Release(d)
    BY <2>3 DEF Send, TestComplete, FreeOwn, Release
  <2> QED BY <1>2, <2>1, <2>2, <2>3 DEF Dispatch
<1>3. ASSUME NEW d \in Dispatchers, FreeExpired(d)
      PROVE  overtaken' = (overtaken \/ Overtakes(d)) /\ UNCHANGED mistaken
  BY <1>3 DEF FreeExpired
<1>4. ASSUME NEW d \in Dispatchers, ParseRef(d)
      PROVE  UNCHANGED overtaken /\ mistaken' = (mistaken \/ held[d].dir \notin Exists)
  BY <1>4 DEF ParseRef
<1>5. ASSUME NEW d \in Dispatchers, Dispatch(d)
      PROVE  (~overtaken' => ~overtaken) /\ (~mistaken' => ~mistaken)
  <2>1. CASE FreeExpired(d)
    BY <1>3, <2>1, Zenon
  <2>2. CASE ParseRef(d)
    BY <1>4, <2>2, Zenon
  <2>3. CASE ~FreeExpired(d) /\ ~ParseRef(d)
    BY <1>2, <1>5, <2>3
  <2> QED BY <2>1, <2>2, <2>3
<1> QED BY <1>1, <1>5 DEF Next

\* Until an expired response is freed under another dispatcher, no step pulls a block from
\* under the cache or a dispatcher.
LEMMA OwnedStep == Typed /\ Owned /\ [Next]_vars => Owned'
<1> SUFFICES ASSUME Typed, Owned, [Next]_vars, ~overtaken' PROVE Owned'
  BY DEF Owned
<1>1. ~overtaken
  BY HistoryStep
<1>2. EntriesSound /\ \A e \in Dispatchers : OwnSound(e)
  BY <1>1 DEF Owned
<1>3. ASSUME UNCHANGED <<mem, entry, resources, re, pc, resp, todo, held>> PROVE Owned'
  BY <1>2, <1>3 DEF Owned, EntriesSound, OwnSound, FoundSound, BlockSound, PrivateSound, Private,
     InUse, Wanted, Storing
<1>4. CASE ProxyThread \/ FromClient
  BY <1>3, <1>4 DEF ProxyThread, FromClient, Accept, Receive, ReceiveFails, InsertIncoming,
     Queue!Put, Queue!Fail, cacheVars, queueVars
<1>5. ASSUME NEW d \in Dispatchers, Dispatch(d) PROVE Owned'
  BY <1>1, <1>2, <1>5, HarmlessStep, OwnedStore, OwnedExpired
<1>6. CASE UNCHANGED vars
  BY <1>3, <1>6 DEF vars, cacheVars, queueVars
<1> QED BY <1>4, <1>5, <1>6 DEF Next

-----------------------------------------------------------------------------
(* How far prefetching goes *)

Bound == Asked \cup Ahead \cup Embedded

\* A request of the second level is for a REF or IDX+REF of a client's page, one of the
\* third for a REF of an IDX+REF.
Allowed(r) == r # NoReq => /\ r.prefetch = 1 => r.dir \in Bound
                           /\ r.prefetch = 2 => r.dir \in Ahead

RequestsAllowed ==
    /\ Allowed(incoming) /\ Allowed(slot)
    /\ \A d \in Dispatchers : Allowed(held[d]) /\ \A i \in DOMAIN todo[d] : Allowed(todo[d][i])

EntriesBounded == \A c \in ToSet(resources) : mem[entry[c]].dir \in Bound

Bounded == ~overtaken /\ ~mistaken => RequestsAllowed /\ EntriesBounded

\* At the start nothing is requested or cached.
LEMMA BoundedInit == Init => Bounded
<1> SUFFICES ASSUME Init PROVE RequestsAllowed /\ EntriesBounded
  BY DEF Bounded
<1>1. ToSet(resources) = {} /\ \A d \in Dispatchers : DOMAIN todo[d] = {}
  BY DEF Init, CacheInit, ToSet
<1> QED BY <1>1 DEF Init, Queue!Init, RequestsAllowed, EntriesBounded, Allowed

\* Whatever is requested within the depth may be cached.
LEMMA AllowedDir ==
  ASSUME NEW r \in Request, Allowed(r)
  PROVE  r.dir \in Bound
<1>1. r # NoReq
  BY NamesAssumption
<1>2. CASE r.prefetch = 0
  BY <1>2, RequestFields DEF Asked, Bound
<1>3. CASE r.prefetch \in {1, 2}
  BY <1>1, <1>3 DEF Allowed, Bound
<1> QED BY <1>2, <1>3, RequestFields

\* The more references, the more names.
LEMMA ReadAsMonotone == ASSUME NEW S, NEW T, S \subseteq T PROVE ReadAs(S) \subseteq ReadAs(T)
BY DEF ReadAs

\* The references of a page that was asked for, or is an IDX+REF of such a page.
LEMMA PrefetchesAllowed ==
  ASSUME NEW r \in Request, Allowed(r), r.prefetch # 1,
         NEW refs \in Prefetches(r.dir, r.prefetch), NEW i \in DOMAIN refs
  PROVE  Allowed(refs[i])
<1> DEFINE p == refs[i]
           k == r.dir
<1>1. r # NoReq /\ r.prefetch \in {0, 2} /\ k \in Resource /\ (r.prefetch = 0 => k \in Asked)
  BY RequestFields, NamesAssumption DEF Asked
<1>2. Within(p, k, r.prefetch)
  BY <1>1, PrefetchesType
<1> HIDE DEF p, k
<1>3. k \in Asked \cup Ahead
  BY <1>1 DEF Allowed, k
<1>4. ReadAs(ToSet(Ref[k])) \subseteq Embedded
  <2>1. ToSet(Ref[k]) \subseteq UNION {ToSet(Ref[j]) : j \in Asked \cup Ahead}
    BY <1>3
  <2> QED BY <2>1, ReadAsMonotone DEF Embedded
<1>5. r.prefetch = 0 => ReadAs(ToSet(IdxRef[k])) \subseteq Ahead
  <2> SUFFICES ASSUME r.prefetch = 0 PROVE ReadAs(ToSet(IdxRef[k])) \subseteq Ahead
    OBVIOUS
  <2>1. ToSet(IdxRef[k]) \subseteq UNION {ToSet(IdxRef[j]) : j \in Asked}
    BY <1>1
  <2> QED BY <2>1, ReadAsMonotone DEF Ahead
<1> QED BY <1>1, <1>2, <1>4, <1>5 DEF Within, Allowed, Bound, p

\* What is filed under the entries of the list stays, but for the one that is stored.
LEMMA EntriesStay ==
  ASSUME Typed, Owned, ~overtaken, ~overtaken', [Next]_vars,
         \A d \in Dispatchers : ~StoreResource(d), EntriesBounded
  PROVE  EntriesBounded'
<1>1. ASSUME UNCHANGED <<mem, entry, resources>> PROVE EntriesBounded'
  BY <1>1 DEF EntriesBounded
<1>2. CASE ProxyThread \/ FromClient
  BY <1>1, <1>2 DEF ProxyThread, FromClient, Accept, Receive, ReceiveFails, InsertIncoming, cacheVars
<1>3. ASSUME NEW d \in Dispatchers, Dispatch(d) PROVE EntriesBounded'
  <2>1. ToSet(resources') \subseteq ToSet(resources)
    <3>1. CASE \E k : Expired(d, k)
      <4>1. PICK k : Expired(d, k)
        BY <3>1
      <4>2. FirstEntry(k) \in 1..Len(resources)
        BY <4>1, FirstEntryType DEF Expired, Typed, TypeOK
      <4> QED BY <4>1, <4>2, UnlinkCell DEF Expired, Typed, TypeOK, CacheTypeOK, Entered
    <3>2. CASE UNCHANGED resources
      BY <3>2
    <3>3. (\E k : Expired(d, k)) \/ UNCHANGED resources
      <4>1. CASE Pop(d) \/ UnlinkServer(d) \/ RelinkServer(d) \/ CopyDir(d) \/ Judge(d)
        BY <4>1 DEF Pop, UnlinkServer, RelinkServer, CopyDir, Judge, MoveServer, RestoreServer,
           WriteDir, Write, cacheVars
      <4>2. CASE Lookup(d) \/ ReturnFound(d) \/ FreeExpired(d)
        BY <4>2 DEF Lookup, ReturnFound, FreeExpired, Hit, Miss, ReadEntry, FreeEntry, cacheVars
      <4>3. CASE ParseResponse(d)
        BY <4>3 DEF ParseResponse, AllocResponse, SetComplete, CopyBlock, Malloc, WriteComplete,
           WriteBlock, Write
      <4>4. CASE ParseRef(d) \/ InsertRef(d) \/ Send(d) \/ TestComplete(d)
        BY <4>4 DEF ParseRef, InsertRef, Send, TestComplete, cacheVars
      <4>5. CASE FreeOwn(d) \/ Release(d)
        BY <4>5 DEF FreeOwn, Release, FreeResponse, Leak, Write, cacheVars
      <4> QED BY <1>3, <4>1, <4>2, <4>3, <4>4, <4>5 DEF Dispatch, GetResource, InsertResource
    <3> QED BY <3>1, <3>2, <3>3
  <2>2. ToSet(resources) \subseteq InUse
    BY DEF InUse
  <2>3. CASE FreeExpired(d)
    <3> DEFINE c == re[d]
               a == entry[c]
    <3>1. c \in Cell /\ a \in Addr /\ c \notin ToSet(resources)
      BY <2>3, InUseType DEF FreeExpired, Goto, Typed, Locals, Local, Entered
    <3>2. /\ \A x \in Cell \ {c} : entry'[x] = entry[x]
          /\ \A b \in Addr : mem'[b].dir = mem[b].dir
      BY <2>3, <3>1, FreeType DEF FreeExpired, FreeEntry, Typed, TypeOK, CacheTypeOK
    <3> HIDE DEF a, c
    <3>3. \A x \in ToSet(resources) : x \in Cell \ {c} /\ entry[x] \in Addr
      BY <2>2, <3>1, InUseType
    <3> QED BY <2>1, <3>2, <3>3 DEF EntriesBounded
  <2>4. CASE ~FreeExpired(d)
    <3>1. Harmless(d)
      BY <1>3, <2>4, HarmlessStep
    <3> QED BY <2>1, <2>2, <3>1 DEF Harmless, EntriesBounded
  <2> QED BY <2>3, <2>4
<1>4. CASE UNCHANGED vars
  BY <1>1, <1>4 DEF vars, cacheVars
<1> QED BY <1>2, <1>3, <1>4 DEF Next

\* What is stored was requested.
LEMMA EntriesStep ==
  ASSUME Typed, Owned, ~overtaken, ~overtaken', [Next]_vars, RequestsAllowed, EntriesBounded
  PROVE  EntriesBounded'
<1>1. ASSUME NEW d \in Dispatchers, StoreResource(d) PROVE EntriesBounded'
  <2>1. PICK c \in Cell \ InUse : Store(c, resp[d])
    BY <1>1 DEF StoreResource
  <2>2. pc[d] = "store" /\ Storing(d) /\ held[d] \in Request /\ resp[d] # Nobody
    BY <1>1 DEF StoreResource, Goto, Storing, Typed, TypeOK, Locals, Local
  <2>3. mem[resp[d]].dir \in Bound
    BY <2>2, AllowedDir DEF Owned, OwnSound, BlockSound, Filling, RequestsAllowed
  <2>4. /\ UNCHANGED mem /\ ToSet(resources') = ToSet(resources) \cup {c}
        /\ \A x \in Cell : entry'[x] = IF x = c THEN resp[d] ELSE entry[x]
    BY <2>1, AppendCell DEF Store, Typed, TypeOK, CacheTypeOK
  <2>5. ToSet(resources) \subseteq Cell
    BY InUseType DEF InUse
  <2> QED BY <2>1, <2>3, <2>4, <2>5 DEF EntriesBounded
<1> QED BY <1>1, EntriesStay

\* No step requests anything deeper.
LEMMA RequestsStep ==
  ASSUME Typed, Owned, ~overtaken, ~mistaken', [Next]_vars, RequestsAllowed
  PROVE  RequestsAllowed'
<1> USE DEF queueVars, proxyVars
<1>1. ASSUME UNCHANGED <<incoming, slot, held, todo>> PROVE RequestsAllowed'
  BY <1>1 DEF RequestsAllowed, Allowed
<1>2. ASSUME NEW d \in Dispatchers, todo[d] # <<>>
      PROVE  /\ Allowed(Head(todo[d]))
             /\ \A i \in DOMAIN Tail(todo[d]) : Allowed(Tail(todo[d])[i])
  <2>1. todo[d] \in Seq(RefRequest)
    BY DEF Typed, TypeOK
  <2>2. /\ Head(todo[d]) = todo[d][1] /\ 1 \in DOMAIN todo[d]
        /\ \A i \in DOMAIN Tail(todo[d]) : i + 1 \in DOMAIN todo[d] /\ Tail(todo[d])[i] = todo[d][i + 1]
    BY <1>2, <2>1, HeadTailProperties
  <2> QED BY <2>2 DEF RequestsAllowed
<1>3. ASSUME NEW k \in ClientPages, Receive(k) PROVE RequestsAllowed'
  BY <1>3 DEF Receive, RequestsAllowed, Allowed
<1>4. CASE InsertIncoming
  BY <1>4 DEF InsertIncoming, Queue!Put, Queue!Fail, RequestsAllowed, Allowed
<1>5. ASSUME NEW d \in Dispatchers, Pop(d) PROVE RequestsAllowed'
  BY <1>5 DEF Pop, Queue!Take, RequestsAllowed, Allowed, Typed, TypeOK
<1>6. ASSUME NEW d \in Dispatchers, Release(d) PROVE RequestsAllowed'
  BY <1>6 DEF Release, Queue!Release, RequestsAllowed, Allowed, Typed, TypeOK
<1>7. ASSUME NEW d \in Dispatchers, UNCHANGED <<incoming, held>>,
             slot' \in {slot, Head(todo[d])}, todo[d] # <<>>,
             todo' \in {todo, [todo EXCEPT ![d] = Tail(todo[d])]}
      PROVE  RequestsAllowed'
  <2>1. Allowed(incoming)' /\ Allowed(slot)' /\ \A e \in Dispatchers : Allowed(held[e])'
    BY <1>2, <1>7 DEF RequestsAllowed, Allowed
  <2>2. ASSUME NEW e \in Dispatchers, NEW i \in DOMAIN todo'[e] PROVE Allowed(todo'[e][i])
    <3>1. todo'[e] = todo[e] \/ (e = d /\ todo'[e] = Tail(todo[d]))
      BY <1>7 DEF Typed, TypeOK
    <3> QED BY <1>2, <1>7, <2>2, <3>1 DEF RequestsAllowed
  <2> QED BY <2>1, <2>2 DEF RequestsAllowed, Allowed
<1>8. ASSUME NEW d \in Dispatchers, ReturnFound(d) PROVE RequestsAllowed'
  BY <1>1, <1>7, <1>8 DEF ReturnFound, NextRef
<1>9. ASSUME NEW d \in Dispatchers, InsertRef(d) PROVE RequestsAllowed'
  BY <1>7, <1>9 DEF InsertRef, NextRef, Queue!Put, Queue!Fail, Typed, Locals, Local
<1>10. ASSUME NEW d \in Dispatchers, ParseRef(d) PROVE RequestsAllowed'
  <2>1. pc[d] = "refs" /\ held[d] \in Request /\ held[d].prefetch # 1 /\ resp[d] # Nobody
    BY <1>10 DEF ParseRef, Typed, TypeOK, Locals, Local, Parsing
  <2>2. held[d].dir \in Exists
    BY <1>10 DEF ParseRef
  <2>3. mem[resp[d]].body = held[d].dir
    BY <2>1, <2>2 DEF Owned, OwnSound, BlockSound
  <2>4. PICK refs \in Prefetches(held[d].dir, held[d].prefetch) : todo' = [todo EXCEPT ![d] = refs]
    BY <1>10, <2>3 DEF ParseRef
  <2>5. \A i \in DOMAIN refs : Allowed(refs[i])
    BY <2>1, PrefetchesAllowed DEF RequestsAllowed
  <2>6. UNCHANGED <<incoming, slot, held>>
    BY <1>10 DEF ParseRef
  <2>7. ASSUME NEW e \in Dispatchers, NEW i \in DOMAIN todo'[e] PROVE Allowed(todo'[e][i])
    <3>1. todo'[e] = todo[e] \/ (e = d /\ todo'[e] = refs)
      BY <2>4 DEF Typed, TypeOK
    <3> QED BY <2>5, <2>7, <3>1 DEF RequestsAllowed
  <2> QED BY <2>6, <2>7 DEF RequestsAllowed, Allowed
<1>11. ASSUME NEW d \in Dispatchers,
              \/ UnlinkServer(d) \/ RelinkServer(d) \/ Lookup(d) \/ FreeExpired(d)
              \/ ParseResponse(d) \/ CopyDir(d) \/ Judge(d) \/ StoreResource(d)
              \/ Send(d) \/ TestComplete(d) \/ FreeOwn(d)
       PROVE  RequestsAllowed'
  BY <1>1, <1>11 DEF UnlinkServer, RelinkServer, Lookup, FreeExpired, ParseResponse, AllocResponse,
     SetComplete, CopyBlock, CopyDir, Judge, StoreResource, Send, TestComplete, FreeOwn
<1>12. CASE (\E c \in Clients : Accept(c)) \/ ReceiveFails \/ UNCHANGED vars
  BY <1>1, <1>12 DEF Accept, ReceiveFails, vars
<1> QED BY <1>3, <1>4, <1>5, <1>6, <1>8, <1>9, <1>10, <1>11, <1>12
        DEF Next, ProxyThread, FromClient, Dispatch, GetResource, InsertResource

\* No step requests or caches anything deeper.
LEMMA BoundedStep == Typed /\ Owned /\ Bounded /\ [Next]_vars => Bounded'
<1> SUFFICES ASSUME Typed, Owned, Bounded, [Next]_vars, ~overtaken', ~mistaken'
             PROVE  RequestsAllowed' /\ EntriesBounded'
  BY DEF Bounded
<1>1. ~overtaken /\ RequestsAllowed /\ EntriesBounded
  BY HistoryStep DEF Bounded
<1> QED BY <1>1, EntriesStep, RequestsStep

-----------------------------------------------------------------------------
(* The theorems *)

ProxyInv == Typed /\ Carried /\ Owned /\ Bounded

\* The inductive invariant of the proxy.
LEMMA ProxyInvariant == Spec => []ProxyInv
<1>1. Init => ProxyInv
  BY TypedInit, CarriedInit, OwnedInit, BoundedInit DEF ProxyInv
<1>2. ProxyInv /\ [Next]_vars => ProxyInv'
  BY TypedStep, CarriedStep, OwnedStep, BoundedStep DEF ProxyInv
<1> QED BY <1>1, <1>2, PTL DEF Spec

(* No connection is forgotten between the proxy thread, the request list and    *)
(* the dispatchers, none is answered twice, and at most one is lost: OneCarrier, *)
(* for any number of dispatchers and clients, any site, and whatever expires, is *)
(* cut, is missing or cannot be allocated.                                       *)
THEOREM ProxyOneCarrier == Spec => []OneCarrier
<1>1. ProxyInv => OneCarrier
  BY CarriedOne DEF ProxyInv
<1> QED BY <1>1, ProxyInvariant, PTL

(* What insertResource stored is never freed, overwritten or stored twice while *)
(* an entry points to it, until an expired response is freed under another      *)
(* dispatcher (Cache.c:80): CacheSound.                                         *)
THEOREM ProxyCacheSound == Spec => []CacheSound
<1>1. ProxyInv => CacheSound
  BY OwnedSound DEF ProxyInv
<1> QED BY <1>1, ProxyInvariant, PTL

(* Only such an expiry takes a response from the dispatcher that uses it, however *)
(* the accesses of the dispatchers outside the mutexes interleave: UsesOwnBlock.  *)
THEOREM ProxyUsesOwnBlock == Spec => []UsesOwnBlock
<1>1. ProxyInv => UsesOwnBlock
  BY OwnedSound DEF ProxyInv
<1> QED BY <1>1, ProxyInvariant, PTL

(* Prefetching goes no deeper than a REF of an IDX+REF, each under its own name *)
(* or a longer one its row ran on into, until an expired response is freed      *)
(* under a dispatcher or the remains of another page are read for references:   *)
(* PrefetchBounded.                                                             *)
THEOREM ProxyPrefetchBounded == Spec => []PrefetchBounded
<1>1. ProxyInv => PrefetchBounded
  BY DEF ProxyInv, Bounded, EntriesBounded, Bound, PrefetchBounded, ToSet
<1> QED BY <1>1, ProxyInvariant, PTL
=============================================================================
