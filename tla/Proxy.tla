------------------------------- MODULE Proxy -------------------------------
(***************************************************************************)
(* Proxy.c with Cache.c: the proxy thread, the dispatchers, the cache and  *)
(* the request list, taken as the one-place buffer RequestQueue implements *)
(* while no two threads meet inside popReq.  What a dispatcher does to a   *)
(* response outside the mutexes is one step per access to it.              *)
(***************************************************************************)
EXTENDS Cache, FiniteSets

CONSTANTS Clients,        \* connections to the proxy
          ClientPages,    \* what clients ask for
          Exists,         \* the resources the origin server has
          Ref, IdxRef,    \* what each resource refers to, in order: <REF=...> and ;REF=...>
          Longer,         \* the names that begin with each name and go on
          MAXNUMREF,      \* Consts.h: references kept of each kind
          CanExpire,      \* may a cached response grow too old?
          CanTruncate,    \* may a response be shorter than its Len?
          MallocMayFail,  \* may the malloc of insertReq return NULL?
          NoReq

ASSUME ProxyAssumption ==
    /\ ClientPages \subseteq Resource /\ Exists \subseteq Resource
    /\ Ref \in [Resource -> Seq(Resource)] /\ IdxRef \in [Resource -> Seq(Resource)]
    /\ Longer \in [Resource -> SUBSET Resource]
    /\ MAXNUMREF \in Nat \ {0}
    /\ CanExpire \in BOOLEAN /\ CanTruncate \in BOOLEAN /\ MallocMayFail \in BOOLEAN

\* prefetch: 0 from a client, 1 a REF, 2 an IDX+REF.
RefRequest == [prefetch : {1, 2}, dir : Resource, client : {Nobody}]
Request == [prefetch : {0}, dir : ClientPages, client : Clients] \cup RefRequest

ASSUME NamesAssumption ==
    /\ NoReq \notin Request /\ Nobody \notin Clients
    /\ Dispatchers \cap {"incoming", "list"} = {}

VARIABLES slot, held, jammed,  \* the request list and the dispatchers' requests (OneSlot)
          conn,        \* the proxy thread's connection: accepted, not yet read
          incoming,    \* the request the proxy thread is inserting
          status,      \* of each client: idle, connected, waiting, answered, dropped, lost
          pc,          \* of each dispatcher
          resp,        \* of each dispatcher: its response
          todo,        \* of each dispatcher: the requests insertResource still has to look at
          alive,       \* FALSE once free() was called twice on a block: glibc aborts
          overtaken,   \* history: an expired response was freed while another dispatcher had it
          mistaken     \* history: references of a page the server does not have were followed

queueVars == <<slot, held, jammed>>
proxyVars == <<conn, incoming, status>>
history == <<overtaken, mistaken>>
vars == <<cacheVars, queueVars, proxyVars, pc, resp, todo, alive, history>>

Queue == INSTANCE OneSlot WITH broken <- FALSE

PC == {"pop", "server", "relink", "search", "found", "expire", "fetch", "relink_fetch",
       "malloc", "complete", "block", "name", "judge", "refs", "insert", "store",
       "send", "test", "free", "release"}

TypeOK ==
    /\ CacheTypeOK
    /\ slot \in Request \cup {NoReq}
    /\ held \in [Dispatchers -> Request \cup {NoReq}]
    /\ jammed \in BOOLEAN
    /\ conn \in Clients \cup {Nobody}
    /\ incoming \in Request \cup {NoReq}
    /\ status \in [Clients -> {"idle", "connected", "waiting", "answered", "dropped", "lost"}]
    /\ pc \in [Dispatchers -> PC]
    /\ resp \in [Dispatchers -> Addr \cup {Nobody}]
    /\ todo \in [Dispatchers -> Seq(RefRequest)]
    /\ alive \in BOOLEAN /\ overtaken \in BOOLEAN /\ mistaken \in BOOLEAN

Init ==
    /\ CacheInit
    /\ Queue!Init
    /\ conn = Nobody /\ incoming = NoReq
    /\ status = [c \in Clients |-> "idle"]
    /\ pc = [d \in Dispatchers |-> "pop"]
    /\ resp = [d \in Dispatchers |-> Nobody]
    /\ todo = [d \in Dispatchers |-> <<>>]
    /\ alive = TRUE /\ overtaken = FALSE /\ mistaken = FALSE

-----------------------------------------------------------------------------
(* The proxy thread *)

Accept(c) ==
    /\ conn = Nobody /\ incoming = NoReq /\ status[c] = "idle"
    /\ conn' = c
    /\ status' = [status EXCEPT ![c] = "connected"]
    /\ UNCHANGED <<cacheVars, queueVars, incoming, pc, resp, todo, alive, history>>

\* recv blocks, with no timeout, until the client sends.
Receive(k) ==
    /\ conn # Nobody
    /\ incoming' = [prefetch |-> 0, dir |-> k, client |-> conn]
    /\ status' = [status EXCEPT ![conn] = "waiting"]
    /\ conn' = Nobody
    /\ UNCHANGED <<cacheVars, queueVars, pc, resp, todo, alive, history>>

\* The connection is forgotten, and stays open.
ReceiveFails ==
    /\ conn # Nobody
    /\ status' = [status EXCEPT ![conn] = "dropped"]
    /\ conn' = Nobody
    /\ UNCHANGED <<cacheVars, queueVars, incoming, pc, resp, todo, alive, history>>

\* What insertReq returns is not looked at: if it failed, nobody has the request any more.
InsertIncoming ==
    /\ incoming # NoReq
    /\ \/ Queue!Put(incoming) /\ UNCHANGED status
       \/ /\ MallocMayFail /\ Queue!Fail
          /\ status' = [status EXCEPT ![incoming.client] = "lost"]
    /\ incoming' = NoReq
    /\ UNCHANGED <<cacheVars, conn, pc, resp, todo, alive, history>>

-----------------------------------------------------------------------------
(* The dispatchers: looking up *)

Goto(d, from, to) == pc[d] = from /\ pc' = [pc EXCEPT ![d] = to]

\* Mutant: the request stays in the list.
PopKeeps(d) ==
    /\ Goto(d, "pop", "server")
    /\ slot # NoReq
    /\ held' = [held EXCEPT ![d] = slot]
    /\ UNCHANGED <<cacheVars, slot, jammed, proxyVars, resp, todo, alive, history>>

Pop(d) ==
    /\ Goto(d, "pop", "server")
    /\ Queue!Take(d)
    /\ UNCHANGED <<cacheVars, proxyVars, resp, todo, alive, history>>

\* insertServer, at the start of getResource and after a response is received; the retries
\* of connect, read and a bad status line precede the second one and change nothing.
UnlinkServer(d) ==
    /\ Goto(d, "server", "relink") \/ Goto(d, "fetch", "relink_fetch")
    /\ MoveServer(d)
    /\ UNCHANGED <<queueVars, proxyVars, resp, todo, alive, history>>

RelinkServer(d) ==
    /\ Goto(d, "relink", "search") \/ Goto(d, "relink_fetch", "malloc")
    /\ RestoreServer(d)
    /\ UNCHANGED <<queueVars, proxyVars, resp, todo, alive, history>>

\* What d looks up: its own request, then each reference of the page it got.
Wanted(d) == IF todo[d] = <<>> THEN held[d].dir ELSE Head(todo[d]).dir

\* Where a NULL of getResource takes d.
NotFound(d) == IF todo[d] = <<>> THEN "fetch" ELSE "insert"

\* getResource under insert_mutex.  Time decides whether what is found is too old; the
\* first entry of this name is the only one looked at, and goes when it is.
Lookup(d) ==
    /\ \/ Goto(d, "search", "found") /\ Hit(d, Wanted(d))
       \/ CanExpire /\ Goto(d, "search", "expire") /\ Expired(d, Wanted(d))
       \/ Goto(d, "search", NotFound(d)) /\ Miss(Wanted(d))
    /\ UNCHANGED <<queueVars, proxyVars, resp, todo, alive, history>>

\* d has dealt with the first of its references.
NextRef(d) ==
    /\ todo' = [todo EXCEPT ![d] = Tail(todo[d])]
    /\ pc' = [pc EXCEPT ![d] = IF Tail(todo[d]) = <<>> THEN "store" ELSE "server"]

\* A response is found; a reference that is cached is not requested.
ReturnFound(d) ==
    /\ pc[d] = "found" /\ ReadEntry(d)
    /\ \/ /\ todo[d] = <<>> /\ Goto(d, "found", "send")
          /\ resp' = [resp EXCEPT ![d] = entry[re[d]]]
          /\ UNCHANGED todo
       \/ todo[d] # <<>> /\ NextRef(d) /\ UNCHANGED resp
    /\ UNCHANGED <<queueVars, proxyVars, alive, history>>

\* Somebody else is about to read the entry d frees, or has its response.
Overtakes(d) == \E e \in Dispatchers : resp[e] = entry[re[d]] \/ (e # d /\ re[e] = re[d])

FreeExpired(d) ==
    /\ Goto(d, "expire", NotFound(d))
    /\ FreeEntry(d)
    /\ alive' = mem[entry[re[d]]].live
    /\ overtaken' = (overtaken \/ Overtakes(d))
    /\ UNCHANGED <<queueVars, proxyVars, resp, todo, mistaken>>

-----------------------------------------------------------------------------
(* The dispatchers: parseResponse *)

\* The answer to a page that is missing, 402 to 405, is not written to the response.
AllocResponse(d) ==
    /\ Goto(d, "malloc", IF held[d].dir \in Exists THEN "complete" ELSE "name")
    /\ \E a \in Addr : Malloc(a) /\ resp' = [resp EXCEPT ![d] = a]
    /\ UNCHANGED <<queueVars, proxyVars, todo, alive, history>>

SetComplete(d) ==
    /\ Goto(d, "complete", "block")
    /\ \/ WriteComplete(resp[d], 1)
       \/ CanTruncate /\ WriteComplete(resp[d], 0)
    /\ UNCHANGED <<queueVars, proxyVars, resp, todo, alive, history>>

CopyBlock(d) ==
    /\ Goto(d, "block", "name")
    /\ WriteBlock(resp[d], held[d].dir)
    /\ UNCHANGED <<queueVars, proxyVars, resp, todo, alive, history>>

CopyDir(d) ==
    /\ Goto(d, "name", "judge")
    /\ WriteDir(resp[d], held[d].dir)
    /\ UNCHANGED <<queueVars, proxyVars, resp, todo, alive, history>>

\* Mutant: an incomplete response is cached as well.
AnyStorable(r) == r.body # Junk

\* resp->complete == TRUE
Storable(r) == r.complete = 1

\* insertResource looks for references in what a client or an IDX+REF asked for.
Judge(d) ==
    /\ \/ Goto(d, "judge", "refs") /\ Storable(mem[resp[d]]) /\ held[d].prefetch # 1
       \/ Goto(d, "judge", "store") /\ Storable(mem[resp[d]]) /\ held[d].prefetch = 1
       \/ Goto(d, "judge", "send") /\ ~Storable(mem[resp[d]])
    /\ UNCHANGED <<cacheVars, queueVars, proxyVars, resp, todo, alive, history>>

-----------------------------------------------------------------------------
(* The dispatchers: insertResource *)

Smaller(m, n) == IF m < n THEN m ELSE n

\* The rows parseRef leaves: the first references, each under its own name or, as rows are
\* not terminated, followed by the rest of a longer one (module Pages says which).
Rows(s) ==
    {t \in [1..Smaller(Len(s), MAXNUMREF) -> Resource] :
        \A i \in DOMAIN t : t[i] = s[i] \/ t[i] \in Longer[s[i]]}

\* Mutant: v->prefetch is not assigned.
RefRequestsNoKind(t, kind) ==
    [i \in DOMAIN t |-> [prefetch |-> Junk, dir |-> t[i], client |-> Nobody]]

RefRequests(t, kind) == [i \in DOMAIN t |-> [prefetch |-> kind, dir |-> t[i], client |-> Nobody]]

\* Mutant: the IDX+REFs of a prefetched page are followed too.
PrefetchesAll(body, kind) ==
    IF body = Junk THEN {<<>>}
    ELSE {RefRequests(r, 1) \o RefRequests(x, 2) : r \in Rows(Ref[body]), x \in Rows(IdxRef[body])}

\* What insertResource may request for a response to a request of this kind, in order.
Prefetches(body, kind) ==
    IF body = Junk THEN {<<>>}
    ELSE IF kind = 2 THEN {RefRequests(r, 1) : r \in Rows(Ref[body])}
    ELSE {RefRequests(r, 1) \o RefRequests(x, 2) : r \in Rows(Ref[body]), x \in Rows(IdxRef[body])}

ParseRef(d) ==
    /\ pc[d] = "refs"
    /\ \E refs \in Prefetches(mem[resp[d]].body, held[d].prefetch) :
         /\ todo' = [todo EXCEPT ![d] = refs]
         /\ pc' = [pc EXCEPT ![d] = IF refs = <<>> THEN "store" ELSE "server"]
    /\ mistaken' = (mistaken \/ held[d].dir \notin Exists)
    /\ UNCHANGED <<cacheVars, queueVars, proxyVars, resp, alive, overtaken>>

\* insertReq, which blocks the dispatcher while the list holds a request, and for ever
\* once it is jammed.
InsertRef(d) ==
    /\ pc[d] = "insert"
    /\ Queue!Put(Head(todo[d])) \/ (MallocMayFail /\ Queue!Fail)
    /\ NextRef(d)
    /\ UNCHANGED <<cacheVars, proxyVars, resp, alive, history>>

\* The entries in use: those of the list, and those unlinked and not freed yet.
InUse == ToSet(resources) \cup {re[e] : e \in {d \in Dispatchers : pc[d] = "expire"}}

StoreResource(d) ==
    /\ Goto(d, "store", "send")
    /\ \E c \in Cell \ InUse : Store(c, resp[d])
    /\ UNCHANGED <<queueVars, proxyVars, resp, todo, alive, history>>

-----------------------------------------------------------------------------
(* The dispatchers: answering *)

\* Only a client's request is answered: send of what the block holds now, then close.
Send(d) ==
    /\ \/ /\ Goto(d, "send", "test") /\ held[d].prefetch = 0
          /\ status' = [status EXCEPT ![held[d].client] = "answered"]
       \/ Goto(d, "send", "release") /\ held[d].prefetch # 0 /\ UNCHANGED status
    /\ UNCHANGED <<cacheVars, queueVars, conn, incoming, resp, todo, alive, history>>

\* Mutant: every answer to a client is freed.
FreesAll(r) == TRUE

\* resp->complete == FALSE: an incomplete answer to a prefetch is never freed.
Frees(r) == r.complete = 0

TestComplete(d) ==
    /\ \/ Goto(d, "test", "free") /\ Frees(mem[resp[d]])
       \/ Goto(d, "test", "release") /\ ~Frees(mem[resp[d]])
    /\ UNCHANGED <<cacheVars, queueVars, proxyVars, resp, todo, alive, history>>

\* free(resp): the response is not looked at again.
FreeOwn(d) ==
    /\ Goto(d, "free", "release")
    /\ FreeResponse(resp[d])
    /\ alive' = mem[resp[d]].live
    /\ resp' = [resp EXCEPT ![d] = Nobody]
    /\ UNCHANGED <<queueVars, proxyVars, todo, history>>

\* No other pointer to d's response is left.
LastPointer(d) ==
    /\ \A e \in Dispatchers \ {d} : resp[e] # resp[d]
    /\ \A c \in ToSet(resources) \cup {re[e] : e \in Dispatchers} :
          c # Nobody => entry[c] # resp[d]

Leaks(d) == resp[d] # Nobody /\ mem[resp[d]].live /\ LastPointer(d)

\* free(req), and the next turn.
Release(d) ==
    /\ Goto(d, "release", "pop")
    /\ Queue!Release(d)
    /\ \/ Leaks(d) /\ Leak(resp[d])
       \/ ~Leaks(d) /\ UNCHANGED cacheVars
    /\ resp' = [resp EXCEPT ![d] = Nobody]
    /\ UNCHANGED <<proxyVars, todo, alive, history>>

ProxyThread == (\E c \in Clients : Accept(c)) \/ InsertIncoming

FromClient == (\E k \in ClientPages : Receive(k)) \/ ReceiveFails

GetResource(d) == \/ UnlinkServer(d) \/ RelinkServer(d)
                  \/ Lookup(d) \/ ReturnFound(d) \/ FreeExpired(d)

ParseResponse(d) == AllocResponse(d) \/ SetComplete(d) \/ CopyBlock(d)

InsertResource(d) == ParseRef(d) \/ InsertRef(d) \/ StoreResource(d)

Dispatch(d) == \/ Pop(d) \/ GetResource(d) \/ ParseResponse(d) \/ CopyDir(d) \/ Judge(d)
               \/ InsertResource(d)
               \/ Send(d) \/ TestComplete(d) \/ FreeOwn(d) \/ Release(d)

Next == /\ alive
        /\ ProxyThread \/ FromClient \/ \E d \in Dispatchers : Dispatch(d)

Spec == Init /\ [][Next]_vars

FairSpec == /\ Spec
            /\ WF_vars(alive /\ ProxyThread) /\ WF_vars(alive /\ FromClient)
            /\ \A d \in Dispatchers : WF_vars(alive /\ Dispatch(d))

-----------------------------------------------------------------------------
(* Properties *)

\* The places a client's request can be in: with the proxy thread, in the list, with a
\* dispatcher that has not answered yet.
Answered == {"test", "free", "release"}
Carriers(c) ==
    {t \in {"incoming"} : incoming # NoReq /\ incoming.client = c}
    \cup {t \in {"list"} : slot # NoReq /\ slot.client = c}
    \cup {d \in Dispatchers : held[d] # NoReq /\ held[d].client = c /\ pc[d] \notin Answered}

(* The request of a client that waits is in exactly one place, and that of a  *)
(* client that was answered in none: no connection is forgotten between the   *)
(* proxy thread, the list and the dispatchers, and none is written to twice,  *)
(* when its descriptor may already be another client's.  Only a malloc that   *)
(* fails in insertReq loses one, and no second one, as the list is jammed.    *)
OneCarrier ==
    /\ \A c \in Clients : Cardinality(Carriers(c)) = IF status[c] = "waiting" THEN 1 ELSE 0
    /\ \A c, e \in Clients : status[c] = "lost" /\ status[e] = "lost" => c = e

(* Until an expired response is freed while another dispatcher has it, every  *)
(* cache entry points to a block that is allocated, complete, and no other    *)
(* entry's: what insertResource stores is not pulled from under it.           *)
CacheSound == ~overtaken =>
    /\ \A i \in DOMAIN resources :
         LET r == mem[entry[resources[i]]] IN r.live /\ r.complete = 1
    /\ \A i, j \in DOMAIN resources : entry[resources[i]] = entry[resources[j]] => i = j

(* Request.h:34: the response that arrives is sent to the client.  A reply    *)
(* holds bytes of the page that was asked for, or none of any page's.         *)
AnswersMatch ==
    \A d \in Dispatchers : pc[d] = "send" /\ held[d].prefetch = 0
        => mem[resp[d]].body \in {held[d].dir, Junk}

\* The response is malloc'ed and not yet filled in.
Filling == {"complete", "block", "name"}

(* Until an expired response is freed while another dispatcher has it, the    *)
(* block a dispatcher parsed or found is allocated, and one that is being     *)
(* filled in, or is incomplete, is nobody else's; once filled in, it holds    *)
(* the page it was asked for.  So what a dispatcher sends, stores and frees   *)
(* is its own: a double free, or another page in the place of one the server  *)
(* has, starts with an expired response.                                      *)
UsesOwnBlock == ~overtaken =>
    \A d \in Dispatchers : resp[d] # Nobody =>
        LET r == mem[resp[d]] IN
        /\ r.live
        /\ pc[d] \notin Filling =>
             r.dir = held[d].dir /\ (r.dir \in Exists => r.body = r.dir)
        /\ pc[d] \in Filling \/ r.complete = 0 =>
             \A e \in Dispatchers \ {d} : resp[e] # resp[d]

\* The names under which a set of references may be requested.
ReadAs(S) == S \cup UNION {Longer[k] : k \in S}

Asked == ClientPages
Ahead == ReadAs(UNION {ToSet(IdxRef[k]) : k \in Asked})
Embedded == ReadAs(UNION {ToSet(Ref[k]) : k \in Asked \cup Ahead})

(* Prefetching stops: what is in the cache was asked for by a client, or is   *)
(* requested for a REF or IDX+REF of such a page, or for a REF of such an     *)
(* IDX+REF; the references of a prefetched REF are never followed.  This is   *)
(* so until an expired response is freed under a dispatcher, or references    *)
(* are read out of a block that holds the remains of another page, because    *)
(* the one asked for is missing: then it can go on, one level at a time.      *)
PrefetchBounded == ~overtaken /\ ~mistaken =>
    \A i \in DOMAIN resources :
        mem[entry[resources[i]]].dir \in Asked \cup Ahead \cup Embedded

\* The bound on the heap is reached: malloc would go on.
OutOfAddresses == (\A a \in Addr : mem[a].live) \/ Cell \subseteq InUse

(* Proxy.c:136: the request comes from a client, which demands an answer.     *)
EveryClientAnswered ==
    \A c \in Clients : (status[c] = "waiting") ~> (status[c] = "answered" \/ OutOfAddresses)
=============================================================================
