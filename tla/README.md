# Verification of the prefetching proxy

TLA+ models, TLC runs and TLAPS proofs about the program in
`src/Prefetching@Reti`: a caching proxy that follows the references of the
pages it serves, the origin server it asks and a client. File names and line
numbers below are relative to that directory.

## 1. The system

| Part | State | Operations | Talks to |
|---|---|---|---|
| Request list (`Request.c`) | `full_mutex`, `empty_mutex`, two condition variables, `n_req`, `request_list` | `insertReq`, `popReq` | the proxy thread and the dispatchers call it |
| Cache (`Cache.c`) | `server_list`, a `resources` list per server, `insert_mutex`, `server_mutex`, responses on the heap | `insertServer`, `getResource`, `insertResource` | the dispatchers call it; `insertResource` calls `getResource` and `insertReq` |
| Proxy (`Proxy.c`) | the accepted connection, `req`, `resp` and `resp_buf` of each dispatcher | `proxy` (accept, receive, insert), `requestDispatcher` (pop, look up, fetch, store, answer) | clients, the origin server |
| Parser (`Parser.c`) | none | `parseRequest`, `parseResponse`, `parseRef`, `matchSubstr` | the proxy and the cache |
| Network helpers (`IOUtil.c`) | none | `readn`, `writen` | sockets |
| Origin server (`Server.c`) | `numthread`, `numthreadfrozen`, a thread and a descriptor per connection, the request and the answer of each | accept loop, `RecvAndSend` and what it calls | clients and dispatchers |
| Client (`Client.c`) | the page being assembled, its links | `Get`, `GetAll`, `check200OK`, `navigaFromRisorsa` | the proxy |
| Utilities (`Util.c`), lists (`list.h`) | none | time arithmetic, send and receive loops; `list_add`, `list_del` | everything |

### What is hard, and what makes each part correct

- **Request list.** One proxy thread and five dispatchers share it, through two
  mutexes that are locked by one thread and unlocked by another, `if` instead of
  `while` around the waits, and a flag tested under another mutex than the one
  it is changed under. Correct means: a request that goes in comes out once, in
  one place at a time; inserting waits for room and popping for a request, and
  for nothing else.
- **Cache.** Pointers to responses leave its critical section while other
  dispatchers expire and free them; the list of servers is walked under one
  mutex and changed under another. Correct means: an entry points to a live and
  complete response, a block is freed once, a client gets the page it asked for,
  and what is in the cache is found.
- **Proxy.** Dispatchers are the consumers of the list and, when they prefetch,
  its producers too. Correct means: a connection is answered once, by one
  dispatcher; prefetching stops; everybody who waits is answered.
- **Client and references.** A page is put together from several answers, any of
  which can fail; the index of the chosen link goes through a `char`; the proxy
  reads the same page with another parser, into rows nobody clears. Correct
  means: what is shown is whole, the choice is followed, and what the proxy
  requests ahead is what the client will ask for.
- **Parser, network helpers, client.** Bytes arrive in pieces, late, or only in
  part, and a buffer survives from one attempt to the next. Correct means: an
  answer is taken for whole only when it is, and never mixed from two.
- **Origin server.** Counters in three critical sections of two functions decide
  who works; threads freeze on purpose, or leave without closing. Correct means:
  the counters count, the limit holds, a full server becomes free again; a
  request gets the bytes it asks for however it is cut on its way.

## 2. The plan

Done, in this order:

1. `OneSlot`, `RequestQueue` and its proofs: the list, everything else rests on it.
2. `Cache` and `Proxy`: the dispatchers over the abstract list.
3. `OriginServer` and its proofs: admission and descriptors.
4. `ServerRequest` and `Exchange`: one request and one page, byte by byte.
5. `ServerList`: the list of servers, pointer by pointer, under its two mutexes.
6. `Pages` and `Client`: `parseRef` and its rows, the assembly of a page, the
   navigation.
7. `ProxyProofs`, `ServerListProofs`, `ClientProofs`, `ServerRequestProofs` and
   `ExchangeProofs`: every safety property the passing runs check, for every
   value of the constants.

Next, in this order:

8. The parse of `Exchange` against the steps `AllocResponse` to `CopyDir` of
   `Proxy`, as a refinement with a proof.
9. The walk of `ServerList` against the lookup of `Cache`, likewise.
10. `Proxy` over the two mutexes of `RequestQueue` instead of `OneSlot`; the
    descriptors of the proxy.

## 3. The modules

| Module | Models | How |
|---|---|---|
| `OneSlot` | what the list does, as long as it works | a place for one request; `Put`, `Take`, `Release`, and `Fail`, after which nothing is put any more |
| `RequestQueue` | `Request.c` and the calls to it | one action per access to shared state; `pc` names the next one |
| `RequestQueueProofs` | theorems about it | |
| `Cache` | `Cache.c`, what `parseResponse` and `free` do to the heap | one action per critical section and per access outside of them, without a program counter |
| `Proxy` | `Proxy.c`, and the calls of `insertResource` | extends `Cache`; `Queue` is `OneSlot` |
| `ProxyProofs` | theorems about `Cache` and `Proxy` | |
| `ServerList` | `insertServer`, `getResource` and the macros of `list.h`, several servers | one action per store a walk can see |
| `ServerListProofs` | theorems about it | |
| `Pages` | the text of a page, `parseRef` | operators over sequences of items |
| `Client` | `Client.c` from `main` to `parse`, and a dispatcher reading the same pages | extends `Pages`; one action per item of a page |
| `ClientProofs` | theorems about `Pages` and `Client` | |
| `OriginServer` | `main` and `RecvAndSend` of `Server.c`, all connections | a state per thread, the two counters, the open descriptors |
| `OriginServerProofs` | theorems about it | |
| `ServerRequest` | `getRequest`, `checkRequest`, `prepareResponse`, `SendnWithError`, one connection | fields of the request, tokens of the answer |
| `ServerRequestProofs` | theorems about it | |
| `Exchange` | the retry loop of Proxy.c:173, `readn`, `parseResponse`, `Get`, `check200OK` | extends `ServerRequest`: the server answers, the dispatcher reads, the client receives |
| `ExchangeProofs` | theorems about it | |
| `Induction` | induction over sets of naturals, iteration of a function | lemmas the other proofs cite |
| `MC...` | instances for TLC | |

**State and code.** A `pc` value stands for a place in the C function, and the
step that leaves it is the statement there; `map` in `PROJECT.json` names the
lines of every definition. In `RequestQueue` a mutex is one bit, because glibc's
default mutex can be unlocked by any thread and does nothing when it is free; a
test and the `pthread_cond_wait` behind it are two steps, since only the wait
itself is atomic. `element[d]` is the pointer `popReq` keeps between reading
the head and unlinking it, and `Indeterminate` the value of its `ret` when
nothing was assigned. `broken` is a history variable: it becomes `TRUE` when two
threads are inside the body of `popReq` together. What happens then is followed
too: `Unlink` removes whatever is first by then, follows a NULL pointer when there
is nothing (`FollowNull`), or reads an element the other thread has freed
(`UseFreed`).

In `Cache` and `Proxy`, `mem` is the heap of responses and `entry` that of the
elements of the resources list. A freed block keeps its contents until an
allocation takes the address again, and a new one has the contents of the old, or
others (`Malloc`), which is what `stale_answer` and `error_answer` need and what
malloc does. A block to which no pointer is left returns to the pool as
`NewMemory`, so that a few addresses stand for an endless heap. `moving` is the
moment between `list_del` and `list_add` in `insertServer`, where a walk of the
list finds nothing. `re[d]` is the entry `getResource` found, read or freed only after
the unlock (Cache.c:79-87). `todo[d]` holds the references `insertResource` still
has to look up or request.

Every access to a response outside the mutexes is a step: `malloc`, the store to
`complete`, to `block` and to `dir`, the test of `complete` that decides on
storing, the one that decides on freeing, and `free`. A dispatcher can thus be
overtaken between any two of them. A reference read from a page is requested
under its own name or under a longer one that begins with it (`Rows`, `Longer`),
which covers all that the unterminated rows of `parseRef` can hold; which of them
is the case only `Pages` says. Two history variables mark where the guarantees
end: `overtaken` when an expired response is freed while another dispatcher holds
it or is about to read its entry, `mistaken` when references are read for a page
the server does not have.

In `ServerList` `nxt` and `prv` are the pointers of each entry and of the head.
A store to a `next` pointer is a step of its own, since a walk under the other
mutex may read it; what only the holder of `server_mutex` reads (the search, the
`prev` pointers) belongs to the step beside it. The order of the stores is that
of the source, as the program is built without optimisation. `stored` counts the
resources of a server, one path each. `moved` is a history variable: the threads
whose server was unlinked at some moment of their walk.

In `Pages` a page is a sequence of items. `Rows` is what makes `parseRef` hard: it
writes a path into a row without a terminator, and the arrays are locals of
`insertResource`, which a dispatcher calls at the same depth in every turn. So a
row reads back as the path followed by the tail of the longest one it ever held.
This takes the stack of a new thread to be zero and nothing else to write there:
the arrays take 45 kB, other calls of the loop reach some kB deep and could touch
the last rows of one of them only. In `Client` one item is one step, a `Get` is a
step that succeeds or fails, and `ReadOther` is the dispatcher serving somebody
else. `fresh`, `wanted`, `seen` and `chosen` record what the dispatcher read and
asked for and what the user chose. The order of errors is kept: a page that
fails leaves its links behind, and the keyboard accepts them.

In `ServerRequest` a request is a list of fields. `"method"`, `"IP"` and
`"port"` come twice, because a piece that ends inside one of them is refused:
`checkRequest` compares fewer than twelve bytes with the whole of
`GET mhttp://` (line 413), and a part of an address or a port with the server's own.
Answers are sequences of tokens: digits in base `Base`, one token per keyword,
one per byte of the file, all different, so a byte in the wrong place is seen.
In `OriginServer` a working thread opens and closes the file it answers with, once
for the length and once for the bytes, and `Used` counts connections and files
against the one limit `MaxFd`. `exit` tells an exit for lack of descriptors from
the others (`MainFails`).
`Exchange` keeps `resp_buf` cell by cell. It is cleared once before the loop and
not between attempts, as in Proxy.c:166. When nothing comes for ten seconds
the dispatcher tries again (`Timeout`); when `recv` fails the client's `Get` ends
with an error (`ClientError`).

**Composition.** `Proxy` is checked over `OneSlot`, which `RequestQueue`
implements while `broken` is `FALSE`; a malloc that fails in an insertion jams
both for good. So the properties of `Proxy` are about executions in which no two
threads meet inside `popReq`; the runs `pop_garbage` and `pop_blocks` show what
happens in the others. `ServerList` justifies `moving` of `Cache`: a resource is
missed only while or after the entry of its own server is moved
(`MissMeansMoved`), which is when the walk of `Cache` finds nothing. `Client`
takes from `Proxy` and `Exchange` that a `Get` brings the page asked for or
fails; `stale_answer` and `error_answer` show when it brings another page.
`Exchange` justifies the parse of `Proxy`: a response that is understood is a
page, whole or truncated, or an error. It does so for one dispatcher, as
`resp_buf` and the connection are its own. `Exchange` takes the admission of
`OriginServer` as a choice: a connection is served or waits for ever.

## 4. The runs

Passing runs:

| Run | Shows | Instance |
|---|---|---|
| `queue` | `HandOver`, `OneOwner`, and the refinement `ImplementsOneSlot` | one acceptor, three dispatchers, four requests, `MAXREQ` = 1, spurious wakeups, failing mallocs |
| `proxy` | `OneCarrier`, `CacheSound`, `PrefetchBounded`, `UsesOwnBlock` with expiry, truncation, a 404 and a garbled reference | two dispatchers, two clients, five pages of which one is missing, a reference that can be garbled, three addresses of responses and three of entries, failing mallocs |
| `server_list` | `ListSound`, `WayOut`, `MissMeansMoved` | three dispatchers, two servers, one resource per server |
| `client` | `PageAssembled`, `NeverElsewhere`, `FollowsTheChoice`, `AskedAhead` | five pages, `MAXNUMREF` = 2, all three kinds of input, the dispatcher reading any pages in between |
| `server` | `CountersMatch`, `AtMostWorking`, `ExitMeansLeaks`, `AdmitsAgain` | five connections, two working threads, five descriptors |
| `server_request` | `AnswersTheRange`, `RequestEnds` | both builds, files of 0 to 3 bytes or none, every range up to 4 |
| `exchange` | `AnswerIsPrefix`, `WholeOrNothing`, `GoodIsNotBad` | files of 0 to 4 bytes or none, every cut on both connections, any number of attempts |

Runs that end in a violation, each a disagreement with a line of the repository:

| Run | The code |
|---|---|
| `pop_garbage` | `popReq` can return a value nobody assigned: `insertReq` unlocks the mutex a dispatcher holds, so that a second one tests `n_req` before the first one decrements it (line 45) and again after that (line 49) |
| `pop_blocks` | `popReq` sleeps with a request in the list: the signal came between the test and the wait |
| `stale_answer` | a dispatcher has fetched and stored a page and is about to send it; another one finds it expired and frees it, a third one's parse takes the block, and the client gets the page that is there now |
| `error_answer` | for a 404 the client is sent what the recycled block held |
| `deadlock` | all dispatchers block in `insertReq`, with the references of their pages, and nobody is left to pop |

**What the properties say.** `HandOver` is the one thing that makes the list
work at all: `full_mutex` is a baton that goes from an inserter to a dispatcher
and back, so there is never more than one request, nobody ever waits for a full
list, and the counter and the list agree. That is not what Request.h:58 says, by
which insertions block at `MAXREQ` requests. `AnswersMatch` fails when entries
expire and when a page is missing (`stale_answer`, `error_answer`).
`UsesOwnBlock` and `CacheSound` say that nothing else is wrong: truncated answers,
404s, overlapping lookups, garbled references and duplicate entries included, a
dispatcher works on a block of its own and the cache points to live and complete
ones, until an expired response is freed while another dispatcher has it. After
that both are false of the code: such a dispatcher can read `complete` of what
the block was recycled for, be overtaken by the owner's writes, and
free in the next statement (Proxy.c:221-222) a block that is by then complete, stored
and referred to by the cache. Without its hypothesis TLC refutes `CacheSound` in
the instance of `proxy`.

`PrefetchBounded` counts depth from what clients ask for: a garbled name is no page's
reference, but it is as deep as the one it is read for, so that prefetching stops
all the same. It ends with the two hypotheses. With an expiry under a dispatcher
the references of another page are read; and a 404 is put into a block that may
still hold another page and its `complete`, so that its references are followed and
prefetching can go one level deeper at each missing page.

`ListSound` and `WayOut` hold for a list that is changed while it is walked,
because an entry is never freed and keeps its `next` when it is unlinked.
`MissMeansMoved` is the price: Cache.h:55 promises NULL only for a resource that
is absent or too old, and a dispatcher asking for the same server is enough to
miss one. The resource is then fetched and stored again, which costs a request
but, as long as nothing expires under a dispatcher, nothing else (`CacheSound`).
A walk ends as long as entries are not moved under it again and again; two
dispatchers in the loop of Proxy.c:173, which calls `insertServer` at every
turn, could do so for ever.

`FollowsTheChoice` and `NeverElsewhere` are exact about the `char` of
Client.c:674: below 128, except 113, the link is followed; above, the same page
is fetched again, or the link whose index is equal modulo 256. The comment of
`isIDXREF` (Client.c:467) has the index 1034 as its example. `AskedAhead` is
exact about Parser.c:108: a reference is requested under its own name if and
only if it is among the first `MAXNUMREF` and no page with a longer path in the
same place was read by that dispatcher. The other names are requested, and
cached when the server answers with an error, to no use.

`AnswersTheRange` compares the bytes sent with the range as a set, and asks that
they come in increasing order: none is missing, doubled or out of place. The
header must give the number of the bytes that follow it, or the range. What it
does not say is which requests are refused: `checkRequest` refuses some that are
merely cut (Server.c:411-421), and `Refuse` does so too.

`ExitMeansLeaks` leaves two descriptors to each working thread, the connection and
the file. So a server with more than that many does not exit for want of one before
some are leaked by frozen threads and threads in excess, or wait for a thread to
be admitted.

`AnswerIsPrefix` is about the
buffer that is not cleared: a retry is parsed over the remains of the attempt
before, and still the page is never mixed, because both attempts got the same
bytes in the same places or an error that is recognised. It holds also
for files whose length has more digits than `len` has cells (Parser.c:152),
where the length read back may be longer: such a page is called
incomplete, is not cached, and reaches the client whole. The note in `TODO` about
the files 1000, 2000 and 4000 reports the same.

**Bounds.** Three dispatchers are the least number in which one is inside
`popReq`, one asleep and one inserting; `MAXREQ` = 1 is the value for which the
branch of a full list is nearest, and it is not taken; for every other value see
the proofs. In `Proxy` two dispatchers suffice for a race over one block between
the one that holds it and the one that frees it; `stale_answer` has a third,
which recycles the block meanwhile. The pages give a REF, an IDX+REF, a REF of
an IDX+REF, a reference that may not be followed, and a name that begins with
another one; the missing page is that one. Three addresses are one for each
dispatcher and one in the cache, and the entries are as many. In `ServerList`
two entries give every order of a list with a first and a last one, and the
third dispatcher lets two move entries under the walk of the other; two
dispatchers and three servers were checked as well. The site of `MCClient` has
an object before and after its links, the indexes 2, 7, 113, 200 and 258, two
links with one index, a page with more references than are kept, and paths of
three lengths. When all addresses are live, malloc would go on;
`EveryClientAnswered` therefore allows `OutOfAddresses` as an excuse. Five
connections against two working threads and five descriptors reach freezing of
all, excess, exhaustion by leaks and by files, and exit: two working threads
with their files take four descriptors. `Base` = 2 gives numbers of one, two and
three digits for files of up to four bytes, `LenCells` = 3 makes the longest one
overflow, and `PIECE` = 2 lets the server stop inside the header as well as
inside the data. Symmetry is used in runs of invariants and of the safety
refinement only.

**Deadlock.** It is checked in `server_list` and in `client`; in `client` the
dispatcher can always read another page, so there it says little. It is not
checked in the other runs, whose models have a state in which they rightly stop:
no free request structure (`queue` and its two violations), all clients answered
(`proxy` and its violations), `main` has exited (`server`), the connection is
over (`server_request`), the page has arrived (`exchange`). Progress is stated
by the liveness properties there.

**Fairness.** `server`: every thread goes on while the process lives. For
`recv` this assumes that a connected client sends or closes; a silent one holds its
thread (a hazard without a property). `server_request`: the same for
one connection. `deadlock`: threads, clients and the list are fair, which is
more than the mutexes guarantee, and yet the clients wait for ever; the
counterexample ends with both dispatchers at `insert` and the place taken,
where nothing is enabled for any fairness to help.

## 5. The proofs

Every invariant and every action property that a passing run checks is a
theorem, proved for every value of the constants that these assumptions allow:

| Theorems | For any | Assumptions and what they say |
|---|---|---|
| `RequestQueueProofs` | threads, `MAXREQ` above zero, with or without spurious wakeups and malloc failures | `QueueAssumption` |
| `ProxyProofs` | dispatchers, clients, addresses, pages, references and garbled names, with or without expiry, truncation and malloc failures | `ProxyAssumption`: references are sequences of pages, `MAXNUMREF` is not 0; `CacheAssumption`, `NamesAssumption`: the values for nobody and nothing are no thread and no page |
| `ServerListProofs` | dispatchers, servers, number of resources | `ListAssumption`: as many entries as servers, since `malloc` is taken to succeed |
| `ClientProofs` | site, lengths of paths, `MAXNUMREF` above zero | `PagesAssumption`; `ClientAssumption`: no page has more than `MAXNUMLINK` links or `MAXNUMEMBEDDEDOBJECT` objects (hazards) |
| `OriginServerProofs` | finite set of connections, any limits | `ServerAssumption` |
| `ServerRequestProofs` | file length, range, base of the numbers, way to cut the request and the answer | `RequestAssumption`: a base of two at least, in which `EXPIRE` has few digits; `SHORT` not below `PIECE`, as in Server.c:104 |
| `ExchangeProofs` | number of attempts, cut of any of the answers, cells of `len` | `ExchangeAssumption`: the header and the file fit into `resp_buf` (a hazard) |

**The list.** `TypeOK` is not inductive: `Locals` adds that `arg` holds a
request while it is being inserted, and `held` none while a dispatcher is
popping; together they are `Typed`. `HandOver`
is inductive relative to `Typed`, and `OneOwner` relative to both; the
inductive invariant is `QueueInv`, their conjunction. Each conjunct of
`HandOver` needs the others: that nobody sleeps on `full_cond` follows from
`n_req = 0` for the owner of the baton, that from the owner being alone,
that from the mutex, and that the mutex is locked while `n_req = 1` from the
dispatchers not meeting. Every step is a lemma (`HandOverInsert`,
`HandOverPop`, ...) with a case per action. `ListImplementsOneSlot` maps `Add` to
`Put` or `Fail`, `Unlink` to `Take` and `FreeReq` to `Release`; every other step
stutters. That `Add` without memory is `Fail`, and that the list then stays jammed,
is the baton once more: it is locked with no owner (`NoOwnerKept`), and only an
owner could unlock it.
The theorems hold in all behaviours; what they say ends when `broken` is set,
and `OneSlot` then allows anything.

**The proxy.** `ProxyInv` is `Typed /\ Carried /\ Owned /\ Bounded`. `Typed`
says which locals are set at which step. `Carried` names the places a connection
can be in: the proxy thread, the list, one of the dispatchers; it is lost only
when the list is jammed, which happens once. `Owned` has `CacheSound` and
`UsesOwnBlock` and what they need of each other. A block is `Private` while it is
parsed, stored, or not complete: no entry points to it and no other dispatcher
has it, so nobody can be disturbed by what its owner writes. Every step of a
dispatcher except `StoreResource` and `FreeExpired` is `Harmless` to the cache and
to the private blocks of the others (`OwnedFrame`); those two are the transfer of
a block to the cache and the step that sets `overtaken`, unless nobody has the
response. `Bounded` follows a request from the client to the cache: each place it
can be in has a name that is allowed there.

**The list of servers.** The invariant `ListInv` says that there is a sequence
`L` of `n` entries, from the head to the head, along which the `next` pointers
lead. At most one entry is off it, the one being moved (`Off`); the `prev`
pointers mirror `L` but for the one that `list_add` stores first. A walk stands
on a place of `L` or on the entry off it, whose `next` leads to a place of `L`
(`Walker`), and while its own entry was not moved that entry is not behind it.
The work is in `LinkedUnlink` and `LinkedHead`, where `L` loses or gets an entry
and each walk a new place. `AlongChain` says that the recursive function `Along`
of the model runs along `L`.

**The client.** `ClientInv` is `Typed /\ Assembling /\ NotYetChosen /\ Tails`.
`Assembling` says that `buf` and `links` are what the items read so far make of
the page, and that none of them was bad. `Tails` is about the dispatcher: the
length in a row is that of the longest path among the pages it read. `Found` is a
recursive function over the items of a page; `FoundStep` gives its value from the
one before.

**The server.** In `OriginServer` the counters are related to cardinalities of
sets of threads. `Entering` and `Exiting` say what one transition does to such a
cardinality, and each action is then arithmetic. The inductive invariant
`ServerInv` is the types, `Counted` (the two counters, and the limit, which needs
them) and `ExitMeansLeaks`, which follows at the moment of the exit: all
descriptors are in use, and those that are not lost or waiting are connections or
files of working threads, of which there are at most `MAXNUMTHREADWORKING`
(`UsedByWorkingOrLost`).
In `ServerRequest` the invariant is that a connection was not answered, or holds
one of the answers to its request (`RequestInv`); the rest is about the answers
themselves. Each of them is a status, a newline and a field or a blank line, so
its code can be read back (`CodeOf`), and the first blank line is where the
data begin, since no number contains a newline (`AnswerShape`); the line before is the
one the property asks for (`LineOf`, `PrefixGrows`). `Digits` is
recursive, and its numbers have a digit at least and only digits below `Base`
(`DigitsTypes`).

**The exchange.** `ExchangeInv` is `Serving /\ Reading /\ Parsed /\ Received`.
The heart is `Reading`: each cell of `resp_buf` is zero or the one that the
page, or an error, has in that place. That a text made of such cells is a page
when it is understood as one is `BufferIsPage`: the status fixes the first four
cells, the fifth must be the keyword `LEN`, which no error has, and an error
ends there, so that the cells behind are of the page. The rest follows the
parser through that text. What `len` reads back is the number sent (`ReadBack`:
`Value(Digits[n]) = n`), or a larger one, when a terminator is missing or digits
of `exp` follow (`LengthRead`), so that a page that is called complete is whole
(`CompleteIsWhole`). The client looks at what it has after each piece;
`ClientReads` says what a beginning of the page of any length shows to it,
`ClientKeeps` that it therefore waits, or has everything.

**Induction.** The induction theorems of the library take an operator as their
parameter, which the installed provers cannot use. `Induction` has what is
needed instead, for a set: a set of naturals with 0 that is closed under the
successor is `Nat`, by the pigeonhole principle of finite sets. From it follow a
least element, the iterates of a function (`Iteration`) and, in
`ServerRequestProofs`, a sequence in which each value depends on all before
(`CourseOfValues`). With them a recursive function is shown to have a value that
obeys its equation, once for each of `Along`, `Found`, `Digits` and `Value`.

**What the proofs changed.** `PrefetchBounded` got its hypothesis on `mistaken`
from a proof that failed: no run had shown the need for it, because the missing page
of `MCProxy` is not asked for by a client. Some definitions got an equivalent form
that can be reasoned about: `Prefetches` had overlapping cases, and selections
from sequences became recursive functions or sets.

**Only model-checked.** The liveness properties (`AdmitsAgain`, `RequestEnds`,
`EveryClientAnswered`), which are out of the prover's reach, and the runs that end
in a violation.

## 6. Not modelled

- Several origin servers in `Proxy`: what they share is the list of servers, which
  `ServerList` has.
- `parseRequest` on requests that are no plain GET: it turns INF into
  `GET INF`, which the origin server refuses, and drops a Range (a hazard).
- The memory behind an array: pages with more than `MAXNUMLINK` links or
  `MAXNUMEMBEDDEDOBJECT` objects, and the
  second copy `parseRef` makes of a page (Parser.c:124), must fit.
- The end of a walk, or of a `Get`, as liveness: the first would need that other
  dispatchers stop moving entries, the second that the proxy answers, which
  `deadlock` refutes.
- The descriptors the proxy loses in retries, and SIGINT.
- Answers larger than the buffers: the limit `MAXLENDATA` of the specification
  is not tested by the code.
- Failing mallocs outside `insertReq` and the accept loop of the server.
- A file that changes between the two times the server opens it.
- A property that a request cut by TCP is not refused: the code refuses some
  (Server.c:411-421), the model does the same.
- The use of a request after it was freed in log lines (Proxy.c:140,
  Cache.c:122 and 143).
- `Util.c`: time arithmetic and random numbers serve the printed statistics and
  delays, its loops around send and connect are taken as bytes that arrive.
- Terminal output, and signals in the client, which only print.
