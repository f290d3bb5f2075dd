------------------------------- MODULE Cache -------------------------------
(***************************************************************************)
(* The cache of Cache.c: the responses on the heap, the resources list of  *)
(* one origin server and the server list, which holds only that server.    *)
(*                                                                         *)
(* Two mutexes are involved.  insertServer moves the server's entry to the *)
(* front (list_del, then list_add) under server_mutex, whereas getResource *)
(* walks the same list under insert_mutex: a walk between the two sees no  *)
(* server and finds nothing.  "moving" is that window.                     *)
(*                                                                         *)
(* getResource reads re->response, or frees it and re, after the unlock.   *)
(* So entries have addresses too, and one may be freed and used again      *)
(* before the thread that found it reads it.  A freed response or entry    *)
(* keeps its contents until malloc hands it out again.  A response leaked  *)
(* for good goes back to the pool of addresses as new memory, so a small   *)
(* set of addresses stands for an unbounded heap.                          *)
(***************************************************************************)
EXTENDS Integers, Sequences, SequencesExt

CONSTANTS Dispatchers,  \* the threads that use the cache
          Resource,     \* the paths of the origin server
          Addr,         \* the addresses of response structures
          Cell,         \* the addresses of the entries of the resources list
          Junk,         \* bytes that are no response
          Nobody        \* no thread, no address, no client

ASSUME CacheAssumption ==
    Nobody \notin Dispatchers \cup Addr \cup Cell /\ Junk \notin Resource

VARIABLES mem,        \* the response structure at each address
          entry,      \* entry[c]: re->response of the entry at c
          resources,  \* the server's list, as the addresses of its entries
          re,         \* re[d]: the entry d's getResource stopped at, till d is done with it
          moving      \* the thread between list_del and list_add of the server's entry

cacheVars == <<mem, entry, resources, re, moving>>

\* complete: 1 is TRUE, 0 is FALSE, 2 any other value an unwritten int can hold.
\* body: the page whose bytes "block" holds; dir: the path it is filed under.
Response == [live : BOOLEAN, complete : {0, 1, 2},
             body : Resource \cup {Junk}, dir : Resource \cup {Junk}]

NewMemory == [live |-> FALSE, complete |-> 0, body |-> Junk, dir |-> Junk]

CacheTypeOK == /\ mem \in [Addr -> Response]
               /\ entry \in [Cell -> Addr \cup {Nobody}]
               /\ resources \in Seq(Cell)
               /\ re \in [Dispatchers -> Cell \cup {Nobody}]
               /\ moving \in Dispatchers \cup {Nobody}

CacheInit == /\ mem = [a \in Addr |-> NewMemory]
             /\ entry = [c \in Cell |-> Nobody]
             /\ resources = <<>>
             /\ re = [d \in Dispatchers |-> Nobody]
             /\ moving = Nobody

-----------------------------------------------------------------------------
(* insertServer *)

MoveServer(d) == moving = Nobody /\ moving' = d /\ UNCHANGED <<mem, entry, resources, re>>

RestoreServer(d) == moving = d /\ moving' = Nobody /\ UNCHANGED <<mem, entry, resources, re>>

-----------------------------------------------------------------------------
(* getResource: the walk under insert_mutex, by a thread looking for k *)

Entries(k) == {i \in DOMAIN resources : mem[entry[resources[i]]].dir = k}
FirstEntry(k) == CHOOSE i \in Entries(k) : \A j \in Entries(k) : i <= j

Found(k) == moving = Nobody /\ Entries(k) # {}

\* Up to the unlock: nothing keeps the entry or the block alive from here on.
Hit(d, k) == /\ Found(k)
             /\ re' = [re EXCEPT ![d] = resources[FirstEntry(k)]]
             /\ UNCHANGED <<mem, entry, resources, moving>>

\* An expired entry goes, and NULL is returned even if a fresh one follows.
Expired(d, k) == /\ Found(k)
                 /\ re' = [re EXCEPT ![d] = resources[FirstEntry(k)]]
                 /\ resources' = RemoveAt(resources, FirstEntry(k))
                 /\ UNCHANGED <<mem, entry, moving>>

Miss(k) == ~Found(k) /\ UNCHANGED cacheVars

\* return re->response, after the unlock.
ReadEntry(d) == /\ re' = [re EXCEPT ![d] = Nobody]
                /\ UNCHANGED <<mem, entry, resources, moving>>

\* free(re->response) and free(re), after the unlock.  What a freed entry holds matters as
\* long as another thread is about to read it.
FreeEntry(d) ==
    /\ mem' = [mem EXCEPT ![entry[re[d]]].live = FALSE]
    /\ re' = [re EXCEPT ![d] = Nobody]
    /\ entry' = IF \E e \in Dispatchers \ {d} : re[e] = re[d] THEN entry
                ELSE [entry EXCEPT ![re[d]] = Nobody]
    /\ UNCHANGED <<resources, moving>>

\* The end of insertResource: the entry is new whether or not one exists for this path.
Store(c, a) == /\ entry' = [entry EXCEPT ![c] = a]
               /\ resources' = Append(resources, c)
               /\ UNCHANGED <<mem, re, moving>>

-----------------------------------------------------------------------------
(* malloc, the writes of parseResponse and free of a response structure *)

Write(a, r) == mem' = [mem EXCEPT ![a] = r] /\ UNCHANGED <<entry, resources, re, moving>>

\* malloc leaves the contents as they were, or as something else has used the memory.
Malloc(a) ==
    /\ ~mem[a].live
    /\ \E c \in {mem[a].complete, 0, 2}, b \in {mem[a].body, Junk} :
          Write(a, [mem[a] EXCEPT !.live = TRUE, !.complete = c, !.body = b])

\* Does the data block have the length "Len" announces?
WriteComplete(a, c) == Write(a, [mem[a] EXCEPT !.complete = c])

\* strcpy(ret->block, resp_buf)
WriteBlock(a, k) == Write(a, [mem[a] EXCEPT !.body = k])

\* strcpy(resp->dir, req->dir)
WriteDir(a, k) == Write(a, [mem[a] EXCEPT !.dir = k])

FreeResponse(a) == Write(a, [mem[a] EXCEPT !.live = FALSE])

\* The last pointer to the response is gone and nobody freed it.
Leak(a) == Write(a, NewMemory)
=============================================================================
