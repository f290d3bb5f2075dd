------------------------------ MODULE ServerList ------------------------------
(***************************************************************************)
(* The list of servers of Cache.c, pointer by pointer: insertServer moves  *)
(* an entry to the front with list_del and list_add of list.h while it     *)
(* holds server_mutex; getResource walks the same list while it holds      *)
(* insert_mutex.  Nothing keeps the two apart.                             *)
(*                                                                         *)
(* One step per store that a walk can see, in the order of the source: the *)
(* program is built without optimisation.  What only the holder of         *)
(* server_mutex sees, the prev pointers among it, belongs to the store     *)
(* beside it.  The resources of a server are only touched under            *)
(* insert_mutex, so a number stands for the list; there is one path per    *)
(* server.                                                                 *)
(***************************************************************************)
EXTENDS Integers, FiniteSets, FiniteSetsExt

CONSTANTS Threads,    \* the dispatchers
          Servers,    \* names of origin servers, "address:port"
          Entry,      \* memory for server_elem structures; none is ever freed
          Head,       \* server_list
          NoEntry, NoServer, Nobody,
          MaxStored   \* bound: resources stored for a server

ASSUME ListAssumption ==
    /\ IsFiniteSet(Entry) /\ IsFiniteSet(Servers) /\ Cardinality(Entry) >= Cardinality(Servers)
    /\ Head \notin Entry /\ NoEntry \notin Entry \cup {Head}
    /\ NoServer \notin Servers /\ Nobody \notin Threads
    /\ MaxStored \in Nat \ {0}

VARIABLES nxt, prv,    \* the fields next and prev of the head and of each entry
          name,        \* of each entry; NoServer while it is not allocated
          stored,      \* of each entry: resources in its list
          server_mutex, insert_mutex,
          pc, caller,  \* of each thread, and who called insertServer
          target,      \* of each thread: the server of its request, or of a reference
          elem,        \* of each thread: s in insertServer
          at,          \* of each thread: se in getResource
          server,      \* of each thread: serv in requestDispatcher, once it has an answer
          moved        \* history: threads whose target was off the list during their walk

listVars == <<nxt, prv, name>>
mutexVars == <<server_mutex, insert_mutex>>
localVars == <<caller, target, server>>
vars == <<listVars, stored, mutexVars, pc, localVars, elem, at, moved>>

Init ==
    /\ nxt = [e \in Entry \cup {Head} |-> IF e = Head THEN Head ELSE NoEntry]
    /\ prv = nxt
    /\ name = [e \in Entry |-> NoServer]
    /\ stored = [e \in Entry |-> 0]
    /\ server_mutex = Nobody /\ insert_mutex = Nobody
    /\ pc = [t \in Threads |-> "pop"]
    /\ caller = [t \in Threads |-> "getResource"]
    /\ target = [t \in Threads |-> NoServer]
    /\ elem = [t \in Threads |-> NoEntry] /\ at = elem /\ server = elem
    /\ moved = {}

\* Where k steps along the next pointers lead from e.
Along(e) == LET p[k \in Nat] == IF k = 0 THEN e
                                ELSE IF p[k - 1] = NoEntry THEN NoEntry ELSE nxt[p[k - 1]]
            IN  p

\* list_for_each_entry: the entries from the first one to the head, in order.
Places == {k \in 1..Cardinality(Entry) : \A j \in 1..k : Along(Head)[j] \in Entry}
Listed == {Along(Head)[k] : k \in Places}

\* Back to popReq.
Idle(t) == /\ caller' = [caller EXCEPT ![t] = "getResource"]
           /\ target' = [target EXCEPT ![t] = NoServer]
           /\ server' = [server EXCEPT ![t] = NoEntry]

Goto(t, from, to) == pc[t] = from /\ pc' = [pc EXCEPT ![t] = to]

-----------------------------------------------------------------------------
(* insertServer *)

\* Mutant: without server_mutex.
FindServerUnlocked(t) ==
    /\ Goto(t, "lock_server", "unlink")
    /\ server_mutex' = t
    /\ \E k \in Places :
          /\ name[Along(Head)[k]] = target[t]
          /\ elem' = [elem EXCEPT ![t] = Along(Head)[k]]
    /\ UNCHANGED <<listVars, stored, insert_mutex, localVars, at, moved>>

\* Nobody else changes the list while the mutex is held, so the search is one step.
FindServer(t) ==
    /\ Goto(t, "lock_server", "unlink")
    /\ server_mutex = Nobody /\ server_mutex' = t
    /\ \E k \in Places :
          /\ name[Along(Head)[k]] = target[t]
          /\ \A j \in Places : name[Along(Head)[j]] = target[t] => k <= j
          /\ elem' = [elem EXCEPT ![t] = Along(Head)[k]]
    /\ UNCHANGED <<listVars, stored, insert_mutex, localVars, at, moved>>

NewServer(t) ==
    /\ Goto(t, "lock_server", "link_entry")
    /\ server_mutex = Nobody /\ server_mutex' = t
    /\ \A e \in Listed : name[e] # target[t]
    /\ LET e == CHOOSE e \in Entry : name[e] = NoServer IN
          /\ name' = [name EXCEPT ![e] = target[t]]
          /\ elem' = [elem EXCEPT ![t] = e]
    /\ UNCHANGED <<nxt, prv, stored, insert_mutex, localVars, at, moved>>

\* list_del: next->prev = prev; prev->next = next.  The entry keeps its own pointers.
Unlink(t) ==
    /\ Goto(t, "unlink", "link_entry")
    /\ prv' = [prv EXCEPT ![nxt[elem[t]]] = prv[elem[t]]]
    /\ nxt' = [nxt EXCEPT ![prv[elem[t]]] = nxt[elem[t]]]
    /\ moved' = moved \cup {u \in Threads : pc[u] = "walk" /\ target[u] = name[elem[t]]}
    /\ UNCHANGED <<name, stored, mutexVars, localVars, elem, at>>

\* Mutant: INIT_LIST_HEAD(n) instead.
LinkEntrySelf(t) ==
    /\ Goto(t, "link_entry", "link_head")
    /\ prv' = [prv EXCEPT ![nxt[Head]] = elem[t]]
    /\ nxt' = [nxt EXCEPT ![elem[t]] = elem[t]]
    /\ UNCHANGED <<name, stored, mutexVars, localVars, elem, at, moved>>

\* list_add: next->prev = n; n->next = next; ...
LinkEntry(t) ==
    /\ Goto(t, "link_entry", "link_head")
    /\ prv' = [prv EXCEPT ![nxt[Head]] = elem[t]]
    /\ nxt' = [nxt EXCEPT ![elem[t]] = nxt[Head]]
    /\ UNCHANGED <<name, stored, mutexVars, localVars, elem, at, moved>>

\* ... n->prev = prev; prev->next = n.  Then the mutex is released and the entry returned,
\* of which only requestDispatcher makes use.
LinkHead(t) ==
    /\ pc[t] = "link_head"
    /\ prv' = [prv EXCEPT ![elem[t]] = Head]
    /\ nxt' = [nxt EXCEPT ![Head] = elem[t]]
    /\ server_mutex' = Nobody
    /\ IF caller[t] = "getResource"
       THEN Goto(t, "link_head", "lock_insert") /\ UNCHANGED server
       ELSE Goto(t, "link_head", "parse") /\ server' = [server EXCEPT ![t] = elem[t]]
    /\ elem' = [elem EXCEPT ![t] = NoEntry]
    /\ UNCHANGED <<name, stored, insert_mutex, caller, target, at, moved>>

-----------------------------------------------------------------------------
(* getResource, for the thread's own request or, once it has an answer, for a reference *)

\* Locking, and the first read of the walk.
LockInsert(t) ==
    /\ Goto(t, "lock_insert", "walk")
    /\ insert_mutex = Nobody /\ insert_mutex' = t
    /\ at' = [at EXCEPT ![t] = nxt[Head]]
    /\ moved' = IF \E e \in Listed : name[e] = target[t] THEN {} ELSE {t}
    /\ UNCHANGED <<listVars, stored, server_mutex, localVars, elem>>

\* Mutant: the first resource is skipped.
HereBehindFirst(t) == at[t] \in Entry /\ name[at[t]] = target[t] /\ stored[at[t]] > 1

\* The resource asked for, fresh or too old.
Here(t) == at[t] \in Entry /\ name[at[t]] = target[t] /\ stored[at[t]] > 0

\* Another server, or the resource is not there: the walk goes on.
WalkOn(t) ==
    /\ pc[t] = "walk" /\ at[t] # Head /\ ~Here(t)
    /\ at' = [at EXCEPT ![t] = nxt[at[t]]]
    /\ UNCHANGED <<listVars, stored, mutexVars, pc, localVars, elem, moved>>

EndWalk(t) == insert_mutex' = Nobody /\ at' = [at EXCEPT ![t] = NoEntry] /\ moved' = {}

\* The dispatcher answers with the cached response, or the reference needs no request.
Hit(t) ==
    /\ Here(t) /\ EndWalk(t)
    /\ IF server[t] = NoEntry
       THEN Goto(t, "walk", "pop") /\ Idle(t)
       ELSE Goto(t, "walk", "refs") /\ UNCHANGED <<caller, target, server>>
    /\ UNCHANGED <<listVars, stored, server_mutex, elem>>

\* NULL: the dispatcher asks the origin server, or requests the reference.
NotFound(t) ==
    /\ EndWalk(t)
    /\ IF server[t] = NoEntry
       THEN Goto(t, "walk", "lock_server") /\ caller' = [caller EXCEPT ![t] = "requestDispatcher"]
       ELSE Goto(t, "walk", "refs") /\ UNCHANGED caller
    /\ UNCHANGED <<listVars, server_mutex, target, server, elem>>

\* Mutant: whether or not the server has the resource.
ExpiredUnchecked(t) ==
    /\ at[t] \in Entry /\ name[at[t]] = target[t] /\ NotFound(t)
    /\ stored' = [stored EXCEPT ![at[t]] = @ - 1]

Expired(t) ==
    /\ Here(t) /\ NotFound(t)
    /\ stored' = [stored EXCEPT ![at[t]] = @ - 1]

Miss(t) == at[t] = Head /\ NotFound(t) /\ UNCHANGED stored

-----------------------------------------------------------------------------
(* requestDispatcher *)

Pop(t) ==
    /\ Goto(t, "pop", "lock_server")
    /\ \E n \in Servers : target' = [target EXCEPT ![t] = n]
    /\ UNCHANGED <<listVars, stored, mutexVars, caller, server, elem, at, moved>>

\* A retcode of -1: ask the server, and call insertServer, again.
Retry(t) ==
    /\ Goto(t, "parse", "lock_server")
    /\ server' = [server EXCEPT ![t] = NoEntry]
    /\ UNCHANGED <<listVars, stored, mutexVars, caller, target, elem, at, moved>>

\* An incomplete answer is not stored.
Incomplete(t) ==
    /\ Goto(t, "parse", "pop") /\ Idle(t)
    /\ UNCHANGED <<listVars, stored, mutexVars, elem, at, moved>>

Complete(t) ==
    /\ Goto(t, "parse", "refs")
    /\ UNCHANGED <<listVars, stored, mutexVars, caller, target, server, elem, at, moved>>

\* insertResource: any number of references, each with a getResource of its own.
LookupRef(t) ==
    /\ Goto(t, "refs", "lock_server")
    /\ \E n \in Servers : target' = [target EXCEPT ![t] = n]
    /\ caller' = [caller EXCEPT ![t] = "getResource"]
    /\ UNCHANGED <<listVars, stored, mutexVars, server, elem, at, moved>>

\* Under insert_mutex, as long as the bound allows.
Store(t) ==
    /\ Goto(t, "refs", "pop") /\ Idle(t)
    /\ insert_mutex = Nobody
    /\ stored[server[t]] < MaxStored
    /\ stored' = [stored EXCEPT ![server[t]] = @ + 1]
    /\ UNCHANGED <<listVars, mutexVars, elem, at, moved>>

InsertServer(t) ==
    FindServer(t) \/ NewServer(t) \/ Unlink(t) \/ LinkEntry(t) \/ LinkHead(t)

GetResource(t) == LockInsert(t) \/ WalkOn(t) \/ Hit(t) \/ Expired(t) \/ Miss(t)

Dispatch(t) == Pop(t) \/ Retry(t) \/ Incomplete(t) \/ Complete(t) \/ LookupRef(t) \/ Store(t)

Next == \E t \in Threads : InsertServer(t) \/ GetResource(t) \/ Dispatch(t)

Spec == Init /\ [][Next]_vars

-----------------------------------------------------------------------------
(* Properties *)

PC == {"pop", "lock_server", "unlink", "link_entry", "link_head", "lock_insert", "walk",
       "parse", "refs"}

TypeOK ==
    /\ nxt \in [Entry \cup {Head} -> Entry \cup {Head, NoEntry}]
    /\ prv \in [Entry \cup {Head} -> Entry \cup {Head, NoEntry}]
    /\ name \in [Entry -> Servers \cup {NoServer}]
    /\ stored \in [Entry -> 0..MaxStored]
    /\ server_mutex \in Threads \cup {Nobody} /\ insert_mutex \in Threads \cup {Nobody}
    /\ pc \in [Threads -> PC] /\ caller \in [Threads -> {"getResource", "requestDispatcher"}]
    /\ target \in [Threads -> Servers \cup {NoServer}]
    /\ elem \in [Threads -> Entry \cup {NoEntry}] /\ server \in [Threads -> Entry \cup {NoEntry}]
    /\ at \in [Threads -> Entry \cup {Head, NoEntry}]
    /\ moved \subseteq Threads

(* Between two calls of insertServer the list is whole: every entry that was  *)
(* allocated is in it once, no server has two entries, and prev mirrors next. *)
ListSound ==
    server_mutex = Nobody =>
        /\ \A e \in Entry : e \in Listed <=> name[e] # NoServer
        /\ \A e, f \in Listed : name[e] = name[f] => e = f
        /\ \A e \in Listed \cup {Head} : nxt[e] \in Listed \cup {Head} /\ prv[nxt[e]] = e

(* Wherever a walk stands, even on an entry that was unlinked under it or is  *)
(* being linked again, the next pointers lead it to the end of the list,      *)
(* through initialised entries only: a walk ends unless entries are moved     *)
(* under it again and again.                                                  *)
WayOut ==
    \A t \in Threads : pc[t] = "walk" =>
        \E k \in 0..Cardinality(Entry) : Along(at[t])[k] = Head

(* Cache.h:55: getResource returns NULL only for a resource that is not there *)
(* or too old.  It does more often, but only when the entry of the very       *)
(* server it looks for was moved by another thread during the walk; moving    *)
(* any other entry makes it visit entries twice, and never miss one.          *)
MissMeansMoved ==
    \A t \in Threads : pc[t] = "walk" /\ at[t] = Head =>
        t \in moved \/ \A e \in Entry : name[e] = target[t] => stored[e] = 0
=============================================================================
