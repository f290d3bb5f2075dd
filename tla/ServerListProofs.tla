-------------------------- MODULE ServerListProofs --------------------------
(***************************************************************************)
(* Proofs about the list of servers, for any number of dispatchers,        *)
(* servers and entries.                                                    *)
(*                                                                         *)
(* ListSound is not inductive: it says nothing while an entry is off the   *)
(* list, and nothing of the walks. The invariant names the list as a       *)
(* sequence L of n entries, which each step of list_del and list_add turns *)
(* into another one: Unlink takes a place out of it, LinkHead puts one in  *)
(* front. Every walk stands at a place of L, or on the entry that is off   *)
(* the list and leads to a place of L; and unless the entry it looks for   *)
(* was moved, that place is not behind the one of that entry.              *)
(***************************************************************************)
EXTENDS ServerList, Induction

Node == Entry \cup {Head}

\* The pointers of a well-typed list have a value at every step along them.
LEMMA AlongStep ==
  ASSUME nxt \in [Node -> Node \cup {NoEntry}], NEW e \in Node \cup {NoEntry}
  PROVE  /\ Along(e)[0] = e
         /\ \A k \in Nat : Along(e)[k + 1] = IF Along(e)[k] = NoEntry THEN NoEntry
                                             ELSE nxt[Along(e)[k]]
         /\ \A k \in Nat : Along(e)[k] \in Node \cup {NoEntry}
<1> DEFINE S == Node \cup {NoEntry}
           f == [x \in S |-> IF x = NoEntry THEN NoEntry ELSE nxt[x]]
           Step(p) == [k \in Nat |-> IF k = 0 THEN e
                                     ELSE IF p[k - 1] = NoEntry THEN NoEntry ELSE nxt[p[k - 1]]]
<1>1. e \in S /\ f \in [S -> S]
  BY ListAssumption DEF Node
<1>2. PICK q \in [Nat -> S] : q[0] = e /\ \A n \in Nat : q[n + 1] = f[q[n]]
  <2> HIDE DEF S, f
  <2>1. e \in S /\ f \in [S -> S]
    BY <1>1
  <2> HIDE <1>1
  <2>2. \E q : IsIteration(q, S, e, f)
    BY <2>1, Iteration
  <2> QED BY <2>2 DEF IsIteration
<1>3. q = Step(q)
  <2>1. \A k \in Nat : q[k] = Step(q)[k]
    <3> SUFFICES ASSUME NEW k \in Nat PROVE q[k] = Step(q)[k]
      OBVIOUS
    <3>1. CASE k = 0
      BY <1>2, <3>1
    <3>2. CASE k # 0
      <4>1. k - 1 \in Nat /\ (k - 1) + 1 = k
        BY <3>2
      <4>2. q[k] = f[q[k - 1]] /\ q[k - 1] \in S
        BY <1>2, <4>1
      <4> QED BY <3>2, <4>2
    <3> QED BY <3>1, <3>2
  <2> QED BY <1>2, <2>1
<1>4. Along(e) = CHOOSE p : p = Step(p)
  BY DEF Along
<1>5. Along(e) = Step(Along(e))
  <2> HIDE DEF Step
  <2> QED BY <1>3, <1>4
<1>6. Along(e)[0] = e
  BY <1>5
<1>7. ASSUME NEW k \in Nat
      PROVE  Along(e)[k + 1] = IF Along(e)[k] = NoEntry THEN NoEntry ELSE nxt[Along(e)[k]]
  <2>1. k + 1 \in Nat /\ k + 1 # 0 /\ (k + 1) - 1 = k
    OBVIOUS
  <2> DEFINE r == Along(e)
  <2>2. r[k + 1] = Step(r)[k + 1]
    BY <1>5
  <2> HIDE DEF r
  <2>3. Step(r)[k + 1] = IF r[(k + 1) - 1] = NoEntry THEN NoEntry ELSE nxt[r[(k + 1) - 1]]
    BY <2>1
  <2> QED BY <2>1, <2>2, <2>3 DEF r
<1>8. \A k \in Nat : Along(e)[k] \in S
  <2> DEFINE P == {k \in Nat : Along(e)[k] \in S}
  <2>1. 0 \in P
    BY <1>1, <1>6
  <2>2. \A k \in P : k + 1 \in P
    BY <1>1, <1>7
  <2>3. P = Nat
    <3>1. P \in SUBSET Nat
      OBVIOUS
    <3> HIDE DEF P
    <3> QED BY <2>1, <2>2, <3>1, SetInduction
  <2> QED BY <2>3
<1> QED BY <1>6, <1>7, <1>8
-----------------------------------------------------------------------------
(* The list as a sequence of entries *)

\* The next pointers lead from the head through L[1], ..., L[n] back to the head.
Chain(L, n) ==
    /\ L \in [0..(n + 1) -> Node] /\ L[0] = Head /\ L[n + 1] = Head
    /\ \A i \in 1..n : L[i] \in Entry
    /\ \A i, j \in 1..n : L[i] = L[j] => i = j
    /\ \A i \in 0..n : nxt[L[i]] = L[i + 1]

InChain(L, n) == {L[i] : i \in 1..n}

\* A walk that has come to the chain follows it.
LEMMA AlongChain ==
  ASSUME nxt \in [Node -> Node \cup {NoEntry}], NEW n \in Nat, NEW L, Chain(L, n),
         NEW e \in Node \cup {NoEntry}, NEW m \in Nat, NEW i \in 0..(n + 1), Along(e)[m] = L[i]
  PROVE  \A k \in Nat : i + k <= n + 1 => Along(e)[m + k] = L[i + k]
<1> DEFINE P == {k \in Nat : i + k <= n + 1 => Along(e)[m + k] = L[i + k]}
<1>1. 0 \in P
  OBVIOUS
<1>2. ASSUME NEW k \in P PROVE k + 1 \in P
  <2> SUFFICES ASSUME i + (k + 1) <= n + 1 PROVE Along(e)[m + (k + 1)] = L[i + (k + 1)]
    OBVIOUS
  <2>1. Along(e)[m + k] = L[i + k] /\ i + k \in 0..n /\ m + k \in Nat
    OBVIOUS
  <2>2. L[i + k] \in Node /\ nxt[L[i + k]] = L[(i + k) + 1]
    BY <2>1 DEF Chain
  <2>3. L[i + k] # NoEntry
    BY <2>2, ListAssumption DEF Node
  <2>4. Along(e)[(m + k) + 1] = nxt[Along(e)[m + k]]
    BY <2>1, <2>3, AlongStep
  <2>5. (m + k) + 1 = m + (k + 1) /\ (i + k) + 1 = i + (k + 1)
    OBVIOUS
  <2> QED BY <2>1, <2>2, <2>4, <2>5
<1>3. P = Nat
  <2>1. P \in SUBSET Nat
    OBVIOUS
  <2> HIDE DEF P
  <2> QED BY <1>1, <1>2, <2>1, SetInduction
<1> QED BY <1>3

\* list_for_each_entry visits the entries of the chain, in order.
LEMMA ChainListed ==
  ASSUME nxt \in [Node -> Node \cup {NoEntry}], NEW n \in Nat, NEW L, Chain(L, n)
  PROVE  /\ \A k \in 0..(n + 1) : Along(Head)[k] = L[k]
         /\ n <= Cardinality(Entry) /\ Cardinality(Entry) \in Nat
         /\ Places = 1..n /\ Listed = InChain(L, n)
<1>1. Along(Head)[0] = Head /\ L[0] = Head
  BY AlongStep DEF Chain, Node
<1>2. ASSUME NEW k \in 0..(n + 1) PROVE Along(Head)[k] = L[k]
  <2>1. \A j \in Nat : 0 + j <= n + 1 => Along(Head)[0 + j] = L[0 + j]
    BY <1>1, AlongChain DEF Node
  <2> QED BY <2>1
<1>3. n <= Cardinality(Entry) /\ Cardinality(Entry) \in Nat
  <2> DEFINE g == [i \in 1..n |-> L[i]]
  <2>1. g \in [1..n -> Entry] /\ \A i, j \in 1..n : g[i] = g[j] => i = j
    BY DEF Chain
  <2> HIDE DEF g
  <2>2. IsFiniteSet(1..n) /\ Cardinality(1..n) = n
    <3>1. Cardinality(1..n) = IF 1 > n THEN 0 ELSE n - 1 + 1
      BY FS_Interval, 1 \in Int, n \in Int
    <3> QED BY <3>1, FS_Interval
  <2>3. IsFiniteSet(Entry) /\ Cardinality(Entry) \in Nat
    BY ListAssumption, FS_CardinalityType
  <2>4. CASE Cardinality(Entry) < n
    BY <2>1, <2>2, <2>3, <2>4, FS_PigeonHole
  <2> QED BY <2>3, <2>4
<1>4. ASSUME NEW k \in 1..Cardinality(Entry)
      PROVE  (\A j \in 1..k : Along(Head)[j] \in Entry) <=> k <= n
  <2>1. CASE k <= n
    BY <1>2, <1>3, <2>1 DEF Chain
  <2>2. CASE k > n
    <3>1. n + 1 \in 1..k /\ Along(Head)[n + 1] = Head
      BY <1>2, <1>3, <2>2 DEF Chain
    <3> QED BY <2>2, <3>1, ListAssumption
  <2> QED BY <1>3, <2>1, <2>2
<1>5. Places = 1..n
  BY <1>3, <1>4 DEF Places
<1>6. Listed = InChain(L, n)
  BY <1>2, <1>5 DEF Listed, InChain
<1> QED BY <1>2, <1>3, <1>5, <1>6
-----------------------------------------------------------------------------
(* The inductive invariant *)

Holding == {"unlink", "link_entry", "link_head"}

\* What a thread's locals hold at each of its steps, and whose the mutexes are.
Locals ==
    /\ \A t \in Threads :
         /\ server_mutex = t <=> pc[t] \in Holding
         /\ insert_mutex = t <=> pc[t] = "walk"
         /\ pc[t] # "pop" => target[t] \in Servers
         /\ pc[t] \in Holding => elem[t] \in Entry /\ name[elem[t]] = target[t]
         /\ pc[t] \in {"parse", "refs"} => server[t] \in Entry
         /\ pc[t] = "walk" => at[t] # NoEntry
    /\ \A e, f \in Entry : name[e] # NoServer /\ name[e] = name[f] => e = f

Typed == TypeOK /\ Locals

Linking(t) == pc[t] \in {"link_entry", "link_head"}

\* The entry that is off the list, if there is one.
Off == {elem[t] : t \in {u \in Threads : Linking(u)}}

\* Every entry allocated is in the chain or off it, and the prev pointers mirror next but for
\* the one that list_add stores first.
Whole(L, n) ==
    /\ Chain(L, n)
    /\ InChain(L, n) = {e \in Entry : name[e] # NoServer} \ Off
    /\ \A i \in 1..n : prv[L[i + 1]] = L[i]
    /\ (\A t \in Threads : pc[t] # "link_head") => prv[L[1]] = Head
    /\ \A t \in Threads : pc[t] = "link_head" => prv[L[1]] = elem[t] /\ nxt[elem[t]] = L[1]

\* a is the i-th place of the chain, or an entry off it that leads there.
Stands(L, i, a) == a = L[i] \/ (a \in Off /\ nxt[a] = L[i])

\* A walk is somewhere along the chain; if the entry it looks for was not moved, it is in the
\* chain and, if the walk is to stop there, the walk has not passed it.
Walker(L, n, t) ==
    \E i \in 1..(n + 1) :
        /\ Stands(L, i, at[t])
        /\ t \notin moved =>
             \E j \in 1..n : name[L[j]] = target[t] /\ (stored[L[j]] > 0 => i <= j)

Linked(L, n) == Whole(L, n) /\ \A t \in Threads : pc[t] = "walk" => Walker(L, n, t)

ListInv == \E n \in Nat : \E L \in [0..(n + 1) -> Node] : Linked(L, n)

IInv == Typed /\ ListInv

\* At the start the list is empty and no thread is in insertServer or in a walk.
LEMMA InvInit == Init => IInv
<1> SUFFICES ASSUME Init PROVE IInv
  OBVIOUS
<1>1. TypeOK /\ Locals
  BY ListAssumption DEF Init, TypeOK, Locals, PC, Holding
<1>2. ListInv
  <2> DEFINE L == [i \in 0..(0 + 1) |-> Head]
  <2>1. Chain(L, 0)
    BY DEF Init, Chain, Node
  <2>2. InChain(L, 0) = {} /\ Off = {}
    BY DEF Init, InChain, Off, Linking
  <2>3. Linked(L, 0)
    BY <2>1, <2>2 DEF Init, Linked, Whole
  <2>4. L \in [0..(0 + 1) -> Node]
    BY DEF Node
  <2> QED BY <2>3, <2>4 DEF ListInv
<1> QED BY <1>1, <1>2 DEF IInv, Typed

\* While the mutex is free the list holds every entry allocated.
LEMMA ListedAll ==
  ASSUME Typed, NEW n \in Nat, NEW L, Whole(L, n)
  PROVE  /\ Listed = InChain(L, n) /\ Places = 1..n /\ n <= Cardinality(Entry)
         /\ \A k \in 0..(n + 1) : Along(Head)[k] = L[k]
         /\ server_mutex = Nobody => Off = {} /\ Listed = {e \in Entry : name[e] # NoServer}
<1>1. /\ Listed = InChain(L, n) /\ Places = 1..n /\ n <= Cardinality(Entry)
      /\ \A k \in 0..(n + 1) : Along(Head)[k] = L[k]
  BY ChainListed DEF Whole, Typed, TypeOK, Node
<1>2. server_mutex = Nobody => Off = {}
  BY ListAssumption DEF Typed, Locals, Holding, Off, Linking
<1> QED BY <1>1, <1>2 DEF Whole

\* There are as many entries as servers, so that a new server finds one.
LEMMA FreeEntry ==
  ASSUME Typed, NEW s \in Servers, \A e \in Entry : name[e] # s
  PROVE  \E e \in Entry : name[e] = NoServer
<1> SUFFICES ASSUME \A e \in Entry : name[e] # NoServer PROVE FALSE
  OBVIOUS
<1>1. name \in [Entry -> Servers \ {s}]
  BY DEF Typed, TypeOK
<1>2. IsFiniteSet(Servers \ {s}) /\ Cardinality(Servers \ {s}) = Cardinality(Servers) - 1
  BY ListAssumption, FS_RemoveElement
<1>3. Cardinality(Servers \ {s}) < Cardinality(Entry)
  BY <1>2, ListAssumption, FS_CardinalityType
<1>4. PICK e, f \in Entry : e # f /\ name[e] = name[f]
  BY <1>1, <1>2, <1>3, ListAssumption, FS_PigeonHole
<1> QED BY <1>4 DEF Typed, Locals

\* insertServer allocates an entry for a server that has none.
LEMMA NewEntry ==
  ASSUME IInv, NEW t \in Threads, NewServer(t)
  PROVE  \E e \in Entry : /\ name[e] = NoServer /\ name' = [name EXCEPT ![e] = target[t]]
                          /\ elem' = [elem EXCEPT ![t] = e]
                          /\ \A f \in Entry : name[f] # target[t]
<1>1. PICK n \in Nat : \E L \in [0..(n + 1) -> Node] : Linked(L, n)
  BY DEF IInv, ListInv
<1>2. PICK L \in [0..(n + 1) -> Node] : Linked(L, n)
  BY <1>1
<1>3. Listed = {e \in Entry : name[e] # NoServer} /\ target[t] \in Servers
  BY <1>2, ListedAll DEF IInv, Linked, NewServer, Goto, Typed, Locals
<1>4. \A f \in Entry : name[f] # target[t]
  BY <1>3, ListAssumption DEF NewServer
<1>5. \E e \in Entry : name[e] = NoServer
  BY <1>3, <1>4, FreeEntry DEF IInv
<1> DEFINE free == CHOOSE e \in Entry : name[e] = NoServer
<1>6. free \in Entry /\ name[free] = NoServer
  BY <1>5
<1> QED BY <1>4, <1>6 DEF NewServer

\* insertServer finds the entry of a server that has one.
LEMMA FoundEntry ==
  ASSUME IInv, NEW t \in Threads, FindServer(t)
  PROVE  \E e \in Entry : name[e] = target[t] /\ elem' = [elem EXCEPT ![t] = e]
<1>1. PICK n \in Nat : \E L \in [0..(n + 1) -> Node] : Linked(L, n)
  BY DEF IInv, ListInv
<1>2. PICK L \in [0..(n + 1) -> Node] : Linked(L, n)
  BY <1>1
<1>3. Places = 1..n /\ \A k \in 1..n : Along(Head)[k] = L[k]
  BY <1>2, ListedAll DEF Linked, IInv
<1>4. \A k \in 1..n : L[k] \in Entry
  BY <1>2 DEF Linked, Whole, Chain
<1> QED BY <1>3, <1>4 DEF FindServer

\* Where a walk goes next.
LEMMA NextPlace ==
  ASSUME Typed, NEW n \in Nat, NEW L \in [0..(n + 1) -> Node], Whole(L, n)
  PROVE  /\ nxt[Head] = L[1]
         /\ \A i \in 1..(n + 1) : L[i] \in Node /\ L[i] # NoEntry
         /\ \A i \in 1..(n + 1), a \in Node \ {Head} : Stands(L, i, a) =>
              \/ i <= n /\ a = L[i] /\ nxt[a] = L[i + 1]
              \/ a \in Off /\ nxt[a] = L[i]
<1>1. L[0] = Head /\ L[n + 1] = Head /\ \A i \in 0..n : nxt[L[i]] = L[i + 1]
  BY DEF Whole, Chain
<1>2. \A i \in 1..(n + 1) : L[i] \in Node
  OBVIOUS
<1>3. NoEntry \notin Node
  BY ListAssumption DEF Node
<1> QED BY <1>1, <1>2, <1>3 DEF Stands

\* A walk reads no pointer that was never written.
LEMMA WalkGoesOn ==
  ASSUME IInv, NEW t \in Threads
  PROVE  /\ nxt[Head] # NoEntry
         /\ pc[t] = "walk" /\ at[t] # Head => nxt[at[t]] # NoEntry
<1>1. PICK n \in Nat : \E L \in [0..(n + 1) -> Node] : Linked(L, n)
  BY DEF IInv, ListInv
<1>2. PICK L \in [0..(n + 1) -> Node] : Linked(L, n)
  BY <1>1
<1>3. pc[t] = "walk" => at[t] \in Node
  BY DEF IInv, Typed, TypeOK, Locals, Node
<1>4. ASSUME pc[t] = "walk", at[t] # Head PROVE nxt[at[t]] # NoEntry
  <2>1. PICK i \in 1..(n + 1) : Stands(L, i, at[t])
    BY <1>2, <1>4 DEF Linked, Walker
  <2>2. i <= n => i + 1 \in 1..(n + 1)
    OBVIOUS
  <2>3. at[t] \in Node \ {Head}
    BY <1>3, <1>4
  <2>4. /\ \A k \in 1..(n + 1) : L[k] # NoEntry
        /\ nxt[at[t]] = L[i] \/ (i <= n /\ nxt[at[t]] = L[i + 1])
    BY <1>2, <2>1, <2>3, NextPlace DEF Linked, IInv
  <2> QED BY <2>2, <2>4
<1> QED BY <1>2, <1>4, NextPlace DEF Linked, IInv

\* Every step respects the types, the locals and the mutexes.
LEMMA TypedStep ==
  ASSUME IInv, NEW t \in Threads, InsertServer(t) \/ GetResource(t) \/ Dispatch(t)
  PROVE  Typed'
<1> USE ListAssumption DEF IInv, Typed, TypeOK, Locals, Holding, PC, Goto, Idle, listVars, mutexVars, localVars
<1>1. CASE FindServer(t)
  <2>1. PICK e \in Entry : name[e] = target[t] /\ elem' = [elem EXCEPT ![t] = e]
    BY <1>1, FoundEntry
  <2> QED BY <1>1, <2>1 DEF FindServer
<1>2. CASE NewServer(t)
  <2>1. PICK e \in Entry : /\ name[e] = NoServer /\ name' = [name EXCEPT ![e] = target[t]]
                           /\ elem' = [elem EXCEPT ![t] = e]
                           /\ \A f \in Entry : name[f] # target[t]
    BY <1>2, NewEntry
  <2>2. /\ server_mutex = Nobody /\ server_mutex' = t /\ pc[t] = "lock_server"
        /\ pc' = [pc EXCEPT ![t] = "link_entry"]
        /\ UNCHANGED <<nxt, prv, stored, insert_mutex, caller, target, server, at, moved>>
    BY <1>2 DEF NewServer
  <2>3. TypeOK'
    BY <2>1, <2>2
  <2>4. target[t] \in Servers /\ \A u \in Threads : pc[u] \notin Holding
    BY <2>2
  <2>5. \A f, g \in Entry : name'[f] # NoServer /\ name'[f] = name'[g] => f = g
    BY <2>1, <2>4
  <2> HIDE DEF TypeOK
  <2>6. \A u \in Threads :
         /\ server_mutex' = u <=> pc'[u] \in Holding
         /\ insert_mutex' = u <=> pc'[u] = "walk"
         /\ pc'[u] # "pop" => target'[u] \in Servers
         /\ pc'[u] \in Holding => elem'[u] \in Entry /\ name'[elem'[u]] = target'[u]
         /\ pc'[u] \in {"parse", "refs"} => server'[u] \in Entry
         /\ pc'[u] = "walk" => at'[u] # NoEntry
    BY <2>1, <2>2, <2>4 DEF TypeOK
  <2> QED BY <2>3, <2>5, <2>6
<1>3. CASE Unlink(t)
  <2>1. /\ pc[t] = "unlink" /\ pc' = [pc EXCEPT ![t] = "link_entry"] /\ moved' \subseteq Threads
        /\ prv' = [prv EXCEPT ![nxt[elem[t]]] = prv[elem[t]]]
        /\ nxt' = [nxt EXCEPT ![prv[elem[t]]] = nxt[elem[t]]]
        /\ UNCHANGED <<name, stored, mutexVars, localVars, elem, at>>
    BY <1>3 DEF Unlink
  <2>2. Locals'
    BY <2>1
  <2>3. nxt[elem[t]] \in Node \cup {NoEntry} /\ prv[elem[t]] \in Node \cup {NoEntry}
    BY <2>1 DEF Node
  <2>4. TypeOK'
    BY <2>1, <2>3 DEF Node
  <2> QED BY <2>2, <2>4
<1>4. CASE LinkEntry(t)
  <2>1. /\ pc[t] = "link_entry" /\ pc' = [pc EXCEPT ![t] = "link_head"]
        /\ prv' = [prv EXCEPT ![nxt[Head]] = elem[t]]
        /\ nxt' = [nxt EXCEPT ![elem[t]] = nxt[Head]]
        /\ UNCHANGED <<name, stored, mutexVars, localVars, elem, at, moved>>
    BY <1>4 DEF LinkEntry
  <2>2. Locals'
    BY <2>1
  <2>3. TypeOK'
    BY <2>1
  <2> QED BY <2>2, <2>3
<1>5. CASE LinkHead(t)    BY <1>5 DEF LinkHead
<1>6. CASE LockInsert(t)  BY <1>6, WalkGoesOn DEF LockInsert
<1>7. CASE WalkOn(t)      BY <1>7, WalkGoesOn DEF WalkOn, Here
<1>8. CASE Hit(t)         BY <1>8 DEF Hit, Here, EndWalk
<1>9. CASE Expired(t)     BY <1>9 DEF Expired, Here, NotFound, EndWalk
<1>10. CASE Miss(t)       BY <1>10 DEF Miss, NotFound, EndWalk
<1>11. CASE Pop(t)        BY <1>11 DEF Pop
<1>12. CASE Retry(t)      BY <1>12 DEF Retry
<1>13. CASE Incomplete(t) BY <1>13 DEF Incomplete
<1>14. CASE Complete(t)   BY <1>14 DEF Complete
<1>15. CASE LookupRef(t)  BY <1>15 DEF LookupRef
<1>16. CASE Store(t)      BY <1>16 DEF Store
<1> QED BY <1>1, <1>2, <1>3, <1>4, <1>5, <1>6, <1>7, <1>8, <1>9, <1>10, <1>11, <1>12, <1>13,
           <1>14, <1>15, <1>16 DEF InsertServer, GetResource, Dispatch
-----------------------------------------------------------------------------
(* What each step does to the list *)

\* A step that changes no pointer and takes no entry off the list.
LEMMA WholeStays ==
  ASSUME NEW n \in Nat, NEW L, Whole(L, n), UNCHANGED listVars, Off' = Off,
         \A t \in Threads : pc'[t] = "link_head" <=> pc[t] = "link_head",
         \A t \in Threads : pc[t] = "link_head" => elem'[t] = elem[t]
  PROVE  Whole(L, n)'
<1>1. Chain(L, n)'
  BY DEF Whole, Chain, listVars
<1>2. InChain(L, n)' = {e \in Entry : name'[e] # NoServer} \ Off'
  BY DEF Whole, InChain, listVars
<1> QED BY <1>1, <1>2 DEF Whole, listVars

\* A thread that does not link an entry takes a step to another one where it does not.
LEMMA OffStays ==
  ASSUME Typed, NEW t \in Threads, ~Linking(t), NEW to, pc' = [pc EXCEPT ![t] = to],
         to \notin {"link_entry", "link_head"},
         \A u \in Threads \ {t} : elem'[u] = elem[u]
  PROVE  /\ Off' = Off
         /\ \A u \in Threads : pc'[u] = "link_head" <=> pc[u] = "link_head"
         /\ \A u \in Threads : pc[u] = "link_head" => elem'[u] = elem[u]
<1>1. \A u \in Threads : pc'[u] = IF u = t THEN to ELSE pc[u]
  BY DEF Typed, TypeOK
<1>2. \A u \in Threads : Linking(u)' <=> Linking(u)
  BY <1>1 DEF Linking
<1>3. \A u \in Threads : Linking(u) => elem'[u] = elem[u]
  OBVIOUS
<1>4. Off' = Off
  BY <1>2, <1>3 DEF Off
<1> QED BY <1>1, <1>3, <1>4 DEF Linking

\* The other threads are where they were, and t does not walk.
LEMMA WalkersStay ==
  ASSUME NEW n \in Nat, NEW L, Linked(L, n), Whole(L, n)', UNCHANGED listVars, Off' = Off,
         \A u \in Threads : pc'[u] = "walk" => /\ pc[u] = "walk" /\ at'[u] = at[u]
                                               /\ target'[u] = target[u] /\ UNCHANGED <<stored, moved>>
  PROVE  Linked(L, n)'
<1> SUFFICES ASSUME NEW u \in Threads, pc'[u] = "walk" PROVE Walker(L, n, u)'
  BY DEF Linked
<1>1. PICK i \in 1..(n + 1) :
        /\ Stands(L, i, at[u])
        /\ u \notin moved =>
             \E j \in 1..n : name[L[j]] = target[u] /\ (stored[L[j]] > 0 => i <= j)
  BY DEF Linked, Walker
<1>2. Stands(L, i, at[u])'
  BY <1>1 DEF Stands, listVars
<1> QED BY <1>1, <1>2 DEF Walker, listVars
\* Steps that leave the list and the walks of other threads alone.
LEMMA LinkedAside ==
  ASSUME Typed, NEW n \in Nat, NEW L, Linked(L, n), NEW t \in Threads,
         FindServer(t) \/ Hit(t) \/ Expired(t) \/ Miss(t) \/ Dispatch(t)
  PROVE  Linked(L, n)'
<1> USE DEF Goto, Idle, mutexVars, localVars
<1>1. /\ UNCHANGED listVars /\ ~Linking(t) /\ \A u \in Threads \ {t} : elem'[u] = elem[u]
      /\ \E to \in PC \ {"link_entry", "link_head", "walk"} : pc' = [pc EXCEPT ![t] = to]
  <2> USE DEF Linking, PC
  <2>1. CASE FindServer(t) BY <2>1 DEF FindServer, Typed, TypeOK
  <2>2. CASE Hit(t)        BY <2>2 DEF Hit
  <2>3. CASE Expired(t)    BY <2>3 DEF Expired, NotFound
  <2>4. CASE Miss(t)       BY <2>4 DEF Miss, NotFound
  <2>5. CASE Dispatch(t)
    BY <2>5 DEF Dispatch, Pop, Retry, Incomplete, Complete, LookupRef, Store
  <2> QED BY <2>1, <2>2, <2>3, <2>4, <2>5
<1>2. Whole(L, n)' /\ Off' = Off
  BY <1>1, OffStays, WholeStays DEF Linked
<1>3. ASSUME NEW u \in Threads, pc'[u] = "walk"
      PROVE  /\ pc[u] = "walk" /\ at'[u] = at[u] /\ target'[u] = target[u]
             /\ UNCHANGED <<stored, moved>>
  <2>1. u # t /\ pc[u] = "walk"
    BY <1>1, <1>3 DEF Typed, TypeOK
  <2>2. insert_mutex = u /\ insert_mutex # t /\ insert_mutex # Nobody
    BY <2>1, ListAssumption DEF Typed, Locals
  <2>3. pc[t] # "walk"
    BY <2>2 DEF Typed, Locals
  <2>4. CASE FindServer(t) BY <2>1, <2>4 DEF FindServer
  <2>5. CASE Hit(t)        BY <2>3, <2>5 DEF Hit
  <2>6. CASE Expired(t)    BY <2>3, <2>6 DEF Expired, NotFound
  <2>7. CASE Miss(t)       BY <2>3, <2>7 DEF Miss, NotFound
  <2>8. CASE Dispatch(t)
    BY <2>1, <2>2, <2>8 DEF Dispatch, Pop, Retry, Incomplete, Complete, LookupRef, Store, Typed, TypeOK
  <2> QED BY <2>4, <2>5, <2>6, <2>7, <2>8
<1> QED BY <1>1, <1>2, <1>3, WalkersStay

\* A walk begins at the first place, before the entry it looks for.
LEMMA LinkedLock ==
  ASSUME Typed, NEW n \in Nat, NEW L \in [0..(n + 1) -> Node], Linked(L, n),
         NEW t \in Threads, LockInsert(t)
  PROVE  Linked(L, n)'
<1>1. /\ UNCHANGED <<listVars, stored, target, elem>> /\ pc[t] = "lock_insert"
      /\ pc' = [pc EXCEPT ![t] = "walk"] /\ insert_mutex = Nobody
      /\ at' = [at EXCEPT ![t] = nxt[Head]]
      /\ moved' = IF \E e \in Listed : name[e] = target[t] THEN {} ELSE {t}
  BY DEF LockInsert, Goto, localVars
<1>2. Whole(L, n)' /\ Off' = Off
  BY <1>1, OffStays, WholeStays DEF Linked, Linking
<1>3. ASSUME NEW u \in Threads, pc'[u] = "walk" PROVE u = t
  BY <1>1, <1>3, ListAssumption DEF Typed, TypeOK, Locals
<1>4. Walker(L, n, t)'
  <2>1. at'[t] = L[1] /\ 1 \in 1..(n + 1)
    <3>1. nxt[Head] = L[1]
      BY NextPlace DEF Linked
    <3> QED BY <1>1, <3>1 DEF Typed, TypeOK
  <2>2. t \notin moved' => \E j \in 1..n : name'[L[j]] = target'[t]
    BY <1>1, ListedAll DEF Linked, InChain, listVars
  <2> QED BY <2>1, <2>2 DEF Walker, Stands
<1> QED BY <1>2, <1>3, <1>4 DEF Linked

\* A walk goes on to the next place, and past the entry it looks for only if it does not stop.
LEMMA LinkedWalk ==
  ASSUME Typed, NEW n \in Nat, NEW L \in [0..(n + 1) -> Node], Linked(L, n),
         NEW t \in Threads, WalkOn(t)
  PROVE  Linked(L, n)'
<1>1. /\ UNCHANGED <<listVars, stored, pc, target, elem, moved>> /\ pc[t] = "walk"
      /\ at[t] # Head /\ ~Here(t) /\ at' = [at EXCEPT ![t] = nxt[at[t]]]
  BY DEF WalkOn, localVars
<1>2. Off' = Off
  BY <1>1 DEF Off, Linking
<1>3. Whole(L, n)'
  BY <1>1, <1>2, WholeStays DEF Linked
<1>4. ASSUME NEW u \in Threads, pc'[u] = "walk" PROVE u = t
  BY <1>1, <1>4 DEF Typed, Locals
<1>5. Walker(L, n, t)'
  <2>1. PICK i \in 1..(n + 1) :
          /\ Stands(L, i, at[t])
          /\ t \notin moved =>
               \E j \in 1..n : name[L[j]] = target[t] /\ (stored[L[j]] > 0 => i <= j)
    BY <1>1 DEF Linked, Walker
  <2>2. at[t] \in Node \ {Head} /\ at'[t] = nxt[at[t]]
    BY <1>1 DEF Typed, TypeOK, Locals, Node
  <2>3. CASE i <= n /\ at[t] = L[i] /\ nxt[at[t]] = L[i + 1]
    <3>1. i + 1 \in 1..(n + 1) /\ Stands(L, i + 1, at[t])'
      BY <2>2, <2>3 DEF Stands
    <3>2. L[i] \in Entry
      BY <2>3 DEF Linked, Whole, Chain
    <3>3. ASSUME t \notin moved
          PROVE  \E j \in 1..n : name[L[j]] = target[t] /\ (stored[L[j]] > 0 => i + 1 <= j)
      <4>1. PICK j \in 1..n : name[L[j]] = target[t] /\ (stored[L[j]] > 0 => i <= j)
        BY <2>1, <3>3
      <4>2. i = j => ~(stored[L[j]] > 0)
        BY <1>1, <2>3, <3>2, <4>1 DEF Here
      <4> QED BY <4>1, <4>2
    <3> QED BY <1>1, <3>1, <3>3 DEF Walker, listVars
  <2>4. CASE at[t] \in Off /\ nxt[at[t]] = L[i]
    <3>1. Stands(L, i, at[t])'
      BY <2>2, <2>4 DEF Stands
    <3> QED BY <1>1, <2>1, <3>1 DEF Walker, listVars
  <2>5. \A k \in 1..(n + 1), a \in Node \ {Head} : Stands(L, k, a) =>
          (k <= n /\ a = L[k] /\ nxt[a] = L[k + 1]) \/ (a \in Off /\ nxt[a] = L[k])
    BY NextPlace DEF Linked
  <2> QED BY <2>1, <2>2, <2>3, <2>4, <2>5
<1> QED BY <1>3, <1>4, <1>5 DEF Linked
\* A new entry is off the list until it is linked, and no walk stands on it.
LEMMA LinkedNew ==
  ASSUME IInv, NEW n \in Nat, NEW L \in [0..(n + 1) -> Node], Linked(L, n),
         NEW t \in Threads, NewServer(t)
  PROVE  Linked(L, n)'
<1>1. PICK e \in Entry : /\ name[e] = NoServer /\ name' = [name EXCEPT ![e] = target[t]]
                         /\ elem' = [elem EXCEPT ![t] = e]
  BY NewEntry
<1>2. /\ UNCHANGED <<nxt, prv, stored, target, at, moved>> /\ server_mutex = Nobody
      /\ pc' = [pc EXCEPT ![t] = "link_entry"] /\ pc[t] = "lock_server"
  BY DEF NewServer, Goto, localVars
<1>3. Off = {} /\ InChain(L, n) = {f \in Entry : name[f] # NoServer}
  BY <1>2, ListedAll DEF IInv, Linked
<1>4. \A u \in Threads : ~Linking(u) /\ (Linking(u)' <=> u = t)
  BY <1>2, ListAssumption DEF IInv, Typed, TypeOK, Locals, Holding, Linking
<1>5. Off' = {e}
  BY <1>1, <1>4 DEF Off, IInv, Typed, TypeOK
<1>6. e \notin InChain(L, n) /\ target[t] # NoServer
  BY <1>1, <1>2, <1>3, ListAssumption DEF IInv, Typed, Locals
<1>7. Whole(L, n)'
  <2>1. Chain(L, n)'
    BY <1>2 DEF Linked, Whole, Chain
  <2>2. InChain(L, n)' = {f \in Entry : name'[f] # NoServer} \ Off'
    <3>1. \A f \in Entry : name'[f] # NoServer <=> name[f] # NoServer \/ f = e
      BY <1>1, <1>6 DEF IInv, Typed, TypeOK
    <3>2. InChain(L, n)' = InChain(L, n)
      BY DEF InChain
    <3> QED BY <1>3, <1>5, <1>6, <3>1, <3>2
  <2>3. \A u \in Threads : pc'[u] # "link_head" /\ pc[u] # "link_head"
    BY <1>2, <1>4 DEF Linking, IInv, Typed, TypeOK
  <2> QED BY <1>2, <2>1, <2>2, <2>3 DEF Linked, Whole
<1>8. ASSUME NEW u \in Threads, pc'[u] = "walk" PROVE Walker(L, n, u)'
  <2>1. pc[u] = "walk"
    BY <1>2, <1>8 DEF IInv, Typed, TypeOK
  <2>2. PICK i \in 1..(n + 1) :
          /\ Stands(L, i, at[u])
          /\ u \notin moved =>
               \E j \in 1..n : name[L[j]] = target[u] /\ (stored[L[j]] > 0 => i <= j)
    BY <2>1 DEF Linked, Walker
  <2>3. Stands(L, i, at[u])'
    BY <1>2, <1>3, <2>2 DEF Stands
  <2>4. \A j \in 1..n : name'[L[j]] = name[L[j]]
    BY <1>1, <1>6 DEF InChain, IInv, Typed, TypeOK
  <2> QED BY <1>2, <2>2, <2>3, <2>4 DEF Walker
<1> QED BY <1>7, <1>8 DEF Linked

\* list_add's first stores: the entry off the list leads to its first place.
LEMMA LinkedEntry ==
  ASSUME Typed, NEW n \in Nat, NEW L \in [0..(n + 1) -> Node], Linked(L, n),
         NEW t \in Threads, LinkEntry(t)
  PROVE  Linked(L, n)'
<1> DEFINE e == elem[t]
<1>1. /\ UNCHANGED <<name, stored, target, elem, at, moved>>
      /\ pc' = [pc EXCEPT ![t] = "link_head"] /\ pc[t] = "link_entry"
      /\ prv' = [prv EXCEPT ![nxt[Head]] = e] /\ nxt' = [nxt EXCEPT ![e] = nxt[Head]]
  BY DEF LinkEntry, Goto, localVars
<1>2. e \in Entry /\ e \in Off /\ e \notin InChain(L, n)
  BY <1>1 DEF Typed, Locals, Holding, Off, Linking, Linked, Whole
<1>3. \A u \in Threads : Linking(u)' <=> Linking(u)
  BY <1>1 DEF Typed, TypeOK, Linking
<1>4. Off' = Off /\ \A u \in Threads : Linking(u) => u = t
  <2>1. \A u \in Threads : Linking(u) => u = t
    BY <1>1 DEF Typed, Locals, Holding, Linking
  <2> QED BY <1>1, <1>3, <2>1 DEF Off
<1>5. Off = {e}
  BY <1>1, <1>4 DEF Off, Linking
<1>6. nxt[Head] = L[1] /\ \A i \in 1..(n + 1) : L[i] \in Node
  BY NextPlace DEF Linked
<1>7. \A i \in 0..n : L[i] # e
  BY <1>2, ListAssumption DEF InChain, Linked, Whole, Chain
<1>8. /\ \A a \in Node : nxt'[a] = IF a = e THEN L[1] ELSE nxt[a]
      /\ \A a \in Node : prv'[a] = IF a = L[1] THEN e ELSE prv[a]
  BY <1>1, <1>2, <1>6 DEF Typed, TypeOK, Node
<1>9. Whole(L, n)'
  <2>1. Chain(L, n)'
    <3>1. \A i \in 0..n : L[i] \in Node /\ nxt'[L[i]] = L[i + 1]
      BY <1>7, <1>8 DEF Linked, Whole, Chain
    <3> QED BY <3>1 DEF Linked, Whole, Chain
  <2>2. InChain(L, n)' = {f \in Entry : name'[f] # NoServer} \ Off'
    BY <1>1, <1>4 DEF InChain, Linked, Whole
  <2>3. \A i \in 1..n : prv'[L[i + 1]] = L[i]
    <3> SUFFICES ASSUME NEW i \in 1..n PROVE prv'[L[i + 1]] = L[i]
      OBVIOUS
    <3>1. L[i + 1] # L[1] /\ L[i + 1] \in Node
      <4>1. L[1] \in Entry /\ 1 \in 1..n /\ L[n + 1] = Head
        BY DEF Linked, Whole, Chain
      <4>2. CASE i = n
        BY <4>1, <4>2, ListAssumption DEF Node
      <4>3. CASE i # n
        <5>1. i + 1 \in 1..n /\ i + 1 # 1
          BY <4>3
        <5> QED BY <4>1, <5>1 DEF Linked, Whole, Chain, Node
      <4> QED BY <4>2, <4>3
    <3> QED BY <1>8, <3>1 DEF Linked, Whole
  <2>4. /\ pc'[t] = "link_head"
        /\ \A u \in Threads : pc'[u] = "link_head" => u = t
    BY <1>1, <1>3, <1>4 DEF Typed, TypeOK, Linking
  <2>5. prv'[L[1]] = e /\ nxt'[e] = L[1]
    BY <1>2, <1>6, <1>8 DEF Node
  <2> QED BY <1>1, <2>1, <2>2, <2>3, <2>4, <2>5 DEF Whole
<1>10. ASSUME NEW u \in Threads, pc'[u] = "walk" PROVE Walker(L, n, u)'
  <2>1. pc[u] = "walk" /\ at[u] \in Node
    BY <1>1, <1>10 DEF Typed, TypeOK, Locals, Node
  <2>2. PICK i \in 1..(n + 1) :
          /\ Stands(L, i, at[u])
          /\ u \notin moved =>
               \E j \in 1..n : name[L[j]] = target[u] /\ (stored[L[j]] > 0 => i <= j)
    BY <2>1 DEF Linked, Walker
  <2>3. CASE at[u] = L[i]
    BY <1>1, <2>2, <2>3 DEF Walker, Stands
  <2>4. CASE at[u] \in Off
    <3>1. Stands(L, 1, at[u])' /\ 1 \in 1..(n + 1)
      BY <1>1, <1>4, <1>5, <1>8, <2>1, <2>4 DEF Stands
    <3> QED BY <1>1, <2>2, <3>1 DEF Walker
  <2> QED BY <2>2, <2>3, <2>4 DEF Stands
<1> QED BY <1>9, <1>10 DEF Linked
\* No place of the chain comes twice.
LEMMA ChainDistinct ==
  ASSUME NEW n \in Nat, NEW L, Chain(L, n)
  PROVE  /\ \A i, j \in 0..n : L[i] = L[j] => i = j
         /\ \A i, j \in 1..(n + 1) : L[i] = L[j] => i = j
<1>1. \A i \in 1..n : L[i] # L[0] /\ L[i] # L[n + 1]
  BY ListAssumption DEF Chain
<1>2. \A i \in 0..n : i = 0 \/ i \in 1..n
  OBVIOUS
<1>3. \A i \in 1..(n + 1) : i = n + 1 \/ i \in 1..n
  OBVIOUS
<1> QED BY <1>1, <1>2, <1>3 DEF Chain

\* list_del: the chain closes behind the entry, which goes on leading into it.
LEMMA LinkedUnlink ==
  ASSUME Typed, NEW n \in Nat, NEW L \in [0..(n + 1) -> Node], Linked(L, n),
         NEW t \in Threads, Unlink(t)
  PROVE  \E m \in Nat : \E M \in [0..(m + 1) -> Node] : Linked(M, m)'
<1> DEFINE e == elem[t]
<1>1. /\ UNCHANGED <<name, stored, target, elem, at>>
      /\ pc' = [pc EXCEPT ![t] = "link_entry"] /\ pc[t] = "unlink"
      /\ prv' = [prv EXCEPT ![nxt[e]] = prv[e]] /\ nxt' = [nxt EXCEPT ![prv[e]] = nxt[e]]
      /\ moved' = moved \cup {u \in Threads : pc[u] = "walk" /\ target[u] = name[e]}
  BY DEF Unlink, Goto, localVars, mutexVars
<1>2. \A u \in Threads : ~Linking(u) /\ (Linking(u)' <=> u = t)
  BY <1>1 DEF Typed, TypeOK, Locals, Holding, Linking
<1>3. Off = {} /\ Off' = {e}
  BY <1>1, <1>2 DEF Off
<1>4. PICK p \in 1..n : L[p] = e
  <2>1. e \in Entry /\ name[e] # NoServer
    BY <1>1, ListAssumption DEF Typed, Locals, Holding
  <2> QED BY <1>3, <2>1 DEF Linked, Whole, InChain
<1>5. nxt[e] = L[p + 1] /\ prv[e] = L[p - 1]
  <2>1. nxt[e] = L[p + 1]
    BY <1>4 DEF Linked, Whole, Chain
  <2>2. CASE p = 1
    <3>1. prv[L[1]] = Head /\ L[0] = Head
      BY <1>2 DEF Linked, Whole, Chain, Linking
    <3> QED BY <1>4, <2>1, <2>2, <3>1
  <2>3. CASE p # 1
    <3>1. p - 1 \in 1..n /\ (p - 1) + 1 = p
      BY <2>3
    <3>2. prv[L[(p - 1) + 1]] = L[p - 1]
      BY <3>1 DEF Linked, Whole
    <3> QED BY <1>4, <2>1, <3>1, <3>2
  <2> QED BY <2>2, <2>3
<1>6. /\ \A i, j \in 0..n : L[i] = L[j] => i = j
      /\ \A i, j \in 1..(n + 1) : L[i] = L[j] => i = j
  <2>1. Chain(L, n)
    BY DEF Linked, Whole
  <2> QED BY <2>1, ChainDistinct
<1>7. /\ \A i \in 0..n : nxt'[L[i]] = IF i = p - 1 THEN L[p + 1] ELSE nxt[L[i]]
      /\ \A i \in 1..(n + 1) : prv'[L[i]] = IF i = p + 1 THEN L[p - 1] ELSE prv[L[i]]
      /\ nxt'[e] = L[p + 1]
  <2>1. \A i \in 0..(n + 1) : L[i] \in Node
    OBVIOUS
  <2>2. nxt \in [Node -> Node \cup {NoEntry}] /\ prv \in [Node -> Node \cup {NoEntry}]
    BY DEF Typed, TypeOK, Node
  <2>3. p - 1 \in 0..n /\ p + 1 \in 1..(n + 1) /\ p \in 0..n /\ p # p - 1
    OBVIOUS
  <2>4. nxt' = [nxt EXCEPT ![L[p - 1]] = L[p + 1]] /\ prv' = [prv EXCEPT ![L[p + 1]] = L[p - 1]]
    BY <1>1, <1>5
  <2>5. \A i \in 0..n : nxt'[L[i]] = IF i = p - 1 THEN L[p + 1] ELSE nxt[L[i]]
    BY <1>6, <2>1, <2>2, <2>3, <2>4
  <2>6. \A i \in 1..(n + 1) : prv'[L[i]] = IF i = p + 1 THEN L[p - 1] ELSE prv[L[i]]
    BY <1>6, <2>1, <2>2, <2>3, <2>4
  <2>7. nxt'[e] = nxt[e]
    BY <1>4, <2>3, <2>5
  <2> QED BY <1>5, <2>5, <2>6, <2>7
<1> DEFINE m == n - 1
           M == [i \in 0..(m + 1) |-> IF i < p THEN L[i] ELSE L[i + 1]]
<1>8. m \in Nat /\ m + 1 = n /\ M \in [0..(m + 1) -> Node]
      /\ \A i \in 0..n : M[i] = IF i < p THEN L[i] ELSE L[i + 1]
  OBVIOUS
<1> HIDE DEF m, M
<1>9. Chain(M, m)'
  <2>1. M[0] = Head /\ M[m + 1] = Head
    BY <1>8 DEF Linked, Whole, Chain
  <2>2. \A i \in 1..m : M[i] \in Entry
    BY <1>8 DEF Linked, Whole, Chain
  <2>3. ASSUME NEW i \in 1..m, NEW j \in 1..m, M[i] = M[j] PROVE i = j
    <3>1. i + 1 \in 1..(n + 1) /\ j + 1 \in 1..(n + 1) /\ i \in 1..(n + 1) /\ j \in 1..(n + 1)
      BY <1>8
    <3>2. (IF i < p THEN i ELSE i + 1) = (IF j < p THEN j ELSE j + 1)
      BY <1>6, <1>8, <2>3, <3>1
    <3> QED BY <3>2
  <2>4. ASSUME NEW i \in 0..m PROVE nxt'[M[i]] = M[i + 1]
    <3>1. i \in 0..n /\ i + 1 \in 0..n /\ \A k \in 0..n : nxt[L[k]] = L[k + 1]
      BY <1>8 DEF Linked, Whole, Chain
    <3>2. CASE i < p - 1
      <4>1. M[i] = L[i] /\ M[i + 1] = L[i + 1]
        BY <1>8, <3>1, <3>2
      <4>2. nxt'[L[i]] = nxt[L[i]]
        BY <1>7, <3>1, <3>2
      <4> QED BY <3>1, <4>1, <4>2
    <3>3. CASE i = p - 1
      <4>1. M[i] = L[i] /\ M[i + 1] = L[p + 1]
        BY <1>8, <3>1, <3>3
      <4> QED BY <1>7, <3>1, <3>3, <4>1
    <3>4. CASE i > p - 1
      <4>1. M[i] = L[i + 1] /\ M[i + 1] = L[(i + 1) + 1]
        BY <1>8, <3>1, <3>4
      <4>2. nxt'[L[i + 1]] = L[(i + 1) + 1]
        BY <1>7, <3>1, <3>4
      <4> QED BY <4>1, <4>2
    <3> QED BY <3>2, <3>3, <3>4
  <2> QED BY <1>8, <2>1, <2>2, <2>3, <2>4 DEF Chain
<1>10. InChain(M, m) = InChain(L, n) \ {e}
  <2>1. ASSUME NEW i \in 1..m PROVE M[i] \in InChain(L, n) \ {e}
    <3>1. CASE i < p
      BY <1>4, <1>6, <1>8, <3>1 DEF InChain
    <3>2. CASE i >= p
      <4>1. i + 1 \in 1..n /\ i + 1 # p /\ M[i] = L[i + 1]
        BY <1>8, <3>2
      <4>2. L[i + 1] # L[p]
        BY <1>6, <4>1
      <4> QED BY <1>4, <4>1, <4>2 DEF InChain
    <3> QED BY <3>1, <3>2
  <2>2. ASSUME NEW k \in 1..n, L[k] # e PROVE L[k] \in InChain(M, m)
    <3>1. CASE k < p
      <4>1. k \in 1..m /\ M[k] = L[k]
        BY <1>8, <3>1
      <4> QED BY <4>1 DEF InChain
    <3>2. CASE k > p
      <4>1. k - 1 \in 1..m /\ M[k - 1] = L[(k - 1) + 1] /\ (k - 1) + 1 = k
        BY <1>8, <3>2
      <4> QED BY <4>1 DEF InChain
    <3> QED BY <1>4, <2>2, <3>1, <3>2
  <2> QED BY <2>1, <2>2 DEF InChain
<1>11. Whole(M, m)'
  <2>1. InChain(M, m)' = {f \in Entry : name'[f] # NoServer} \ Off'
    BY <1>1, <1>3, <1>10 DEF Linked, Whole, InChain
  <2>2. \A i \in 1..n : prv[L[i + 1]] = L[i]
    BY DEF Linked, Whole
  <2>3. ASSUME NEW i \in 1..m PROVE prv'[M[i + 1]] = M[i]
    <3>1. i \in 1..n /\ i + 1 \in 0..n /\ i + 1 \in 1..(n + 1) /\ (i + 1) + 1 \in 1..(n + 1)
      BY <1>8
    <3>2. CASE i < p - 1
      <4>1. M[i] = L[i] /\ M[i + 1] = L[i + 1]
        BY <1>8, <3>1, <3>2
      <4> QED BY <1>7, <2>2, <3>1, <3>2, <4>1
    <3>3. CASE i = p - 1
      <4>1. M[i] = L[p - 1] /\ M[i + 1] = L[p + 1] /\ p + 1 \in 1..(n + 1)
        BY <1>8, <3>1, <3>3
      <4> QED BY <1>7, <4>1
    <3>4. CASE i > p - 1
      <4>1. M[i] = L[i + 1] /\ M[i + 1] = L[(i + 1) + 1] /\ i + 1 \in 1..n
        BY <1>8, <3>1, <3>4
      <4> QED BY <1>7, <2>2, <3>1, <3>4, <4>1
    <3> QED BY <3>2, <3>3, <3>4
  <2>4. prv'[M[1]] = Head
    <3>1. CASE p = 1
      <4>1. M[1] = L[p + 1] /\ L[p - 1] = Head /\ p + 1 \in 1..(n + 1)
        BY <1>8, <3>1 DEF Linked, Whole, Chain
      <4> QED BY <1>7, <4>1
    <3>2. CASE p # 1
      <4>1. M[1] = L[1] /\ 1 \in 1..(n + 1) /\ 1 # p + 1 /\ prv[L[1]] = Head
        BY <1>2, <1>8, <3>2 DEF Linked, Whole, Linking
      <4> QED BY <1>7, <4>1
    <3> QED BY <3>1, <3>2
  <2>5. \A u \in Threads : pc'[u] # "link_head"
    BY <1>1, <1>2 DEF Typed, TypeOK, Linking
  <2> QED BY <1>9, <2>1, <2>3, <2>4, <2>5 DEF Whole
<1>12. ASSUME NEW u \in Threads, pc'[u] = "walk" PROVE Walker(M, m, u)'
  <2>1. pc[u] = "walk"
    BY <1>1, <1>12 DEF Typed, TypeOK
  <2>2. PICK i \in 1..(n + 1) :
          /\ Stands(L, i, at[u])
          /\ u \notin moved =>
               \E j \in 1..n : name[L[j]] = target[u] /\ (stored[L[j]] > 0 => i <= j)
    BY <2>1 DEF Linked, Walker
  <2>3. at[u] = L[i]
    BY <1>3, <2>2 DEF Stands
  <2> DEFINE k == IF i <= p THEN i ELSE i - 1
  <2>4. k \in 1..(m + 1) /\ Stands(M, k, at[u])'
    <3>1. CASE i < p
      BY <1>1, <1>8, <2>3, <3>1 DEF Stands
    <3>2. CASE i = p
      <4>1. M[k] = L[p + 1] /\ at'[u] = e /\ k \in 1..(m + 1)
        BY <1>1, <1>4, <1>8, <2>3, <3>2
      <4> QED BY <1>3, <1>7, <4>1 DEF Stands
    <3>3. CASE i > p
      <4>1. k = i - 1 /\ k \in 1..(m + 1) /\ M[k] = L[k + 1] /\ k + 1 = i
        BY <1>8, <3>3
      <4> QED BY <1>1, <2>3, <4>1 DEF Stands
    <3> QED BY <3>1, <3>2, <3>3
  <2>5. ASSUME u \notin moved'
        PROVE  \E j \in 1..m : name'[M[j]] = target'[u] /\ (stored'[M[j]] > 0 => k <= j)
    <3>1. PICK j \in 1..n : name[L[j]] = target[u] /\ (stored[L[j]] > 0 => i <= j)
      BY <1>1, <2>2, <2>5
    <3>2. j # p
      BY <1>1, <1>4, <2>1, <2>5, <3>1
    <3> DEFINE l == IF j < p THEN j ELSE j - 1
    <3>3. l \in 1..m /\ M[l] = L[j]
      <4>1. CASE j < p
        <5>1. l = j /\ l \in 1..m /\ l \in 0..n
          BY <1>8, <4>1
        <5> HIDE DEF l
        <5> QED BY <1>8, <4>1, <5>1
      <4>2. CASE j > p
        <5>1. l = j - 1 /\ l \in 1..m /\ l \in 0..n /\ ~(l < p) /\ l + 1 = j
          BY <1>8, <4>2
        <5> HIDE DEF l
        <5> QED BY <1>8, <5>1
      <4> QED BY <3>2, <4>1, <4>2
    <3>4. i <= j => k <= l
      BY <3>2
    <3> HIDE DEF k, l
    <3> QED BY <1>1, <3>1, <3>3, <3>4
  <2> HIDE DEF k
  <2> QED BY <2>4, <2>5 DEF Walker
<1>13. Linked(M, m)'
  BY <1>11, <1>12 DEF Linked
<1> QED BY <1>8, <1>13
\* list_add's last stores: the entry becomes the first place.
LEMMA LinkedHead ==
  ASSUME Typed, NEW n \in Nat, NEW L \in [0..(n + 1) -> Node], Linked(L, n),
         NEW t \in Threads, LinkHead(t)
  PROVE  \E m \in Nat : \E M \in [0..(m + 1) -> Node] : Linked(M, m)'
<1>0. PICK e \in Entry : e = elem[t]
  BY DEF LinkHead, Typed, Locals, Holding
<1>1. /\ UNCHANGED <<name, stored, target, at, moved>>
      /\ \E to \in {"lock_insert", "parse"} : pc' = [pc EXCEPT ![t] = to]
      /\ pc[t] = "link_head"
      /\ prv' = [prv EXCEPT ![e] = Head] /\ nxt' = [nxt EXCEPT ![Head] = e]
  BY <1>0 DEF LinkHead, Goto
<1>2. \A u \in Threads : (Linking(u) <=> u = t) /\ ~Linking(u)'
  BY <1>1 DEF Typed, TypeOK, Locals, Holding, Linking
<1>3. Off = {e} /\ Off' = {}
  BY <1>0, <1>2 DEF Off
<1>4. e \in Entry /\ name[e] # NoServer /\ e \notin InChain(L, n)
  BY <1>0, <1>1, <1>3, ListAssumption DEF Typed, Locals, Holding, Linked, Whole
<1>5. nxt[e] = L[1] /\ prv[L[1]] = e
  BY <1>0, <1>1 DEF Linked, Whole
<1>6. L[0] = Head /\ L[n + 1] = Head /\ \A i \in 1..n : L[i] \in Entry /\ L[i] # e
  BY <1>4 DEF Linked, Whole, Chain, InChain
<1>7. /\ nxt'[Head] = e /\ \A a \in Entry : nxt'[a] = nxt[a]
      /\ prv'[e] = Head /\ \A a \in Node \ {e} : prv'[a] = prv[a]
  BY <1>1, <1>4, ListAssumption DEF Typed, TypeOK, Node
<1> DEFINE m == n + 1
           M == [i \in 0..(m + 1) |-> IF i = 0 THEN Head ELSE IF i = 1 THEN e ELSE L[i - 1]]
<1>8. /\ m \in Nat /\ m = n + 1 /\ M \in [0..(m + 1) -> Node] /\ M[0] = Head /\ M[1] = e
      /\ \A i \in 1..(n + 1) : M[i + 1] = L[i]
  <2>1. \A i \in 2..(n + 2) : i - 1 \in 0..(n + 1)
    OBVIOUS
  <2>2. \A i \in 0..(n + 2) : M[i] \in Node
    BY <1>4, <2>1 DEF Node
  <2>3. \A i \in 1..(n + 1) : M[i + 1] = L[i]
    OBVIOUS
  <2> QED BY <2>2, <2>3
<1> HIDE DEF m, M
<1>9. \A i \in 2..(n + 2) : i - 1 \in 1..(n + 1) /\ M[i] = L[i - 1] /\ (i - 1) + 1 = i
  <2> SUFFICES ASSUME NEW i \in 2..(n + 2)
               PROVE  i - 1 \in 1..(n + 1) /\ M[i] = L[i - 1] /\ (i - 1) + 1 = i
    OBVIOUS
  <2>1. i - 1 \in 1..(n + 1) /\ (i - 1) + 1 = i
    OBVIOUS
  <2>2. M[(i - 1) + 1] = L[i - 1]
    BY <1>8, <2>1
  <2> QED BY <2>1, <2>2
<1>10. Chain(M, m)'
  <2>1. M[0] = Head /\ M[m + 1] = Head
    BY <1>6, <1>8
  <2>2. \A i \in 1..m : M[i] \in Entry
    <3> SUFFICES ASSUME NEW i \in 1..m PROVE M[i] \in Entry
      OBVIOUS
    <3>1. CASE i = 1
      BY <1>4, <1>8, <3>1
    <3>2. CASE i # 1
      <4>1. i \in 2..(n + 2) /\ i - 1 \in 1..n
        BY <1>8, <3>2
      <4> QED BY <1>6, <1>9, <4>1
    <3> QED BY <3>1, <3>2
  <2>3. ASSUME NEW i \in 1..m, NEW j \in 1..m, M[i] = M[j] PROVE i = j
    <3>1. \A k \in 1..m : k # 1 => k - 1 \in 1..n /\ M[k] = L[k - 1]
      <4> SUFFICES ASSUME NEW k \in 1..m, k # 1 PROVE k - 1 \in 1..n /\ M[k] = L[k - 1]
        OBVIOUS
      <4>1. k \in 2..(n + 2) /\ k - 1 \in 1..n
        BY <1>8
      <4> QED BY <1>9, <4>1
    <3>2. CASE i # 1 /\ j # 1
      <4>1. i - 1 = j - 1
        BY <2>3, <3>1, <3>2 DEF Linked, Whole, Chain
      <4> QED BY <4>1
    <3>3. CASE i = 1 /\ j # 1
      BY <1>6, <1>8, <2>3, <3>1, <3>3
    <3>4. CASE i # 1 /\ j = 1
      BY <1>6, <1>8, <2>3, <3>1, <3>4
    <3> QED BY <3>2, <3>3, <3>4
  <2>4. ASSUME NEW i \in 0..m PROVE nxt'[M[i]] = M[i + 1]
    <3>1. CASE i = 0
      BY <1>7, <1>8, <3>1
    <3>2. CASE i = 1
      BY <1>4, <1>5, <1>7, <1>8, <3>2
    <3>3. CASE i >= 2
      <4>1. i \in 2..(n + 2) /\ i - 1 \in 1..n /\ i \in 1..(n + 1) /\ i - 1 \in 0..n
        BY <1>8, <3>3
      <4>2. M[i] = L[i - 1] /\ M[i + 1] = L[i] /\ (i - 1) + 1 = i
        BY <1>8, <1>9, <4>1
      <4>3. nxt[L[i - 1]] = L[(i - 1) + 1]
        BY <4>1 DEF Linked, Whole, Chain
      <4> QED BY <1>6, <1>7, <4>1, <4>2, <4>3
    <3> QED BY <3>1, <3>2, <3>3
  <2> QED BY <1>8, <2>1, <2>2, <2>3, <2>4 DEF Chain
<1>11. InChain(M, m) = InChain(L, n) \cup {e}
  <2>1. ASSUME NEW i \in 1..m PROVE M[i] \in InChain(L, n) \cup {e}
    <3>1. CASE i = 1
      BY <1>8, <3>1
    <3>2. CASE i # 1
      <4>1. i \in 2..(n + 2) /\ i - 1 \in 1..n
        BY <1>8, <3>2
      <4> QED BY <1>9, <4>1 DEF InChain
    <3> QED BY <3>1, <3>2
  <2>2. ASSUME NEW k \in 1..n PROVE L[k] \in InChain(M, m)
    <3>1. k + 1 \in 1..m /\ k \in 1..(n + 1)
      BY <1>8
    <3>2. M[k + 1] = L[k]
      BY <1>8, <3>1
    <3> QED BY <3>1, <3>2 DEF InChain
  <2>3. e \in InChain(M, m)
    <3>1. 1 \in 1..m
      BY <1>8
    <3> QED BY <1>8, <3>1 DEF InChain
  <2> QED BY <2>1, <2>2, <2>3 DEF InChain
<1>12. Whole(M, m)'
  <2>1. InChain(M, m)' = {f \in Entry : name'[f] # NoServer} \ Off'
    BY <1>1, <1>3, <1>4, <1>11 DEF Linked, Whole, InChain
  <2>2. ASSUME NEW i \in 1..m PROVE prv'[M[i + 1]] = M[i]
    <3>1. \A k \in 1..(n + 1) : L[k] \in Node \ {e}
      <4> SUFFICES ASSUME NEW k \in 1..(n + 1) PROVE L[k] \in Node \ {e}
        OBVIOUS
      <4>1. k = n + 1 \/ k \in 1..n
        OBVIOUS
      <4> QED BY <1>4, <1>6, <4>1, ListAssumption DEF Node
    <3>2. CASE i = 1
      <4>1. M[i + 1] = L[1] /\ 1 \in 1..(n + 1)
        BY <1>8, <3>2
      <4> QED BY <1>5, <1>7, <1>8, <3>1, <3>2, <4>1
    <3>3. CASE i # 1
      <4>1. i \in 2..(n + 2) /\ i - 1 \in 1..n /\ i \in 1..(n + 1)
        BY <1>8, <3>3
      <4>2. M[i + 1] = L[i] /\ M[i] = L[i - 1] /\ (i - 1) + 1 = i
        BY <1>8, <1>9, <4>1
      <4>3. prv[L[(i - 1) + 1]] = L[i - 1]
        BY <4>1 DEF Linked, Whole
      <4> QED BY <1>7, <3>1, <4>1, <4>2, <4>3
    <3> QED BY <3>2, <3>3
  <2>3. prv'[M[1]] = Head /\ \A u \in Threads : pc'[u] # "link_head"
    BY <1>2, <1>7, <1>8 DEF Linking
  <2> QED BY <1>10, <2>1, <2>2, <2>3 DEF Whole
<1>13. ASSUME NEW u \in Threads, pc'[u] = "walk" PROVE Walker(M, m, u)'
  <2>1. pc[u] = "walk"
    BY <1>1, <1>13 DEF Typed, TypeOK
  <2>2. PICK i \in 1..(n + 1) :
          /\ Stands(L, i, at[u])
          /\ u \notin moved =>
               \E j \in 1..n : name[L[j]] = target[u] /\ (stored[L[j]] > 0 => i <= j)
    BY <2>1 DEF Linked, Walker
  <2>3. PICK k \in 1..(m + 1) : Stands(M, k, at[u])' /\ k <= i + 1
    <3>1. CASE at[u] = L[i]
      <4>1. i + 1 \in 1..(m + 1) /\ M[i + 1] = L[i]
        BY <1>8
      <4> QED BY <1>1, <3>1, <4>1 DEF Stands
    <3>2. CASE at[u] = e
      <4>1. 1 \in 1..(m + 1) /\ 1 <= i + 1
        BY <1>8
      <4> QED BY <1>1, <1>8, <3>2, <4>1 DEF Stands
    <3> QED BY <1>3, <2>2, <3>1, <3>2 DEF Stands
  <2>4. ASSUME u \notin moved'
        PROVE  \E j \in 1..m : name'[M[j]] = target'[u] /\ (stored'[M[j]] > 0 => k <= j)
    <3>1. PICK j \in 1..n : name[L[j]] = target[u] /\ (stored[L[j]] > 0 => i <= j)
      BY <1>1, <2>2, <2>4
    <3>2. j + 1 \in 1..m /\ j \in 1..(n + 1)
      BY <1>8
    <3>3. M[j + 1] = L[j]
      BY <1>8, <3>2
    <3>4. i <= j => k <= j + 1
      BY <1>8, <2>3
    <3> QED BY <1>1, <3>1, <3>2, <3>3, <3>4
  <2> QED BY <2>3, <2>4 DEF Walker
<1>14. Linked(M, m)'
  BY <1>12, <1>13 DEF Linked
<1> QED BY <1>8, <1>14

\* Every step leaves a chain behind that every walk follows.
LEMMA ListStep ==
  ASSUME IInv, NEW t \in Threads, InsertServer(t) \/ GetResource(t) \/ Dispatch(t)
  PROVE  ListInv'
<1>1. PICK n \in Nat : \E L \in [0..(n + 1) -> Node] : Linked(L, n)
  BY DEF IInv, ListInv
<1>2. PICK L \in [0..(n + 1) -> Node] : Linked(L, n)
  BY <1>1
<1>3. Typed
  BY DEF IInv
<1>4. Linked(L, n)' => ListInv'
  BY DEF ListInv, Node
<1>5. (\E m \in Nat : \E M \in [0..(m + 1) -> Node] : Linked(M, m)') => ListInv'
  BY DEF ListInv, Node
<1>6. CASE FindServer(t) \/ Hit(t) \/ Expired(t) \/ Miss(t) \/ Dispatch(t)
  BY <1>2, <1>3, <1>4, <1>6, LinkedAside
<1>7. CASE NewServer(t)  BY <1>2, <1>4, <1>7, LinkedNew
<1>8. CASE Unlink(t)     BY <1>2, <1>3, <1>5, <1>8, LinkedUnlink
<1>9. CASE LinkEntry(t)  BY <1>2, <1>3, <1>4, <1>9, LinkedEntry
<1>10. CASE LinkHead(t)  BY <1>2, <1>3, <1>5, <1>10, LinkedHead
<1>11. CASE LockInsert(t) BY <1>2, <1>3, <1>4, <1>11, LinkedLock
<1>12. CASE WalkOn(t)    BY <1>2, <1>3, <1>4, <1>12, LinkedWalk
<1> QED BY <1>6, <1>7, <1>8, <1>9, <1>10, <1>11, <1>12 DEF InsertServer, GetResource

\* The invariant is inductive.
LEMMA InvStep == IInv /\ [Next]_vars => IInv'
<1> SUFFICES ASSUME IInv, [Next]_vars PROVE IInv'
  OBVIOUS
<1>1. ASSUME NEW t \in Threads, InsertServer(t) \/ GetResource(t) \/ Dispatch(t) PROVE IInv'
  BY <1>1, TypedStep, ListStep DEF IInv
<1>2. CASE UNCHANGED vars
  <2>1. Typed'
    BY <1>2 DEF vars, listVars, mutexVars, localVars, IInv, Typed, TypeOK, Locals
  <2>2. PICK n \in Nat : \E L \in [0..(n + 1) -> Node] : Linked(L, n)
    BY DEF IInv, ListInv
  <2>3. PICK L \in [0..(n + 1) -> Node] : Linked(L, n)
    BY <2>2
  <2>4. Off' = Off
    BY <1>2 DEF vars, Off, Linking
  <2>5. Whole(L, n)'
    BY <1>2, <2>3, <2>4, WholeStays DEF vars, Linked
  <2>6. Linked(L, n)'
    BY <1>2, <2>3, <2>4, <2>5, WalkersStay DEF vars, localVars
  <2>7. ListInv'
    BY <2>6 DEF ListInv, Node
  <2> QED BY <2>1, <2>7 DEF IInv
<1> QED BY <1>1, <1>2 DEF Next

\* It holds in every state of the program.
LEMMA Invariant == Spec => []IInv
BY InvInit, InvStep, PTL DEF Spec

-----------------------------------------------------------------------------
(* What the invariant says to a reader of the list *)

\* With the mutex free nothing is off the chain, and the prev pointers mirror it.
LEMMA SoundList == IInv => ListSound
<1> SUFFICES ASSUME IInv, server_mutex = Nobody
             PROVE  /\ \A e \in Entry : e \in Listed <=> name[e] # NoServer
                    /\ \A e, f \in Listed : name[e] = name[f] => e = f
                    /\ \A e \in Listed \cup {Head} : nxt[e] \in Listed \cup {Head} /\ prv[nxt[e]] = e
  BY DEF ListSound
<1>1. PICK n \in Nat : \E L \in [0..(n + 1) -> Node] : Linked(L, n)
  BY DEF IInv, ListInv
<1>2. PICK L \in [0..(n + 1) -> Node] : Linked(L, n)
  BY <1>1
<1>3. Listed = InChain(L, n) /\ Listed = {e \in Entry : name[e] # NoServer}
  BY <1>2, ListedAll DEF IInv, Linked
<1>4. \A e, f \in Listed : name[e] = name[f] => e = f
  BY <1>3 DEF IInv, Typed, Locals
<1>5. ASSUME NEW e \in Listed \cup {Head}
      PROVE  nxt[e] \in Listed \cup {Head} /\ prv[nxt[e]] = e
  <2>1. PICK i \in 0..n : e = L[i]
    BY <1>2, <1>3 DEF InChain, Linked, Whole, Chain
  <2>2. nxt[e] = L[i + 1]
    BY <1>2, <2>1 DEF Linked, Whole, Chain
  <2>3. L[i + 1] \in Listed \cup {Head}
    <3>1. i + 1 \in 1..n \/ i + 1 = n + 1
      OBVIOUS
    <3> QED BY <1>2, <1>3, <3>1 DEF InChain, Linked, Whole, Chain
  <2>4. prv[L[i + 1]] = L[i]
    <3>1. \A t \in Threads : pc[t] # "link_head"
      BY ListAssumption DEF IInv, Typed, Locals, Holding
    <3>2. CASE i = 0
      BY <1>2, <3>1, <3>2 DEF Linked, Whole, Chain
    <3>3. CASE i # 0
      BY <1>2, <3>3 DEF Linked, Whole
    <3> QED BY <3>2, <3>3
  <2> QED BY <2>1, <2>2, <2>3, <2>4
<1> QED BY <1>3, <1>4, <1>5

(* The rest of the chain is the way out; from an entry off it, one step more, *)
(* and then the chain is shorter than the memory for entries.                 *)
LEMMA WayOutHolds == IInv => WayOut
<1> SUFFICES ASSUME IInv, NEW t \in Threads, pc[t] = "walk"
             PROVE  \E k \in 0..Cardinality(Entry) : Along(at[t])[k] = Head
  BY DEF WayOut
<1>1. PICK n \in Nat : \E L \in [0..(n + 1) -> Node] : Linked(L, n)
  BY DEF IInv, ListInv
<1>2. PICK L \in [0..(n + 1) -> Node] : Linked(L, n)
  BY <1>1
<1>0. PICK a \in Node : a = at[t]
  BY DEF IInv, Typed, TypeOK, Locals, Node
<1>3. PICK i \in 1..(n + 1) : Stands(L, i, a)
  BY <1>0, <1>2 DEF Linked, Walker
<1>4. nxt \in [Node -> Node \cup {NoEntry}] /\ a \in Node \cup {NoEntry}
  BY DEF IInv, Typed, TypeOK, Node
<1>5. Chain(L, n) /\ L[n + 1] = Head /\ n <= Cardinality(Entry) /\ Cardinality(Entry) \in Nat
  <2>1. Chain(L, n)
    BY <1>2 DEF Linked, Whole
  <2>2. n <= Cardinality(Entry) /\ Cardinality(Entry) \in Nat
    BY <1>4, <2>1, ChainListed
  <2> QED BY <2>1, <2>2 DEF Chain
<1>6. ASSUME NEW m \in Nat, Along(a)[m] = L[i] PROVE Along(a)[m + (n + 1 - i)] = Head
  <2>1. i \in 0..(n + 1) /\ n + 1 - i \in Nat /\ i + (n + 1 - i) = n + 1
    OBVIOUS
  <2>2. \A k \in Nat : i + k <= n + 1 => Along(a)[m + k] = L[i + k]
    BY <1>4, <1>5, <1>6, <2>1, AlongChain
  <2>3. Along(a)[m + (n + 1 - i)] = L[i + (n + 1 - i)]
    BY <2>1, <2>2
  <2> QED BY <1>5, <2>1, <2>3
<1>7. Along(a)[0] = a
  BY <1>4, AlongStep
<1>8. CASE a = L[i]
  <2>1. Along(a)[0 + (n + 1 - i)] = Head
    BY <1>6, <1>7, <1>8
  <2>2. 0 + (n + 1 - i) \in 0..Cardinality(Entry)
    BY <1>5
  <2> QED BY <1>0, <2>1, <2>2
<1>9. CASE a \in Off /\ nxt[a] = L[i]
  <2>1. a # NoEntry
    BY ListAssumption DEF Node
  <2>2. Along(a)[0 + 1] = L[i]
    BY <1>4, <1>7, <1>9, <2>1, AlongStep
  <2>3. Along(a)[1 + (n + 1 - i)] = Head
    BY <1>6, <2>2
  <2>4. n < Cardinality(Entry)
    <3>1. a \in Entry /\ a \notin InChain(L, n)
      BY <1>2, <1>9 DEF Linked, Whole, Off, Linking, IInv, Typed, Locals, Holding
    <3>2. IsFiniteSet(Entry \ {a}) /\ Cardinality(Entry \ {a}) = Cardinality(Entry) - 1
      BY <3>1, ListAssumption, FS_RemoveElement
    <3> DEFINE g == [k \in 1..n |-> L[k]]
    <3>3. g \in [1..n -> Entry \ {a}] /\ \A j, k \in 1..n : g[j] = g[k] => j = k
      BY <1>5, <3>1 DEF Chain, InChain
    <3>4. IsFiniteSet(1..n) /\ Cardinality(1..n) = n
      <4>1. Cardinality(1..n) = IF 1 > n THEN 0 ELSE n - 1 + 1
        BY FS_Interval, 1 \in Int, n \in Int
      <4> QED BY <4>1, FS_Interval
    <3> HIDE DEF g
    <3>5. ~(Cardinality(Entry \ {a}) < n)
      BY <3>2, <3>3, <3>4, FS_PigeonHole
    <3> QED BY <1>5, <3>2, <3>5
  <2>5. 1 + (n + 1 - i) \in 0..Cardinality(Entry)
    BY <1>5, <2>4
  <2> QED BY <1>0, <2>3, <2>5
<1> QED BY <1>0, <1>3, <1>8, <1>9 DEF Stands

\* A walk at the head has passed every entry of the chain.
LEMMA MissHolds == IInv => MissMeansMoved
<1> SUFFICES ASSUME IInv, NEW t \in Threads, pc[t] = "walk", at[t] = Head, t \notin moved,
                    NEW e \in Entry, name[e] = target[t]
             PROVE  stored[e] = 0
  BY DEF MissMeansMoved
<1>1. PICK n \in Nat : \E L \in [0..(n + 1) -> Node] : Linked(L, n)
  BY DEF IInv, ListInv
<1>2. PICK L \in [0..(n + 1) -> Node] : Linked(L, n)
  BY <1>1
<1>3. PICK i \in 1..(n + 1) :
        /\ Stands(L, i, at[t])
        /\ \E j \in 1..n : name[L[j]] = target[t] /\ (stored[L[j]] > 0 => i <= j)
  BY <1>2 DEF Linked, Walker
<1>4. PICK j \in 1..n : name[L[j]] = target[t] /\ (stored[L[j]] > 0 => i <= j)
  BY <1>3
<1>5. \A k \in 1..n : L[k] \in Entry
  BY <1>2 DEF Linked, Whole, Chain
<1>6. Head \notin Off
  BY ListAssumption DEF Off, Linking, IInv, Typed, Locals, Holding
<1>7. i = n + 1
  <2>1. i \in 1..n \/ i = n + 1
    OBVIOUS
  <2> QED BY <1>3, <1>5, <1>6, <2>1, ListAssumption DEF Stands
<1>8. ~(stored[L[j]] > 0)
  BY <1>4, <1>7
<1>9. e = L[j]
  <2>1. target[t] \in Servers /\ target[t] # NoServer
    BY ListAssumption DEF IInv, Typed, Locals
  <2> QED BY <1>4, <1>5, <2>1 DEF IInv, Typed, Locals
<1> QED BY <1>8, <1>9 DEF IInv, Typed, TypeOK

-----------------------------------------------------------------------------
(* The theorems *)

(* The types of the list and of the threads' locals, for any number of        *)
(* dispatchers, servers and entries.                                          *)
THEOREM ListTypeCorrect == Spec => []TypeOK
<1>1. IInv => TypeOK
  BY DEF IInv, Typed
<1> QED BY <1>1, Invariant, PTL

(* list_del and list_add under server_mutex keep the list of servers whole,   *)
(* whatever walks under the other mutex do: ListSound.                        *)
THEOREM ListStaysSound == Spec => []ListSound
BY SoundList, Invariant, PTL

(* A walk of getResource always has a way to the end of the list, although    *)
(* the entry it stands on may be unlinked and linked again under it: WayOut.  *)
THEOREM WalksHaveAWayOut == Spec => []WayOut
BY WayOutHolds, Invariant, PTL

(* getResource misses a resource that is there only if the entry of its own   *)
(* server was moved during the walk: MissMeansMoved.                          *)
THEOREM MissNeedsAMove == Spec => []MissMeansMoved
BY MissHolds, Invariant, PTL
=============================================================================
