------------------------- MODULE RequestQueueProofs -------------------------
(***************************************************************************)
(* Proofs about the request list, for any number of threads, any capacity  *)
(* and with or without spurious wakeups and failing allocations.           *)
(***************************************************************************)
EXTENDS RequestQueue, TLAPS

\* An inserter owns its request until it is in the list; a dispatcher inside popReq
\* has freed its previous request.
Locals ==
    /\ \A t \in Threads :
         pc[t] \in {"lock_full", "test_full", "sleep_full", "wait_full", "wake_full", "add"}
            => arg[t] \in Request
    /\ \A d \in Dispatchers :
         pc[d] \in {"lock_empty", "test_empty", "sleep_empty", "wait_empty", "wake_empty",
                    "guard", "take", "unlink"}
            => held[d] = NoReq

Typed == TypeOK /\ Locals

(* The types, and what each thread's locals hold at each of its steps. *)
LEMMA TypedInit == Init => Typed
<1> SUFFICES ASSUME Init PROVE Typed
  OBVIOUS
<1> USE DEF Init
<1>1. full_mutex \in BOOLEAN /\ empty_mutex \in BOOLEAN /\ alive \in BOOLEAN /\ broken \in BOOLEAN
  OBVIOUS
<1>2. n_req \in Int /\ request_list \in Seq(Request)
  OBVIOUS
<1>3. /\ pc \in [Threads -> {"out"} \cup InsertPC \cup PopPC]
      /\ \A t \in Acceptors : pc[t] \notin PopPC
  BY DEF PopPC, Threads
<1>4. Locals
  BY DEF Locals
<1> QED BY <1>1, <1>2, <1>3, <1>4 DEF Typed, TypeOK

LEMMA TypedInsert == ASSUME Typed, NEW t \in Threads, InsertStep(t) PROVE Typed'
<1> USE QueueAssumption DEF Typed, TypeOK, Locals, Threads, InsertPC, PopPC, Goto, shared
<1>1. ASSUME NEW r \in Request, CallInsert(t, r) PROVE Typed'
  BY <1>1 DEF CallInsert
<1>2. CASE LockFull(t)  BY <1>2 DEF LockFull
<1>3. CASE TestFull(t)  BY <1>3 DEF TestFull
<1>4. CASE SleepFull(t) BY <1>4 DEF SleepFull
<1>5. CASE WakeFull(t)  BY <1>5 DEF WakeFull
<1>6. CASE Add(t)
  <2>1. arg[t] \in Request /\ pc[t] = "add"
    BY <1>6 DEF Add
  <2>2. Append(request_list, arg[t]) \in Seq(Request)
    BY <2>1
  <2>3. request_list' \in Seq(Request)
    BY <1>6, <2>2 DEF Add
  <2> HIDE DEF TypeOK
  <2>4. TypeOK'
    BY <1>6, <2>3 DEF Add, TypeOK
  <2>5. Locals'
    BY <1>6, <2>1 DEF Add, TypeOK
  <2> QED BY <2>4, <2>5
<1>7. CASE Count(t)     BY <1>7 DEF Count
<1>8. CASE SignalEmpty(t) BY <1>8 DEF SignalEmpty, Signal
<1>9. CASE UnlockEmpty(t) BY <1>9 DEF UnlockEmpty
<1> QED BY <1>1, <1>2, <1>3, <1>4, <1>5, <1>6, <1>7, <1>8, <1>9 DEF InsertStep

LEMMA TypedPop == ASSUME Typed, NEW d \in Dispatchers, PopStep(d) PROVE Typed'
<1> USE QueueAssumption DEF Typed, TypeOK, Locals, Threads, InsertPC, PopPC, Goto, shared
<1>1. CASE CallPop(d)    BY <1>1 DEF CallPop
<1>2. CASE LockEmpty(d)  BY <1>2 DEF LockEmpty, Enter
<1>3. CASE WakeEmpty(d)  BY <1>3 DEF WakeEmpty, Enter
<1>4. CASE TestEmpty(d)  BY <1>4 DEF TestEmpty
<1>5. CASE SleepEmpty(d) BY <1>5 DEF SleepEmpty
<1>6. CASE Guard(d)
  <2>1. CASE Goto(d, "guard", "take") /\ UNCHANGED held
    BY <1>6, <2>1 DEF Guard
  <2>2. CASE /\ Goto(d, "guard", "unlock_full") /\ broken' = TRUE
             /\ held' = [held EXCEPT ![d] = Indeterminate]
    BY <1>6, <2>2 DEF Guard
  <2> QED BY <1>6, <2>1, <2>2 DEF Guard
<1>7. CASE TakeHead(d)   BY <1>7 DEF TakeHead
<1>8. CASE Unlink(d)
  <2>1. request_list # <<>> => Tail(request_list) \in Seq(Request)
    OBVIOUS
  <2>2. request_list' \in Seq(Request)
    BY <1>8, <2>1 DEF Unlink, UnlinkHead, FollowNull, UseFreed
  <2>3. held' \in [Dispatchers -> Request \cup {NoReq, Indeterminate}]
    BY <1>8 DEF Unlink, UnlinkHead, FollowNull, UseFreed
  <2>4. element' \in [Dispatchers -> Request \cup {NoReq}] /\ alive' \in BOOLEAN
    BY <1>8 DEF Unlink, UnlinkHead, FollowNull, UseFreed
  <2>5. \A e \in Dispatchers : e # d => held'[e] = held[e]
    BY <1>8 DEF Unlink, UnlinkHead, FollowNull, UseFreed
  <2>6. /\ pc' = [pc EXCEPT ![d] = "discount"]
        /\ UNCHANGED <<full_mutex, empty_mutex, n_req, arg, broken>>
    BY <1>8 DEF Unlink
  <2> HIDE DEF TypeOK
  <2>7. TypeOK'
    BY <2>2, <2>3, <2>4, <2>6 DEF TypeOK
  <2>8. Locals'
    BY <2>5, <2>6 DEF TypeOK
  <2> QED BY <2>7, <2>8
<1>9. CASE Discount(d)   BY <1>9 DEF Discount
<1>10. CASE SignalFull(d) BY <1>10 DEF SignalFull, Signal
<1>11. CASE UnlockFull(d) BY <1>11 DEF UnlockFull
<1>12. CASE FreeReq(d)    BY <1>12 DEF FreeReq
<1> QED BY <1>1, <1>2, <1>3, <1>4, <1>5, <1>6, <1>7, <1>8, <1>9, <1>10, <1>11, <1>12
        DEF PopStep

LEMMA TypedStep == Typed /\ [Next]_vars => Typed'
<1> SUFFICES ASSUME Typed, [Next]_vars PROVE Typed'
  OBVIOUS
<1>1. ASSUME NEW t \in Threads, InsertStep(t) PROVE Typed'
  BY <1>1, TypedInsert
<1>2. ASSUME NEW d \in Dispatchers, PopStep(d) PROVE Typed'
  BY <1>2, TypedPop
<1>3. ASSUME NEW t \in Threads, Spurious(t) PROVE Typed'
  BY <1>3, QueueAssumption
  DEF Spurious, Typed, TypeOK, Locals, Threads, InsertPC, PopPC, Goto, shared
<1>4. CASE UNCHANGED vars
  BY <1>4 DEF vars, shared, Typed, TypeOK, Locals
<1> QED BY <1>1, <1>2, <1>3, <1>4 DEF Next
-----------------------------------------------------------------------------
(* The hand-over, one action at a time. *)

LEMMA OneElement ==
  ASSUME NEW s \in Seq(Request), Len(s) = 1
  PROVE  s # <<>> /\ s[1] \in Request /\ 1 \in DOMAIN s
<1>1. s # <<>>
  OBVIOUS
<1>2. 1 \in DOMAIN s
  OBVIOUS
<1> QED BY <1>1, <1>2

\* Before the first overlap an element is unlinked by the thread that read it.
LEMMA UnlinksHead ==
  ASSUME Typed, HandOver, ~broken', NEW d \in Dispatchers, Unlink(d)
  PROVE  /\ UnlinkHead(d) /\ ~broken /\ pc[d] = "unlink" /\ n_req = 1
         /\ Len(request_list) = 1
         /\ element[d] = request_list[1] /\ element[d] \in Request
         /\ pc' = [pc EXCEPT ![d] = "discount"]
         /\ UNCHANGED <<full_mutex, empty_mutex, n_req, arg>>
         /\ \A e \in Dispatchers : Inside(e) => e = d
<1> USE DEF Typed, TypeOK
<1>1. /\ ~broken /\ pc[d] = "unlink" /\ pc' = [pc EXCEPT ![d] = "discount"]
      /\ UNCHANGED <<full_mutex, empty_mutex, n_req, arg>>
  BY DEF Unlink, Goto
<1>2. n_req = 1 /\ element[d] = request_list[1]
  BY <1>1 DEF HandOver
<1>3. Len(request_list) = 1
  BY <1>1, <1>2 DEF HandOver, Inside
<1>4. request_list # <<>> /\ element[d] \in Request
  BY <1>2, <1>3, OneElement
<1>5. element[d] = Head(request_list) /\ element[d] # NoReq
  BY <1>2, <1>4, QueueAssumption
<1>6. UnlinkHead(d)
  BY <1>4, <1>5 DEF Unlink, FollowNull, UseFreed
<1>7. \A e \in Dispatchers : Inside(e) => e = d
  BY <1>1 DEF HandOver, Inside
<1> QED BY <1>1, <1>2, <1>3, <1>4, <1>6, <1>7

LEMMA HandOverInsert ==
  ASSUME Typed, HandOver, ~broken', NEW t \in Threads, InsertStep(t) PROVE HandOver'
<1> USE QueueAssumption DEF Typed, TypeOK, Threads, Goto, shared, HandOver, Owns, Inside
<1>1. ASSUME NEW r \in Request, CallInsert(t, r) PROVE HandOver'
  BY <1>1 DEF CallInsert
<1>2. CASE LockFull(t)  BY <1>2 DEF LockFull
<1>3. CASE TestFull(t)  BY <1>3 DEF TestFull
<1>4. CASE SleepFull(t) BY <1>4 DEF SleepFull
<1>5. CASE WakeFull(t)  BY <1>5 DEF WakeFull
<1>6. CASE Add(t)
  <2>1. ~broken /\ arg[t] \in Request /\ pc[t] = "add"
    BY <1>6 DEF Add, Locals
  <2>2. n_req = 0 /\ full_mutex /\ \A u \in Threads : Owns(u) => u = t
    BY <2>1
  <2>3. Len(request_list) = 0 /\ \A d \in Dispatchers : pc[d] \notin {"take", "unlink", "discount"}
    BY <2>1, <2>2
  <2>4. CASE pc' = [pc EXCEPT ![t] = "count"] /\ request_list' = Append(request_list, arg[t])
    <3>1. Len(request_list') = 1
      BY <2>1, <2>3, <2>4
    <3> QED BY <1>6, <2>1, <2>2, <2>3, <2>4, <3>1 DEF Add
  <2>5. CASE pc' = [pc EXCEPT ![t] = "unlock_empty"] /\ request_list' = request_list
    BY <1>6, <2>1, <2>2, <2>3, <2>5 DEF Add
  <2> QED BY <1>6, <2>4, <2>5 DEF Add
<1>7. CASE Count(t)     BY <1>7 DEF Count
<1>8. CASE SignalEmpty(t) BY <1>8 DEF SignalEmpty, Signal
<1>9. CASE UnlockEmpty(t) BY <1>9 DEF UnlockEmpty
<1> QED BY <1>1, <1>2, <1>3, <1>4, <1>5, <1>6, <1>7, <1>8, <1>9 DEF InsertStep

LEMMA HandOverPop ==
  ASSUME Typed, HandOver, ~broken', NEW d \in Dispatchers, PopStep(d) PROVE HandOver'
<1> USE QueueAssumption DEF Typed, TypeOK, Threads, Goto, shared, HandOver, Owns, Inside
<1>1. CASE CallPop(d)    BY <1>1 DEF CallPop
<1>2. CASE LockEmpty(d)  BY <1>2 DEF LockEmpty, Enter
<1>3. CASE WakeEmpty(d)  BY <1>3 DEF WakeEmpty, Enter
<1>4. CASE TestEmpty(d)  BY <1>4 DEF TestEmpty
<1>5. CASE SleepEmpty(d) BY <1>5 DEF SleepEmpty
<1>6. CASE Guard(d)      BY <1>6 DEF Guard
<1>7. CASE TakeHead(d)   BY <1>7 DEF TakeHead
<1>8. CASE Unlink(d)
  <2>1. \A e \in Dispatchers : Inside(e) => e = d
    BY <1>8, UnlinksHead
  <2>2. UnlinkHead(d) /\ ~broken /\ pc[d] = "unlink" /\ n_req = 1 /\ Len(request_list) = 1
    BY <1>8, UnlinksHead
  <2>3. request_list # <<>>
    BY <2>2, OneElement
  <2>4. /\ pc' = [pc EXCEPT ![d] = "discount"]
        /\ request_list' = Tail(request_list)
        /\ element' = [element EXCEPT ![d] = NoReq]
        /\ UNCHANGED <<alive, n_req, full_mutex>>
    BY <1>8, <2>2, UnlinksHead DEF UnlinkHead
  <2>5. Len(request_list') = 0
    BY <2>2, <2>3, <2>4
  <2> QED BY <2>1, <2>2, <2>4, <2>5
<1>9. CASE Discount(d)   BY <1>9 DEF Discount
<1>10. CASE SignalFull(d) BY <1>10 DEF SignalFull, Signal
<1>11. CASE UnlockFull(d) BY <1>11 DEF UnlockFull
<1>12. CASE FreeReq(d)    BY <1>12 DEF FreeReq
<1> QED BY <1>1, <1>2, <1>3, <1>4, <1>5, <1>6, <1>7, <1>8, <1>9, <1>10, <1>11, <1>12
        DEF PopStep

LEMMA HandOverStep == Typed /\ HandOver /\ [Next]_vars => HandOver'
<1> SUFFICES ASSUME Typed, HandOver, [Next]_vars, ~broken' PROVE HandOver'
  BY DEF HandOver
<1>1. ASSUME NEW t \in Threads, InsertStep(t) PROVE HandOver'
  BY <1>1, HandOverInsert
<1>2. ASSUME NEW d \in Dispatchers, PopStep(d) PROVE HandOver'
  BY <1>2, HandOverPop
<1>3. ASSUME NEW t \in Threads, Spurious(t) PROVE HandOver'
  BY <1>3, QueueAssumption
  DEF Spurious, Typed, TypeOK, Threads, Goto, shared, HandOver, Owns, Inside
<1>4. CASE UNCHANGED vars
  BY <1>4 DEF vars, shared, HandOver, Owns, Inside
<1> QED BY <1>1, <1>2, <1>3, <1>4 DEF Next

-----------------------------------------------------------------------------
(* Ownership of the request structures. *)

LEMMA OneOwnerStep == Typed /\ HandOver /\ OneOwner /\ [Next]_vars => OneOwner'
<1> SUFFICES ASSUME Typed, HandOver, OneOwner, [Next]_vars, ~broken' PROVE OneOwner'
  BY DEF OneOwner
<1> USE QueueAssumption DEF Typed, TypeOK, Threads, Goto, shared, OneOwner
<1>1. ASSUME NEW t \in Threads, NEW r \in Request, CallInsert(t, r) PROVE OneOwner'
  BY <1>1 DEF CallInsert, Free
<1>2. ASSUME NEW t \in Threads, Add(t) PROVE OneOwner'
  <2>1. ~broken /\ arg[t] \in Request /\ pc[t] = "add"
    BY <1>2 DEF Add, Locals
  <2>2. n_req = 0 /\ \A u \in Threads : pc[u] # "count"
    BY <2>1 DEF HandOver, Owns
  <2>3. Len(request_list) = 0
    BY <2>1, <2>2 DEF HandOver
  <2>4. \/ request_list' = request_list
        \/ request_list' = Append(request_list, arg[t])
    BY <1>2 DEF Add
  <2>5. \A i \in DOMAIN request_list' : request_list'[i] = arg[t]
    BY <2>1, <2>3, <2>4
  <2>6. arg' = [arg EXCEPT ![t] = NoReq] /\ held' = held
    BY <1>2 DEF Add
  <2> QED BY <2>1, <2>5, <2>6
<1>3. ASSUME NEW d \in Dispatchers, Unlink(d) PROVE OneOwner'
  <2>1. ~broken /\ UnlinkHead(d) /\ arg' = arg /\ element[d] = request_list[1]
    BY <1>3, UnlinksHead
  <2>3. Len(request_list) = 1
    BY <1>3, UnlinksHead
  <2>4. 1 \in DOMAIN request_list /\ request_list # <<>> /\ element[d] \in Request
    BY <2>1, <2>3, OneElement
  <2>5. /\ request_list' = Tail(request_list)
        /\ held' = [held EXCEPT ![d] = request_list[1]]
    BY <2>1 DEF UnlinkHead
  <2>6. DOMAIN request_list' = {}
    BY <2>3, <2>4, <2>5
  <2> QED BY <2>1, <2>4, <2>5, <2>6
<1>4. ASSUME NEW d \in Dispatchers, FreeReq(d) PROVE OneOwner'
  BY <1>4 DEF FreeReq
<1>5. CASE UNCHANGED <<request_list, arg, held, broken>>
  BY <1>5
<1>6. ASSUME NEW d \in Dispatchers, Guard(d) PROVE UNCHANGED <<request_list, arg, held, broken>>
  BY <1>6 DEF Guard
<1>7. ASSUME NEW d \in Dispatchers, LockEmpty(d) \/ WakeEmpty(d) PROVE OneOwner'
  BY <1>7 DEF LockEmpty, WakeEmpty, Enter
<1> HIDE DEF Typed, TypeOK, OneOwner
<1>8. ASSUME NEW t \in Threads, InsertStep(t) PROVE OneOwner'
  BY <1>1, <1>2, <1>5, <1>8 DEF InsertStep, LockFull, TestFull, SleepFull, WakeFull,
     Count, SignalEmpty, UnlockEmpty
<1>9. ASSUME NEW d \in Dispatchers, PopStep(d) PROVE OneOwner'
  BY <1>3, <1>4, <1>5, <1>6, <1>7, <1>9 DEF PopStep, CallPop, TestEmpty, SleepEmpty,
     TakeHead, Discount, SignalFull, UnlockFull
<1>10. ASSUME NEW t \in Threads, Spurious(t) PROVE OneOwner'
  BY <1>5, <1>10 DEF Spurious
<1>11. CASE UNCHANGED vars
  BY <1>5, <1>11 DEF vars
<1> QED BY <1>8, <1>9, <1>10, <1>11 DEF Next

-----------------------------------------------------------------------------
(* The invariants of every behaviour. *)

QueueInv == Typed /\ HandOver /\ OneOwner

LEMMA QueueInvInit == Init => QueueInv
<1> SUFFICES ASSUME Init PROVE QueueInv
  OBVIOUS
<1>1. Typed
  BY TypedInit
<1>2. HandOver
  <2>1. Len(request_list) = 0
    BY DEF Init
  <2>2. alive /\ n_req = 0
    BY DEF Init
  <2>3. \A t \in Threads : pc[t] = "out"
    BY DEF Init
  <2> QED BY <2>1, <2>2, <2>3 DEF HandOver, Owns, Inside, Threads
<1>3. OneOwner
  BY QueueAssumption DEF Init, OneOwner
<1> QED BY <1>1, <1>2, <1>3 DEF QueueInv

LEMMA QueueInvStep == QueueInv /\ [Next]_vars => QueueInv'
BY TypedStep, HandOverStep, OneOwnerStep DEF QueueInv

LEMMA QueueInvariance == Spec => []QueueInv
BY QueueInvInit, QueueInvStep, PTL DEF Spec

(* The variables of Request.c and the locals of its threads keep their types. *)
THEOREM TypeCorrect == Spec => []TypeOK
<1>1. QueueInv => TypeOK
  BY DEF QueueInv, Typed
<1> QED BY <1>1, QueueInvariance, PTL

(* Whatever the number of dispatchers and MAXREQ, the two mutexes make the    *)
(* list a hand-over of at most one request, until the first overlap.          *)
THEOREM HandOverHolds == Spec => []HandOver
<1>1. QueueInv => HandOver
  BY DEF QueueInv
<1> QED BY <1>1, QueueInvariance, PTL

(* No request has two owners, until the first overlap inside popReq.          *)
THEOREM OneOwnerHolds == Spec => []OneOwner
<1>1. QueueInv => OneOwner
  BY DEF QueueInv
<1> QED BY <1>1, QueueInvariance, PTL

-----------------------------------------------------------------------------
(* Refinement.  Only four steps are visible in OneSlot: the list_add_tail of  *)
(* insertReq is its Put, or its Fail when malloc fails, the list_del of       *)
(* popReq its Take, free(req) its Release.  Every other step leaves the list, *)
(* the taken requests and the jam alone.                                      *)

SlotNext == [Slot!Next]_<<Waiting, held, Jammed, broken>>

LEMMA SlotInit == Init => Slot!Init
BY DEF Init, Slot!Init, Waiting, Jammed

LEMMA AddPuts == ASSUME QueueInv, ~broken', NEW t \in Threads, Add(t) PROVE SlotNext
<1> USE DEF QueueInv, Typed, TypeOK
<1>1. /\ ~broken /\ ~broken' /\ arg[t] \in Request /\ pc[t] = "add"
      /\ UNCHANGED <<full_mutex, n_req, held>>
  BY DEF Add, Locals, Goto
<1>2. full_mutex /\ n_req = 0 /\ \A u \in Threads : Owns(u) => u = t
  BY <1>1 DEF HandOver, Owns
<1>3. Len(request_list) = 0
  BY <1>1, <1>2 DEF HandOver, Owns
<1>4. Waiting = NoReq /\ ~Jammed
  BY <1>1, <1>3 DEF Waiting, Jammed, Owns
<1>5. CASE pc' = [pc EXCEPT ![t] = "count"] /\ request_list' = Append(request_list, arg[t])
  <2>1. request_list' # <<>> /\ request_list'[1] = arg[t]
    <3>1. request_list = <<>>
      BY <1>3
    <3> QED BY <1>5, <3>1
  <2>2. Waiting' = arg[t] /\ Jammed' = Jammed
    BY <1>1, <1>5, <2>1 DEF Waiting, Jammed, Owns
  <2>3. Slot!Put(arg[t])
    BY <1>1, <1>4, <2>2 DEF Slot!Put
  <2> QED BY <1>1, <2>3 DEF SlotNext, Slot!Next, Slot!Step
<1>6. CASE pc' = [pc EXCEPT ![t] = "unlock_empty"] /\ request_list' = request_list
  <2>1. \A u \in Threads : ~Owns(u)'
    BY <1>2, <1>6 DEF Owns
  <2>2. Waiting' = Waiting /\ Jammed'
    BY <1>1, <1>2, <1>6, <2>1 DEF Waiting, Jammed
  <2>3. Slot!Fail
    BY <1>1, <1>4, <2>2 DEF Slot!Fail
  <2> QED BY <1>1, <2>3 DEF SlotNext, Slot!Next, Slot!Step
<1> QED BY <1>5, <1>6 DEF Add, Goto

LEMMA UnlinkTakes == ASSUME QueueInv, ~broken', NEW d \in Dispatchers, Unlink(d) PROVE SlotNext
<1> USE DEF QueueInv, Typed, TypeOK
<1>1. /\ UnlinkHead(d) /\ ~broken /\ pc[d] = "unlink" /\ n_req = 1 /\ n_req' = n_req
      /\ Len(request_list) = 1
      /\ element[d] = request_list[1] /\ element[d] \in Request
  BY UnlinksHead
<1>2. held[d] = NoReq
  BY <1>1 DEF Locals
<1>3. Waiting = element[d] /\ Waiting # NoReq
  <2>1. request_list # <<>>
    BY <1>1, OneElement
  <2> QED BY <1>1, <2>1, QueueAssumption DEF Waiting
<1>7. Jammed' = Jammed
  BY <1>1 DEF Jammed
<1>4. request_list' = <<>> /\ held' = [held EXCEPT ![d] = element[d]]
  BY <1>1 DEF UnlinkHead
<1>5. Waiting' = NoReq
  BY <1>4 DEF Waiting
<1>6. Slot!Take(d)
  BY <1>2, <1>3, <1>4, <1>5, <1>7 DEF Slot!Take
<1> QED BY <1>1, <1>6 DEF SlotNext, Slot!Next, Slot!Step

\* What leaves the mutex, the counter and the ownership alone leaves the jam alone.
LEMMA NoOwnerKept ==
  ASSUME NEW t \in Threads, NEW from, NEW to, TypeOK, pc[t] = from, pc' = [pc EXCEPT ![t] = to],
         from \notin {"test_full", "add", "count", "signal_full", "unlock_full"},
         to \notin {"test_full", "add", "count", "signal_full", "unlock_full"},
         UNCHANGED <<full_mutex, n_req>>
  PROVE  Jammed' = Jammed
<1>1. \A u \in Threads : Owns(u)' <=> Owns(u)
  BY DEF Owns, TypeOK
<1> QED BY <1>1 DEF Jammed

\* An owner before, and an owner, a request or a free mutex after: jammed neither time.
LEMMA OwnerKept ==
  ASSUME NEW t \in Threads, Owns(t) \/ ~full_mutex \/ n_req # 0,
         Owns(t)' \/ ~full_mutex' \/ n_req' # 0
  PROVE  Jammed' = Jammed
BY DEF Jammed

LEMMA InsertKeepsJam ==
  ASSUME QueueInv, ~broken', NEW t \in Threads, InsertStep(t), ~Add(t) PROVE Jammed' = Jammed
<1> USE DEF QueueInv, Typed, TypeOK, Goto, shared, Threads
<1>1. ASSUME NEW r \in Request, CallInsert(t, r) PROVE Jammed' = Jammed
  BY <1>1, NoOwnerKept DEF CallInsert
<1>2. CASE LockFull(t)    BY <1>2, OwnerKept DEF LockFull, Owns
<1>3. CASE TestFull(t)
  <2>1. ~broken /\ pc[t] = "test_full"
    BY <1>3 DEF TestFull
  <2>2. n_req = 0 /\ n_req # MAXREQ
    BY <2>1, QueueAssumption DEF HandOver, Owns
  <2> QED BY <1>3, <2>1, <2>2, OwnerKept DEF TestFull, Owns
<1>4. CASE SleepFull(t) \/ WakeFull(t)
  BY <1>4 DEF SleepFull, WakeFull, HandOver
<1>5. CASE Count(t)
  <2>1. ~broken /\ pc[t] = "count" /\ n_req' = n_req + 1
    BY <1>5 DEF Count
  <2>2. n_req = 0
    BY <2>1 DEF HandOver, Owns
  <2> QED BY <2>1, <2>2, OwnerKept DEF Owns
<1>6. CASE SignalEmpty(t)
  <2>1. \A u \in Threads : Owns(u)' <=> Owns(u)
    BY <1>6 DEF SignalEmpty, Signal, Owns
  <2> QED BY <1>6, <2>1 DEF SignalEmpty, Jammed
<1>7. CASE UnlockEmpty(t) BY <1>7, NoOwnerKept DEF UnlockEmpty
<1> QED BY <1>1, <1>2, <1>3, <1>4, <1>5, <1>6, <1>7 DEF InsertStep

LEMMA PopKeepsJam ==
  ASSUME QueueInv, ~broken', NEW d \in Dispatchers, PopStep(d) PROVE Jammed' = Jammed
<1> USE DEF QueueInv, Typed, TypeOK, Goto, shared, Threads
<1>1. CASE CallPop(d)    BY <1>1, NoOwnerKept DEF CallPop
<1>2. CASE LockEmpty(d)  BY <1>2, NoOwnerKept DEF LockEmpty, Enter
<1>3. CASE WakeEmpty(d)  BY <1>3, NoOwnerKept DEF WakeEmpty, Enter
<1>4. CASE TestEmpty(d)  BY <1>4, NoOwnerKept DEF TestEmpty
<1>5. CASE SleepEmpty(d) BY <1>5, NoOwnerKept DEF SleepEmpty
<1>6. CASE Guard(d)      BY <1>6, NoOwnerKept DEF Guard
<1>7. CASE TakeHead(d)   BY <1>7, NoOwnerKept DEF TakeHead
<1>8. CASE Unlink(d)     BY <1>8, UnlinksHead, NoOwnerKept DEF Unlink
<1>9. CASE Discount(d)
  <2>1. ~broken /\ pc[d] = "discount"
    BY <1>9 DEF Discount
  <2>2. n_req = 1
    BY <2>1 DEF HandOver
  <2>3. Owns(d)'
    BY <1>9 DEF Discount, Owns
  <2> QED BY <2>2, <2>3, OwnerKept
<1>10. CASE SignalFull(d)
  <2>1. Owns(d) /\ Owns(d)'
    BY <1>10 DEF SignalFull, Signal, Owns
  <2> QED BY <2>1, OwnerKept
<1>11. CASE UnlockFull(d) BY <1>11, OwnerKept DEF UnlockFull, Owns
<1>12. CASE FreeReq(d)    BY <1>12 DEF FreeReq, Jammed, Owns
<1> QED BY <1>1, <1>2, <1>3, <1>4, <1>5, <1>6, <1>7, <1>8, <1>9, <1>10, <1>11, <1>12
        DEF PopStep

LEMMA FreeReleases ==
  ASSUME QueueInv, ~broken', NEW d \in Dispatchers, FreeReq(d) PROVE SlotNext
<1>1. ~broken /\ Waiting' = Waiting
  BY DEF FreeReq, shared, Waiting
<1>2. Jammed' = Jammed
  BY PopKeepsJam DEF PopStep
<1>3. Slot!Release(d)
  BY <1>1, <1>2 DEF FreeReq, Slot!Release
<1> QED BY <1>1, <1>3 DEF SlotNext, Slot!Next, Slot!Step

LEMMA SlotStep == QueueInv /\ [Next]_vars => SlotNext
<1> SUFFICES ASSUME QueueInv, [Next]_vars, ~broken' PROVE SlotNext
  BY DEF SlotNext, Slot!Next
<1>1. ASSUME UNCHANGED <<request_list, held, broken>>, Jammed' = Jammed PROVE SlotNext
  BY <1>1 DEF SlotNext, Waiting
<1>2. ASSUME NEW d \in Dispatchers, LockEmpty(d) \/ WakeEmpty(d) \/ Guard(d)
      PROVE  UNCHANGED <<request_list, held, broken>>
  BY <1>2 DEF QueueInv, Typed, TypeOK, LockEmpty, WakeEmpty, Enter, Guard, shared
<1>3. ASSUME NEW t \in Threads, InsertStep(t) PROVE SlotNext
  <2>1. CASE ~Add(t)
    <3>1. Jammed' = Jammed
      BY <1>3, <2>1, InsertKeepsJam
    <3>2. UNCHANGED <<request_list, held, broken>>
      BY <1>3, <2>1 DEF InsertStep, CallInsert, LockFull, TestFull, SleepFull,
         WakeFull, Count, SignalEmpty, UnlockEmpty, shared
    <3> QED BY <1>1, <3>1, <3>2
  <2> QED BY <2>1, AddPuts
<1>4. ASSUME NEW d \in Dispatchers, PopStep(d) PROVE SlotNext
  <2>1. CASE ~Unlink(d) /\ ~FreeReq(d)
    <3>1. Jammed' = Jammed
      BY <1>4, PopKeepsJam
    <3>2. UNCHANGED <<request_list, held, broken>>
      BY <1>2, <1>4, <2>1 DEF PopStep, CallPop, TestEmpty, SleepEmpty, TakeHead, Discount,
         SignalFull, UnlockFull, shared
    <3> QED BY <1>1, <3>1, <3>2
  <2> QED BY <2>1, UnlinkTakes, FreeReleases
<1>5. ASSUME NEW t \in Threads, Spurious(t) PROVE SlotNext
  <2>1. UNCHANGED <<request_list, held, broken, full_mutex, n_req>> /\ ~broken
    BY <1>5 DEF Spurious, shared
  <2>2. \A u \in Threads : Owns(u)' <=> Owns(u)
    BY <1>5 DEF Spurious, Goto, Owns, QueueInv, Typed, TypeOK
  <2> QED BY <1>1, <2>1, <2>2 DEF Jammed
<1>6. CASE UNCHANGED vars
  <2>1. Jammed' = Jammed
    BY <1>6 DEF vars, shared, Jammed, Owns
  <2> QED BY <1>1, <1>6, <2>1 DEF vars, shared
<1> QED BY <1>3, <1>4, <1>5, <1>6 DEF Next

(* The list of Request.c implements the one-place buffer of OneSlot.          *)
THEOREM ListImplementsOneSlot == Spec => ImplementsOneSlot
BY SlotInit, SlotStep, QueueInvariance, PTL DEF Spec, Slot!Spec, SlotNext, ImplementsOneSlot
=============================================================================
