---------------------------- MODULE RequestQueue ----------------------------
(***************************************************************************)
(* The list of pending requests (Request.c), shared by the proxy thread    *)
(* and the dispatchers, one action per access to shared state.             *)
(*                                                                         *)
(* insertReq locks full_mutex and unlocks empty_mutex; popReq locks        *)
(* empty_mutex and unlocks full_mutex.  The mutexes are of the default     *)
(* kind: glibc lets any thread unlock them and ignores an unlock of a free *)
(* one, so a mutex is one bit and an unlock clears it.                     *)
(*                                                                         *)
(* n_req++ and n_req-- are single steps: HandOver (below) implies that no  *)
(* two of them ever overlap while "broken" is FALSE.                       *)
(***************************************************************************)
EXTENDS Integers, Sequences

CONSTANTS Acceptors,        \* threads that only insert: the proxy thread
          Dispatchers,      \* threads that pop and, from insertResource, insert
          Request,          \* request structures (freed and allocated again)
          MAXREQ,           \* Consts.h: the nominal capacity of the list
          NoReq,            \* no request
          Indeterminate,    \* the value of popReq's "ret" when nothing was assigned
          SpuriousWakeups,  \* may pthread_cond_wait return with no signal?
          MallocMayFail     \* may the malloc of insertReq return NULL?

Threads == Acceptors \cup Dispatchers

ASSUME QueueAssumption ==
    /\ Acceptors \cap Dispatchers = {}
    /\ MAXREQ \in Nat \ {0}
    /\ NoReq \notin Request /\ Indeterminate \notin Request /\ NoReq # Indeterminate
    /\ SpuriousWakeups \in BOOLEAN /\ MallocMayFail \in BOOLEAN

VARIABLES full_mutex,    \* TRUE when locked
          empty_mutex,   \* TRUE when locked
          n_req,         \* the counter
          request_list,  \* the list, as the requests of its elements
          pc,            \* the next step of each thread; "out" outside both functions
          arg,           \* arg[t]: the request t is inserting and still owns
          element,       \* element[d]: popReq's local pointer, as the element's request
          held,          \* held[d]: popReq's "ret", then requestDispatcher's "req"
          alive,         \* FALSE when the process was killed by a signal
          broken         \* history: two threads met inside popReq, or popReq found no request

shared == <<full_mutex, empty_mutex, n_req, request_list>>
vars == <<shared, pc, arg, element, held, alive, broken>>

InsertPC == {"lock_full", "test_full", "sleep_full", "wait_full", "wake_full", "add",
             "count", "signal_empty", "unlock_empty"}
PopPC == {"lock_empty", "test_empty", "sleep_empty", "wait_empty", "wake_empty", "guard",
          "take", "unlink", "discount", "signal_full", "unlock_full"}

TypeOK ==
    /\ full_mutex \in BOOLEAN /\ empty_mutex \in BOOLEAN
    /\ n_req \in Int
    /\ request_list \in Seq(Request)
    /\ pc \in [Threads -> {"out"} \cup InsertPC \cup PopPC]
    /\ \A t \in Acceptors : pc[t] \notin PopPC
    /\ arg \in [Threads -> Request \cup {NoReq}]
    /\ element \in [Dispatchers -> Request \cup {NoReq}]
    /\ held \in [Dispatchers -> Request \cup {NoReq, Indeterminate}]
    /\ alive \in BOOLEAN /\ broken \in BOOLEAN

Init ==
    /\ full_mutex = FALSE /\ empty_mutex = FALSE
    /\ n_req = 0 /\ request_list = <<>>
    /\ pc = [t \in Threads |-> "out"]
    /\ arg = [t \in Threads |-> NoReq]
    /\ element = [d \in Dispatchers |-> NoReq]
    /\ held = [d \in Dispatchers |-> NoReq]
    /\ alive = TRUE /\ broken = FALSE

Goto(t, from, to) == pc[t] = from /\ pc' = [pc EXCEPT ![t] = to]

\* pthread_cond_signal: one sleeper, if there is one, goes on to lock the mutex again.
Signal(t, from, to, asleep, awake) ==
    /\ pc[t] = from
    /\ \/ \E u \in Threads : pc[u] = asleep /\ pc' = [pc EXCEPT ![t] = to, ![u] = awake]
       \/ (\A u \in Threads : pc[u] # asleep) /\ pc' = [pc EXCEPT ![t] = to]

-----------------------------------------------------------------------------
(* insertReq *)

\* A request structure nobody refers to, as malloc may return it.
Free(r) == /\ \A t \in Threads : arg[t] # r
           /\ \A d \in Dispatchers : held[d] # r /\ element[d] # r
           /\ \A i \in DOMAIN request_list : request_list[i] # r

\* The proxy thread inserts what it received, a dispatcher what its page refers to.
CallInsert(t, r) ==
    /\ t \in Dispatchers => held[t] # NoReq
    /\ Free(r)
    /\ Goto(t, "out", "lock_full")
    /\ arg' = [arg EXCEPT ![t] = r]
    /\ UNCHANGED <<shared, element, held, alive, broken>>

\* Mutant: the inserter does not wait for full_mutex.
LockFullNoWait(t) ==
    /\ full_mutex' = TRUE
    /\ Goto(t, "lock_full", "test_full")
    /\ UNCHANGED <<empty_mutex, n_req, request_list, arg, element, held, alive, broken>>

LockFull(t) ==
    /\ ~full_mutex /\ full_mutex' = TRUE
    /\ Goto(t, "lock_full", "test_full")
    /\ UNCHANGED <<empty_mutex, n_req, request_list, arg, element, held, alive, broken>>

TestFull(t) ==
    /\ \/ n_req = MAXREQ /\ Goto(t, "test_full", "sleep_full")
       \/ n_req # MAXREQ /\ Goto(t, "test_full", "add")
    /\ UNCHANGED <<shared, arg, element, held, alive, broken>>

\* pthread_cond_wait joins the sleepers and unlocks the mutex in one step.
SleepFull(t) ==
    /\ Goto(t, "sleep_full", "wait_full") /\ full_mutex' = FALSE
    /\ UNCHANGED <<empty_mutex, n_req, request_list, arg, element, held, alive, broken>>

WakeFull(t) ==
    /\ ~full_mutex /\ full_mutex' = TRUE
    /\ Goto(t, "wake_full", "add")
    /\ UNCHANGED <<empty_mutex, n_req, request_list, arg, element, held, alive, broken>>

\* Mutant: element->req is not assigned.
AddUnassigned(t) ==
    /\ n_req < MAXREQ
    /\ Goto(t, "add", "count")
    /\ request_list' = Append(request_list, Indeterminate)
    /\ arg' = [arg EXCEPT ![t] = NoReq]
    /\ UNCHANGED <<full_mutex, empty_mutex, n_req, element, held, alive, broken>>

\* The list takes the request over, or the request is dropped.
Add(t) ==
    /\ \/ /\ n_req < MAXREQ
          /\ Goto(t, "add", "count")
          /\ request_list' = Append(request_list, arg[t])
       \/ /\ n_req >= MAXREQ \/ MallocMayFail
          /\ Goto(t, "add", "unlock_empty")
          /\ UNCHANGED request_list
    /\ arg' = [arg EXCEPT ![t] = NoReq]
    /\ UNCHANGED <<full_mutex, empty_mutex, n_req, element, held, alive, broken>>

Count(t) ==
    /\ Goto(t, "count", "signal_empty")
    /\ n_req' = n_req + 1
    /\ UNCHANGED <<full_mutex, empty_mutex, request_list, arg, element, held, alive, broken>>

SignalEmpty(t) ==
    /\ Signal(t, "signal_empty", "unlock_empty", "wait_empty", "wake_empty")
    /\ UNCHANGED <<shared, arg, element, held, alive, broken>>

\* Mutant: the inserter also unlocks the mutex it locked.
UnlockBoth(t) ==
    /\ Goto(t, "unlock_empty", "out")
    /\ empty_mutex' = FALSE /\ full_mutex' = FALSE
    /\ UNCHANGED <<n_req, request_list, arg, element, held, alive, broken>>

UnlockEmpty(t) ==
    /\ Goto(t, "unlock_empty", "out")
    /\ empty_mutex' = FALSE
    /\ UNCHANGED <<full_mutex, n_req, request_list, arg, element, held, alive, broken>>

-----------------------------------------------------------------------------
(* popReq *)

\* d is between the lock of empty_mutex and the update of n_req.
Inside(d) == pc[d] \in {"test_empty", "guard", "take", "unlink", "discount"}

CallPop(d) ==
    /\ held[d] = NoReq
    /\ Goto(d, "out", "lock_empty")
    /\ UNCHANGED <<shared, arg, element, held, alive, broken>>

\* Locking empty_mutex, on entry or when pthread_cond_wait returns.
Enter(d, from, to) ==
    /\ ~empty_mutex /\ empty_mutex' = TRUE
    /\ Goto(d, from, to)
    /\ broken' = (broken \/ \E e \in Dispatchers : Inside(e))
    /\ UNCHANGED <<full_mutex, n_req, request_list, arg, element, held, alive>>

LockEmpty(d) == Enter(d, "lock_empty", "test_empty")
WakeEmpty(d) == Enter(d, "wake_empty", "guard")

TestEmpty(d) ==
    /\ \/ n_req = 0 /\ Goto(d, "test_empty", "sleep_empty")
       \/ n_req # 0 /\ Goto(d, "test_empty", "guard")
    /\ UNCHANGED <<shared, arg, element, held, alive, broken>>

SleepEmpty(d) ==
    /\ Goto(d, "sleep_empty", "wait_empty") /\ empty_mutex' = FALSE
    /\ UNCHANGED <<full_mutex, n_req, request_list, arg, element, held, alive, broken>>

\* With no request left, "ret" is returned as it was found on the stack.
Guard(d) ==
    /\ \/ /\ n_req > 0 /\ Goto(d, "guard", "take")
          /\ UNCHANGED <<held, broken>>
       \/ /\ n_req <= 0 /\ Goto(d, "guard", "unlock_full")
          /\ held' = [held EXCEPT ![d] = Indeterminate]
          /\ broken' = TRUE
    /\ UNCHANGED <<shared, arg, element, alive>>

\* list_next returns NULL on an empty list.
TakeHead(d) ==
    /\ Goto(d, "take", "unlink")
    /\ element' = [element EXCEPT ![d] = IF request_list = <<>> THEN NoReq
                                                               ELSE Head(request_list)]
    /\ UNCHANGED <<shared, arg, held, alive, broken>>

\* The element is still the first one.
UnlinkHead(d) ==
    /\ request_list # <<>> /\ element[d] = Head(request_list)
    /\ request_list' = Tail(request_list)
    /\ held' = [held EXCEPT ![d] = element[d]]
    /\ element' = [element EXCEPT ![d] = NoReq]
    /\ UNCHANGED alive

\* list_next gives, or gave, NULL: SIGSEGV.
FollowNull(d) == request_list = <<>> \/ element[d] = NoReq

\* Another thread took and freed the element, and what is first now is lost: "ret" is what
\* the freed memory holds, and the C library may notice the second free.
UseFreed(d) ==
    /\ ~FollowNull(d) /\ element[d] # Head(request_list)
    /\ request_list' = Tail(request_list)
    /\ \E r \in {element[d], Indeterminate} : held' = [held EXCEPT ![d] = r]
    /\ element' = [element EXCEPT ![d] = NoReq]
    /\ alive' \in BOOLEAN

\* Mutant: no list_del.
UnlinkNothing(d) ==
    /\ Goto(d, "unlink", "discount")
    /\ held' = [held EXCEPT ![d] = element[d]]
    /\ element' = [element EXCEPT ![d] = NoReq]
    /\ UNCHANGED <<shared, arg, alive, broken>>

\* list_del of what is first NOW, then ret = element->req and free(element).
Unlink(d) ==
    /\ Goto(d, "unlink", "discount")
    /\ \/ UnlinkHead(d)
       \/ FollowNull(d) /\ alive' = FALSE /\ UNCHANGED <<request_list, held, element>>
       \/ UseFreed(d)
    /\ UNCHANGED <<full_mutex, empty_mutex, n_req, arg, broken>>

Discount(d) ==
    /\ Goto(d, "discount", "signal_full")
    /\ n_req' = n_req - 1
    /\ UNCHANGED <<full_mutex, empty_mutex, request_list, arg, element, held, alive, broken>>

SignalFull(d) ==
    /\ Signal(d, "signal_full", "unlock_full", "wait_full", "wake_full")
    /\ UNCHANGED <<shared, arg, element, held, alive, broken>>

UnlockFull(d) ==
    /\ Goto(d, "unlock_full", "out")
    /\ full_mutex' = FALSE
    /\ UNCHANGED <<empty_mutex, n_req, request_list, arg, element, held, alive, broken>>

\* The dispatcher's free(req).
FreeReq(d) ==
    /\ pc[d] = "out" /\ held[d] # NoReq
    /\ held' = [held EXCEPT ![d] = NoReq]
    /\ UNCHANGED <<shared, pc, arg, element, alive, broken>>

-----------------------------------------------------------------------------
(* The POSIX threads library and the process *)

Spurious(t) ==
    /\ SpuriousWakeups
    /\ Goto(t, "wait_full", "wake_full") \/ Goto(t, "wait_empty", "wake_empty")
    /\ UNCHANGED <<shared, arg, element, held, alive, broken>>

InsertStep(t) == \/ \E r \in Request : CallInsert(t, r)
                 \/ LockFull(t) \/ TestFull(t) \/ SleepFull(t) \/ WakeFull(t)
                 \/ Add(t) \/ Count(t) \/ SignalEmpty(t) \/ UnlockEmpty(t)

PopStep(d) == \/ CallPop(d) \/ LockEmpty(d) \/ WakeEmpty(d) \/ TestEmpty(d)
              \/ SleepEmpty(d) \/ Guard(d)
              \/ TakeHead(d) \/ Unlink(d) \/ Discount(d) \/ SignalFull(d) \/ UnlockFull(d)
              \/ FreeReq(d)

Next == /\ alive
        /\ \/ \E t \in Threads : InsertStep(t) \/ Spurious(t)
           \/ \E d \in Dispatchers : PopStep(d)

Spec == Init /\ [][Next]_vars

-----------------------------------------------------------------------------
(* Properties *)

\* The threads that own the one right to change n_req from 0: an inserter until it
\* counts its request, a dispatcher from its n_req-- to its unlock of full_mutex.
Owns(t) == pc[t] \in {"test_full", "add", "count", "signal_full", "unlock_full"}

(* Until the first overlap inside popReq, full_mutex works as a baton handed *)
(* from an inserter to a dispatcher and back: one owner, at most one request  *)
(* counted, the list and n_req agreeing, nobody ever waiting on full_cond (so *)
(* the capacity MAXREQ is never reached), and no NULL ever dereferenced.      *)
HandOver == ~broken =>
    /\ alive
    /\ n_req \in {0, 1}
    /\ n_req = 1 => full_mutex
    /\ \A t \in Threads : pc[t] \notin {"sleep_full", "wait_full", "wake_full"}
    /\ \A t \in Threads : Owns(t) => full_mutex /\ n_req = 0
    /\ \A t, u \in Threads : Owns(t) /\ Owns(u) => t = u
    /\ \A d, e \in Dispatchers : Inside(d) /\ Inside(e) => d = e
    /\ \A d \in Dispatchers : pc[d] \in {"take", "unlink", "discount"} => n_req = 1
    /\ Len(request_list) =
         IF \/ n_req = 0 /\ \E t \in Threads : pc[t] = "count"
            \/ n_req = 1 /\ \A d \in Dispatchers : pc[d] # "discount"
         THEN 1 ELSE 0
    /\ \A d \in Dispatchers : pc[d] = "unlink" => element[d] = request_list[1]

(* Until the first overlap, a request structure has one owner: the thread     *)
(* inserting it, the list, or the one dispatcher that popped it.  Hence no    *)
(* request is served twice and no dispatcher frees another one's request.     *)
OneOwner == ~broken =>
    /\ \A t, u \in Threads : arg[t] \in Request /\ arg[t] = arg[u] => t = u
    /\ \A d, e \in Dispatchers : held[d] \in Request /\ held[d] = held[e] => d = e
    /\ \A t \in Threads, d \in Dispatchers : arg[t] \in Request => arg[t] # held[d]
    /\ \A i \in DOMAIN request_list :
         /\ \A t \in Threads : arg[t] # request_list[i]
         /\ \A d \in Dispatchers : held[d] # request_list[i]

\* The first request of the list.
Waiting == IF request_list = <<>> THEN NoReq ELSE request_list[1]

\* A malloc failed: full_mutex is locked, and there is no owner and no request to unlock it.
Jammed == full_mutex /\ n_req = 0 /\ \A t \in Threads : ~Owns(t)

Slot == INSTANCE OneSlot WITH slot <- Waiting, jammed <- Jammed

(* The list of Request.c implements the one-place buffer, which a failing     *)
(* malloc jams for good.                                                      *)
ImplementsOneSlot == Slot!Spec

(* Request.h:64-66: popReq returns the request (or NULL); it never returns a  *)
(* value nobody assigned, and the process survives it.                        *)
PopReturnsRequest == alive /\ \A d \in Dispatchers : held[d] # Indeterminate

\* t can go on by itself: it is neither outside nor waiting for another thread.
Running(t) == pc[t] \notin {"out", "wait_full", "wait_empty"}
              /\ (pc[t] = "lock_full" => ~full_mutex)
              /\ (pc[t] \in {"lock_empty", "wake_empty"} => ~empty_mutex)

(* Request.h:65: popReq blocks when the list is empty.  So when nothing is    *)
(* running, a dispatcher asleep in popReq faces an empty list.                *)
PopBlocksOnlyWhenEmpty ==
    (\E d \in Dispatchers : pc[d] = "wait_empty") /\ (\A u \in Threads : ~Running(u))
        => n_req = 0
=============================================================================
