------------------------------ MODULE OneSlot ------------------------------
(***************************************************************************)
(* What the request list of Request.c amounts to.  insertReq leaves        *)
(* full_mutex locked until a popReq unlocks it, and popReq leaves          *)
(* empty_mutex locked until an insertReq unlocks it, so the list is a      *)
(* buffer of ONE place, whatever MAXREQ is: an insertion waits for the     *)
(* previous request to be taken, a removal waits for a request.  An        *)
(* insertion that finds no memory leaves nothing to be taken, and the list *)
(* "jammed": nothing is ever inserted again.                               *)
(*                                                                         *)
(* Two dispatchers can overlap inside popReq (module RequestQueue shows    *)
(* how).  From that step on, "broken", nothing is promised.                *)
(***************************************************************************)
CONSTANTS Dispatchers,  \* the threads that run requestDispatcher
          Request,      \* the request structures
          NoReq         \* no request

VARIABLES slot,         \* the request waiting in the list, if any
          held,         \* held[d]: the request dispatcher d took and has not freed
          jammed,       \* TRUE from the first insertion that failed
          broken        \* TRUE from the first undefined step on

Init == /\ slot = NoReq
        /\ held = [d \in Dispatchers |-> NoReq]
        /\ jammed = FALSE
        /\ broken = FALSE

\* insertReq, up to its return.
Put(r) == /\ slot = NoReq /\ ~jammed
          /\ slot' = r
          /\ UNCHANGED <<held, jammed>>

\* insertReq when its malloc fails.
Fail == /\ slot = NoReq /\ ~jammed
        /\ jammed' = TRUE
        /\ UNCHANGED <<slot, held>>

\* popReq, up to its return.
Take(d) == /\ slot # NoReq
           /\ held[d] = NoReq
           /\ held' = [held EXCEPT ![d] = slot]
           /\ slot' = NoReq
           /\ UNCHANGED jammed

\* free(req), at the end of the dispatcher's loop.
Release(d) == /\ held[d] # NoReq
              /\ held' = [held EXCEPT ![d] = NoReq]
              /\ UNCHANGED <<slot, jammed>>

Step == \/ \E r \in Request : Put(r)
        \/ Fail
        \/ \E d \in Dispatchers : Take(d) \/ Release(d)

Next == broken' \/ (~broken /\ ~broken' /\ Step)

Spec == Init /\ [][Next]_<<slot, held, jammed, broken>>
=============================================================================
