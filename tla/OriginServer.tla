---------------------------- MODULE OriginServer ----------------------------
(***************************************************************************)
(* The threads of the origin server (Server.c): the accept loop of main    *)
(* and one RecvAndSend thread per connection, with the two counters that   *)
(* limit how many of them work at a time.                                  *)
(*                                                                         *)
(* A frozen thread sleeps for ever inside SendnWithError, and a thread in  *)
(* excess exits before it has looked at its parameter: in both cases the   *)
(* descriptor of the connection stays open.  A working thread opens the    *)
(* file it answers with twice, once for its length and once for its bytes. *)
(***************************************************************************)
EXTENDS Integers, FiniteSets

CONSTANTS Conn,                 \* connections; one that ended may come again
          MAXNUMTHREADWORKING,  \* Server.c: threads working at a time
          MaxFd                 \* descriptors the process can have for connections and files

ASSUME ServerAssumption == /\ IsFiniteSet(Conn)
                           /\ MAXNUMTHREADWORKING \in Nat \ {0}
                           /\ MaxFd \in Nat

VARIABLES numthread, numthreadfrozen,
          thread,  \* where the thread of each connection is
          open,    \* the connections whose descriptor is open
          exit     \* why main called Exit

vars == <<numthread, numthreadfrozen, thread, open, exit>>

\* A working thread receives the request, is to open the file (asked), has it open for its
\* length (measuring), is to open it again (measured), has it open for its bytes (reading),
\* and sends the answer.
Preparing == {"asked", "measuring", "measured", "reading"}
Busy == Preparing \cup {"receiving", "sending", "closing", "leaving"}
States == Busy \cup {"none", "created", "excess", "frozen", "ended"}

In(states) == {c \in Conn : thread[c] \in states}

\* Admitted, not frozen, and not yet taken off numthread.
Working == In(Busy)
Frozen == In({"frozen"})
Pending == In({"created"})
Leaked == In({"frozen", "excess"})

\* The threads with a file open, and the descriptors in use.
Files == In({"measuring", "reading"})
Used == Cardinality(open) + Cardinality(Files)

TypeOK == /\ numthread \in Int /\ numthreadfrozen \in Int
          /\ thread \in [Conn -> States]
          /\ open = In(States \ {"none", "leaving", "ended"})
          /\ exit \in {"no", "descriptors", "other"}

Init == /\ numthread = 0 /\ numthreadfrozen = 0
        /\ thread = [c \in Conn |-> "none"]
        /\ open = {}
        /\ exit = "no"

Goto(c, from, to) == thread[c] \in from /\ thread' = [thread EXCEPT ![c] = to]

-----------------------------------------------------------------------------
(* main *)

Accept(c) ==
    /\ Used < MaxFd
    /\ Goto(c, {"none", "ended"}, "created")
    /\ open' = open \cup {c}
    /\ UNCHANGED <<numthread, numthreadfrozen, exit>>

\* With no descriptor left accept fails at once, whether or not a client waits.
AcceptFails ==
    /\ Used >= MaxFd
    /\ exit' = "descriptors"
    /\ UNCHANGED <<numthread, numthreadfrozen, thread, open>>

\* Another error of accept but EINTR, or a failing malloc or pthread_create after it.
MainFails ==
    /\ exit' = "other"
    /\ UNCHANGED <<numthread, numthreadfrozen, thread, open>>

-----------------------------------------------------------------------------
(* RecvAndSend *)

\* Mutant: <= instead of <.
AdmitOneMore(c) ==
    /\ \/ /\ numthread - numthreadfrozen <= MAXNUMTHREADWORKING
          /\ Goto(c, {"created"}, "receiving")
          /\ numthread' = numthread + 1
       \/ /\ numthread - numthreadfrozen > MAXNUMTHREADWORKING
          /\ Goto(c, {"created"}, "excess")
          /\ UNCHANGED numthread
    /\ UNCHANGED <<numthreadfrozen, open, exit>>

\* One critical section: the test and the increment.
Admit(c) ==
    /\ \/ /\ numthread - numthreadfrozen < MAXNUMTHREADWORKING
          /\ Goto(c, {"created"}, "receiving")
          /\ numthread' = numthread + 1
       \/ /\ numthread - numthreadfrozen >= MAXNUMTHREADWORKING
          /\ Goto(c, {"created"}, "excess")
          /\ UNCHANGED numthread
    /\ UNCHANGED <<numthreadfrozen, open, exit>>

\* A complete request is answered from the file, a malformed one with 403, a read error
\* with nothing.
GetRequest(c) ==
    /\ \E to \in {"asked", "sending", "closing"} : Goto(c, {"receiving"}, to)
    /\ UNCHANGED <<numthread, numthreadfrozen, open, exit>>

\* fopen, in getFileInfo and in AppendBytesFromFile: with no descriptor left, as without
\* the file, the answer is 404.
OpenFile(c) ==
    /\ \/ /\ Used < MaxFd
          /\ Goto(c, {"asked"}, "measuring") \/ Goto(c, {"measured"}, "reading")
       \/ Goto(c, {"asked", "measured"}, "sending")
    /\ UNCHANGED <<numthread, numthreadfrozen, open, exit>>

\* fclose, on every path: the bytes follow the length unless the answer is an error or
\* that of INF.
CloseFile(c) ==
    /\ Goto(c, {"measuring"}, "measured") \/ Goto(c, {"measuring", "reading"}, "sending")
    /\ UNCHANGED <<numthread, numthreadfrozen, open, exit>>

\* The response was sent, or sending it failed.
Sent(c) ==
    /\ Goto(c, {"sending"}, "closing")
    /\ UNCHANGED <<numthread, numthreadfrozen, open, exit>>

\* Mutant: the frozen thread is not counted.
FreezeUncounted(c) ==
    /\ Goto(c, {"sending"}, "frozen")
    /\ UNCHANGED <<numthread, numthreadfrozen, open, exit>>

Freeze(c) ==
    /\ Goto(c, {"sending"}, "frozen")
    /\ numthreadfrozen' = numthreadfrozen + 1
    /\ UNCHANGED <<numthread, open, exit>>

\* Mutant: the descriptor is not closed.
CloseForgotten(c) ==
    /\ Goto(c, {"closing"}, "leaving")
    /\ UNCHANGED <<numthread, numthreadfrozen, open, exit>>

Close(c) ==
    /\ Goto(c, {"closing"}, "leaving")
    /\ open' = open \ {c}
    /\ UNCHANGED <<numthread, numthreadfrozen, exit>>

Leave(c) ==
    /\ Goto(c, {"leaving"}, "ended")
    /\ numthread' = numthread - 1
    /\ UNCHANGED <<numthreadfrozen, open, exit>>

Thread(c) == \/ Admit(c) \/ GetRequest(c) \/ OpenFile(c) \/ CloseFile(c)
             \/ Sent(c) \/ Freeze(c) \/ Close(c) \/ Leave(c)

Next == /\ exit = "no"
        /\ \/ \E c \in Conn : Accept(c) \/ Thread(c)
           \/ AcceptFails \/ MainFails

Spec == Init /\ [][Next]_vars

FairSpec == Spec /\ \A c \in Conn : WF_vars(exit = "no" /\ Thread(c))

-----------------------------------------------------------------------------
(* Properties *)

(* The counters, kept in three critical sections of two functions, count what *)
(* they should: the frozen threads, and with them the admitted ones.          *)
CountersMatch == /\ numthreadfrozen = Cardinality(Frozen)
                 /\ numthread - numthreadfrozen = Cardinality(Working)

(* At most MAXNUMTHREADWORKING threads work at a time, however many froze.    *)
AtMostWorking == Cardinality(Working) <= MAXNUMTHREADWORKING

(* main gives up for lack of a descriptor only when all but the two that each *)
(* working thread may hold, its connection and its file, are lost for good or *)
(* belong to threads not admitted yet.                                        *)
ExitMeansLeaks ==
    exit = "descriptors" =>
        Cardinality(Leaked \cup Pending) >= MaxFd - 2 * MAXNUMTHREADWORKING

(* A server that admits nobody admits again: every working thread ends or     *)
(* freezes, and a frozen one does not count.                                  *)
AdmitsAgain ==
    (numthread - numthreadfrozen >= MAXNUMTHREADWORKING)
        ~> (exit # "no" \/ numthread - numthreadfrozen < MAXNUMTHREADWORKING)
=============================================================================
