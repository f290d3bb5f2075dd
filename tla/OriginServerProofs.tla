------------------------- MODULE OriginServerProofs -------------------------
(***************************************************************************)
(* Proofs about the origin server, for any finite set of connections and   *)
(* any limits.                                                             *)
(***************************************************************************)
EXTENDS OriginServer, FiniteSetTheorems, TLAPS

(* A step that takes one connection from a state outside S to one inside, the *)
(* reverse, or neither, changes the number of connections in S accordingly.   *)
LEMMA Entering ==
  ASSUME NEW S, NEW c \in Conn, thread \in [Conn -> States], NEW s \in States,
         thread' = [thread EXCEPT ![c] = s], thread[c] \notin S, s \in S
  PROVE  Cardinality(In(S)') = Cardinality(In(S)) + 1
<1>1. In(S)' = In(S) \cup {c} /\ c \notin In(S)
  BY DEF In
<1>2. IsFiniteSet(In(S))
  BY FS_Subset, ServerAssumption DEF In
<1> QED BY <1>1, <1>2, FS_AddElement

LEMMA Exiting ==
  ASSUME NEW S, NEW c \in Conn, thread \in [Conn -> States], NEW s \in States,
         thread' = [thread EXCEPT ![c] = s], thread[c] \in S, s \notin S
  PROVE  Cardinality(In(S)') = Cardinality(In(S)) - 1
<1>1. In(S)' = In(S) \ {c} /\ c \in In(S)
  BY DEF In
<1>2. IsFiniteSet(In(S))
  BY FS_Subset, ServerAssumption DEF In
<1> QED BY <1>1, <1>2, FS_RemoveElement

LEMMA Staying ==
  ASSUME NEW S, NEW c \in Conn, thread \in [Conn -> States], NEW s \in States,
         thread' = [thread EXCEPT ![c] = s], thread[c] \in S <=> s \in S
  PROVE  In(S)' = In(S)
BY DEF In

LEMMA CountsAreNat == ASSUME NEW S PROVE Cardinality(In(S)) \in Nat
BY FS_Subset, FS_CardinalityType, ServerAssumption DEF In

-----------------------------------------------------------------------------
(* Types. *)

LEMMA TypedInit == Init => TypeOK
<1> SUFFICES ASSUME Init PROVE TypeOK
  OBVIOUS
<1>1. open = In(States \ {"none", "leaving", "ended"})
  BY DEF Init, In
<1>2. thread \in [Conn -> States]
  BY DEF Init, States
<1>3. exit \in {"no", "descriptors", "other"} /\ numthread \in Int /\ numthreadfrozen \in Int
  BY DEF Init
<1> QED BY <1>1, <1>2, <1>3 DEF TypeOK

LEMMA TypedStep == TypeOK /\ [Next]_vars => TypeOK'
<1> SUFFICES ASSUME TypeOK, [Next]_vars PROVE TypeOK'
  OBVIOUS
<1> USE DEF TypeOK, States, Busy, Preparing, In, Goto
<1>1. ASSUME NEW c \in Conn, Accept(c) PROVE TypeOK'
  BY <1>1 DEF Accept
<1>2. ASSUME NEW c \in Conn, Admit(c) PROVE TypeOK'
  BY <1>2 DEF Admit
<1>3. ASSUME NEW c \in Conn, GetRequest(c) PROVE TypeOK'
  BY <1>3 DEF GetRequest
<1>4. ASSUME NEW c \in Conn, Sent(c) PROVE TypeOK'
  BY <1>4 DEF Sent
<1>5. ASSUME NEW c \in Conn, Freeze(c) PROVE TypeOK'
  BY <1>5 DEF Freeze
<1>6. ASSUME NEW c \in Conn, Close(c) PROVE TypeOK'
  BY <1>6 DEF Close
<1>7. ASSUME NEW c \in Conn, Leave(c) PROVE TypeOK'
  BY <1>7 DEF Leave
<1>8. CASE AcceptFails \/ MainFails
  BY <1>8 DEF AcceptFails, MainFails
<1>9. CASE UNCHANGED vars
  BY <1>9 DEF vars
<1>10. ASSUME NEW c \in Conn, OpenFile(c) PROVE TypeOK'
  BY <1>10 DEF OpenFile
<1>11. ASSUME NEW c \in Conn, CloseFile(c) PROVE TypeOK'
  BY <1>11 DEF CloseFile
<1> QED BY <1>1, <1>2, <1>3, <1>4, <1>5, <1>6, <1>7, <1>8, <1>9, <1>10, <1>11
        DEF Next, Thread

-----------------------------------------------------------------------------
(* The two counters.  Working and Frozen are the connections in two sets of   *)
(* states, so each action enters, leaves or stays in each of them.            *)

FrozenStates == {"frozen"}

Counted == CountersMatch /\ AtMostWorking

LEMMA CountedInit == Init => Counted
<1> SUFFICES ASSUME Init PROVE Counted
  OBVIOUS
<1>1. Working = {} /\ Frozen = {}
  BY DEF Init, Working, Frozen, In, Busy, Preparing
<1>2. numthread = 0 /\ numthreadfrozen = 0
  BY DEF Init
<1> QED BY <1>1, <1>2, FS_EmptySet, ServerAssumption DEF Counted, CountersMatch, AtMostWorking

LEMMA CountedStep == TypeOK /\ Counted /\ [Next]_vars => Counted'
<1> SUFFICES ASSUME TypeOK, Counted, [Next]_vars PROVE Counted'
  OBVIOUS
<1>1. /\ Working = In(Busy) /\ Working' = In(Busy)'
      /\ Frozen = In(FrozenStates) /\ Frozen' = In(FrozenStates)'
  BY DEF Working, Frozen, FrozenStates
<1>2. Cardinality(Working) \in Nat /\ Cardinality(Frozen) \in Nat
  BY <1>1, CountsAreNat
<1>3. numthread \in Int /\ numthreadfrozen \in Int /\ thread \in [Conn -> States]
  BY DEF TypeOK
<1> USE ServerAssumption DEF Counted, CountersMatch, AtMostWorking
<1>4. ASSUME UNCHANGED <<numthread, numthreadfrozen>>, Working' = Working, Frozen' = Frozen
      PROVE  Counted'
  BY <1>4
<1>5. ASSUME NEW c \in Conn, Admit(c) PROVE Counted'
  <2>1. Frozen' = Frozen
    BY <1>1, <1>3, <1>5, Staying DEF Admit, Goto, FrozenStates, Busy, Preparing, States
  <2>2. CASE numthread - numthreadfrozen < MAXNUMTHREADWORKING
    <3>1. thread[c] \notin Busy /\ thread' = [thread EXCEPT ![c] = "receiving"]
      BY <1>5, <2>2, <1>3 DEF Admit, Goto, Busy, Preparing
    <3>2. Cardinality(Working') = Cardinality(Working) + 1
      BY <1>1, <1>3, <3>1, Entering DEF Busy, Preparing, States
    <3>3. numthread' = numthread + 1 /\ numthreadfrozen' = numthreadfrozen
      BY <1>5, <2>2, <1>3 DEF Admit
    <3> QED BY <1>2, <1>3, <2>1, <2>2, <3>2, <3>3
  <2>3. CASE ~(numthread - numthreadfrozen < MAXNUMTHREADWORKING)
    <3>1. Working' = Working
      BY <1>1, <1>3, <1>5, <2>3, Staying DEF Admit, Goto, Busy, Preparing, States
    <3>2. UNCHANGED <<numthread, numthreadfrozen>>
      BY <1>5, <2>3 DEF Admit
    <3> QED BY <1>4, <2>1, <3>1, <3>2
  <2> QED BY <2>2, <2>3
<1>6. ASSUME NEW c \in Conn, Freeze(c) PROVE Counted'
  <2>1. thread[c] = "sending" /\ thread' = [thread EXCEPT ![c] = "frozen"]
    BY <1>6 DEF Freeze, Goto
  <2>2. Cardinality(Working') = Cardinality(Working) - 1
    BY <1>1, <1>3, <2>1, Exiting DEF Busy, Preparing, States
  <2>3. Cardinality(Frozen') = Cardinality(Frozen) + 1
    BY <1>1, <1>3, <2>1, Entering DEF FrozenStates, Busy, Preparing, States
  <2> QED BY <1>2, <1>3, <1>6, <2>2, <2>3 DEF Freeze
<1>7. ASSUME NEW c \in Conn, Leave(c) PROVE Counted'
  <2>1. thread[c] = "leaving" /\ thread' = [thread EXCEPT ![c] = "ended"]
    BY <1>7 DEF Leave, Goto
  <2>2. Cardinality(Working') = Cardinality(Working) - 1
    BY <1>1, <1>3, <2>1, Exiting DEF Busy, Preparing, States
  <2>3. Frozen' = Frozen
    BY <1>1, <1>3, <2>1, Staying DEF FrozenStates, Busy, Preparing, States
  <2> QED BY <1>2, <1>3, <1>7, <2>2, <2>3 DEF Leave
<1>8. ASSUME NEW c \in Conn,
             Accept(c) \/ GetRequest(c) \/ OpenFile(c) \/ CloseFile(c) \/ Sent(c) \/ Close(c)
      PROVE  Counted'
  <2>1. PICK s \in States : /\ thread' = [thread EXCEPT ![c] = s]
                            /\ thread[c] \in Busy <=> s \in Busy
                            /\ thread[c] \in FrozenStates <=> s \in FrozenStates
    BY <1>3, <1>8 DEF Accept, GetRequest, OpenFile, CloseFile, Sent, Close, Goto, States, Busy,
                      Preparing, FrozenStates
  <2>2. Working' = Working /\ Frozen' = Frozen
    BY <1>1, <1>3, <2>1, Staying
  <2>3. UNCHANGED <<numthread, numthreadfrozen>>
    BY <1>8 DEF Accept, GetRequest, OpenFile, CloseFile, Sent, Close
  <2> QED BY <1>4, <2>2, <2>3
<1>9. CASE AcceptFails \/ MainFails \/ UNCHANGED vars
  BY <1>4, <1>9 DEF AcceptFails, MainFails, vars, Working, Frozen, In
<1> QED BY <1>5, <1>6, <1>7, <1>8, <1>9 DEF Next, Thread

-----------------------------------------------------------------------------
(* The end of the server.  When accept finds no descriptor, MaxFd of them are *)
(* in use.  A working thread has at most two, its connection and a file; the  *)
(* other connections are leaked or wait for their thread to start.  After the *)
(* Exit nothing moves.                                                        *)

LEMMA UsedByWorkingOrLost ==
  ASSUME TypeOK, Counted
  PROVE  Used <= 2 * MAXNUMTHREADWORKING + Cardinality(Leaked \cup Pending)
<1>1. IsFiniteSet(Working) /\ IsFiniteSet(Leaked \cup Pending)
  BY FS_Subset, ServerAssumption DEF Working, Leaked, Pending, In
<1>2. open \subseteq Working \cup (Leaked \cup Pending) /\ Files \subseteq Working
  BY DEF TypeOK, States, Busy, Preparing, Working, Leaked, Pending, Files, In
<1>3. /\ IsFiniteSet(Working \cup (Leaked \cup Pending))
      /\ Cardinality(Working \cup (Leaked \cup Pending))
           <= Cardinality(Working) + Cardinality(Leaked \cup Pending)
  <2>1. IsFiniteSet(Working \cap (Leaked \cup Pending))
    BY <1>1, FS_Subset
  <2>2. Cardinality(Working \cap (Leaked \cup Pending)) \in Nat
    BY <2>1, FS_CardinalityType
  <2>3. Cardinality(Working) \in Nat /\ Cardinality(Leaked \cup Pending) \in Nat
    BY <1>1, FS_CardinalityType
  <2>4. /\ IsFiniteSet(Working \cup (Leaked \cup Pending))
        /\ Cardinality(Working \cup (Leaked \cup Pending)) = Cardinality(Working)
             + Cardinality(Leaked \cup Pending) - Cardinality(Working \cap (Leaked \cup Pending))
    BY <1>1, FS_Union
  <2> QED BY <2>2, <2>3, <2>4
<1>4. /\ Cardinality(open) <= Cardinality(Working \cup (Leaked \cup Pending))
      /\ Cardinality(Files) <= Cardinality(Working)
  BY <1>1, <1>2, <1>3, FS_Subset
<1>5. /\ Cardinality(open) \in Nat /\ Cardinality(Files) \in Nat
      /\ Cardinality(Working) \in Nat /\ Cardinality(Leaked \cup Pending) \in Nat
      /\ Cardinality(Working \cup (Leaked \cup Pending)) \in Nat
  BY <1>1, <1>2, <1>3, FS_Subset, FS_CardinalityType
<1>6. Cardinality(Working) <= MAXNUMTHREADWORKING /\ MAXNUMTHREADWORKING \in Nat
  BY ServerAssumption DEF Counted, AtMostWorking
<1> QED BY <1>3, <1>4, <1>5, <1>6 DEF Used

ServerInv == TypeOK /\ Counted /\ ExitMeansLeaks

LEMMA ExitStep == ServerInv /\ [Next]_vars => ExitMeansLeaks'
<1> SUFFICES ASSUME ServerInv, [Next]_vars, exit' = "descriptors" PROVE ExitMeansLeaks'
  BY DEF ExitMeansLeaks
<1>1. CASE AcceptFails
  <2>1. Used >= MaxFd /\ thread' = thread
    BY <1>1 DEF AcceptFails
  <2>2. (Leaked \cup Pending)' = Leaked \cup Pending
    BY <2>1 DEF Leaked, Pending, In
  <2>3. /\ IsFiniteSet(Leaked \cup Pending) /\ IsFiniteSet(open) /\ IsFiniteSet(Files)
    BY FS_Subset, ServerAssumption DEF Leaked, Pending, Files, In, ServerInv, TypeOK
  <2>4. Cardinality(Leaked \cup Pending) \in Nat /\ Used \in Nat
    BY <2>3, FS_CardinalityType DEF Used
  <2>5. Cardinality(Leaked \cup Pending) >= MaxFd - 2 * MAXNUMTHREADWORKING
    BY <2>1, <2>4, UsedByWorkingOrLost, ServerAssumption DEF ServerInv
  <2> QED BY <2>2, <2>5 DEF ExitMeansLeaks
<1>2. CASE UNCHANGED vars
  BY <1>2 DEF vars, ServerInv, ExitMeansLeaks, Leaked, Pending, In
<1>3. ASSUME NEW c \in Conn, Accept(c) \/ Thread(c), exit = "no" PROVE FALSE
  BY <1>3 DEF Accept, Thread, Admit, GetRequest, OpenFile, CloseFile, Sent, Freeze, Close, Leave
<1>4. CASE MainFails
  BY <1>4 DEF MainFails
<1> QED BY <1>1, <1>2, <1>3, <1>4 DEF Next

LEMMA ServerInvariance == Spec => []ServerInv
<1>1. Init => ServerInv
  BY TypedInit, CountedInit DEF ServerInv, ExitMeansLeaks, Init
<1>2. ServerInv /\ [Next]_vars => ServerInv'
  BY TypedStep, CountedStep, ExitStep DEF ServerInv
<1> QED BY <1>1, <1>2, PTL DEF Spec

(* The variables of Server.c keep their types, and the open descriptors are   *)
(* those of the threads between accept and close.                             *)
THEOREM ServerTypeCorrect == Spec => []TypeOK
<1>1. ServerInv => TypeOK
  BY DEF ServerInv
<1> QED BY <1>1, ServerInvariance, PTL

(* numthread and numthreadfrozen count the admitted and the frozen threads.   *)
THEOREM CountersAreRight == Spec => []CountersMatch
<1>1. ServerInv => CountersMatch
  BY DEF ServerInv, Counted
<1> QED BY <1>1, ServerInvariance, PTL

(* Never more than MAXNUMTHREADWORKING threads work at a time.                *)
THEOREM WorkingIsBounded == Spec => []AtMostWorking
<1>1. ServerInv => AtMostWorking
  BY DEF ServerInv, Counted
<1> QED BY <1>1, ServerInvariance, PTL

(* The server exits for lack of a descriptor only when leaks, and threads     *)
(* about to start, hold all but 2 * MAXNUMTHREADWORKING of them.              *)
THEOREM ExitNeedsLeaks == Spec => []ExitMeansLeaks
<1>1. ServerInv => ExitMeansLeaks
  BY DEF ServerInv
<1> QED BY <1>1, ServerInvariance, PTL
=============================================================================
