--------------------------- MODULE AcceptorProofs ---------------------------
(***************************************************************************)
(* For any number of descriptors, threads and connections: no descriptor   *)
(* is lost, and with descriptors for everything the accept loop leaves no  *)
(* connection behind.                                                      *)
(***************************************************************************)
EXTENDS Acceptor, TLAPS

\* Where idle_fd and temp_fd are what they are.
SpareInv ==
  /\ pc = "open" => idle = "unopened"
  /\ pc \in {"refuse", "drop", "reopen"} <=> idle = "closed"
  /\ temp => pc = "drop"

\* A connection is in the queue, with the handler, on its way to it, or closed.
ArriveInv == held + backlog + Count(pc = "client") <= arrived

IInv == TypeOK /\ NoDescriptorLost /\ SpareInv /\ ArriveInv

-----------------------------------------------------------------------------
LEMMA InitIInv == Init => IInv
  <1> SUFFICES ASSUME Init PROVE IInv
    OBVIOUS
  <1> USE LimitAssumption DEF Init
  <1>1. TypeOK
    <2>1. limit \in Nat \ {0} /\ errors \subseteq Errors
      OBVIOUS
    <2>2. used \in 0 .. limit /\ other \in 0 .. MaxOther
      BY <2>1
    <2>3. backlog \in 0 .. MaxArrive /\ arrived \in 0 .. MaxArrive
      OBVIOUS
    <2> QED
      BY <2>1, <2>2, <2>3 DEF TypeOK
  <1>2. NoDescriptorLost /\ SpareInv /\ ArriveInv
    BY DEF NoDescriptorLost, SpareInv, ArriveInv, Count
  <1> QED
    BY <1>1, <1>2 DEF IInv

\* The start, the accept loop and the EMFILE path.
LEMMA ThreadIInv == IInv /\ Thread => IInv'
  <1> SUFFICES ASSUME IInv, Thread PROVE IInv'
    OBVIOUS
  <1>e. limit \in Nat \ {0} /\ UNCHANGED <<limit, errors, handled>>
    BY LimitAssumption DEF IInv, TypeOK, Thread, env
  <1> USE LimitAssumption, <1>e DEF IInv, TypeOK, NoDescriptorLost, SpareInv, ArriveInv,
                                   Count, Goto, Room, fdVars, netVars
  <1>1. CASE Listen
    BY <1>1 DEF Listen
  <1>2. CASE AddListener
    BY <1>2 DEF AddListener
  <1>3. CASE EpollWait
    BY <1>3 DEF EpollWait
  <1>4. CASE AcceptConnection
    BY <1>4 DEF AcceptConnection
  <1>5. CASE HandleConnection
    BY <1>5 DEF HandleConnection
  <1>6. CASE DropConnection
    BY <1>6 DEF DropConnection
  <1>7. CASE AcceptAgain
    BY <1>7 DEF AcceptAgain
  <1>8. CASE AcceptInterrupted
    BY <1>8 DEF AcceptInterrupted
  <1>9. CASE AcceptThrows
    BY <1>9 DEF AcceptThrows
  <1>10. CASE AcceptNoDescriptor
    BY <1>10 DEF AcceptNoDescriptor
  <1>11. CASE InitIdle
    BY <1>11 DEF InitIdle, OpenIdle
  <1>12. CASE NoSpare
    BY <1>12 DEF NoSpare
  <1>13. CASE CloseIdle
    BY <1>13 DEF CloseIdle
  <1>14. CASE Refuse
    <2>1. temp = FALSE
      BY <1>14 DEF Refuse
    <2>2. CASE Room /\ backlog > 0 /\ backlog' = backlog - 1 /\ used' = used + 1 /\ temp' = TRUE
      BY <1>14, <2>1, <2>2 DEF Refuse
    <2>3. CASE UNCHANGED <<backlog, used, temp>>
      BY <1>14, <2>1, <2>3 DEF Refuse
    <2> QED
      BY <1>14, <2>2, <2>3 DEF Refuse
  <1>15. CASE Drop
    <2>1. CASE temp = TRUE
      <3>1. pc = "drop" /\ idle = "closed" /\ used = 1 + other + held + 1
        BY <1>15, <2>1 DEF Drop
      <3>2. used' = 1 + other + held /\ used' \in 0 .. limit /\ temp' = FALSE /\ pc' = "reopen"
        BY <1>15, <2>1, <3>1 DEF Drop
      <3>3. TypeOK'
        BY <1>15, <3>2 DEF Drop
      <3>4. NoDescriptorLost'
        BY <1>15, <3>1, <3>2 DEF Drop
      <3>5. SpareInv' /\ ArriveInv'
        BY <1>15, <3>1, <3>2 DEF Drop
      <3> QED
        BY <3>3, <3>4, <3>5
    <2>2. CASE temp = FALSE
      BY <1>15, <2>2 DEF Drop
    <2> QED
      BY <2>1, <2>2
  <1>16. CASE ReopenIdle
    BY <1>16 DEF ReopenIdle, OpenIdle
  <1> QED
    BY <1>1, <1>2, <1>3, <1>4, <1>5, <1>6, <1>7, <1>8, <1>9, <1>10, <1>11, <1>12,
       <1>13, <1>14, <1>15, <1>16 DEF Thread, Handler

LEMMA NextIInv == IInv /\ [Next]_vars => IInv'
  <1> SUFFICES ASSUME IInv, [Next]_vars PROVE IInv'
    OBVIOUS
  <1>1. CASE Thread
    BY <1>1, ThreadIInv
  <1>e. limit \in Nat \ {0} /\ UNCHANGED <<limit, errors, handled>>
    BY LimitAssumption DEF IInv, TypeOK, Next, Thread, vars, env
  <1> USE LimitAssumption, <1>e DEF IInv, TypeOK, NoDescriptorLost, SpareInv, ArriveInv,
                                   Count, Room, fdVars, netVars
  <1>2. CASE CloseConnection
    BY <1>2 DEF CloseConnection
  <1>3. CASE OtherOpens
    BY <1>3 DEF OtherOpens
  <1>4. CASE OtherCloses
    BY <1>4 DEF OtherCloses
  <1>5. CASE Arrive
    BY <1>5 DEF Arrive
  <1>6. CASE UNCHANGED vars
    BY <1>6 DEF vars
  <1> QED
    BY <1>1, <1>2, <1>3, <1>4, <1>5, <1>6 DEF Next

\* Descriptors, flags and places stay well-typed.
THEOREM TypeCorrect == Spec => []TypeOK
  <1>1. Init => IInv
    BY InitIInv
  <1>2. IInv /\ [Next]_vars => IInv'
    BY NextIInv
  <1>3. IInv => TypeOK
    BY DEF IInv
  <1> QED
    BY <1>1, <1>2, <1>3, PTL DEF Spec

\* Accepting, handing over, refusing with the spare descriptor and closing lose no
\* descriptor.
THEOREM DescriptorsKept == Spec => []NoDescriptorLost
  <1>1. Init => IInv
    BY InitIInv
  <1>2. IInv /\ [Next]_vars => IInv'
    BY NextIInv
  <1>3. IInv => NoDescriptorLost
    BY DEF IInv
  <1> QED
    BY <1>1, <1>2, <1>3, PTL DEF Spec

-----------------------------------------------------------------------------
\* With descriptors to spare the EMFILE path is never entered, the process lives,
\* and the loop ends at EAGAIN.
LoopInv ==
  Ample =>
    /\ pc \in {"start", "listening", "wait", "accept", "client"}
    /\ idle = "unopened"
    /\ NoStrandedConnection

LEMMA AmpleRoom == IInv /\ LoopInv /\ Ample /\ pc = "accept" => Room
  <1> SUFFICES ASSUME IInv, LoopInv, Ample, pc = "accept" PROVE Room
    OBVIOUS
  <1>1. limit \in Nat /\ limit > 1 + MaxOther + MaxArrive
    BY LimitAssumption DEF IInv, TypeOK, Ample
  <1>2. used = 1 + other + held
    BY DEF IInv, TypeOK, SpareInv, NoDescriptorLost, LoopInv, Count
  <1>3. held <= MaxArrive
    BY LimitAssumption DEF IInv, TypeOK, ArriveInv, Count
  <1> QED
    BY <1>1, <1>2, <1>3, LimitAssumption DEF IInv, TypeOK, Room

LEMMA NextLoopInv == IInv /\ LoopInv /\ [Next]_vars => LoopInv'
  <1> SUFFICES ASSUME IInv, LoopInv, [Next]_vars, Ample' PROVE LoopInv'
    BY DEF LoopInv
  <1>1. Ample
    BY DEF Ample, Next, Thread, vars, env
  <1>2. pc = "accept" => Room
    BY <1>1, AmpleRoom
  <1>3. backlog \in Nat
    BY LimitAssumption DEF IInv, TypeOK
  <1> USE <1>1, <1>3 DEF LoopInv, NoStrandedConnection, Goto, fdVars, netVars
  <1>4. CASE Listen \/ AddListener \/ EpollWait
    BY <1>4 DEF Listen, AddListener, EpollWait
  <1>5. CASE AcceptConnection \/ HandleConnection \/ DropConnection \/ AcceptAgain
    BY <1>5 DEF AcceptConnection, HandleConnection, DropConnection, AcceptAgain
  <1>6. ~(AcceptInterrupted \/ AcceptThrows \/ AcceptNoDescriptor)
    BY <1>2 DEF AcceptInterrupted, AcceptThrows, AcceptNoDescriptor, Ample
  <1>7. ~(InitIdle \/ NoSpare \/ CloseIdle \/ Refuse \/ Drop \/ ReopenIdle)
    BY DEF InitIdle, OpenIdle, NoSpare, CloseIdle, Refuse, Drop, ReopenIdle
  <1>8. CASE CloseConnection \/ OtherOpens \/ OtherCloses \/ Arrive \/ UNCHANGED vars
    BY <1>8 DEF CloseConnection, OtherOpens, OtherCloses, Arrive, vars
  <1> QED
    BY <1>4, <1>5, <1>6, <1>7, <1>8 DEF Next, Thread, Handler

\* When there are descriptors for the listening socket, the other threads, every
\* connection and one to spare, and accept4 reports nothing but EAGAIN, the loop of
\* handle_accept leaves no connection behind.
THEOREM AmpleDescriptors == Spec => []AmpleDrains
  <1>1. Init => IInv /\ LoopInv
    BY InitIInv DEF Init, LoopInv, NoStrandedConnection
  <1>2. IInv /\ [Next]_vars => IInv'
    BY NextIInv
  <1>3. IInv /\ LoopInv /\ [Next]_vars => LoopInv'
    BY NextLoopInv
  <1>4. LoopInv => AmpleDrains
    BY DEF LoopInv, AmpleDrains
  <1> QED
    BY <1>1, <1>2, <1>3, <1>4, PTL DEF Spec
=============================================================================
