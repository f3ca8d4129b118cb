------------------------ MODULE TcpConnectionProofs -------------------------
(***************************************************************************)
(* For every size of buffer, response, send and receive buffer, with the   *)
(* buffers of v2 and with those of v3: edges strand neither input nor      *)
(* output, the application's continuation is held exactly once, a reader   *)
(* misses nothing but whole buffers, a connection that closes is owned     *)
(* unless its peer has reset it, and every step is one of an Exchange.     *)
(***************************************************************************)
EXTENDS TcpConnection, SequenceTheorems, FiniteSetTheorems, TLAPS

\* What the place in the code says of the rest.
StageInv ==
  /\ pc = "accepted" =>
       app = "new" /\ ~registered /\ ~wantOut /\ ~closed /\ inBytes = 0
  /\ pc \in {"read", "write", "buffer"} => app \notin {"new", "stopped"}
  /\ pc \in {"write", "buffer"} => remaining > 0
  /\ pc = "dispatch" => ev # {}
  /\ pc = "flush" => "out" \in ev
  /\ "hup" \in ev => err
  /\ closed => ~registered
  /\ app = "new" => pc = "accepted"

\* OneContinuation, in terms of the three holders.
HoldInv == pc # "killed" =>
  IF app \in {"new", "stopped"} \/ pc \in {"read", "write", "buffer"}
  THEN ~pendingRead /\ ~pendingWrite /\ task = None
  ELSE \/ pendingRead /\ ~pendingWrite /\ task = None
       \/ ~pendingRead /\ pendingWrite /\ task = None
       \/ ~pendingRead /\ ~pendingWrite /\ task # None

\* Unread bytes and a reset have an edge, or the thread is about to see them.
InputInv ==
  /\ registered /\ rx > 0 => edge \/ pc = "drain" \/ (pc = "dispatch" /\ "in" \in ev)
  /\ registered /\ err => edge \/ (pc = "dispatch" /\ "hup" \in ev)

\* EPOLLOUT is asked for exactly while a write is pending, and room in the send
\* buffer has an edge, will have one, or is about to be used.
OutputInv ==
  /\ registered => (wantOut <=> pendingWrite)
  /\ registered /\ pendingWrite /\ pc # "killed" =>
       \/ edge \/ tx = TxMax
       \/ "out" \in ev /\ pc \in {"dispatch", "drain", "deliver", "flush"}
  /\ registered /\ pendingWrite /\ pc \notin {"flush", "killed"} /\ tx = TxMax => nospace
  /\ pc = "buffer" /\ tx = TxMax => nospace

\* Why the application is told to end.
EndInv ==
  /\ app = "stopped" => closed \/ err
  /\ task.cb = "read" /\ task.n = 0 => closed
  /\ task.cb = "write" /\ task.n < 0 => closed \/ err

\* What has been drained while a read is pending.
DrainInv ==
  /\ pc \in {"wait", "dispatch", "drain"} => task = None
  /\ inBytes = 0 => room \in {0, BufSize}
  /\ pendingRead /\ pc \notin {"drain", "deliver"} => inBytes = 0
  /\ pendingRead /\ pc = "drain" => inBytes % BufSize = 0 /\ room \in {0, BufSize}
  /\ OnlyWholeBuffersLost

-----------------------------------------------------------------------------

\* The sizes are positive numbers.
LEMMA Sizes ==
  /\ BufSize \in Nat /\ BufSize > 0 /\ RespLen \in Nat /\ RespLen > 0
  /\ RxMax \in Nat /\ TxMax \in Nat /\ TxMax > 0 /\ MaxIn \in Nat
  BY SizesAssumption

\* The stages.
LEMMA StageStep == TypeOK /\ StageInv /\ [Next]_vars => StageInv'
  <1> SUFFICES ASSUME TypeOK, StageInv, [Next]_vars PROVE StageInv'
    OBVIOUS
  <1> USE SizesAssumption DEF TypeOK, StageInv, Goto, None, Task, rxVars, txVars, epollVars,
     readVars, writeVars, appVars
  <1>1. CASE Accept /\ UNCHANGED chained
    BY <1>1 DEF Accept, Revents
  <1>2. CASE EpollWait /\ UNCHANGED chained
    BY <1>2 DEF EpollWait, Revents
  <1>3. CASE HandleHangup /\ UNCHANGED chained
    BY <1>3 DEF HandleHangup, HandleClose
  <1>4. CASE HandleEvents /\ UNCHANGED chained
    BY <1>4 DEF HandleEvents
  <1>5. CASE DrainData /\ UNCHANGED chained
    BY <1>5 DEF DrainData, Requested, RequestedChained, RequestedFlat, LeaveRoom, Least
  <1>6. CASE DrainEnd /\ UNCHANGED chained
    BY <1>6 DEF DrainEnd, HandleClose, Requested, RequestedChained, RequestedFlat, LeaveRoom
  <1>7. CASE DrainAgain /\ UNCHANGED chained
    BY <1>7 DEF DrainAgain, Requested, RequestedChained, RequestedFlat, LeaveRoom
  <1>8. CASE Deliver /\ UNCHANGED chained
    BY <1>8 DEF Deliver, Extract
  <1>9. CASE FlushWrite /\ UNCHANGED chained
    BY <1>9 DEF FlushWrite, Transmit
  <1>10. CASE FlushAgain /\ UNCHANGED chained
    BY <1>10 DEF FlushAgain, SendBufferFull
  <1>11. CASE FlushError /\ UNCHANGED chained
    BY <1>11 DEF FlushError, DisableWrite, ModifyEvents
  <1>12. CASE FlushDone /\ UNCHANGED chained
    BY <1>12 DEF FlushDone, DisableWrite, ModifyEvents
  <1>13. CASE Read /\ UNCHANGED chained
    BY <1>13 DEF Read, Extract, BeginWrite, Stop
  <1>14. CASE WriteSome /\ UNCHANGED chained
    BY <1>14 DEF WriteSome, Transmit
  <1>15. CASE WriteAgain /\ UNCHANGED chained
    BY <1>15 DEF WriteAgain, SendBufferFull
  <1>16. CASE WriteError /\ UNCHANGED chained
    BY <1>16 DEF WriteError, Stop
  <1>17. CASE WriteBuffer /\ UNCHANGED chained
    BY <1>17 DEF WriteBuffer, EnableWrite, ModifyEvents, BufferChained, BufferFlat
  <1>18. CASE RunReadDone /\ UNCHANGED chained
    BY <1>18 DEF RunReadDone, Stop, BeginWrite
  <1>19. CASE RunWriteDone /\ UNCHANGED chained
    BY <1>19 DEF RunWriteDone, Stop
  <1>20. CASE EnterWait /\ UNCHANGED chained
    BY <1>20 DEF EnterWait
  <1>21. CASE PeerAck /\ UNCHANGED chained
    BY <1>21 DEF PeerAck, Raise, Unchanged
  <1>22. CASE PeerSend /\ UNCHANGED chained
    BY <1>22 DEF PeerSend, Raise, Unchanged, Least
  <1>23. CASE PeerFin /\ UNCHANGED chained
    BY <1>23 DEF PeerFin, Raise, Unchanged
  <1>24. CASE PeerReset /\ UNCHANGED chained
    BY <1>24 DEF PeerReset, Raise, Unchanged
  <1>25. CASE UNCHANGED vars
    BY <1>25 DEF vars
  <1>26. CASE WriteKilled /\ UNCHANGED chained
    BY <1>26 DEF WriteKilled, Broken
  <1> QED
    BY <1>1, <1>2, <1>3, <1>4, <1>5, <1>6, <1>7, <1>8, <1>9, <1>10, <1>11, <1>12, <1>13,
       <1>14, <1>15, <1>16, <1>17, <1>18, <1>19, <1>20, <1>21, <1>22, <1>23, <1>24, <1>25, <1>26
       DEF Next, Thread, ThreadStep, Ack

\* A promise is only set when nothing else is pending or scheduled.
LEMMA HoldStep == TypeOK /\ StageInv /\ HoldInv /\ [Next]_vars => HoldInv'
  <1> SUFFICES ASSUME TypeOK, StageInv, HoldInv, [Next]_vars PROVE HoldInv'
    OBVIOUS
  <1> USE SizesAssumption DEF TypeOK, StageInv, HoldInv, Goto, None, Task, rxVars, txVars,
     epollVars, readVars, writeVars, appVars
  <1>1. CASE Accept /\ UNCHANGED chained
    BY <1>1 DEF Accept, Revents
  <1>2. CASE EpollWait /\ UNCHANGED chained
    BY <1>2 DEF EpollWait, Revents
  <1>3. CASE HandleHangup /\ UNCHANGED chained
    BY <1>3 DEF HandleHangup, HandleClose
  <1>4. CASE HandleEvents /\ UNCHANGED chained
    BY <1>4 DEF HandleEvents
  <1>5. CASE DrainData /\ UNCHANGED chained
    BY <1>5 DEF DrainData, Requested, RequestedChained, RequestedFlat, LeaveRoom, Least
  <1>6. CASE DrainEnd /\ UNCHANGED chained
    BY <1>6 DEF DrainEnd, HandleClose, Requested, RequestedChained, RequestedFlat, LeaveRoom
  <1>7. CASE DrainAgain /\ UNCHANGED chained
    BY <1>7 DEF DrainAgain, Requested, RequestedChained, RequestedFlat, LeaveRoom
  <1>8. CASE Deliver /\ UNCHANGED chained
    BY <1>8 DEF Deliver, Extract
  <1>9. CASE FlushWrite /\ UNCHANGED chained
    BY <1>9 DEF FlushWrite, Transmit
  <1>10. CASE FlushAgain /\ UNCHANGED chained
    BY <1>10 DEF FlushAgain, SendBufferFull
  <1>11. CASE FlushError /\ UNCHANGED chained
    BY <1>11 DEF FlushError, DisableWrite, ModifyEvents
  <1>12. CASE FlushDone /\ UNCHANGED chained
    BY <1>12 DEF FlushDone, DisableWrite, ModifyEvents
  <1>13. CASE Read /\ UNCHANGED chained
    BY <1>13 DEF Read, Extract, BeginWrite, Stop
  <1>14. CASE WriteSome /\ UNCHANGED chained
    BY <1>14 DEF WriteSome, Transmit
  <1>15. CASE WriteAgain /\ UNCHANGED chained
    BY <1>15 DEF WriteAgain, SendBufferFull
  <1>16. CASE WriteError /\ UNCHANGED chained
    BY <1>16 DEF WriteError, Stop
  <1>17. CASE WriteBuffer /\ UNCHANGED chained
    BY <1>17 DEF WriteBuffer, EnableWrite, ModifyEvents, BufferChained, BufferFlat
  <1>18. CASE RunReadDone /\ UNCHANGED chained
    BY <1>18 DEF RunReadDone, Stop, BeginWrite
  <1>19. CASE RunWriteDone /\ UNCHANGED chained
    BY <1>19 DEF RunWriteDone, Stop
  <1>20. CASE EnterWait /\ UNCHANGED chained
    BY <1>20 DEF EnterWait
  <1>21. CASE PeerAck /\ UNCHANGED chained
    BY <1>21 DEF PeerAck, Raise, Unchanged
  <1>22. CASE PeerSend /\ UNCHANGED chained
    BY <1>22 DEF PeerSend, Raise, Unchanged, Least
  <1>23. CASE PeerFin /\ UNCHANGED chained
    BY <1>23 DEF PeerFin, Raise, Unchanged
  <1>24. CASE PeerReset /\ UNCHANGED chained
    BY <1>24 DEF PeerReset, Raise, Unchanged
  <1>25. CASE UNCHANGED vars
    BY <1>25 DEF vars
  <1>26. CASE WriteKilled /\ UNCHANGED chained
    BY <1>26 DEF WriteKilled, Broken
  <1> QED
    BY <1>1, <1>2, <1>3, <1>4, <1>5, <1>6, <1>7, <1>8, <1>9, <1>10, <1>11, <1>12, <1>13,
       <1>14, <1>15, <1>16, <1>17, <1>18, <1>19, <1>20, <1>21, <1>22, <1>23, <1>24, <1>25, <1>26
       DEF Next, Thread, ThreadStep, Ack

\* A short read leaves nothing unread.
LEMMA InputStep == TypeOK /\ StageInv /\ InputInv /\ [Next]_vars => InputInv'
  <1> SUFFICES ASSUME TypeOK, StageInv, InputInv, [Next]_vars PROVE InputInv'
    OBVIOUS
  <1> USE SizesAssumption DEF TypeOK, StageInv, InputInv, Revents, Goto, None, Task, rxVars,
     txVars, epollVars, readVars, writeVars, appVars
  <1>1. CASE Accept /\ UNCHANGED chained
    BY <1>1 DEF Accept, Revents
  <1>2. CASE EpollWait /\ UNCHANGED chained
    <2>1. rx > 0 \/ err => "in" \in ev'
      BY <1>2 DEF EpollWait
    <2>2. err => "hup" \in ev'
      BY <1>2 DEF EpollWait
    <2>3. pc' = IF ev' = {} THEN "wait" ELSE "dispatch"
      BY <1>2 DEF EpollWait
    <2>4. UNCHANGED <<rx, err, registered>>
      BY <1>2 DEF EpollWait
    <2> QED
      BY <2>1, <2>2, <2>3, <2>4
  <1>3. CASE HandleHangup /\ UNCHANGED chained
    BY <1>3 DEF HandleHangup, HandleClose
  <1>4. CASE HandleEvents /\ UNCHANGED chained
    BY <1>4 DEF HandleEvents
  <1>5. CASE DrainData /\ UNCHANGED chained
    BY <1>5 DEF DrainData, Requested, RequestedChained, RequestedFlat, LeaveRoom, Least
  <1>6. CASE DrainEnd /\ UNCHANGED chained
    BY <1>6 DEF DrainEnd, HandleClose, Requested, RequestedChained, RequestedFlat, LeaveRoom
  <1>7. CASE DrainAgain /\ UNCHANGED chained
    BY <1>7 DEF DrainAgain, Requested, RequestedChained, RequestedFlat, LeaveRoom
  <1>8. CASE Deliver /\ UNCHANGED chained
    BY <1>8 DEF Deliver, Extract
  <1>9. CASE FlushWrite /\ UNCHANGED chained
    BY <1>9 DEF FlushWrite, Transmit
  <1>10. CASE FlushAgain /\ UNCHANGED chained
    BY <1>10 DEF FlushAgain, SendBufferFull
  <1>11. CASE FlushError /\ UNCHANGED chained
    BY <1>11 DEF FlushError, DisableWrite, ModifyEvents
  <1>12. CASE FlushDone /\ UNCHANGED chained
    BY <1>12 DEF FlushDone, DisableWrite, ModifyEvents
  <1>13. CASE Read /\ UNCHANGED chained
    BY <1>13 DEF Read, Extract, BeginWrite, Stop
  <1>14. CASE WriteSome /\ UNCHANGED chained
    BY <1>14 DEF WriteSome, Transmit
  <1>15. CASE WriteAgain /\ UNCHANGED chained
    BY <1>15 DEF WriteAgain, SendBufferFull
  <1>16. CASE WriteError /\ UNCHANGED chained
    BY <1>16 DEF WriteError, Stop
  <1>17. CASE WriteBuffer /\ UNCHANGED chained
    BY <1>17 DEF WriteBuffer, EnableWrite, ModifyEvents, BufferChained, BufferFlat
  <1>18. CASE RunReadDone /\ UNCHANGED chained
    BY <1>18 DEF RunReadDone, Stop, BeginWrite
  <1>19. CASE RunWriteDone /\ UNCHANGED chained
    BY <1>19 DEF RunWriteDone, Stop
  <1>20. CASE EnterWait /\ UNCHANGED chained
    BY <1>20 DEF EnterWait
  <1>21. CASE PeerAck /\ UNCHANGED chained
    BY <1>21 DEF PeerAck, Raise, Unchanged
  <1>22. CASE PeerSend /\ UNCHANGED chained
    BY <1>22 DEF PeerSend, Raise, Unchanged, Least
  <1>23. CASE PeerFin /\ UNCHANGED chained
    BY <1>23 DEF PeerFin, Raise, Unchanged
  <1>24. CASE PeerReset /\ UNCHANGED chained
    BY <1>24 DEF PeerReset, Raise, Unchanged
  <1>25. CASE UNCHANGED vars
    BY <1>25 DEF vars
  <1>26. CASE WriteKilled /\ UNCHANGED chained
    BY <1>26 DEF WriteKilled, Broken
  <1> QED
    BY <1>1, <1>2, <1>3, <1>4, <1>5, <1>6, <1>7, <1>8, <1>9, <1>10, <1>11, <1>12, <1>13,
       <1>14, <1>15, <1>16, <1>17, <1>18, <1>19, <1>20, <1>21, <1>22, <1>23, <1>24, <1>25, <1>26
       DEF Next, Thread, ThreadStep, Ack

\* Between EAGAIN and EPOLLOUT no room is overlooked.
LEMMA OutputStep == TypeOK /\ StageInv /\ HoldInv /\ InputInv /\ OutputInv /\ [Next]_vars =>
   OutputInv'
  <1> SUFFICES ASSUME TypeOK, StageInv, HoldInv, InputInv, OutputInv, [Next]_vars PROVE
     OutputInv'
    OBVIOUS
  <1> USE SizesAssumption DEF TypeOK, StageInv, HoldInv, InputInv, OutputInv, Revents, Goto,
     None, Task, rxVars, txVars, epollVars, readVars, writeVars, appVars
  <1>1. CASE Accept /\ UNCHANGED chained
    BY <1>1 DEF Accept, Revents
  <1>2. CASE EpollWait /\ UNCHANGED chained
    <2>1. wantOut /\ tx # TxMax => "out" \in ev'
      BY <1>2 DEF EpollWait
    <2>2. pc = "wait" /\ pc' = IF ev' = {} THEN "wait" ELSE "dispatch"
      BY <1>2 DEF EpollWait
    <2>3. UNCHANGED <<tx, nospace, registered, wantOut, pendingWrite>>
      BY <1>2 DEF EpollWait
    <2> QED
      BY <2>1, <2>2, <2>3
  <1>3. CASE HandleHangup /\ UNCHANGED chained
    BY <1>3 DEF HandleHangup, HandleClose
  <1>4. CASE HandleEvents /\ UNCHANGED chained
    BY <1>4 DEF HandleEvents
  <1>5. CASE DrainData /\ UNCHANGED chained
    BY <1>5 DEF DrainData, Requested, RequestedChained, RequestedFlat, LeaveRoom, Least
  <1>6. CASE DrainEnd /\ UNCHANGED chained
    BY <1>6 DEF DrainEnd, HandleClose, Requested, RequestedChained, RequestedFlat, LeaveRoom
  <1>7. CASE DrainAgain /\ UNCHANGED chained
    BY <1>7 DEF DrainAgain, Requested, RequestedChained, RequestedFlat, LeaveRoom
  <1>8. CASE Deliver /\ UNCHANGED chained
    BY <1>8 DEF Deliver, Extract
  <1>9. CASE FlushWrite /\ UNCHANGED chained
    BY <1>9 DEF FlushWrite, Transmit
  <1>10. CASE FlushAgain /\ UNCHANGED chained
    BY <1>10 DEF FlushAgain, SendBufferFull
  <1>11. CASE FlushError /\ UNCHANGED chained
    BY <1>11 DEF FlushError, DisableWrite, ModifyEvents
  <1>12. CASE FlushDone /\ UNCHANGED chained
    BY <1>12 DEF FlushDone, DisableWrite, ModifyEvents
  <1>13. CASE Read /\ UNCHANGED chained
    BY <1>13 DEF Read, Extract, BeginWrite, Stop
  <1>14. CASE WriteSome /\ UNCHANGED chained
    BY <1>14 DEF WriteSome, Transmit
  <1>15. CASE WriteAgain /\ UNCHANGED chained
    BY <1>15 DEF WriteAgain, SendBufferFull
  <1>16. CASE WriteError /\ UNCHANGED chained
    BY <1>16 DEF WriteError, Stop
  <1>17. CASE WriteBuffer /\ UNCHANGED chained
    BY <1>17 DEF WriteBuffer, EnableWrite, ModifyEvents, BufferChained, BufferFlat
  <1>18. CASE RunReadDone /\ UNCHANGED chained
    BY <1>18 DEF RunReadDone, Stop, BeginWrite
  <1>19. CASE RunWriteDone /\ UNCHANGED chained
    BY <1>19 DEF RunWriteDone, Stop
  <1>20. CASE EnterWait /\ UNCHANGED chained
    BY <1>20 DEF EnterWait
  <1>21. CASE PeerAck /\ UNCHANGED chained
    BY <1>21 DEF PeerAck, Raise, Unchanged
  <1>22. CASE PeerSend /\ UNCHANGED chained
    BY <1>22 DEF PeerSend, Raise, Unchanged, Least
  <1>23. CASE PeerFin /\ UNCHANGED chained
    BY <1>23 DEF PeerFin, Raise, Unchanged
  <1>24. CASE PeerReset /\ UNCHANGED chained
    BY <1>24 DEF PeerReset, Raise, Unchanged
  <1>25. CASE UNCHANGED vars
    BY <1>25 DEF vars
  <1>26. CASE WriteKilled /\ UNCHANGED chained
    BY <1>26 DEF WriteKilled, Broken
  <1> QED
    BY <1>1, <1>2, <1>3, <1>4, <1>5, <1>6, <1>7, <1>8, <1>9, <1>10, <1>11, <1>12, <1>13,
       <1>14, <1>15, <1>16, <1>17, <1>18, <1>19, <1>20, <1>21, <1>22, <1>23, <1>24, <1>25, <1>26
       DEF Next, Thread, ThreadStep, Ack

\* The application ends when the connection has closed or was reset.
LEMMA EndStep == TypeOK /\ StageInv /\ HoldInv /\ EndInv /\ [Next]_vars => EndInv'
  <1> SUFFICES ASSUME TypeOK, StageInv, HoldInv, EndInv, [Next]_vars PROVE EndInv'
    OBVIOUS
  <1> USE SizesAssumption DEF TypeOK, StageInv, HoldInv, EndInv, Goto, None, Task, rxVars,
     txVars, epollVars, readVars, writeVars, appVars
  <1>1. CASE Accept /\ UNCHANGED chained
    BY <1>1 DEF Accept, Revents
  <1>2. CASE EpollWait /\ UNCHANGED chained
    BY <1>2 DEF EpollWait, Revents
  <1>3. CASE HandleHangup /\ UNCHANGED chained
    BY <1>3 DEF HandleHangup, HandleClose
  <1>4. CASE HandleEvents /\ UNCHANGED chained
    BY <1>4 DEF HandleEvents
  <1>5. CASE DrainData /\ UNCHANGED chained
    BY <1>5 DEF DrainData, Requested, RequestedChained, RequestedFlat, LeaveRoom, Least
  <1>6. CASE DrainEnd /\ UNCHANGED chained
    BY <1>6 DEF DrainEnd, HandleClose, Requested, RequestedChained, RequestedFlat, LeaveRoom
  <1>7. CASE DrainAgain /\ UNCHANGED chained
    BY <1>7 DEF DrainAgain, Requested, RequestedChained, RequestedFlat, LeaveRoom
  <1>8. CASE Deliver /\ UNCHANGED chained
    BY <1>8 DEF Deliver, Extract
  <1>9. CASE FlushWrite /\ UNCHANGED chained
    BY <1>9 DEF FlushWrite, Transmit
  <1>10. CASE FlushAgain /\ UNCHANGED chained
    BY <1>10 DEF FlushAgain, SendBufferFull
  <1>11. CASE FlushError /\ UNCHANGED chained
    BY <1>11 DEF FlushError, DisableWrite, ModifyEvents
  <1>12. CASE FlushDone /\ UNCHANGED chained
    BY <1>12 DEF FlushDone, DisableWrite, ModifyEvents
  <1>13. CASE Read /\ UNCHANGED chained
    BY <1>13 DEF Read, Extract, BeginWrite, Stop
  <1>14. CASE WriteSome /\ UNCHANGED chained
    BY <1>14 DEF WriteSome, Transmit
  <1>15. CASE WriteAgain /\ UNCHANGED chained
    BY <1>15 DEF WriteAgain, SendBufferFull
  <1>16. CASE WriteError /\ UNCHANGED chained
    BY <1>16 DEF WriteError, Stop
  <1>17. CASE WriteBuffer /\ UNCHANGED chained
    BY <1>17 DEF WriteBuffer, EnableWrite, ModifyEvents, BufferChained, BufferFlat
  <1>18. CASE RunReadDone /\ UNCHANGED chained
    BY <1>18 DEF RunReadDone, Stop, BeginWrite
  <1>19. CASE RunWriteDone /\ UNCHANGED chained
    BY <1>19 DEF RunWriteDone, Stop
  <1>20. CASE EnterWait /\ UNCHANGED chained
    BY <1>20 DEF EnterWait
  <1>21. CASE PeerAck /\ UNCHANGED chained
    BY <1>21 DEF PeerAck, Raise, Unchanged
  <1>22. CASE PeerSend /\ UNCHANGED chained
    BY <1>22 DEF PeerSend, Raise, Unchanged, Least
  <1>23. CASE PeerFin /\ UNCHANGED chained
    BY <1>23 DEF PeerFin, Raise, Unchanged
  <1>24. CASE PeerReset /\ UNCHANGED chained
    BY <1>24 DEF PeerReset, Raise, Unchanged
  <1>25. CASE UNCHANGED vars
    BY <1>25 DEF vars
  <1>26. CASE WriteKilled /\ UNCHANGED chained
    BY <1>26 DEF WriteKilled, Broken
  <1> QED
    BY <1>1, <1>2, <1>3, <1>4, <1>5, <1>6, <1>7, <1>8, <1>9, <1>10, <1>11, <1>12, <1>13,
       <1>14, <1>15, <1>16, <1>17, <1>18, <1>19, <1>20, <1>21, <1>22, <1>23, <1>24, <1>25, <1>26
       DEF Next, Thread, ThreadStep, Ack

\* Chunks cuts the rest of a response into buffers that are full but for the last.
LEMMA ChunksType ==
  ASSUME NEW n \in 1 .. RespLen
  PROVE  Chunks(n) \in Seq(1 .. BufSize)
  <1> USE Sizes
  <1> DEFINE q == (n + BufSize - 1) \div BufSize
  <1>1. q \in Nat /\ q * BufSize <= n + BufSize - 1
    OBVIOUS
  <1>2. ASSUME NEW i \in 1 .. q
        PROVE  Least(BufSize, n - (i - 1) * BufSize) \in 1 .. BufSize
    <2>1. i * BufSize <= q * BufSize
      BY <1>1
    <2>2. (i - 1) * BufSize = i * BufSize - BufSize
      BY <1>1
    <2>3. i * BufSize \in Nat
      BY <1>1
    <2> QED
      BY <1>1, <2>1, <2>2, <2>3 DEF Least
  <1> QED
    BY <1>1, <1>2 DEF Chunks

\* A multiple of the buffer's size that is smaller than a buffer is nothing.
LEMMA NoPart ==
  ASSUME NEW k \in Int, NEW r \in Int, k * BufSize = r, 0 <= r, r < BufSize
  PROVE  r = 0
  <1> USE Sizes
  <1>1. CASE k >= 1
    <2>1. k * BufSize = (k - 1) * BufSize + BufSize
      BY SMT
    <2>2. (k - 1) * BufSize >= 0
      BY <1>1, SMT
    <2> QED
      BY <2>1, <2>2, SMT
  <1>2. CASE k <= -1
    <2>1. k * BufSize = (k + 1) * BufSize - BufSize
      BY SMT
    <2>2. (k + 1) * BufSize <= 0
      BY <1>2, SMT
    <2> QED
      BY <2>1, <2>2, SMT
  <1>3. CASE k = 0
    BY <1>3
  <1> QED
    BY <1>1, <1>2, <1>3

\* Whole buffers leave no remainder.
LEMMA Remainder ==
  ASSUME NEW n \in Nat, NEW q \in Int, n = q * BufSize
  PROVE  n % BufSize = 0
  <1> USE Sizes
  <1> DEFINE p == n \div BufSize
  <1> DEFINE r == n % BufSize
  <1>1. p \in Int /\ r \in Int /\ 0 <= r /\ r < BufSize /\ n = BufSize * p + r
    OBVIOUS
  <1> HIDE DEF p, r
  <1>2. (q - p) * BufSize = r
    BY <1>1
  <1>3. q - p \in Int
    BY <1>1
  <1>4. r = 0
    BY <1>1, <1>2, <1>3, NoPart
  <1> QED
    BY <1>4 DEF r

\* Whole buffers stay whole.
LEMMA WholeBuffers ==
  ASSUME NEW n \in Nat
  PROVE  /\ 0 % BufSize = 0
         /\ n % BufSize = 0 => (n + BufSize) % BufSize = 0
  <1> USE Sizes
  <1>1. 0 % BufSize = 0
    <2>1. 0 = 0 * BufSize
      OBVIOUS
    <2> QED
      BY <2>1, Remainder
  <1>2. ASSUME n % BufSize = 0
        PROVE  (n + BufSize) % BufSize = 0
    <2> DEFINE p == n \div BufSize
    <2>1. p \in Int /\ n = BufSize * p
      BY <1>2
    <2> HIDE DEF p
    <2>2. n + BufSize = (p + 1) * BufSize /\ p + 1 \in Int /\ n + BufSize \in Nat
      BY <2>1
    <2> QED
      BY <2>2, Remainder
  <1> QED
    BY <1>1, <1>2

\* The types.
LEMMA TypeStep == TypeOK /\ StageInv /\ [Next]_vars => TypeOK'
  <1> SUFFICES ASSUME TypeOK, StageInv, [Next]_vars PROVE TypeOK'
    OBVIOUS
  <1> USE SizesAssumption DEF TypeOK, StageInv, Goto, None, Task, rxVars, txVars, epollVars,
     readVars, writeVars, appVars
  <1>1. CASE Accept /\ UNCHANGED chained
    BY <1>1 DEF Accept, Revents
  <1>2. CASE EpollWait /\ UNCHANGED chained
    BY <1>2 DEF EpollWait, Revents
  <1>3. CASE HandleHangup /\ UNCHANGED chained
    <2>1. rx' \in 0 .. RxMax /\ tx' \in 0 .. TxMax /\ said' \in 0 .. MaxIn
      BY <1>3 DEF HandleHangup, HandleClose
    <2>2. {chained, fin, err, nospace, edge, registered, wantOut, pendingRead, pendingWrite,
         closed}' \subseteq BOOLEAN
      BY <1>3 DEF HandleHangup, HandleClose
    <2>3. pc' \in {"accepted", "wait", "dispatch", "drain", "deliver", "flush", "read",
               "write", "buffer", "pending", "killed"}
      BY <1>3 DEF HandleHangup, HandleClose
    <2>4. ev' \subseteq {"in", "out", "hup"}
      BY <1>3 DEF HandleHangup, HandleClose
    <2>5. inBytes' \in Nat /\ got' \in Nat /\ pushed' \in Nat /\ done' \in Nat
      BY <1>3 DEF HandleHangup, HandleClose
    <2>6. room' \in 0 .. BufSize /\ remaining' \in 0 .. RespLen
      BY <1>3 DEF HandleHangup, HandleClose
    <2>7. out' \in Seq(1 .. IF chained THEN BufSize ELSE RespLen)'
      BY <1>3 DEF HandleHangup, HandleClose
    <2>8. task' \in [cb : {"none", "read", "write"}, n : {-1} \cup Nat]
      BY <1>3 DEF HandleHangup, HandleClose
    <2>9. app' \in {"new", "reading", "writing", "stopped"}
      BY <1>3 DEF HandleHangup, HandleClose
    <2> QED
      BY <2>1, <2>2, <2>3, <2>4, <2>5, <2>6, <2>7, <2>8, <2>9
  <1>4. CASE HandleEvents /\ UNCHANGED chained
    BY <1>4 DEF HandleEvents
  <1>5. CASE DrainData /\ UNCHANGED chained
    <2>1. rx' \in 0 .. RxMax /\ tx' \in 0 .. TxMax /\ said' \in 0 .. MaxIn
      BY <1>5 DEF DrainData, Requested, RequestedChained, RequestedFlat, LeaveRoom, Least
    <2>2. {chained, fin, err, nospace, edge, registered, wantOut, pendingRead, pendingWrite,
         closed}' \subseteq BOOLEAN
      BY <1>5 DEF DrainData, Requested, RequestedChained, RequestedFlat, LeaveRoom, Least
    <2>3. pc' \in {"accepted", "wait", "dispatch", "drain", "deliver", "flush", "read",
               "write", "buffer", "pending", "killed"}
      BY <1>5 DEF DrainData, Requested, RequestedChained, RequestedFlat, LeaveRoom, Least
    <2>4. ev' \subseteq {"in", "out", "hup"}
      BY <1>5 DEF DrainData, Requested, RequestedChained, RequestedFlat, LeaveRoom, Least
    <2>5. inBytes' \in Nat /\ got' \in Nat /\ pushed' \in Nat /\ done' \in Nat
      BY <1>5 DEF DrainData, Requested, RequestedChained, RequestedFlat, LeaveRoom, Least
    <2>6. room' \in 0 .. BufSize /\ remaining' \in 0 .. RespLen
      BY <1>5 DEF DrainData, Requested, RequestedChained, RequestedFlat, LeaveRoom, Least
    <2>7. out' \in Seq(1 .. IF chained THEN BufSize ELSE RespLen)'
      BY <1>5 DEF DrainData, Requested, RequestedChained, RequestedFlat, LeaveRoom, Least
    <2>8. task' \in [cb : {"none", "read", "write"}, n : {-1} \cup Nat]
      BY <1>5 DEF DrainData, Requested, RequestedChained, RequestedFlat, LeaveRoom, Least
    <2>9. app' \in {"new", "reading", "writing", "stopped"}
      BY <1>5 DEF DrainData, Requested, RequestedChained, RequestedFlat, LeaveRoom, Least
    <2> QED
      BY <2>1, <2>2, <2>3, <2>4, <2>5, <2>6, <2>7, <2>8, <2>9
  <1>6. CASE DrainEnd /\ UNCHANGED chained
    <2>1. rx' \in 0 .. RxMax /\ tx' \in 0 .. TxMax /\ said' \in 0 .. MaxIn
      BY <1>6 DEF DrainEnd, HandleClose, Requested, RequestedChained, RequestedFlat,
         LeaveRoom
    <2>2. {chained, fin, err, nospace, edge, registered, wantOut, pendingRead, pendingWrite,
         closed}' \subseteq BOOLEAN
      BY <1>6 DEF DrainEnd, HandleClose, Requested, RequestedChained, RequestedFlat,
         LeaveRoom
    <2>3. pc' \in {"accepted", "wait", "dispatch", "drain", "deliver", "flush", "read",
               "write", "buffer", "pending", "killed"}
      BY <1>6 DEF DrainEnd, HandleClose, Requested, RequestedChained, RequestedFlat,
         LeaveRoom
    <2>4. ev' \subseteq {"in", "out", "hup"}
      BY <1>6 DEF DrainEnd, HandleClose, Requested, RequestedChained, RequestedFlat,
         LeaveRoom
    <2>5. inBytes' \in Nat /\ got' \in Nat /\ pushed' \in Nat /\ done' \in Nat
      BY <1>6 DEF DrainEnd, HandleClose, Requested, RequestedChained, RequestedFlat,
         LeaveRoom
    <2>6. room' \in 0 .. BufSize /\ remaining' \in 0 .. RespLen
      BY <1>6 DEF DrainEnd, HandleClose, Requested, RequestedChained, RequestedFlat,
         LeaveRoom
    <2>7. out' \in Seq(1 .. IF chained THEN BufSize ELSE RespLen)'
      BY <1>6 DEF DrainEnd, HandleClose, Requested, RequestedChained, RequestedFlat,
         LeaveRoom
    <2>8. task' \in [cb : {"none", "read", "write"}, n : {-1} \cup Nat]
      BY <1>6 DEF DrainEnd, HandleClose, Requested, RequestedChained, RequestedFlat,
         LeaveRoom
    <2>9. app' \in {"new", "reading", "writing", "stopped"}
      BY <1>6 DEF DrainEnd, HandleClose, Requested, RequestedChained, RequestedFlat,
         LeaveRoom
    <2> QED
      BY <2>1, <2>2, <2>3, <2>4, <2>5, <2>6, <2>7, <2>8, <2>9
  <1>7. CASE DrainAgain /\ UNCHANGED chained
    BY <1>7 DEF DrainAgain, Requested, RequestedChained, RequestedFlat, LeaveRoom
  <1>8. CASE Deliver /\ UNCHANGED chained
    <2>1. rx' \in 0 .. RxMax /\ tx' \in 0 .. TxMax /\ said' \in 0 .. MaxIn
      BY <1>8 DEF Deliver, Extract
    <2>2. {chained, fin, err, nospace, edge, registered, wantOut, pendingRead, pendingWrite,
         closed}' \subseteq BOOLEAN
      BY <1>8 DEF Deliver, Extract
    <2>3. pc' \in {"accepted", "wait", "dispatch", "drain", "deliver", "flush", "read",
               "write", "buffer", "pending", "killed"}
      BY <1>8 DEF Deliver, Extract
    <2>4. ev' \subseteq {"in", "out", "hup"}
      BY <1>8 DEF Deliver, Extract
    <2>5. inBytes' \in Nat /\ got' \in Nat /\ pushed' \in Nat /\ done' \in Nat
      BY <1>8 DEF Deliver, Extract
    <2>6. room' \in 0 .. BufSize /\ remaining' \in 0 .. RespLen
      BY <1>8 DEF Deliver, Extract
    <2>7. out' \in Seq(1 .. IF chained THEN BufSize ELSE RespLen)'
      BY <1>8 DEF Deliver, Extract
    <2>8. task' \in [cb : {"none", "read", "write"}, n : {-1} \cup Nat]
      BY <1>8 DEF Deliver, Extract
    <2>9. app' \in {"new", "reading", "writing", "stopped"}
      BY <1>8 DEF Deliver, Extract
    <2> QED
      BY <2>1, <2>2, <2>3, <2>4, <2>5, <2>6, <2>7, <2>8, <2>9
  <1>9. CASE FlushWrite /\ UNCHANGED chained
    <2>1. rx' \in 0 .. RxMax /\ tx' \in 0 .. TxMax /\ said' \in 0 .. MaxIn
      BY <1>9 DEF FlushWrite, Transmit
    <2>2. {chained, fin, err, nospace, edge, registered, wantOut, pendingRead, pendingWrite,
         closed}' \subseteq BOOLEAN
      BY <1>9 DEF FlushWrite, Transmit
    <2>3. pc' \in {"accepted", "wait", "dispatch", "drain", "deliver", "flush", "read",
               "write", "buffer", "pending", "killed"}
      BY <1>9 DEF FlushWrite, Transmit
    <2>4. ev' \subseteq {"in", "out", "hup"}
      BY <1>9 DEF FlushWrite, Transmit
    <2>5. inBytes' \in Nat /\ got' \in Nat /\ pushed' \in Nat /\ done' \in Nat
      BY <1>9 DEF FlushWrite, Transmit
    <2>6. room' \in 0 .. BufSize /\ remaining' \in 0 .. RespLen
      BY <1>9 DEF FlushWrite, Transmit
    <2>7. out' \in Seq(1 .. IF chained THEN BufSize ELSE RespLen)'
      <3> DEFINE M == IF chained THEN BufSize ELSE RespLen
      <3>1. M \in Nat /\ M' = M /\ out \in Seq(1 .. M) /\ out # << >>
        BY <1>9 DEF FlushWrite
      <3>2. PICK n \in 1 .. Head(out) :
              out' = IF n = Head(out) THEN Tail(out) ELSE <<Head(out) - n>> \o Tail(out)
        BY <1>9 DEF FlushWrite
      <3>3. Head(out) \in 1 .. M /\ Tail(out) \in Seq(1 .. M)
        BY <3>1
      <3> HIDE DEF M
      <3>4. CASE n = Head(out)
        BY <3>1, <3>2, <3>3, <3>4 DEF M
      <3>5. CASE n # Head(out)
        <4> DEFINE k == Head(out) - n
        <4>k. k \in 1 .. M
          <5> DEFINE h == Head(out)
          <5>1. M \in Nat /\ h \in 1 .. M /\ n \in 1 .. h /\ n # h
            BY <3>1, <3>3, <3>5
          <5> HIDE DEF h
          <5>2. h - n \in 1 .. M
            BY <5>1
          <5> QED
            BY <5>2 DEF h
        <4> HIDE DEF k
        <4>1. <<k>> \in Seq(1 .. M)
          BY <4>k
        <4>2. out' \in Seq(1 .. M)
          BY <3>2, <3>3, <3>5, <4>1 DEF k
        <4> QED
          BY <3>1, <4>2 DEF M
      <3> QED
        BY <3>4, <3>5
    <2>8. task' \in [cb : {"none", "read", "write"}, n : {-1} \cup Nat]
      BY <1>9 DEF FlushWrite, Transmit
    <2>9. app' \in {"new", "reading", "writing", "stopped"}
      BY <1>9 DEF FlushWrite, Transmit
    <2> QED
      BY <2>1, <2>2, <2>3, <2>4, <2>5, <2>6, <2>7, <2>8, <2>9
  <1>10. CASE FlushAgain /\ UNCHANGED chained
    BY <1>10 DEF FlushAgain, SendBufferFull
  <1>11. CASE FlushError /\ UNCHANGED chained
    BY <1>11 DEF FlushError, DisableWrite, ModifyEvents
  <1>12. CASE FlushDone /\ UNCHANGED chained
    <2>1. rx' \in 0 .. RxMax /\ tx' \in 0 .. TxMax /\ said' \in 0 .. MaxIn
      BY <1>12 DEF FlushDone, DisableWrite, ModifyEvents
    <2>2. {chained, fin, err, nospace, edge, registered, wantOut, pendingRead, pendingWrite,
         closed}' \subseteq BOOLEAN
      BY <1>12 DEF FlushDone, DisableWrite, ModifyEvents
    <2>3. pc' \in {"accepted", "wait", "dispatch", "drain", "deliver", "flush", "read",
               "write", "buffer", "pending", "killed"}
      BY <1>12 DEF FlushDone, DisableWrite, ModifyEvents
    <2>4. ev' \subseteq {"in", "out", "hup"}
      BY <1>12 DEF FlushDone, DisableWrite, ModifyEvents
    <2>5. inBytes' \in Nat /\ got' \in Nat /\ pushed' \in Nat /\ done' \in Nat
      BY <1>12 DEF FlushDone, DisableWrite, ModifyEvents
    <2>6. room' \in 0 .. BufSize /\ remaining' \in 0 .. RespLen
      BY <1>12 DEF FlushDone, DisableWrite, ModifyEvents
    <2>7. out' \in Seq(1 .. IF chained THEN BufSize ELSE RespLen)'
      BY <1>12 DEF FlushDone, DisableWrite, ModifyEvents
    <2>8. task' \in [cb : {"none", "read", "write"}, n : {-1} \cup Nat]
      BY <1>12 DEF FlushDone, DisableWrite, ModifyEvents
    <2>9. app' \in {"new", "reading", "writing", "stopped"}
      BY <1>12 DEF FlushDone, DisableWrite, ModifyEvents
    <2> QED
      BY <2>1, <2>2, <2>3, <2>4, <2>5, <2>6, <2>7, <2>8, <2>9
  <1>13. CASE Read /\ UNCHANGED chained
    <2>1. rx' \in 0 .. RxMax /\ tx' \in 0 .. TxMax /\ said' \in 0 .. MaxIn
      BY <1>13 DEF Read, Extract, BeginWrite, Stop
    <2>2. {chained, fin, err, nospace, edge, registered, wantOut, pendingRead, pendingWrite,
         closed}' \subseteq BOOLEAN
      BY <1>13 DEF Read, Extract, BeginWrite, Stop
    <2>3. pc' \in {"accepted", "wait", "dispatch", "drain", "deliver", "flush", "read",
               "write", "buffer", "pending", "killed"}
      BY <1>13 DEF Read, Extract, BeginWrite, Stop
    <2>4. ev' \subseteq {"in", "out", "hup"}
      BY <1>13 DEF Read, Extract, BeginWrite, Stop
    <2>5. inBytes' \in Nat /\ got' \in Nat /\ pushed' \in Nat /\ done' \in Nat
      BY <1>13 DEF Read, Extract, BeginWrite, Stop
    <2>6. room' \in 0 .. BufSize /\ remaining' \in 0 .. RespLen
      BY <1>13 DEF Read, Extract, BeginWrite, Stop
    <2>7. out' \in Seq(1 .. IF chained THEN BufSize ELSE RespLen)'
      BY <1>13 DEF Read, Extract, BeginWrite, Stop
    <2>8. task' \in [cb : {"none", "read", "write"}, n : {-1} \cup Nat]
      BY <1>13 DEF Read, Extract, BeginWrite, Stop
    <2>9. app' \in {"new", "reading", "writing", "stopped"}
      BY <1>13 DEF Read, Extract, BeginWrite, Stop
    <2> QED
      BY <2>1, <2>2, <2>3, <2>4, <2>5, <2>6, <2>7, <2>8, <2>9
  <1>14. CASE WriteSome /\ UNCHANGED chained
    BY <1>14 DEF WriteSome, Transmit
  <1>15. CASE WriteAgain /\ UNCHANGED chained
    BY <1>15 DEF WriteAgain, SendBufferFull
  <1>16. CASE WriteError /\ UNCHANGED chained
    BY <1>16 DEF WriteError, Stop
  <1>17. CASE WriteBuffer /\ UNCHANGED chained
    <2>1. rx' \in 0 .. RxMax /\ tx' \in 0 .. TxMax /\ said' \in 0 .. MaxIn
      BY <1>17 DEF WriteBuffer, EnableWrite, ModifyEvents, BufferChained, BufferFlat
    <2>2. {chained, fin, err, nospace, edge, registered, wantOut, pendingRead, pendingWrite,
         closed}' \subseteq BOOLEAN
      BY <1>17 DEF WriteBuffer, EnableWrite, ModifyEvents, BufferChained, BufferFlat
    <2>3. pc' \in {"accepted", "wait", "dispatch", "drain", "deliver", "flush", "read",
               "write", "buffer", "pending", "killed"}
      BY <1>17 DEF WriteBuffer, EnableWrite, ModifyEvents, BufferChained, BufferFlat
    <2>4. ev' \subseteq {"in", "out", "hup"}
      BY <1>17 DEF WriteBuffer, EnableWrite, ModifyEvents, BufferChained, BufferFlat
    <2>5. inBytes' \in Nat /\ got' \in Nat /\ pushed' \in Nat /\ done' \in Nat
      BY <1>17 DEF WriteBuffer, EnableWrite, ModifyEvents, BufferChained, BufferFlat
    <2>6. room' \in 0 .. BufSize /\ remaining' \in 0 .. RespLen
      BY <1>17 DEF WriteBuffer, EnableWrite, ModifyEvents, BufferChained, BufferFlat
    <2>7. out' \in Seq(1 .. IF chained THEN BufSize ELSE RespLen)'
      <3>1. remaining \in 1 .. RespLen
        BY <1>17 DEF WriteBuffer
      <3>2. CASE chained
        <4>1. out \in Seq(1 .. BufSize) /\ Chunks(remaining) \in Seq(1 .. BufSize)
          BY <3>1, <3>2, ChunksType
        <4>2. chained' /\ out' = out \o Chunks(remaining)
          BY <1>17, <3>2 DEF WriteBuffer, BufferChained
        <4>3. out' \in Seq(1 .. BufSize)
          BY <4>1, <4>2
        <4> QED
          BY <4>2, <4>3
      <3>3. CASE ~chained
        <4>1. ~chained' /\ out' = <<remaining>>
          BY <1>17, <3>3 DEF WriteBuffer, BufferFlat
        <4>2. out' \in Seq(1 .. RespLen)
          BY <3>1, <4>1
        <4> QED
          BY <4>1, <4>2
      <3> QED
        BY <3>2, <3>3
    <2>8. task' \in [cb : {"none", "read", "write"}, n : {-1} \cup Nat]
      BY <1>17 DEF WriteBuffer, EnableWrite, ModifyEvents, BufferChained, BufferFlat
    <2>9. app' \in {"new", "reading", "writing", "stopped"}
      BY <1>17 DEF WriteBuffer, EnableWrite, ModifyEvents, BufferChained, BufferFlat
    <2> QED
      BY <2>1, <2>2, <2>3, <2>4, <2>5, <2>6, <2>7, <2>8, <2>9
  <1>18. CASE RunReadDone /\ UNCHANGED chained
    BY <1>18 DEF RunReadDone, Stop, BeginWrite
  <1>19. CASE RunWriteDone /\ UNCHANGED chained
    BY <1>19 DEF RunWriteDone, Stop
  <1>20. CASE EnterWait /\ UNCHANGED chained
    BY <1>20 DEF EnterWait
  <1>21. CASE PeerAck /\ UNCHANGED chained
    <2>1. rx' \in 0 .. RxMax /\ tx' \in 0 .. TxMax /\ said' \in 0 .. MaxIn
      BY <1>21 DEF PeerAck, Raise, Unchanged
    <2>2. {chained, fin, err, nospace, edge, registered, wantOut, pendingRead, pendingWrite,
         closed}' \subseteq BOOLEAN
      BY <1>21 DEF PeerAck, Raise, Unchanged
    <2>3. pc' \in {"accepted", "wait", "dispatch", "drain", "deliver", "flush", "read",
               "write", "buffer", "pending", "killed"}
      BY <1>21 DEF PeerAck, Raise, Unchanged
    <2>4. ev' \subseteq {"in", "out", "hup"}
      BY <1>21 DEF PeerAck, Raise, Unchanged
    <2>5. inBytes' \in Nat /\ got' \in Nat /\ pushed' \in Nat /\ done' \in Nat
      BY <1>21 DEF PeerAck, Raise, Unchanged
    <2>6. room' \in 0 .. BufSize /\ remaining' \in 0 .. RespLen
      BY <1>21 DEF PeerAck, Raise, Unchanged
    <2>7. out' \in Seq(1 .. IF chained THEN BufSize ELSE RespLen)'
      BY <1>21 DEF PeerAck, Raise, Unchanged
    <2>8. task' \in [cb : {"none", "read", "write"}, n : {-1} \cup Nat]
      BY <1>21 DEF PeerAck, Raise, Unchanged
    <2>9. app' \in {"new", "reading", "writing", "stopped"}
      BY <1>21 DEF PeerAck, Raise, Unchanged
    <2> QED
      BY <2>1, <2>2, <2>3, <2>4, <2>5, <2>6, <2>7, <2>8, <2>9
  <1>22. CASE PeerSend /\ UNCHANGED chained
    BY <1>22 DEF PeerSend, Raise, Unchanged, Least
  <1>23. CASE PeerFin /\ UNCHANGED chained
    BY <1>23 DEF PeerFin, Raise, Unchanged
  <1>24. CASE PeerReset /\ UNCHANGED chained
    BY <1>24 DEF PeerReset, Raise, Unchanged
  <1>25. CASE UNCHANGED vars
    BY <1>25 DEF vars
  <1>26. CASE WriteKilled /\ UNCHANGED chained
    BY <1>26 DEF WriteKilled, Broken
  <1> QED
    BY <1>1, <1>2, <1>3, <1>4, <1>5, <1>6, <1>7, <1>8, <1>9, <1>10, <1>11, <1>12, <1>13,
       <1>14, <1>15, <1>16, <1>17, <1>18, <1>19, <1>20, <1>21, <1>22, <1>23, <1>24, <1>25, <1>26
       DEF Next, Thread, ThreadStep, Ack

\* While a read is pending, only whole buffers are drained and kept.
LEMMA DrainStep == TypeOK /\ StageInv /\ HoldInv /\ DrainInv /\ [Next]_vars => DrainInv'
  <1> SUFFICES ASSUME TypeOK, StageInv, HoldInv, DrainInv, [Next]_vars PROVE DrainInv'
    OBVIOUS
  <1> USE SizesAssumption DEF TypeOK, StageInv, HoldInv, DrainInv, OnlyWholeBuffersLost,
     Goto, None, Task, rxVars, txVars, epollVars, readVars, writeVars, appVars
  <1>1. CASE Accept /\ UNCHANGED chained
    BY <1>1 DEF Accept, Revents
  <1>2. CASE EpollWait /\ UNCHANGED chained
    BY <1>2 DEF EpollWait, Revents
  <1>3. CASE HandleHangup /\ UNCHANGED chained
    BY <1>3 DEF HandleHangup, HandleClose
  <1>4. CASE HandleEvents /\ UNCHANGED chained
    BY <1>4 DEF HandleEvents
  <1>5. CASE DrainData /\ UNCHANGED chained
    <2> DEFINE n == Least(rx, Requested)
    <2>1. Requested \in 1 .. BufSize /\ (room \in {0, BufSize} => Requested = BufSize)
      BY DEF Requested, RequestedChained, RequestedFlat
    <2>2. n \in 1 .. Requested
      BY <1>5, <2>1 DEF DrainData, Least
    <2>3. /\ pc = "drain" /\ pc' = IF n < Requested THEN "deliver" ELSE "drain"
          /\ inBytes' = inBytes + n
          /\ room' = IF chained THEN Requested - n ELSE 0
          /\ UNCHANGED <<pendingRead, task>>
      BY <1>5 DEF DrainData, LeaveRoom
    <2> HIDE DEF n
    <2>4. task' = None /\ inBytes' # 0
      BY <2>1, <2>2, <2>3
    <2>5. ASSUME pendingRead, pc' = "drain"
          PROVE  inBytes' % BufSize = 0 /\ room' \in {0, BufSize}
      <3>1. n = Requested /\ Requested = BufSize
        BY <2>1, <2>2, <2>3, <2>5
      <3> QED
        BY <2>3, <2>5, <3>1, WholeBuffers
    <2> QED
      BY <2>3, <2>4, <2>5
  <1>6. CASE DrainEnd /\ UNCHANGED chained
    BY <1>6 DEF DrainEnd, HandleClose, Requested, RequestedChained, RequestedFlat, LeaveRoom
  <1>7. CASE DrainAgain /\ UNCHANGED chained
    BY <1>7 DEF DrainAgain, Requested, RequestedChained, RequestedFlat, LeaveRoom
  <1>8. CASE Deliver /\ UNCHANGED chained
    BY <1>8 DEF Deliver, Extract
  <1>9. CASE FlushWrite /\ UNCHANGED chained
    BY <1>9 DEF FlushWrite, Transmit
  <1>10. CASE FlushAgain /\ UNCHANGED chained
    BY <1>10 DEF FlushAgain, SendBufferFull
  <1>11. CASE FlushError /\ UNCHANGED chained
    BY <1>11 DEF FlushError, DisableWrite, ModifyEvents
  <1>12. CASE FlushDone /\ UNCHANGED chained
    BY <1>12 DEF FlushDone, DisableWrite, ModifyEvents
  <1>13. CASE Read /\ UNCHANGED chained
    BY <1>13 DEF Read, Extract, BeginWrite, Stop
  <1>14. CASE WriteSome /\ UNCHANGED chained
    BY <1>14 DEF WriteSome, Transmit
  <1>15. CASE WriteAgain /\ UNCHANGED chained
    BY <1>15 DEF WriteAgain, SendBufferFull
  <1>16. CASE WriteError /\ UNCHANGED chained
    BY <1>16 DEF WriteError, Stop
  <1>17. CASE WriteBuffer /\ UNCHANGED chained
    BY <1>17 DEF WriteBuffer, EnableWrite, ModifyEvents, BufferChained, BufferFlat
  <1>18. CASE RunReadDone /\ UNCHANGED chained
    BY <1>18 DEF RunReadDone, Stop, BeginWrite
  <1>19. CASE RunWriteDone /\ UNCHANGED chained
    BY <1>19 DEF RunWriteDone, Stop
  <1>20. CASE EnterWait /\ UNCHANGED chained
    BY <1>20 DEF EnterWait
  <1>21. CASE PeerAck /\ UNCHANGED chained
    BY <1>21 DEF PeerAck, Raise, Unchanged
  <1>22. CASE PeerSend /\ UNCHANGED chained
    BY <1>22 DEF PeerSend, Raise, Unchanged, Least
  <1>23. CASE PeerFin /\ UNCHANGED chained
    BY <1>23 DEF PeerFin, Raise, Unchanged
  <1>24. CASE PeerReset /\ UNCHANGED chained
    BY <1>24 DEF PeerReset, Raise, Unchanged
  <1>25. CASE UNCHANGED vars
    BY <1>25 DEF vars
  <1>26. CASE WriteKilled /\ UNCHANGED chained
    BY <1>26 DEF WriteKilled, Broken
  <1> QED
    BY <1>1, <1>2, <1>3, <1>4, <1>5, <1>6, <1>7, <1>8, <1>9, <1>10, <1>11, <1>12, <1>13,
       <1>14, <1>15, <1>16, <1>17, <1>18, <1>19, <1>20, <1>21, <1>22, <1>23, <1>24, <1>25, <1>26
       DEF Next, Thread, ThreadStep, Ack

-----------------------------------------------------------------------------
(* The inductive invariant.                                                *)

IInv ==
  TypeOK /\ StageInv /\ HoldInv /\ InputInv /\ OutputInv /\ EndInv /\ DrainInv

\* It holds when the acceptor hands over the socket.
LEMMA InitIInv == Init => IInv
  <1> SUFFICES ASSUME Init PROVE IInv
    OBVIOUS
  <1> USE Sizes DEF Init, None, Task
  <1>1. TypeOK
    <2>1. out \in Seq(1 .. IF chained THEN BufSize ELSE RespLen)
      OBVIOUS
    <2>2. task \in [cb : {"none", "read", "write"}, n : {-1} \cup Nat]
      OBVIOUS
    <2>3. /\ rx \in 0 .. RxMax /\ tx \in 0 .. TxMax /\ said \in 0 .. MaxIn
          /\ inBytes \in Nat /\ got \in Nat /\ pushed \in Nat /\ done \in Nat
          /\ room \in 0 .. BufSize /\ remaining \in 0 .. RespLen
      OBVIOUS
    <2>4. {chained, fin, err, nospace, edge, registered, wantOut, pendingRead,
           pendingWrite, closed} \subseteq BOOLEAN
      OBVIOUS
    <2>5. pc = "accepted" /\ ev = {} /\ app = "new"
      OBVIOUS
    <2> QED
      BY <2>1, <2>2, <2>3, <2>4, <2>5, Zenon DEF TypeOK
  <1>2. StageInv /\ HoldInv
    BY DEF StageInv, HoldInv
  <1>3. InputInv /\ OutputInv /\ EndInv
    BY DEF InputInv, OutputInv, EndInv
  <1>4. DrainInv
    BY DEF DrainInv, OnlyWholeBuffersLost
  <1> QED
    BY <1>1, <1>2, <1>3, <1>4 DEF IInv

\* Every step keeps it.
LEMMA NextIInv == IInv /\ [Next]_vars => IInv'
  BY TypeStep, StageStep, HoldStep, InputStep, OutputStep, EndStep, DrainStep DEF IInv

\* So it always holds.
LEMMA Inductive == Spec => []IInv
  BY InitIInv, NextIInv, PTL DEF Spec

-----------------------------------------------------------------------------
(* What follows from it.                                                   *)

\* Every variable keeps its type: buffers stay within their size, the kernel's
\* within theirs, and no output buffer is empty.
THEOREM TypeCorrect == Spec => []TypeOK
  <1>1. IInv => TypeOK
    BY DEF IInv
  <1> QED
    BY Inductive, <1>1, PTL

\* A reactor in epoll_wait has an edge for whatever the kernel holds for it:
\* drain_socket may return after a short read.
THEOREM InputNotStranded == Spec => []NoStrandedInput
  <1>1. IInv => NoStrandedInput
    BY DEF IInv, InputInv, NoStrandedInput
  <1> QED
    BY Inductive, <1>1, PTL

\* A reactor in epoll_wait with a pending write has asked for EPOLLOUT, and gets
\* it: now, or when the full send buffer drains.
THEOREM OutputNotStranded == Spec => []NoStrandedOutput
  <1>1. IInv => NoStrandedOutput
    BY DEF IInv, OutputInv, NoStrandedOutput
  <1> QED
    BY Inductive, <1>1, PTL

\* HoldInv counts what OneContinuation counts.
LEMMA HeldOnce == HoldInv => OneContinuation
  <1> SUFFICES ASSUME HoldInv PROVE OneContinuation
    OBVIOUS
  <1>0. CASE pc = "killed"
    BY <1>0 DEF OneContinuation, Killed
  <1>1. Holders = {} => Cardinality(Holders) = 0
    BY FS_EmptySet
  <1>2. \A h : Holders = {h} => Cardinality(Holders) = 1
    BY FS_Singleton
  <1>3. CASE pc # "killed" /\ (app \in {"new", "stopped"} \/ pc \in {"read", "write", "buffer"})
    <2>1. Holders = {}
      BY <1>3 DEF HoldInv, Holders
    <2> QED
      BY <1>1, <1>3, <2>1 DEF OneContinuation
  <1>4. CASE pc # "killed" /\ ~(app \in {"new", "stopped"} \/ pc \in {"read", "write", "buffer"})
    <2>1. \/ Holders = {"pending_read_"}
          \/ Holders = {"pending_write_"}
          \/ Holders = {"pending_tasks"}
      BY <1>4 DEF HoldInv, Holders
    <2> QED
      BY <1>2, <1>4, <2>1 DEF OneContinuation
  <1> QED
    BY <1>0, <1>3, <1>4

\* The application's continuation is running, held by one pending promise or
\* scheduled once; only an application that has ended has none.
THEOREM ContinuationHeldOnce == Spec => []OneContinuation
  <1>1. IInv => OneContinuation
    BY HeldOnce DEF IInv
  <1> QED
    BY Inductive, <1>1, PTL

\* A reader that is told of the end of the stream has missed whole buffers, or
\* nothing.
THEOREM WholeBuffersLost == Spec => []OnlyWholeBuffersLost
  <1>1. IInv => OnlyWholeBuffersLost
    BY DEF IInv, DrainInv
  <1> QED
    BY Inductive, <1>1, PTL

\* handle_close runs on a connection that the application still refers to,
\* unless the peer has reset it.
THEOREM OwnedUnlessReset == Spec => OwnedWhileClosing
  <1>1. ASSUME IInv, [Next]_vars
        PROVE  [closed' # closed => err \/ Holders # {}]_vars
    <2> SUFFICES ASSUME closed' # closed, ~err PROVE Holders # {}
      OBVIOUS
    <2>1. HandleHangup \/ DrainEnd
      BY <1>1 DEF vars, Next, Thread, ThreadStep, Ack,
          Accept, EpollWait, HandleEvents, DrainData, DrainAgain, Deliver,
          FlushWrite, FlushAgain, FlushError, FlushDone, Read, WriteSome,
          WriteAgain, WriteError, WriteBuffer, WriteKilled, RunReadDone, RunWriteDone,
          EnterWait, PeerAck, PeerSend, PeerFin, PeerReset, Unchanged
    <2>2. ~HandleHangup
      BY <1>1 DEF IInv, StageInv, HandleHangup
    <2>3. pc = "drain" /\ ~closed
      BY <1>1, <2>1, <2>2 DEF DrainEnd, Goto, HandleClose
    <2>4. app \notin {"new", "stopped"}
      BY <1>1, <2>3 DEF IInv, StageInv, EndInv
    <2> QED
      BY <1>1, <2>3, <2>4 DEF IInv, HoldInv, Holders
  <1> QED
    BY Inductive, <1>1, PTL DEF Spec, OwnedWhileClosing
-----------------------------------------------------------------------------
(* The connection is an Exchange.                                          *)

\* The bytes of the current response that the kernel has not accepted.
Due == RespLen * Begun - pushed

\* The output buffers hold n bytes, cut as a new rest of n bytes would be but for
\* the first buffer, of which a part may have been sent.
Filled(buffers, n) ==
  IF buffers = << >> THEN n = 0
  ELSE Head(buffers) \in 1 .. n /\ Tail(buffers) = Chunks(n - Head(buffers))

\* Where the bytes are that are due, and which call is waited for.
ServInv ==
  /\ pc = "read" \/ pendingRead \/ task.cb = "read" => app = "reading"
  /\ pc \in {"write", "buffer"} \/ pendingWrite \/ task.cb = "write" => app = "writing"
  /\ ~Told /\ app \in {"new", "reading"} => out = << >> /\ Due = RespLen
  /\ ~Told /\ app = "writing" /\ pc \in {"write", "buffer"} => out = << >> /\ remaining = Due
  /\ ~Told /\ app = "writing" /\ pc \notin {"write", "buffer"} =>
       Filled(out, Due) /\ Due <= RespLen /\ (task.cb = "write" => out = << >>)

LEMMA ChunkCount ==
  ASSUME NEW n \in Nat
  PROVE  LET q == (n + BufSize - 1) \div BufSize IN
         /\ q \in Nat /\ (q = 0 <=> n = 0)
         /\ n > BufSize => (n - BufSize + BufSize - 1) \div BufSize = q - 1
         /\ 0 < n /\ n <= BufSize => q = 1
  <1> USE Sizes
  <1>1. (n + BufSize - 1) \div BufSize \in Nat
    OBVIOUS
  <1>2. n = 0 => (n + BufSize - 1) \div BufSize = 0
    OBVIOUS
  <1>3. n > 0 => (n + BufSize - 1) \div BufSize > 0
    OBVIOUS
  <1>4. n > BufSize => (n - BufSize + BufSize - 1) \div BufSize = (n + BufSize - 1) \div BufSize - 1
    OBVIOUS
  <1>5. 0 < n /\ n <= BufSize => (n + BufSize - 1) \div BufSize = 1
    OBVIOUS
  <1> QED
    BY <1>1, <1>2, <1>3, <1>4, <1>5

\* What Chunks(n) begins with and how it goes on.
LEMMA ChunksFilled ==
  ASSUME NEW n \in 0 .. RespLen
  PROVE  Filled(Chunks(n), n)
  <1> USE Sizes
  <1> DEFINE q == (n + BufSize - 1) \div BufSize
  <1>0. q \in Nat /\ (q = 0 <=> n = 0)
    BY ChunkCount
  <1>1. CASE n = 0
    <2>1. Chunks(n) = [i \in 1 .. 0 |-> Least(BufSize, n - (i - 1) * BufSize)]
      BY <1>0, <1>1 DEF Chunks
    <2>2. Chunks(n) = << >>
      BY <2>1
    <2> QED
      BY <1>1, <2>2 DEF Filled
  <1>2. CASE n # 0
    <2>1. Chunks(n) \in Seq(1 .. BufSize)
      BY <1>2, ChunksType
    <2>2. Len(Chunks(n)) = q /\ \A i \in 1 .. q : Chunks(n)[i] = Least(BufSize, n - (i - 1) * BufSize)
      BY <1>0 DEF Chunks
    <2>3. Chunks(n) # << >> /\ Head(Chunks(n)) = Least(BufSize, n)
      BY <1>0, <1>2, <2>1, <2>2
    <2> DEFINE h == Least(BufSize, n)
    <2>4. h \in 1 .. n /\ n - h \in 0 .. RespLen
      BY <1>2 DEF Least
    <2>5. Len(Tail(Chunks(n))) = q - 1
      BY <2>1, <2>2, <2>3
    <2>6. \A i \in 1 .. q - 1 : Tail(Chunks(n))[i] = Least(BufSize, n - i * BufSize)
      BY <1>0, <2>1, <2>2, <2>3
    <2>7. (n - h + BufSize - 1) \div BufSize = q - 1
      BY <1>2, ChunkCount DEF Least
    <2>8. Chunks(n - h) = [i \in 1 .. q - 1 |-> Least(BufSize, n - h - (i - 1) * BufSize)]
      BY <2>7 DEF Chunks
    <2>9. ASSUME NEW i \in 1 .. q - 1
          PROVE  n - h - (i - 1) * BufSize = n - i * BufSize
      <3>1. q > 1 /\ h = BufSize
        <4>1. q > 1
          BY <1>0, <2>9
        <4>2. n > BufSize
          BY <1>2, <4>1, ChunkCount
        <4> QED
          BY <4>1, <4>2 DEF Least
      <3>2. (i - 1) * BufSize = i * BufSize - BufSize /\ i * BufSize \in Int
        BY <1>0
      <3> HIDE DEF h, q
      <3> QED
        BY <3>1, <3>2
    <2>10. Tail(Chunks(n)) = Chunks(n - h)
      <3>1. Chunks(n - h) = [i \in 1 .. q - 1 |-> Least(BufSize, n - i * BufSize)]
        <4> HIDE DEF h, q
        <4> QED
          BY <2>8, <2>9
      <3> DEFINE t == Tail(Chunks(n))
      <3>2. t \in Seq(1 .. BufSize) /\ Len(t) = q - 1
        BY <2>1, <2>3, <2>5
      <3>3. \A i \in 1 .. q - 1 : t[i] = Least(BufSize, n - i * BufSize)
        BY <2>6
      <3> HIDE DEF h, q, t
      <3>4. t = [i \in 1 .. q - 1 |-> t[i]]
        BY <3>2
      <3>5. t = Chunks(n - h)
        BY <3>1, <3>3, <3>4
      <3> QED
        BY <3>5 DEF t
    <2> QED
      BY <2>3, <2>4, <2>10 DEF Filled
  <1> QED
    BY <1>1, <1>2

\* What a step does to what is due.
LEMMA DueSteps ==
  ASSUME TypeOK, TypeOK'
  PROVE  /\ Due \in Int
         /\ (UNCHANGED <<done, pushed>> /\ (task'.cb = "write" <=> task.cb = "write"))
              => Due' = Due
         /\ \A n \in Int :
              (/\ pushed' = pushed + n /\ done' = done
               /\ task'.cb = "write" <=> task.cb = "write")
                => Due' = Due - n
         /\ (/\ pushed' = pushed /\ done' = done + 1
             /\ task.cb # "write" /\ task'.cb = "write")
              => Due' = Due
         /\ \A n \in Int :
              (/\ pushed' = pushed + n /\ done' = done + 1
               /\ task.cb # "write" /\ task'.cb # "write")
                => Due' = Due - n + RespLen
         /\ (UNCHANGED <<done, pushed>> /\ task.cb = "write" /\ task'.cb # "write")
              => Due' = Due + RespLen
  <1>0. done \in Int /\ pushed \in Int /\ RespLen \in Int /\ pushed' \in Int
    BY Sizes DEF TypeOK
  <1> DEFINE all == RespLen * done
  <1>1. /\ all \in Int /\ RespLen * (done + 0) = all /\ RespLen * (done + 1) = all + RespLen
        /\ RespLen * (done + 1 + 0) = all + RespLen
        /\ RespLen * (done + 1 + 1) = all + RespLen + RespLen
    BY <1>0
  <1>2. /\ task.cb = "write" => Due = RespLen * (done + 0) - pushed
        /\ task.cb # "write" => Due = RespLen * (done + 1) - pushed
    BY DEF Due, Begun
  <1> HIDE DEF all
  <1>4. /\ task.cb = "write" => Due = all - pushed
        /\ task.cb # "write" => Due = all + RespLen - pushed
    BY <1>0, <1>1, <1>2
  <1>5. ASSUME done' = done
        PROVE  /\ task'.cb = "write" => Due' = all - pushed'
               /\ task'.cb # "write" => Due' = all + RespLen - pushed'
    <2>1. /\ task'.cb = "write" => Due' = RespLen * (done + 0) - pushed'
          /\ task'.cb # "write" => Due' = RespLen * (done + 1) - pushed'
      BY <1>5 DEF Due, Begun
    <2> QED
      BY <1>0, <1>1, <2>1
  <1>6. ASSUME done' = done + 1
        PROVE  /\ task'.cb = "write" => Due' = all + RespLen - pushed'
               /\ task'.cb # "write" => Due' = all + RespLen + RespLen - pushed'
    <2>1. /\ task'.cb = "write" => Due' = RespLen * (done + 1 + 0) - pushed'
          /\ task'.cb # "write" => Due' = RespLen * (done + 1 + 1) - pushed'
      BY <1>6 DEF Due, Begun
    <2> QED
      BY <1>0, <1>1, <2>1
  <1>7. all \in Int
    BY <1>1
  <1> QED
    BY <1>0, <1>4, <1>5, <1>6, <1>7

\* Exchange's actions, in terms of this module's state.
Owed == IF Phase = "writing" THEN Due ELSE 0
Step == [Served!Next]_(Served!vars)

LEMMA Stutters == UNCHANGED <<Phase, got, Owed>> => Step
  BY DEF Step, Served!vars, Owed, Due

LEMMA Gives ==
  /\ Phase = "reading" /\ Phase' = "writing"
  /\ got' \in Nat /\ got' > got
  /\ Due' = RespLen
  => Step
  BY DEF Step, Served!Next, Served!Give, Due

LEMMA Sends ==
  ASSUME NEW n \in 1 .. Due,
         Phase = "writing", Due \in Nat, got' = got,
         \/ Phase' = "writing" /\ Due' = Due - n
         \/ Phase' = "reading" /\ Due = n
  PROVE  Step
  BY DEF Step, Served!Next, Served!Respond, Served!Send, Due

LEMMA Reports ==
  Phase = "writing" /\ Due = 0 /\ Phase' = "reading" /\ got' = got => Step
  BY DEF Step, Served!Next, Served!Respond, Served!Report, Due

LEMMA Ends ==
  Phase # "ended" /\ Phase' = "ended" /\ got' = got => Step
  BY DEF Step, Served!Next, Served!End


\* What tells the application of an end, and which call it waits for.
PhaseSays ==
  /\ Told <=> \/ app = "stopped"
              \/ pc = "killed"
              \/ task.cb = "read" /\ task.n = 0
              \/ task.cb = "write" /\ task.n < 0
  /\ Phase = IF Told THEN "ended"
             ELSE IF app = "writing" \/ task.cb = "read" THEN "writing" ELSE "reading"

LEMMA PhaseNow == TypeOK => PhaseSays
  <1> SUFFICES ASSUME TypeOK PROVE PhaseSays
    OBVIOUS
  <1>1. task \in [cb : {"none", "read", "write"}, n : {-1} \cup Nat]
    BY DEF TypeOK
  <1>2. task = Task("read", 0) <=> task.cb = "read" /\ task.n = 0
    BY <1>1 DEF Task
  <1>3. task = Task("write", -1) <=> task.cb = "write" /\ task.n = -1
    BY <1>1 DEF Task
  <1>4. task.n < 0 <=> task.n = -1
    BY <1>1
  <1>5. Told <=> \/ app = "stopped"
                 \/ pc = "killed"
                 \/ task.cb = "read" /\ task.n = 0
                 \/ task.cb = "write" /\ task.n < 0
    BY <1>2, <1>3, <1>4 DEF Told, Killed
  <1> QED
    BY <1>5 DEF Phase, PhaseSays

LEMMA PhaseIs ==
  ASSUME TypeOK, TypeOK'
  PROVE  PhaseSays /\ PhaseSays'
  BY PhaseNow, PTL

\* Where the application's code is running, or nothing any more.
Calling == {"read", "write", "buffer", "killed"}

\* Steps that move nothing and tell the application nothing.
LEMMA ServQuiet ==
  ASSUME IInv, IInv', ServInv,
         UNCHANGED <<out, remaining, pushed, done, task, app, pendingRead, pendingWrite, got>>,
         pc' = pc \/ (pc \notin Calling /\ pc' \notin Calling)
  PROVE  ServInv' /\ Step
  <1>1. Due' = Due
    BY DueSteps DEF IInv
  <1>2. (Told' <=> Told) /\ Phase' = Phase
    BY DEF Told, Phase, Killed, Calling
  <1>3. Filled(out', Due') <=> Filled(out, Due)
    BY <1>1
  <1>4. ServInv'
    BY <1>1, <1>2, <1>3 DEF ServInv, Calling
  <1> QED
    BY <1>1, <1>2, <1>4, Stutters DEF Owed

\* What the tasks that are scheduled say.
LEMMA TaskFields ==
  /\ None.cb = "none"
  /\ \A cb, n : Task(cb, n).cb = cb /\ Task(cb, n).n = n
  BY DEF None, Task

\* The close of a connection.
LEMMA ServClose ==
  ASSUME IInv, IInv', ServInv, HandleClose,
         UNCHANGED <<out, remaining, pushed, done, app, got>>,
         pc \notin Calling, pc' \notin Calling
  PROVE  ServInv' /\ Step
  <1>1. TypeOK /\ TypeOK' /\ HoldInv
    BY DEF IInv
  <1>2. CASE UNCHANGED <<pendingRead, pendingWrite, task>>
    BY <1>2, ServQuiet
  <1>3. CASE pendingRead /\ task' = Task("read", 0)
    <2>1. app = "reading" /\ task = None
      BY <1>1, <1>3 DEF ServInv, HoldInv, Calling
    <2>2. task'.cb = "read" /\ task'.n = 0 /\ task.cb = "none"
      BY <1>3, <2>1, TaskFields
    <2>3. ~Told /\ Phase = "reading" /\ Told' /\ Phase' = "ended"
      BY <1>1, <2>1, <2>2, PhaseIs DEF PhaseSays, Calling
    <2>4. ~pendingWrite'
      BY <1>1, <1>3, <2>1 DEF HandleClose, HoldInv, Calling
    <2>5. ServInv'
      BY <2>1, <2>2, <2>3, <2>4 DEF ServInv, Calling
    <2> QED
      BY <2>3, <2>5, Ends
  <1>4. CASE pendingWrite /\ task' = Task("write", -1)
    <2>1. app = "writing" /\ task = None /\ ~pendingRead
      BY <1>1, <1>4 DEF ServInv, HoldInv, Calling
    <2>2. task'.cb = "write" /\ task'.n = -1 /\ task.cb = "none"
      BY <1>4, <2>1, TaskFields
    <2>3. ~Told /\ Phase = "writing" /\ Told' /\ Phase' = "ended"
      BY <1>1, <2>1, <2>2, PhaseIs DEF PhaseSays, Calling
    <2>4. ~pendingRead'
      BY <1>1, <1>4, <2>1 DEF HandleClose, HoldInv, Calling
    <2>5. ServInv'
      BY <2>1, <2>2, <2>3, <2>4 DEF ServInv, Calling
    <2> QED
      BY <2>3, <2>5, Ends
  <1>5. pendingRead \in BOOLEAN /\ pendingWrite \in BOOLEAN
    BY <1>1 DEF TypeOK
  <1>6. CASE closed
    BY <1>2, <1>6 DEF HandleClose
  <1>7. CASE ~closed /\ ~pendingRead /\ ~pendingWrite
    BY <1>2, <1>5, <1>7 DEF HandleClose
  <1>8. CASE ~closed /\ (pendingRead \/ pendingWrite)
    <2>1. task' = IF pendingRead THEN Task("read", 0)
                  ELSE IF pendingWrite THEN Task("write", -1) ELSE task
      BY <1>8 DEF HandleClose
    <2> QED
      BY <1>3, <1>4, <1>8, <2>1
  <1> QED
    BY <1>5, <1>6, <1>7, <1>8

\* accept and start_http_bench begin the first read.
LEMMA ServAccept ==
  ASSUME IInv, IInv', ServInv, Accept
  PROVE  ServInv' /\ Step
  <1>1. /\ app = "new" /\ app' = "reading" /\ pc = "accepted" /\ pc' = "pending"
        /\ UNCHANGED <<out, remaining, pushed, done, task, pendingWrite, got>>
    BY DEF IInv, StageInv, Accept, Goto, writeVars, txVars
  <1>2. TypeOK /\ TypeOK' /\ task = None /\ ~pendingWrite
    BY <1>1 DEF IInv, HoldInv
  <1>3. task.cb = "none" /\ task'.cb = "none"
    BY <1>1, <1>2, TaskFields
  <1>4. ~Told /\ ~Told' /\ Phase = "reading" /\ Phase' = "reading"
    BY <1>1, <1>2, <1>3, PhaseIs DEF PhaseSays
  <1>5. Due' = Due
    BY <1>1, <1>2, DueSteps
  <1>6. ServInv'
    BY <1>1, <1>2, <1>3, <1>4, <1>5 DEF ServInv
  <1> QED
    BY <1>1, <1>4, <1>6, Stutters DEF Owed

\* handle_readable gives the reader what was drained.
LEMMA ServDeliver ==
  ASSUME IInv, IInv', ServInv, Deliver
  PROVE  ServInv' /\ Step
  <1>1. /\ pc = "deliver" /\ pc' \in {"flush", "pending"}
        /\ UNCHANGED <<out, remaining, pushed, done, app, pendingWrite>>
    BY DEF Deliver, Goto, writeVars, txVars
  <1>2. TypeOK /\ TypeOK' /\ HoldInv
    BY DEF IInv
  <1>3. CASE pendingRead /\ inBytes > 0
    <2>1. got' = got + inBytes /\ ~pendingRead' /\ task' = Task("read", inBytes)
      BY <1>3 DEF Deliver, Extract
    <2>2. app = "reading" /\ task = None /\ ~pendingWrite
      BY <1>1, <1>2, <1>3 DEF ServInv, HoldInv
    <2>3. task.cb = "none" /\ task'.cb = "read" /\ task'.n # 0
      BY <1>3, <2>1, <2>2, TaskFields
    <2>4. ~Told /\ Phase = "reading" /\ ~Told' /\ Phase' = "writing"
      BY <1>1, <1>2, <2>2, <2>3, PhaseIs DEF PhaseSays
    <2>5. Due = RespLen /\ out = << >> /\ Due' = Due
      BY <1>1, <1>2, <2>2, <2>3, <2>4, DueSteps DEF ServInv
    <2>6. ServInv'
      BY <1>1, <2>1, <2>2, <2>3, <2>5 DEF ServInv
    <2>7. got' \in Nat /\ got' > got
      <3>1. inBytes \in Nat /\ got \in Nat
        BY <1>2 DEF TypeOK
      <3> QED
        BY <1>3, <2>1, <3>1
    <2> QED
      BY <2>4, <2>5, <2>6, <2>7, Gives
  <1>4. CASE ~(pendingRead /\ inBytes > 0)
    BY <1>1, <1>4, ServQuiet DEF Deliver, readVars, Calling
  <1> QED
    BY <1>3, <1>4

\* What is left of the first buffer goes before the others.
LEMMA PutBack ==
  ASSUME NEW x \in Nat, NEW t \in Seq(Nat), NEW all, all = <<x>> \o t
  PROVE  all # << >> /\ Head(all) = x /\ Tail(all) = t
  <1> DEFINE first == <<x>>
  <1>1. first \in Seq(Nat) /\ Len(first) = 1 /\ first[1] = x
    OBVIOUS
  <1>2. Len(t) \in Nat /\ t = [i \in 1 .. Len(t) |-> t[i]]
    BY LenProperties
  <1> HIDE DEF first
  <1>3. /\ all \in Seq(Nat) /\ Len(all) = 1 + Len(t)
        /\ \A i \in 1 .. 1 + Len(t) : all[i] = IF i <= 1 THEN first[i] ELSE t[i - 1]
    <2>1. /\ all \in Seq(Nat) /\ Len(all) = Len(first) + Len(t)
          /\ \A i \in 1 .. Len(first) + Len(t) :
               all[i] = IF i <= Len(first) THEN first[i] ELSE t[i - Len(first)]
      <3>1. all = first \o t
        BY DEF first
      <3> QED
        BY <1>1, <3>1, ConcatProperties
    <2> QED
      BY <1>1, <2>1
  <1>4. all[1] = x
    BY <1>1, <1>2, <1>3
  <1>5. ASSUME NEW i \in 1 .. Len(t)
        PROVE  all[i + 1] = t[i]
    <2>1. i + 1 \in 1 .. 1 + Len(t) /\ ~(i + 1 <= 1) /\ i + 1 - 1 = i
      BY <1>2
    <2> QED
      BY <1>3, <2>1
  <1>6. all # << >>
    BY <1>2, <1>3, EmptySeq
  <1>7. /\ Head(all) = x /\ Tail(all) \in Seq(Nat) /\ Len(Tail(all)) = Len(t)
        /\ \A i \in 1 .. Len(t) : Tail(all)[i] = all[i + 1]
    BY <1>2, <1>3, <1>4, <1>6, HeadTailProperties
  <1>8. Tail(all) = t
    BY <1>5, <1>7, SeqEqual
  <1> QED
    BY <1>6, <1>7, <1>8

LEMMA FilledIs ==
  ASSUME NEW buffers, NEW n, buffers # << >>,
         Head(buffers) \in 1 .. n, Tail(buffers) = Chunks(n - Head(buffers))
  PROVE  Filled(buffers, n)
  BY DEF Filled

\* The kernel takes n bytes of the first output buffer.
LEMMA FilledSend ==
  ASSUME NEW buffers \in Seq(Nat), NEW due \in 0 .. RespLen, Filled(buffers, due),
         buffers # << >>, NEW n \in 1 .. Head(buffers), NEW after,
         after = IF n = Head(buffers) THEN Tail(buffers)
                 ELSE <<Head(buffers) - n>> \o Tail(buffers)
  PROVE  n \in 1 .. due /\ Filled(after, due - n)
  <1> USE Sizes
  <1> DEFINE h == Head(buffers)
  <1>1. h \in 1 .. due /\ Tail(buffers) = Chunks(due - h) /\ Tail(buffers) \in Seq(Nat)
    BY DEF Filled
  <1> HIDE DEF h
  <1>2. n \in 1 .. due
    BY <1>1 DEF h
  <1>3. CASE n = h
    <2>1. due - h \in 0 .. RespLen
      BY <1>1
    <2>2. after = Chunks(due - h)
      BY <1>1, <1>3 DEF h
    <2>3. Filled(after, due - h)
      BY <2>1, <2>2, ChunksFilled
    <2> QED
      BY <1>2, <1>3, <2>3
  <1>4. CASE n # h
    <2>1. h - n \in 1 .. due - n /\ due - n - (h - n) = due - h
      BY <1>1, <1>2, <1>4 DEF h
    <2>2. after = <<h - n>> \o Tail(buffers)
      BY <1>4 DEF h
    <2>3. after # << >> /\ Head(after) = h - n /\ Tail(after) = Tail(buffers)
      <3>1. h - n \in Nat /\ Tail(buffers) \in Seq(Nat)
        BY <1>1, <2>1
      <3> QED
        BY <2>2, <3>1, PutBack
    <2>4. Head(after) \in 1 .. due - n
      BY <2>1, <2>3
    <2>5. Tail(after) = Chunks(due - n - Head(after))
      BY <1>1, <2>1, <2>3
    <2>6. Filled(after, due - n)
      BY <2>3, <2>4, <2>5, FilledIs
    <2> QED
      BY <1>2, <2>6
  <1> QED
    BY <1>3, <1>4

\* flush_output sends some of a response, or of what was left when the application
\* was told of its end.
LEMMA ServFlush ==
  ASSUME IInv, IInv', ServInv, FlushWrite
  PROVE  ServInv' /\ Step
  <1>1. /\ pc = "flush" /\ pc' = "flush" /\ out # << >>
        /\ UNCHANGED <<got, remaining, pendingRead, pendingWrite, done, task, app>>
    BY DEF FlushWrite, Goto, readVars, appVars
  <1>2. TypeOK /\ TypeOK' /\ out \in Seq(Nat)
    <2>1. TypeOK /\ TypeOK'
      BY DEF IInv
    <2>2. out \in Seq(1 .. IF chained THEN BufSize ELSE RespLen)
      BY <2>1 DEF TypeOK
    <2> QED
      BY <2>1, <2>2, Sizes
  <1>3. (Told' <=> Told) /\ Phase' = Phase
    BY <1>1 DEF Told, Phase, Killed
  <1>4. CASE Told
    <2>1. ServInv'
      BY <1>1, <1>3, <1>4 DEF ServInv
    <2>2. Phase = "ended"
      BY <1>2, <1>4, PhaseIs DEF PhaseSays
    <2> QED
      BY <1>1, <1>3, <2>1, <2>2, Stutters DEF Owed
  <1>5. CASE ~Told
    <2>1. app = "writing" /\ Phase = "writing"
      <3>1. app \notin {"new", "reading", "stopped"}
        BY <1>1, <1>5 DEF ServInv, Told, Killed
      <3>2. app = "writing"
        BY <1>2, <3>1 DEF TypeOK
      <3> QED
        BY <1>2, <1>5, <3>2, PhaseIs DEF PhaseSays
    <2>2. Filled(out, Due) /\ Due \in 0 .. RespLen /\ task.cb # "write"
      <3>1. Filled(out, Due) /\ Due <= RespLen /\ task.cb # "write"
        BY <1>1, <1>5, <2>1 DEF ServInv
      <3>2. Head(out) \in 1 .. Due /\ Due \in Int
        BY <1>1, <1>2, <3>1, DueSteps DEF Filled
      <3> QED
        BY <3>1, <3>2, Sizes
    <2>3. PICK n \in 1 .. Head(out) :
            /\ pushed' = pushed + n
            /\ out' = IF n = Head(out) THEN Tail(out) ELSE <<Head(out) - n>> \o Tail(out)
      BY DEF FlushWrite, Transmit
    <2>4. n \in 1 .. Due /\ Filled(out', Due - n)
      BY <1>1, <1>2, <2>2, <2>3, FilledSend
    <2>5. Due' = Due - n
      BY <1>1, <1>2, <2>3, <2>4, DueSteps
    <2>6. Due' <= RespLen
      BY <2>2, <2>4, <2>5, Sizes
    <2>7. ServInv'
      BY <1>1, <1>3, <2>1, <2>2, <2>4, <2>5, <2>6 DEF ServInv
    <2>8. Due \in Nat /\ Phase' = "writing"
      BY <1>3, <2>1, <2>2
    <2>9. Step
      BY <1>1, <2>1, <2>4, <2>5, <2>8, Sends
    <2> QED
      BY <2>7, <2>9
  <1> QED
    BY <1>4, <1>5

\* A write that fails, or is done, is told to the application if it waits for it.
LEMMA ServFlushEnd ==
  ASSUME IInv, IInv', ServInv, FlushError \/ FlushDone
  PROVE  ServInv' /\ Step
  <1>1. /\ pc = "flush" /\ pc' = "pending" /\ ~pendingWrite'
        /\ UNCHANGED <<got, out, remaining, pushed, pendingRead, app>>
    BY DEF FlushError, FlushDone, Goto, readVars, txVars
  <1>2. TypeOK /\ TypeOK' /\ HoldInv /\ pendingWrite \in BOOLEAN
    BY DEF IInv, TypeOK
  <1>3. CASE ~pendingWrite
    BY <1>1, <1>2, <1>3, ServQuiet DEF FlushError, FlushDone, Calling
  <1>4. CASE pendingWrite
    <2>1. app = "writing" /\ task = None /\ ~pendingRead /\ task.cb = "none"
      BY <1>1, <1>2, <1>4, TaskFields DEF ServInv, HoldInv
    <2>2. ~Told /\ Phase = "writing"
      BY <1>1, <1>2, <2>1, PhaseIs DEF PhaseSays
    <2>3. CASE FlushError
      <3>1. task' = Task("write", -1)
        BY <1>4, <2>3 DEF FlushError
      <3>2. task'.cb = "write" /\ task'.n = -1
        BY <3>1, TaskFields
      <3>3. Told' /\ Phase' = "ended"
        BY <1>2, <3>2, PhaseIs DEF PhaseSays
      <3>4. ServInv'
        BY <1>1, <2>1, <3>2, <3>3 DEF ServInv
      <3> QED
        BY <1>1, <2>2, <3>3, <3>4, Ends
    <2>4. CASE FlushDone
      <3>1. task' = Task("write", RespLen) /\ done' = done + 1 /\ out = << >>
        BY <1>4, <2>4 DEF FlushDone
      <3>2. task'.cb = "write" /\ task'.n = RespLen
        BY <3>1, TaskFields
      <3>3. ~(RespLen < 0)
        BY Sizes
      <3>4. ~Told' /\ Phase' = "writing"
        BY <1>1, <1>2, <2>1, <3>2, <3>3, PhaseIs DEF PhaseSays
      <3>5. Due' = Due
        BY <1>1, <1>2, <2>1, <3>1, <3>2, DueSteps
      <3>6. Filled(out', Due') /\ Due' <= RespLen
        BY <1>1, <2>1, <2>2, <3>5 DEF ServInv
      <3>7. ServInv'
        BY <1>1, <2>1, <3>1, <3>2, <3>6 DEF ServInv
      <3> QED
        BY <1>1, <2>2, <3>4, <3>5, <3>7, Stutters DEF Owed
    <2> QED
      BY <2>3, <2>4
  <1> QED
    BY <1>2, <1>3, <1>4

\* A read of what is buffered, and a read or a write of a closed connection.
LEMMA ServRead ==
  ASSUME IInv, IInv', ServInv, Read
  PROVE  ServInv' /\ Step
  <1>1. /\ pc = "read" /\ ~pendingRead /\ ~pendingWrite /\ task = None
        /\ UNCHANGED <<pushed, out, pendingWrite, done, task>>
    BY DEF Read, IInv, StageInv, HoldInv, txVars
  <1>2. TypeOK /\ TypeOK' /\ app = "reading"
    BY <1>1 DEF IInv, ServInv
  <1>3. task.cb = "none" /\ task'.cb = "none"
    BY <1>1, TaskFields
  <1>4. ~Told /\ Phase = "reading"
    BY <1>1, <1>2, <1>3, PhaseIs DEF PhaseSays
  <1>5. Due = RespLen /\ Due' = Due /\ out = << >>
    BY <1>1, <1>2, <1>3, <1>4, DueSteps DEF ServInv
  <1>6. CASE /\ app' = "stopped" /\ pc' = "pending"
             /\ UNCHANGED <<pendingRead, got>>
    <2>1. Told' /\ Phase' = "ended"
      BY <1>2, <1>6, PhaseIs DEF PhaseSays
    <2>2. ServInv'
      BY <1>1, <1>3, <1>6, <2>1 DEF ServInv
    <2> QED
      BY <1>4, <1>6, <2>1, <2>2, Ends
  <1>7. CASE /\ inBytes > 0 /\ got' = got + inBytes /\ ~pendingRead'
             /\ app' = "writing" /\ pc' = "write" /\ remaining' = RespLen
    <2>1. ~Told' /\ Phase' = "writing"
      BY <1>2, <1>3, <1>7, PhaseIs DEF PhaseSays
    <2>2. ServInv'
      BY <1>1, <1>3, <1>5, <1>7 DEF ServInv
    <2>3. got' \in Nat /\ got' > got
      BY <1>2, <1>7 DEF TypeOK
    <2> QED
      BY <1>4, <1>5, <2>1, <2>2, <2>3, Gives
  <1>8. CASE app' = "reading" /\ pc' = "pending" /\ got' = got
    <2>1. ~Told' /\ Phase' = "reading"
      BY <1>2, <1>3, <1>8, PhaseIs DEF PhaseSays
    <2>2. ServInv'
      BY <1>1, <1>3, <1>5, <1>8 DEF ServInv
    <2> QED
      BY <1>4, <1>8, <2>1, <2>2, Stutters DEF Owed
  <1>9. ~closed /\ BeginWrite => app' = "writing" /\ pc' = "write" /\ remaining' = RespLen
    BY DEF BeginWrite
  <1> QED
    BY <1>1, <1>6, <1>7, <1>8, <1>9 DEF Read, Stop, Extract, readVars

\* write() sends some bytes at once, finds that the send buffer is full, or fails.
LEMMA ServWrite ==
  ASSUME IInv, IInv', ServInv, WriteSome \/ WriteAgain \/ WriteError \/ WriteBuffer
  PROVE  ServInv' /\ Step
  <1>1. /\ pc \in {"write", "buffer"} /\ ~pendingRead /\ task = None
        /\ UNCHANGED <<got, pendingRead, task>>
    BY DEF WriteSome, WriteAgain, WriteError, WriteBuffer, Goto, IInv, HoldInv, readVars, appVars
  <1>2. TypeOK /\ TypeOK' /\ app = "writing" /\ ~pendingWrite
    BY <1>1 DEF IInv, HoldInv, ServInv
  <1>3. task.cb = "none" /\ task'.cb = "none"
    BY <1>1, TaskFields
  <1>4. ~Told /\ Phase = "writing"
    BY <1>1, <1>2, <1>3, PhaseIs DEF PhaseSays
  <1>5. out = << >> /\ remaining = Due /\ Due \in 0 .. RespLen
    BY <1>1, <1>2, <1>4 DEF ServInv, TypeOK
  <1>6. CASE WriteSome
    <2>1. PICK n \in 1 .. remaining :
            /\ pushed' = pushed + n /\ remaining' = remaining - n
            /\ IF n = remaining
               THEN done' = done + 1 /\ pc' = "read" /\ app' = "reading"
               ELSE UNCHANGED <<done, pc, app>>
      BY <1>6 DEF WriteSome, Transmit
    <2>2. pc = "write" /\ out' = << >> /\ ~pendingWrite' /\ n \in 1 .. Due
      BY <1>2, <1>5, <1>6, <2>1 DEF WriteSome
    <2>3. CASE n = remaining
      <3>1. Due' = Due - n + RespLen
        BY <1>2, <1>3, <2>1, <2>3, DueSteps
      <3>2. Due' = RespLen /\ Due = n
        BY <1>5, <2>2, <2>3, <3>1, Sizes
      <3>3. ~Told' /\ Phase' = "reading"
        BY <1>2, <1>3, <2>1, <2>3, PhaseIs DEF PhaseSays
      <3>4. ServInv'
        BY <1>1, <1>3, <2>1, <2>2, <2>3, <3>2 DEF ServInv
      <3>5. Step
        BY <1>1, <1>4, <1>5, <2>2, <3>2, <3>3, Sends
      <3> QED
        BY <3>4, <3>5
    <2>4. CASE n # remaining
      <3>1. Due' = Due - n
        BY <1>2, <1>3, <2>1, <2>4, DueSteps
      <3>2. ~Told' /\ Phase' = "writing"
        BY <1>1, <1>2, <1>3, <2>1, <2>4, PhaseIs DEF PhaseSays
      <3>3. ServInv'
        BY <1>1, <1>2, <1>3, <1>5, <2>1, <2>2, <2>4, <3>1 DEF ServInv
      <3>4. Step
        BY <1>1, <1>4, <1>5, <2>2, <3>1, <3>2, Sends
      <3> QED
        BY <3>3, <3>4
    <2> QED
      BY <2>3, <2>4
  <1>7. CASE WriteAgain
    <2>1. pc' = "buffer" /\ UNCHANGED <<pushed, out, remaining, pendingWrite, done, app>>
      BY <1>7 DEF WriteAgain, Goto, SendBufferFull, writeVars, appVars
    <2>2. ~Told' /\ Phase' = "writing"
      BY <1>2, <1>3, <2>1, PhaseIs DEF PhaseSays
    <2>3. Due' = Due
      BY <1>2, <1>3, <2>1, DueSteps
    <2>4. ServInv'
      BY <1>1, <1>2, <1>3, <1>5, <2>1, <2>3 DEF ServInv
    <2> QED
      BY <1>1, <1>4, <2>2, <2>3, <2>4, Stutters DEF Owed
  <1>8. CASE WriteError
    <2>1. app' = "stopped" /\ pc' = "pending" /\ UNCHANGED pendingWrite
      BY <1>8 DEF WriteError, Stop
    <2>2. Told' /\ Phase' = "ended"
      BY <1>2, <2>1, PhaseIs DEF PhaseSays
    <2>3. ServInv'
      BY <1>1, <1>2, <1>3, <2>1, <2>2 DEF ServInv
    <2> QED
      BY <1>1, <1>4, <2>2, <2>3, Ends
  <1>9. CASE WriteBuffer
    <2>1. /\ pc' = "pending" /\ UNCHANGED <<pushed, done, app>>
          /\ out' = IF chained THEN out \o Chunks(remaining) ELSE <<remaining>>
      BY <1>9 DEF WriteBuffer, Goto, BufferChained, BufferFlat, txVars, appVars
    <2>2. ~Told' /\ Phase' = "writing"
      BY <1>2, <1>3, <2>1, PhaseIs DEF PhaseSays
    <2>3. Due' = Due /\ Due' <= RespLen
      BY <1>2, <1>3, <1>5, <2>1, DueSteps, Sizes
    <2>4. Due \in 1 .. RespLen
      BY <1>1, <1>5, Sizes DEF IInv, StageInv
    <2>5. Filled(out', Due)
      <3>1. CASE chained
        <4>1. Chunks(Due) \in Seq(1 .. BufSize)
          BY <2>4, ChunksType
        <4>2. out' = Chunks(Due)
          BY <1>5, <2>1, <3>1, <4>1, ConcatEmptySeq
        <4> QED
          BY <1>5, <4>2, ChunksFilled
      <3>2. CASE ~chained
        <4>1. Head(<<Due>>) = Due /\ Tail(<<Due>>) = << >> /\ <<Due>> # << >>
          BY <2>4
        <4>2. out' = <<Due>>
          BY <1>5, <2>1, <3>2
        <4>3. Chunks(Due - Due) = << >>
          <5>1. Filled(Chunks(0), 0)
            BY Sizes, ChunksFilled
          <5>2. Due - Due = 0
            BY <2>4
          <5> QED
            BY <5>1, <5>2 DEF Filled
        <4> QED
          BY <2>4, <4>1, <4>2, <4>3 DEF Filled
      <3> QED
        BY <3>1, <3>2
    <2>6. ServInv'
      BY <1>1, <1>2, <1>3, <2>1, <2>3, <2>5 DEF ServInv
    <2> QED
      BY <1>1, <1>4, <2>2, <2>3, <2>6, Stutters DEF Owed
  <1> QED
    BY <1>6, <1>7, <1>8, <1>9

\* The continuations that Reactor::run finds scheduled.
LEMMA ServRun ==
  ASSUME IInv, IInv', ServInv, RunReadDone \/ RunWriteDone
  PROVE  ServInv' /\ Step
  <1>1. /\ pc = "pending" /\ task' = None /\ task # None
        /\ UNCHANGED <<got, out, pushed, pendingRead, pendingWrite, done>>
    BY TaskFields DEF RunReadDone, RunWriteDone, readVars, txVars
  <1>2. /\ TypeOK /\ TypeOK' /\ app # "stopped" /\ ~pendingRead /\ ~pendingWrite
        /\ task'.cb = "none"
    BY <1>1, TaskFields DEF IInv, HoldInv
  <1>3. CASE app' = "stopped" /\ pc' = "pending"
    <2>1. Told' /\ Phase' = "ended"
      BY <1>2, <1>3, PhaseIs DEF PhaseSays
    <2>2. ServInv'
      BY <1>1, <1>2, <1>3, <2>1 DEF ServInv
    <2>3. Step
      <3>1. CASE Phase = "ended"
        BY <1>1, <2>1, <3>1, Stutters DEF Owed
      <3>2. CASE Phase # "ended"
        BY <1>1, <2>1, <3>2, Ends
      <3> QED
        BY <3>1, <3>2
    <2> QED
      BY <2>2, <2>3
  <1>4. CASE /\ RunReadDone /\ task.n # 0
             /\ app' = "writing" /\ pc' = "write" /\ remaining' = RespLen
    <2>1. task.cb = "read" /\ app = "reading"
      BY <1>4 DEF RunReadDone, ServInv
    <2>2. ~Told /\ Phase = "writing" /\ ~Told' /\ Phase' = "writing"
      BY <1>1, <1>2, <1>4, <2>1, PhaseIs DEF PhaseSays
    <2>3. Due' = Due /\ Due = RespLen /\ out = << >>
      BY <1>1, <1>2, <2>1, <2>2, DueSteps DEF ServInv
    <2>4. ServInv'
      BY <1>1, <1>2, <1>4, <2>3 DEF ServInv
    <2> QED
      BY <1>1, <2>2, <2>3, <2>4, Stutters DEF Owed
  <1>5. CASE RunWriteDone /\ ~(task.n < 0) /\ app' = "reading" /\ pc' = "read"
    <2>1. task.cb = "write" /\ app = "writing"
      BY <1>5 DEF RunWriteDone, ServInv
    <2>2. ~Told /\ Phase = "writing" /\ ~Told' /\ Phase' = "reading"
      BY <1>1, <1>2, <1>5, <2>1, PhaseIs DEF PhaseSays
    <2>3. Due = 0 /\ out = << >>
      BY <1>1, <2>1, <2>2 DEF ServInv, Filled
    <2>4. Due' = RespLen
      BY <1>1, <1>2, <2>1, <2>3, DueSteps, Sizes
    <2>5. ServInv'
      BY <1>1, <1>2, <1>5, <2>3, <2>4 DEF ServInv
    <2> QED
      BY <1>1, <2>2, <2>3, <2>5, Reports
  <1>6. CASE RunReadDone
    BY <1>3, <1>4, <1>6 DEF RunReadDone, BeginWrite, Stop
  <1>7. CASE RunWriteDone
    BY <1>3, <1>5, <1>7 DEF RunWriteDone, Stop
  <1> QED
    BY <1>6, <1>7

\* A SIGPIPE ends what has not ended.
LEMMA ServKilled ==
  ASSUME IInv, IInv', ServInv, WriteKilled
  PROVE  ServInv' /\ Step
  <1>1. /\ pc' = "killed" /\ TypeOK'
        /\ UNCHANGED <<got, out, pushed, pendingRead, pendingWrite, done, task, app>>
    BY DEF IInv, WriteKilled, Goto, txVars, readVars, writeVars, appVars
  <1>2. Told' /\ Phase' = "ended"
    BY <1>1 DEF Told, Killed, Phase
  <1>3. ServInv'
    BY <1>1, <1>2 DEF ServInv
  <1>4. CASE Phase = "ended"
    BY <1>1, <1>2, <1>3, <1>4, Stutters DEF Owed
  <1>5. CASE Phase # "ended"
    BY <1>1, <1>2, <1>3, <1>5, Ends
  <1> QED
    BY <1>4, <1>5

\* Every step of the connection is a step of an Exchange, or none.
LEMMA ServStep == IInv /\ IInv' /\ ServInv /\ [Next]_vars => ServInv' /\ Step
  <1> SUFFICES ASSUME IInv, IInv', ServInv, [Next]_vars
               PROVE  ServInv' /\ Step
    OBVIOUS
  <1>1. CASE Accept
    BY <1>1, ServAccept
  <1>2. CASE HandleHangup \/ DrainEnd
    <2>1. HandleClose /\ pc \notin Calling /\ pc' \notin Calling
      BY <1>2 DEF HandleHangup, DrainEnd, Goto, Calling
    <2>2. UNCHANGED <<out, remaining, pushed, done, app, got>>
      BY <1>2 DEF HandleHangup, DrainEnd, txVars
    <2> QED
      BY <2>1, <2>2, ServClose
  <1>3. CASE Deliver
    BY <1>3, ServDeliver
  <1>4. CASE FlushWrite
    BY <1>4, ServFlush
  <1>5. CASE FlushError \/ FlushDone
    BY <1>5, ServFlushEnd
  <1>6. CASE Read
    BY <1>6, ServRead
  <1>7. CASE WriteSome \/ WriteAgain \/ WriteError \/ WriteBuffer
    BY <1>7, ServWrite
  <1>8. CASE RunReadDone \/ RunWriteDone
    BY <1>8, ServRun
  <1>9. CASE EpollWait \/ HandleEvents \/ DrainData \/ DrainAgain \/ FlushAgain \/ EnterWait
    <2>1. pc \notin Calling /\ pc' \notin Calling
      BY <1>9 DEF EpollWait, HandleEvents, DrainData, DrainAgain, FlushAgain, EnterWait,
         Goto, Calling
    <2>2. UNCHANGED <<out, remaining, pushed, done, task, app, pendingRead, pendingWrite, got>>
      BY <1>9 DEF EpollWait, HandleEvents, DrainData, DrainAgain, FlushAgain, EnterWait,
         SendBufferFull, txVars, readVars, writeVars, appVars
    <2> QED
      BY <2>1, <2>2, ServQuiet
  <1>10. CASE PeerSend \/ PeerFin \/ PeerReset \/ PeerAck \/ UNCHANGED vars
    <2>1. /\ pc' = pc
          /\ UNCHANGED <<out, remaining, pushed, done, task, app, pendingRead, pendingWrite, got>>
      BY <1>10 DEF PeerSend, PeerFin, PeerReset, PeerAck, Unchanged, vars, txVars, readVars,
         writeVars, appVars
    <2> QED
      BY <2>1, ServQuiet
  <1>11. CASE WriteKilled
    BY <1>11, ServKilled
  <1> QED
    BY <1>1, <1>2, <1>3, <1>4, <1>5, <1>6, <1>7, <1>8, <1>9, <1>10, <1>11
    DEF Next, Thread, ThreadStep, Ack

LEMMA InitServ == Init => ServInv /\ Served!Init
  <1> SUFFICES ASSUME Init PROVE ServInv /\ Served!Init
    OBVIOUS
  <1>1. /\ app = "new" /\ out = << >> /\ pushed = 0 /\ done = 0 /\ got = 0 /\ pc = "accepted"
        /\ ~pendingRead /\ ~pendingWrite /\ task = None
    BY DEF Init
  <1>2. task.cb = "none" /\ TypeOK
    BY <1>1, InitIInv, TaskFields DEF IInv
  <1>3. ~Told /\ Phase = "reading"
    BY <1>1, <1>2, PhaseNow DEF PhaseSays
  <1>4. Due = RespLen
    BY <1>1, <1>2, Sizes DEF Due, Begun
  <1>5. ServInv
    BY <1>1, <1>2, <1>4 DEF ServInv
  <1> QED
    BY <1>1, <1>3, <1>5 DEF Served!Init

\* The connection is an Exchange, except for its fairness: a write is reported when
\* the kernel has the whole response and nothing else, over partial writes, EAGAIN
\* and any number of buffers, reads and writes take turns, and nothing follows an
\* end (TcpConnection.h, read, write, flush_output and handle_close).
THEOREM ExchangeSteps == Spec => Served!Init /\ [][Served!Next]_(Served!vars)
  <1>1. Init => ServInv /\ Served!Init
    BY InitServ
  <1>2. IInv /\ IInv' /\ ServInv /\ [Next]_vars => ServInv' /\ [Served!Next]_(Served!vars)
    BY ServStep DEF Step
  <1> QED
    BY <1>1, <1>2, Inductive, PTL DEF Spec
=============================================================================
