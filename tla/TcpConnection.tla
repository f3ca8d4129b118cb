---------------------------- MODULE TcpConnection ----------------------------
(***************************************************************************)
(* One TcpConnection (TcpConnection.h of v3 and v2) and start_http_bench  *)
(* (main.cpp): read a request, write a response, read again.  The reactor's*)
(* thread is cut at its system calls, so the kernel and the peer can act   *)
(* between any two of them: data, FIN and RST arrive, the send buffer      *)
(* drains, and the edge-triggered event that tells of it is raised, or not.*)
(*                                                                         *)
(* v2 and v3 have the same control over different buffers: one vector per  *)
(* direction in v2, a chain of NetBuffers in v3.                           *)
(*                                                                         *)
(* Bytes are counted: both directions are first-in first-out and no code   *)
(* looks at their values.                                                  *)
(***************************************************************************)
EXTENDS Integers, Sequences, FiniteSets

CONSTANTS
  BufSize,   \* the size of a NetBuffer (v3), kReadBufSize (v2)
  RespLen,   \* the length of HTTP_RESPONSE_STR
  RxMax,     \* room in the kernel's receive buffer
  TxMax,     \* room in the kernel's send buffer
  MaxIn      \* bound: bytes that the peer sends

ASSUME SizesAssumption ==
  /\ {BufSize, RespLen, RxMax, TxMax} \subseteq Nat \ {0}
  /\ MaxIn \in Nat

VARIABLES
  chained,      \* the buffers are those of v3; never changes
  rx,           \* bytes in the kernel's receive buffer
  tx,           \* bytes in its send buffer
  fin,          \* the peer has closed its side
  err,          \* the peer has reset the connection
  nospace,      \* a write has found the send buffer full
  edge,         \* the socket is on epoll's ready list
  registered,   \* the socket is in epoll, its handler in handlers
  wantOut,      \* EPOLLOUT is in current_events_, hence in epoll's mask
  pc,           \* where the reactor's thread is
  ev,           \* the events that epoll_wait returned
  inBytes,      \* readable_bytes(): drained and not extracted
  room,         \* writable_bytes() of the last input buffer, 0 if none
  out,          \* output_buffers_: the bytes left in each
  remaining,    \* write()'s local variable
  pendingRead,  \* pending_read_ is set
  pendingWrite, \* pending_write_ is set
  closed,       \* closed_
  task,         \* the continuation that set_value scheduled
  app,          \* what start_http_bench is doing
  said,         \* bytes the peer has sent
  got,          \* bytes handed to the application
  pushed,       \* bytes the kernel has accepted for the peer
  done          \* responses reported as written

rxVars == <<rx, fin, err, said>>
txVars == <<tx, nospace, pushed>>
epollVars == <<edge, registered, wantOut>>
readVars == <<inBytes, room, pendingRead, got>>
writeVars == <<out, remaining, pendingWrite, done>>
appVars == <<task, app>>
vars == <<rxVars, txVars, epollVars, readVars, writeVars, appVars, pc, ev, closed,
          chained>>

None == [cb |-> "none", n |-> 0]
Task(cb, n) == [cb |-> cb, n |-> n]
Least(a, b) == IF a < b THEN a ELSE b

Init ==
  /\ rx = 0 /\ tx = 0 /\ said = 0 /\ got = 0 /\ pushed = 0 /\ done = 0
  /\ fin = FALSE /\ err = FALSE /\ nospace = FALSE
  /\ edge = FALSE /\ registered = FALSE /\ wantOut = FALSE
  /\ pc = "accepted" /\ ev = {}
  /\ inBytes = 0 /\ room = 0 /\ out = << >> /\ remaining = 0
  /\ pendingRead = FALSE /\ pendingWrite = FALSE /\ closed = FALSE
  /\ task = None /\ app = "new"
  /\ chained \in BOOLEAN

Goto(from, dest) == pc = from /\ pc' = dest

-----------------------------------------------------------------------------
(* epoll, edge-triggered.                                                  *)

\* What polling the socket reports when EPOLLOUT is asked for or not.
Revents(asked) ==
  (IF rx > 0 \/ fin \/ err THEN {"in"} ELSE {})
    \cup (IF asked /\ (tx < TxMax \/ err) THEN {"out"} ELSE {})
    \cup (IF err THEN {"hup"} ELSE {})

\* Reactor::modify_events: EPOLL_CTL_MOD polls the socket again.
ModifyEvents(asked) ==
  /\ wantOut' = asked
  /\ edge' = (edge \/ (registered /\ Revents(asked) # {}))
  /\ UNCHANGED registered

\* A bug to compare with: the mask changes and epoll is not told.
EnableWriteLocal ==
  /\ wantOut' = TRUE
  /\ UNCHANGED <<edge, registered>>

EnableWrite == IF wantOut THEN UNCHANGED epollVars ELSE ModifyEvents(TRUE)
DisableWrite == IF wantOut THEN ModifyEvents(FALSE) ELSE UNCHANGED epollVars

\* epoll_wait takes the socket off the ready list and reports what it polls.
EpollWait ==
  /\ edge
  /\ edge' = FALSE
  /\ ev' = Revents(wantOut)
  /\ Goto("wait", IF ev' = {} THEN "wait" ELSE "dispatch")
  /\ UNCHANGED <<rxVars, txVars, registered, wantOut, readVars, writeVars,
                 appVars, closed>>

-----------------------------------------------------------------------------
(* handle_close and handle_events.                                         *)

\* A bug to compare with: the pending write is not told.
HandleCloseReadOnly ==
  IF closed
  THEN UNCHANGED <<closed, epollVars, pendingRead, pendingWrite, task>>
  ELSE /\ closed' = TRUE
       /\ registered' = FALSE
       /\ edge' = FALSE
       /\ pendingRead' = FALSE
       /\ task' = IF pendingRead THEN Task("read", 0) ELSE task
       /\ UNCHANGED <<wantOut, pendingWrite>>

HandleClose ==
  IF closed
  THEN UNCHANGED <<closed, epollVars, pendingRead, pendingWrite, task>>
  ELSE /\ closed' = TRUE
       /\ registered' = FALSE
       /\ edge' = FALSE
       /\ pendingRead' = FALSE
       /\ pendingWrite' = FALSE
       /\ task' = IF pendingRead THEN Task("read", 0)
                  ELSE IF pendingWrite THEN Task("write", -1) ELSE task
       /\ UNCHANGED wantOut

HandleHangup ==
  /\ "hup" \in ev
  /\ Goto("dispatch", "pending")
  /\ HandleClose
  /\ UNCHANGED <<rxVars, txVars, inBytes, room, got, out, remaining, done, app, ev>>

HandleEvents ==
  /\ "hup" \notin ev
  /\ Goto("dispatch", IF "in" \in ev THEN "drain" ELSE "flush")
  /\ UNCHANGED <<rxVars, txVars, epollVars, readVars, writeVars, appVars, ev, closed>>

-----------------------------------------------------------------------------
(* handle_readable: drain_socket, one read() per step, then the delivery.  *)

\* v3 asks for what fits in its last NetBuffer, and remembers what is left of
\* it; v2 makes its vector longer, and cuts it again.
RequestedChained == IF room = 0 THEN BufSize ELSE room
RequestedFlat == BufSize

Requested == IF chained THEN RequestedChained ELSE RequestedFlat
LeaveRoom(n) == room' = IF chained THEN n ELSE 0

\* A bug to compare with: data, and then read() again until it gives no more.
DrainOn ==
  LET n == Least(rx, Requested) IN
  /\ rx > 0
  /\ Goto("drain", "drain")
  /\ rx' = rx - n
  /\ inBytes' = inBytes + n
  /\ LeaveRoom(Requested - n)
  /\ UNCHANGED <<fin, err, said, txVars, epollVars, pendingRead, got, writeVars,
                 appVars, ev, closed>>

\* A bug to compare with: one read() per event.
DrainOnce ==
  LET n == Least(rx, Requested) IN
  /\ rx > 0
  /\ Goto("drain", "deliver")
  /\ rx' = rx - n
  /\ inBytes' = inBytes + n
  /\ LeaveRoom(Requested - n)
  /\ UNCHANGED <<fin, err, said, txVars, epollVars, pendingRead, got, writeVars,
                 appVars, ev, closed>>

\* A short read ends the drain: the kernel is taken to be empty.
DrainData ==
  LET n == Least(rx, Requested) IN
  /\ rx > 0
  /\ Goto("drain", IF n < Requested THEN "deliver" ELSE "drain")
  /\ rx' = rx - n
  /\ inBytes' = inBytes + n
  /\ LeaveRoom(Requested - n)
  /\ UNCHANGED <<fin, err, said, txVars, epollVars, pendingRead, got, writeVars,
                 appVars, ev, closed>>

\* read() returns 0 or an error.
DrainEnd ==
  /\ rx = 0
  /\ fin \/ err
  /\ Goto("drain", "deliver")
  /\ LeaveRoom(Requested)
  /\ HandleClose
  /\ UNCHANGED <<rxVars, txVars, inBytes, got, out, remaining, done, app, ev>>

DrainAgain ==
  /\ rx = 0
  /\ ~fin /\ ~err
  /\ Goto("drain", "deliver")
  /\ LeaveRoom(Requested)
  /\ UNCHANGED <<rxVars, txVars, epollVars, inBytes, pendingRead, got, writeVars,
                 appVars, ev, closed>>

\* extract_packet takes everything and frees every buffer that held data.
Extract ==
  /\ got' = got + inBytes
  /\ inBytes' = 0
  /\ room' = 0

\* A bug to compare with: pending_read_ is not moved out before set_value.
DeliverKeep ==
  /\ Goto("deliver", IF "out" \in ev THEN "flush" ELSE "pending")
  /\ IF pendingRead /\ inBytes > 0
     THEN Extract /\ task' = Task("read", inBytes)
     ELSE UNCHANGED <<inBytes, room, got, task>>
  /\ UNCHANGED <<rxVars, txVars, epollVars, pendingRead, writeVars, app, ev, closed>>

Deliver ==
  /\ Goto("deliver", IF "out" \in ev THEN "flush" ELSE "pending")
  /\ IF pendingRead /\ inBytes > 0
     THEN Extract /\ pendingRead' = FALSE /\ task' = Task("read", inBytes)
     ELSE UNCHANGED <<readVars, task>>
  /\ UNCHANGED <<rxVars, txVars, epollVars, writeVars, app, ev, closed>>

-----------------------------------------------------------------------------
(* handle_writable: flush_output, one write() per step.                    *)

\* The kernel takes n bytes; it may take fewer than offered.
Transmit(n) ==
  /\ ~err
  /\ n <= TxMax - tx
  /\ tx' = tx + n
  /\ pushed' = pushed + n
  /\ UNCHANGED nospace

\* write() returns EAGAIN.
SendBufferFull ==
  /\ ~err
  /\ tx = TxMax
  /\ nospace' = TRUE
  /\ UNCHANGED <<tx, pushed>>

\* A reset that follows the peer's end of stream is EPIPE and no longer ECONNRESET,
\* and so is one that a read() has been told of, which closed the connection.
Broken == err /\ (fin \/ closed)

\* EPIPE comes with SIGPIPE, which nothing ignores: the process ends.
WriteKilled ==
  /\ Broken
  /\ \/ Goto("write", "killed")
     \/ out # << >> /\ Goto("flush", "killed")
  /\ UNCHANGED <<rxVars, txVars, epollVars, readVars, writeVars, appVars, ev, closed>>

FlushWrite ==
  /\ out # << >>
  /\ Goto("flush", "flush")
  /\ \E n \in 1 .. Head(out) :
        /\ Transmit(n)
        /\ out' = IF n = Head(out) THEN Tail(out) ELSE <<Head(out) - n>> \o Tail(out)
  /\ UNCHANGED <<rxVars, epollVars, readVars, remaining, pendingWrite, done,
                 appVars, ev, closed>>

FlushAgain ==
  /\ out # << >>
  /\ SendBufferFull
  /\ Goto("flush", "pending")
  /\ UNCHANGED <<rxVars, epollVars, readVars, writeVars, appVars, ev, closed>>

\* The write is reported as failed; the connection itself stays open.
FlushError ==
  /\ out # << >>
  /\ err /\ ~Broken
  /\ Goto("flush", "pending")
  /\ DisableWrite
  /\ pendingWrite' = FALSE
  /\ task' = IF pendingWrite THEN Task("write", -1) ELSE task
  /\ UNCHANGED <<rxVars, txVars, readVars, out, remaining, done, app, ev, closed>>

FlushDone ==
  /\ out = << >>
  /\ Goto("flush", "pending")
  /\ DisableWrite
  /\ pendingWrite' = FALSE
  /\ IF pendingWrite
     THEN task' = Task("write", RespLen) /\ done' = done + 1
     ELSE UNCHANGED <<task, done>>
  /\ UNCHANGED <<rxVars, txVars, readVars, out, remaining, app, ev, closed>>

-----------------------------------------------------------------------------
(* The application: read().then(write().then(...)).                        *)

\* TcpConnection::create, then start_http_bench, from the accept handler.
Accept ==
  /\ Goto("accepted", "pending")
  /\ registered' = TRUE
  /\ edge' = (Revents(FALSE) # {})
  /\ pendingRead' = TRUE
  /\ app' = "reading"
  /\ UNCHANGED <<rxVars, txVars, wantOut, inBytes, room, got, writeVars, task, ev, closed>>

\* The application goes away, and with it its reference to the connection.
Stop == app' = "stopped" /\ pc' = "pending" /\ UNCHANGED remaining

\* write() from its first check to its first system call.
BeginWrite ==
  IF closed THEN Stop ELSE app' = "writing" /\ pc' = "write" /\ remaining' = RespLen

\* A bug to compare with: read() ignores what was drained before it was called.
ReadIgnoresBuffer ==
  /\ Goto("read", "pending")
  /\ pendingRead' = TRUE
  /\ app' = "reading"
  /\ UNCHANGED <<rxVars, txVars, epollVars, inBytes, room, got, writeVars, task, ev, closed>>

\* read(); a future that is ready runs its continuation at once.
Read ==
  /\ pc = "read"
  /\ \/ /\ closed
        /\ Stop
        /\ UNCHANGED readVars
     \/ /\ ~closed /\ inBytes > 0
        /\ Extract
        /\ BeginWrite
        /\ UNCHANGED pendingRead
     \/ /\ ~closed /\ inBytes = 0
        /\ pendingRead' = TRUE
        /\ app' = "reading"
        /\ pc' = "pending"
        /\ UNCHANGED <<inBytes, room, got, remaining>>
  /\ UNCHANGED <<rxVars, txVars, epollVars, out, pendingWrite, done, task, ev, closed>>

WriteSome ==
  /\ pc = "write"
  /\ \E n \in 1 .. remaining :
        /\ Transmit(n)
        /\ remaining' = remaining - n
        /\ IF n = remaining
           THEN done' = done + 1 /\ pc' = "read" /\ app' = "reading"
           ELSE UNCHANGED <<done, pc, app>>
  /\ UNCHANGED <<rxVars, epollVars, readVars, out, pendingWrite, task, ev, closed>>

\* A bug to compare with: EAGAIN is an error like any other.
WriteAgainFails ==
  /\ pc = "write"
  /\ SendBufferFull
  /\ Stop
  /\ UNCHANGED <<rxVars, epollVars, readVars, out, pendingWrite, done, task, ev, closed>>

WriteAgain ==
  /\ Goto("write", "buffer")
  /\ SendBufferFull
  /\ UNCHANGED <<rxVars, epollVars, readVars, writeVars, appVars, ev, closed>>

\* The promise is set to -1 and the application returns.
WriteError ==
  /\ pc = "write"
  /\ err /\ ~Broken
  /\ Stop
  /\ UNCHANGED <<rxVars, txVars, epollVars, readVars, out, pendingWrite, done,
                 task, ev, closed>>

\* A bug to compare with: the last, partly filled buffer is forgotten.
FullChunks(n) == [i \in 1 .. n \div BufSize |-> BufSize]

\* The bytes left over, cut into NetBuffers, or assigned to output_buffer_.
Chunks(n) ==
  [i \in 1 .. (n + BufSize - 1) \div BufSize |-> Least(BufSize, n - (i - 1) * BufSize)]

BufferChained == out' = out \o Chunks(remaining)
BufferFlat == out' = <<remaining>>

WriteBuffer ==
  /\ Goto("buffer", "pending")
  /\ IF chained THEN BufferChained ELSE BufferFlat
  /\ remaining' = 0
  /\ pendingWrite' = TRUE
  /\ EnableWrite
  /\ UNCHANGED <<rxVars, txVars, readVars, done, appVars, ev, closed>>

-----------------------------------------------------------------------------
(* Reactor::run between two batches: the scheduled continuations.          *)

RunReadDone ==
  /\ pc = "pending"
  /\ task.cb = "read"
  /\ task' = None
  /\ IF task.n = 0 THEN Stop ELSE BeginWrite
  /\ UNCHANGED <<rxVars, txVars, epollVars, readVars, out, pendingWrite, done, ev, closed>>

RunWriteDone ==
  /\ pc = "pending"
  /\ task.cb = "write"
  /\ task' = None
  /\ IF task.n < 0 THEN Stop ELSE app' = "reading" /\ pc' = "read" /\ UNCHANGED remaining
  /\ UNCHANGED <<rxVars, txVars, epollVars, readVars, out, pendingWrite, done, ev, closed>>

EnterWait ==
  /\ task = None
  /\ Goto("pending", "wait")
  /\ UNCHANGED <<rxVars, txVars, epollVars, readVars, writeVars, appVars, ev, closed>>

-----------------------------------------------------------------------------
(* The peer and the network, through the kernel.                           *)

Unchanged ==
  UNCHANGED <<readVars, writeVars, appVars, pc, ev, closed, registered, wantOut>>

Raise(b) == edge' = (edge \/ (registered /\ b))

PeerSend ==
  /\ ~fin /\ ~err
  /\ \E n \in 1 .. Least(RxMax - rx, MaxIn - said) :
        /\ rx' = rx + n
        /\ said' = said + n
  /\ Raise(TRUE)
  /\ UNCHANGED <<fin, err, txVars>> /\ Unchanged

PeerFin ==
  /\ ~fin /\ ~err
  /\ fin' = TRUE
  /\ Raise(TRUE)
  /\ UNCHANGED <<rx, err, said, txVars>> /\ Unchanged

PeerReset ==
  /\ ~err
  /\ err' = TRUE
  /\ tx' = 0
  /\ Raise(TRUE)
  /\ UNCHANGED <<rx, fin, said, nospace, pushed>> /\ Unchanged

\* The send buffer drains; that is an event only after a write found it full.
PeerAck ==
  /\ ~err
  /\ \E n \in 1 .. tx : tx' = tx - n
  /\ nospace' = FALSE
  /\ Raise(wantOut /\ nospace)
  /\ UNCHANGED <<rxVars, pushed>> /\ Unchanged

-----------------------------------------------------------------------------
ThreadStep ==
  \/ Accept \/ EpollWait \/ HandleHangup \/ HandleEvents
  \/ DrainData \/ DrainEnd \/ DrainAgain \/ Deliver
  \/ FlushWrite \/ FlushAgain \/ FlushError \/ FlushDone
  \/ Read \/ WriteSome \/ WriteAgain \/ WriteError \/ WriteBuffer \/ WriteKilled
  \/ RunReadDone \/ RunWriteDone \/ EnterWait

Thread == ThreadStep /\ UNCHANGED chained
Ack == PeerAck /\ UNCHANGED chained

Next ==
  \/ Thread \/ Ack
  \/ (PeerSend \/ PeerFin \/ PeerReset) /\ UNCHANGED chained

Spec == Init /\ [][Next]_vars

\* The thread keeps running and the peer keeps reading what it is sent.
\* Nothing obliges the peer to send, to close or to reset.
FairSpec == Spec /\ WF_vars(Thread) /\ WF_vars(Ack)

-----------------------------------------------------------------------------
TypeOK ==
  /\ rx \in 0 .. RxMax /\ tx \in 0 .. TxMax /\ said \in 0 .. MaxIn
  /\ {chained, fin, err, nospace, edge, registered, wantOut, pendingRead, pendingWrite,
      closed} \subseteq BOOLEAN
  /\ pc \in {"accepted", "wait", "dispatch", "drain", "deliver", "flush", "read",
             "write", "buffer", "pending", "killed"}
  /\ ev \subseteq {"in", "out", "hup"}
  /\ inBytes \in Nat /\ got \in Nat /\ pushed \in Nat /\ done \in Nat
  /\ room \in 0 .. BufSize
  /\ out \in Seq(1 .. IF chained THEN BufSize ELSE RespLen)
  /\ remaining \in 0 .. RespLen
  /\ task \in [cb : {"none", "read", "write"}, n : {-1} \cup Nat]
  /\ app \in {"new", "reading", "writing", "stopped"}

\* A SIGPIPE has ended the process, and with it what the code owed anybody.
Killed == pc = "killed"

\* The reactor never goes to sleep on input: when it waits with unread bytes or
\* an unseen reset in the kernel, the edge that will wake it is there.  It is
\* what drain_socket's early return after a short read must not break.
NoStrandedInput ==
  registered /\ pc = "wait" /\ (rx > 0 \/ err) => edge

\* Nor does it sleep on buffered output: EPOLLOUT is asked for, and either there
\* is an edge already or the send buffer is full and its draining raises one.
\* This is the race between EAGAIN, enable_write and the peer's ACK.
NoStrandedOutput ==
  registered /\ pc = "wait" /\ pendingWrite =>
    wantOut /\ (edge \/ (tx = TxMax /\ nospace))

\* Who holds the application's continuation while its code is not running.
Holders ==
  {h \in {"pending_read_", "pending_write_", "pending_tasks"} :
     \/ h = "pending_read_" /\ pendingRead
     \/ h = "pending_write_" /\ pendingWrite
     \/ h = "pending_tasks" /\ task # None}

\* The application's continuation is in exactly one place: running, held by a
\* pending promise or scheduled.  Two places would resolve a promise twice or
\* overwrite it, none would forget the application and leak the connection.
OneContinuation ==
  ~Killed => Cardinality(Holders) =
    IF app \in {"new", "stopped"} \/ pc \in {"read", "write", "buffer"} THEN 0 ELSE 1

\* Every byte the peer sends reaches the application or the connection closes,
\* also bytes that arrive while a response is waiting for room.
InputDelivered == said > got ~> said = got \/ closed \/ Killed

\* Closing ends the application's chain: its last promise is resolved and its
\* reference to the connection dropped.
CloseEndsChain == closed ~> app = "stopped" \/ Killed

\* The peer's end of stream closes the connection.
PeerCloseNoticed == fin ~> closed \/ Killed

\* Closing has its other half: an application that gave up, on a failed write,
\* leaves a connection that the reactor still closes, with its output buffered.
StoppedCloses == app = "stopped" ~> closed

\* A reader that is told of the end of the stream has missed bytes only when
\* they fill whole buffers: what read() has just given is handed over before the
\* next read() can tell of the end, unless it gave all that was asked for.
OnlyWholeBuffersLost == task = Task("read", 0) => inBytes % BufSize = 0

\* handle_close drops the handler and with it the handler's reference to the
\* connection, and goes on using its members.  Unless the peer reset the
\* connection, the application still holds a reference then.
OwnedWhileClosing == [][closed' # closed => err \/ Holders # {}]_vars

\* The connection is an Exchange: what is resolved, scheduled or running tells
\* which call the application waits for; responses come whole and in turn over
\* partial writes, EAGAIN, several buffers and several EPOLLOUT events.
Told == app = "stopped" \/ Killed \/ task \in {Task("read", 0), Task("write", -1)}

Phase ==
  CASE Told -> "ended"
    [] ~Told /\ (app = "writing" \/ task.cb = "read") -> "writing"
    [] OTHER -> "reading"

Begun == done + IF task.cb = "write" THEN 0 ELSE 1

Served == INSTANCE Exchange
  WITH phase <- Phase,
       owed <- IF Phase = "writing" THEN RespLen * Begun - pushed ELSE 0

ExchangeSpec == Served!Spec
=============================================================================
