---------------------------- MODULE ConnectionV1 ----------------------------
(***************************************************************************)
(* The first generation (Mini_SeaStar/): a level-triggered reactor with one*)
(* handler per descriptor, tasks of other threads in a vector under a      *)
(* mutex, and one connection whose application reads a request, by read()  *)
(* or read_until(), and writes a response of one or two packets.           *)
(*                                                                         *)
(* The thread is cut at its system calls.  What a level-triggered epoll    *)
(* rules out is not modelled: a handler is called when its system call can *)
(* make progress, and no one else reads or writes the socket, so the EAGAIN*)
(* branches of the handlers (TcpConnection.h:129 and 206) are never taken. *)
(***************************************************************************)
EXTENDS Packets, FiniteSets

CONSTANTS
  Bytes,      \* what the peer sends is made of these
  Delimiter,  \* the end of a line, for read_until
  ReadMax,    \* the 4096 of ::read
  CompactAt,  \* the 1024 of retrieve
  RespLen,    \* the length of HTTP_RESPONSE_STR
  HeaderLen,  \* its first packet, the second is the rest
  RxMax,      \* room in the kernel's receive buffer
  TxMax,      \* room in the kernel's send buffer
  MaxIn,      \* bound: bytes that the peer sends
  OtherTasks, \* tasks that other threads submit, once each
  OwnTasks    \* tasks that tasks of this thread submit to their own core

ASSUME ConstantsAssumption ==
  /\ {ReadMax, RespLen, RxMax, TxMax} \subseteq Nat \ {0}
  /\ HeaderLen \in 0 .. RespLen /\ RespLen \in Word /\ CompactAt \in Nat
  /\ Delimiter \in Seq(Bytes) /\ Delimiter # << >>
  /\ OtherTasks \cap OwnTasks = {}

VARIABLES
  rx, fin, err, \* received bytes in the kernel, end of stream, reset
  tx,           \* how many bytes are in the kernel's send buffer
  handler,      \* handlers[fd]; epoll has the socket exactly when it is there
  input,        \* input_buffer_ and read_index_
  task,         \* the continuation in pending_tasks
  pc,           \* where the thread is
  batch,        \* what epoll_wait returned and is not yet handled
  app,          \* what start_http_bench is doing
  sent, heard,  \* bytes the peer has sent, and those read and read_until gave
  line,         \* the last line that read_until gave
  wire,         \* the position in a response of the last byte the peer was sent
  incoming,     \* incoming_tasks
  announcing,   \* tasks pushed whose submit_task has not written the eventfd
  notify,       \* the eventfd is not zero
  temp,         \* temp_tasks: swapped out and not yet run
  unsent,       \* tasks that are not submitted yet
  ran           \* tasks that have run

inVars == <<rx, fin, err, sent>>
outVars == <<tx, wire>>
appVars == <<app, heard, line>>
queueVars == <<unsent, incoming, announcing, notify, temp, ran>>
connVars == <<inVars, outVars, handler, input, task, appVars>>
vars == <<connVars, pc, batch, queueVars>>

NoHandler == [kind |-> "none", written |-> 0]
Reader(how) == [kind |-> how, written |-> 0]
Writer(n) == [kind |-> "write", written |-> n]

NoTask == [cb |-> "none", bytes |-> EmptyPacket, n |-> 0]
GiveBytes(how, s) == [cb |-> how, bytes |-> FromBytes(s), n |-> 0]
GiveCount(n) == [cb |-> "write", bytes |-> EmptyPacket, n |-> n]

Least(a, b) == IF a < b THEN a ELSE b
Goto(from, dest) == pc = from /\ pc' = dest

-----------------------------------------------------------------------------
(* The input buffer.                                                       *)

Cleared == [data |-> << >>, index |-> 0]
Readable(in) == SubSeq(in.data, in.index + 1, Len(in.data))

\* A bug to compare with: read_index_ is cleared before resize() asks for
\* readable_bytes().
MakeRoomLate(in) ==
  [in EXCEPT !.data = Readable(in) \o SubSeq(@, Len(Readable(in)) + 1, Len(@)), !.index = 0]

MakeRoom(in) == [data |-> Readable(in), index |-> 0]

Retrieve(in, len) ==
  LET moved == [in EXCEPT !.index = @ + len] IN
  CASE len >= Len(Readable(in)) -> Cleared
    [] len < Len(Readable(in)) /\ moved.index >= CompactAt
         /\ moved.index > Len(Readable(moved)) -> MakeRoom(moved)
    [] OTHER -> moved

\* Where std::search finds the delimiter in s: the positions of its last byte.
Ends(s) ==
  {e \in Len(Delimiter) .. Len(s) : SubSeq(s, e - Len(Delimiter) + 1, e) = Delimiter}

FirstEnd(s) == CHOOSE e \in Ends(s) : \A other \in Ends(s) : e <= other

\* A bug to compare with: the line is given without its delimiter.
LineLengthBare(s) == IF Ends(s) = {} THEN 0 ELSE FirstEnd(s) - Len(Delimiter)

\* The length of the first line of s with its delimiter, 0 if there is none.
LineLength(s) == IF Ends(s) = {} THEN 0 ELSE FirstEnd(s)

\* What a call finds in the buffer in: a length of 0 is nothing.
Found(how, in) ==
  IF how = "read" THEN Len(Readable(in)) ELSE LineLength(Readable(in))

Init ==
  /\ rx = << >> /\ fin = FALSE /\ err = FALSE /\ tx = 0
  /\ sent = << >> /\ heard = << >> /\ line = << >> /\ wire = RespLen
  /\ handler = NoHandler /\ input = Cleared /\ task = NoTask
  /\ pc = "read" /\ batch = {} /\ app = "reading"
  /\ incoming = << >> /\ announcing = {} /\ notify = FALSE
  /\ temp = << >> /\ ran = {} /\ unsent = OtherTasks \cup OwnTasks

-----------------------------------------------------------------------------
(* The application, and the calls it makes.                                *)

Stop == app' = "stopped" /\ pc' = "pending"

Hear(how, bytes) ==
  /\ heard' = heard \o bytes
  /\ line' = IF how = "line" THEN bytes ELSE line

\* read() and read_until(): from the buffer, else a handler for EPOLLIN.
Read(how) ==
  LET len == Found(how, input) IN
  /\ pc = "read"
  /\ IF len > 0
     THEN /\ Hear(how, SubSeq(Readable(input), 1, len))
          /\ input' = Retrieve(input, len)
          /\ app' = "writing" /\ pc' = "write"
          /\ UNCHANGED handler
     ELSE /\ handler' = Reader(how)
          /\ pc' = "pending"
          /\ UNCHANGED <<heard, line, input, app>>
  /\ UNCHANGED <<inVars, outVars, task, batch, queueVars>>

\* The response, written as header and body, and what is left of them.
Response ==
  LET all == FromBytes([i \in 1 .. RespLen |-> i]) IN
  <<Slice(all, 0, HeaderLen), DropFront(all, HeaderLen)>>

Rest == [written \in 0 .. RespLen - 1 |-> Unsent(Response, written)]

\* writev gives the kernel the first n of the bytes s.
Transmit(s, n) ==
  /\ ~err
  /\ n <= TxMax - tx
  /\ tx' = tx + n
  /\ wire' = IF n = 0 THEN wire ELSE s[n]

\* write(): what does not fit now is left to a handler for EPOLLOUT.
Write ==
  /\ pc = "write"
  /\ LET bytes == Rest[0] IN
     \E n \in 0 .. Len(bytes) :
        /\ Transmit(bytes, n)
        /\ n = 0 => tx = TxMax
        /\ IF n = Len(bytes)
           THEN app' = "reading" /\ pc' = "read" /\ UNCHANGED handler
           ELSE handler' = Writer(n) /\ pc' = "pending" /\ UNCHANGED app
  /\ UNCHANGED <<inVars, input, task, batch, heard, line, queueVars>>

\* A reset that follows the peer's end of stream is EPIPE, and no longer ECONNRESET.
Broken == err /\ fin

\* EPIPE comes with SIGPIPE, which nothing ignores: the process ends.
WriteKilled ==
  /\ Broken
  /\ \/ Goto("write", "killed")
     \/ handler.kind = "write" /\ Goto("handler", "killed")
  /\ UNCHANGED <<connVars, batch, queueVars>>

WriteError ==
  /\ pc = "write"
  /\ err /\ ~Broken
  /\ Stop
  /\ UNCHANGED <<inVars, outVars, handler, input, task, batch, heard, line, queueVars>>

-----------------------------------------------------------------------------
(* The handlers.  run() calls a copy of the one in the table.              *)

\* A bug to compare with: the handler stays in the table.
UnregisterNot == UNCHANGED handler

Unregister == handler' = NoHandler

\* ::read puts what it gets behind what is there.
Grow(in, new) == [in EXCEPT !.data = @ \o new]

\* ::read gives data.  A read_until that still finds no line adds the handler
\* that was just removed, so handlers is as before.
HandleData ==
  LET n == Least(Len(rx), ReadMax)
      grown == Grow(input, SubSeq(rx, 1, n))
      len == Found(handler.kind, grown)
  IN
  /\ Goto("handler", "batch")
  /\ handler.kind \in {"read", "line"}
  /\ rx # << >>
  /\ rx' = SubSeq(rx, n + 1, Len(rx))
  /\ IF len > 0
     THEN /\ Unregister
          /\ input' = Retrieve(grown, len)
          /\ task' = GiveBytes(handler.kind, SubSeq(Readable(grown), 1, len))
     ELSE /\ input' = grown
          /\ UNCHANGED <<handler, task>>
  /\ UNCHANGED <<fin, err, sent, outVars, batch, appVars, queueVars>>

\* A bug to compare with: an end of stream is taken for EAGAIN.
HandleEndAgain ==
  /\ Goto("handler", "batch")
  /\ handler.kind \in {"read", "line"}
  /\ rx = << >>
  /\ UNCHANGED <<connVars, batch, queueVars>>

\* ::read gives 0 or an error: the application is given an empty packet or line.
HandleEnd ==
  /\ Goto("handler", "batch")
  /\ handler.kind \in {"read", "line"}
  /\ rx = << >> /\ (fin \/ err)
  /\ Unregister
  /\ task' = GiveBytes(handler.kind, << >>)
  /\ UNCHANGED <<inVars, outVars, input, batch, appVars, queueVars>>

\* A bug to compare with: the write is reported when something was written.
HandleRoomEarly ==
  /\ Goto("handler", "batch")
  /\ handler.kind = "write"
  /\ LET bytes == Rest[handler.written] IN
     \E n \in 1 .. Len(bytes) : Transmit(bytes, n)
  /\ Unregister
  /\ task' = GiveCount(RespLen)
  /\ UNCHANGED <<inVars, input, batch, appVars, queueVars>>

\* writev.  total_written is a member of the copy that run() made, so only a
\* write that sends the rest at once counts: another event starts again from
\* what write() itself had sent.
HandleRoom ==
  LET bytes == Rest[handler.written] IN
  /\ Goto("handler", "batch")
  /\ handler.kind = "write"
  /\ \E n \in 1 .. Len(bytes) :
        /\ Transmit(bytes, n)
        /\ IF n = Len(bytes)
           THEN Unregister /\ task' = GiveCount(RespLen)
           ELSE UNCHANGED <<handler, task>>
  /\ UNCHANGED <<inVars, input, batch, appVars, queueVars>>

HandleError ==
  /\ Goto("handler", "batch")
  /\ handler.kind = "write"
  /\ err /\ ~Broken
  /\ Unregister
  /\ task' = GiveCount(-1)
  /\ UNCHANGED <<inVars, outVars, input, batch, appVars, queueVars>>

-----------------------------------------------------------------------------
(* Reactor::run.                                                           *)

RunReadDone ==
  LET given == View(task.bytes) IN
  /\ pc = "pending"
  /\ task.cb \in {"read", "line"}
  /\ task' = NoTask
  /\ IF given = << >>
     THEN Stop /\ UNCHANGED <<heard, line>>
     ELSE /\ Hear(task.cb, given)
          /\ app' = "writing" /\ pc' = "write"
  /\ UNCHANGED <<inVars, outVars, handler, input, batch, queueVars>>

RunWriteDone ==
  /\ pc = "pending"
  /\ task.cb = "write"
  /\ task' = NoTask
  /\ IF task.n < 0 THEN Stop ELSE app' = "reading" /\ pc' = "read"
  /\ UNCHANGED <<inVars, outVars, handler, input, batch, heard, line, queueVars>>

EnterWait ==
  /\ Goto("pending", "wait")
  /\ task = NoTask
  /\ UNCHANGED <<inVars, outVars, handler, input, task, batch, appVars, queueVars>>

\* What a level-triggered epoll reports: the socket for the event asked for, and
\* for an error in any case; the eventfd while it is not zero.
Ready ==
  {fd \in {"socket", "eventfd"} :
     IF fd = "eventfd" THEN notify
     ELSE \/ handler.kind \in {"read", "line"} /\ (rx # << >> \/ fin \/ err)
          \/ handler.kind = "write" /\ (tx < TxMax \/ err)}

EpollWait ==
  /\ Goto("wait", "batch")
  /\ Ready # {}
  /\ batch' = Ready
  /\ UNCHANGED <<inVars, outVars, handler, input, task, appVars, queueVars>>

DispatchSocket ==
  /\ "socket" \in batch
  /\ Goto("batch", "handler")
  /\ batch' = batch \ {"socket"}
  /\ UNCHANGED <<inVars, outVars, handler, input, task, appVars, queueVars>>

BatchDone ==
  /\ batch = {}
  /\ Goto("batch", "pending")
  /\ UNCHANGED <<inVars, outVars, handler, input, task, batch, appVars, queueVars>>

-----------------------------------------------------------------------------
(* Tasks of other threads, and of this one.                                *)

\* A SIGPIPE has ended the process, with every thread of it.
Killed == pc = "killed"

\* submit_task pushes under task_mutex, and writes the eventfd after that.
Push(t) ==
  /\ t \in unsent /\ ~Killed
  /\ t \in OwnTasks => pc = "task" /\ announcing \cap OwnTasks = {}
  /\ unsent' = unsent \ {t}
  /\ incoming' = Append(incoming, t)
  /\ announcing' = announcing \cup {t}
  /\ UNCHANGED <<connVars, pc, batch, notify, temp, ran>>

Announce(t) ==
  /\ t \in announcing /\ ~Killed
  /\ notify' = TRUE
  /\ announcing' = announcing \ {t}
  /\ UNCHANGED <<connVars, pc, batch, unsent, incoming, temp, ran>>

ReadNotify ==
  /\ "eventfd" \in batch
  /\ Goto("batch", "swap")
  /\ batch' = batch \ {"eventfd"}
  /\ notify' = FALSE
  /\ UNCHANGED <<connVars, unsent, incoming, announcing, temp, ran>>

\* handle_incoming_tasks takes all tasks under the mutex and runs them without
\* it, so that they can submit more.
Swap ==
  /\ Goto("swap", "tasks")
  /\ temp' = incoming
  /\ incoming' = << >>
  /\ UNCHANGED <<connVars, batch, unsent, announcing, notify, ran>>

RunTask ==
  /\ temp # << >>
  /\ Goto("tasks", "task")
  /\ ran' = ran \cup {Head(temp)}
  /\ temp' = Tail(temp)
  /\ UNCHANGED <<connVars, batch, unsent, incoming, announcing, notify>>

TaskReturns ==
  /\ announcing \cap OwnTasks = {}
  /\ Goto("task", "tasks")
  /\ UNCHANGED <<connVars, batch, queueVars>>

\* A bug to compare with: the vector is run where it is, and then cleared.
TasksDoneClear ==
  /\ temp = << >>
  /\ Goto("tasks", "batch")
  /\ incoming' = << >>
  /\ UNCHANGED <<connVars, batch, unsent, announcing, notify, temp, ran>>

TasksDone ==
  /\ temp = << >>
  /\ Goto("tasks", "batch")
  /\ UNCHANGED <<connVars, batch, queueVars>>

-----------------------------------------------------------------------------
(* The peer and the network, through the kernel.                           *)

PeerSend ==
  /\ ~fin /\ ~err
  /\ Len(rx) < RxMax /\ Len(sent) < MaxIn
  /\ \E b \in Bytes : rx' = Append(rx, b) /\ sent' = Append(sent, b)
  /\ UNCHANGED <<fin, err, outVars, handler, input, task, appVars, pc, batch, queueVars>>

PeerFin ==
  /\ ~fin /\ ~err
  /\ fin' = TRUE
  /\ UNCHANGED <<rx, err, sent, outVars, handler, input, task, appVars, pc, batch, queueVars>>

PeerReset ==
  /\ ~err
  /\ err' = TRUE
  /\ tx' = 0
  /\ UNCHANGED <<rx, fin, sent, wire, handler, input, task, appVars, pc, batch,
                 queueVars>>

PeerAck ==
  /\ ~err
  /\ \E n \in 1 .. tx : tx' = tx - n
  /\ UNCHANGED <<inVars, wire, handler, input, task, appVars, pc, batch, queueVars>>

-----------------------------------------------------------------------------
Thread ==
  \/ \E how \in {"read", "line"} : Read(how)
  \/ Write \/ WriteError \/ WriteKilled
  \/ HandleData \/ HandleEnd \/ HandleRoom \/ HandleError
  \/ RunReadDone \/ RunWriteDone \/ EnterWait
  \/ EpollWait \/ DispatchSocket \/ BatchDone
  \/ ReadNotify \/ Swap \/ RunTask \/ TaskReturns \/ TasksDone

Submit == \E t \in OtherTasks \cup OwnTasks : Push(t) \/ Announce(t)

Peer == PeerSend \/ PeerFin \/ PeerReset \/ PeerAck

Next == Thread \/ Submit \/ Peer

Spec == Init /\ [][Next]_vars

\* The threads keep running and finish what they submit; the peer keeps reading
\* what it is sent.  Nothing obliges it to send or to close.
FairSpec ==
  /\ Spec
  /\ WF_vars(Thread) /\ WF_vars(PeerAck)
  /\ \A t \in OtherTasks \cup OwnTasks : WF_vars(Announce(t))

-----------------------------------------------------------------------------
Handlers == [kind : {"none", "read", "line", "write"}, written : 0 .. RespLen - 1]
Buffers == {in \in [data : Seq(Bytes), index : Nat] : in.index <= Len(in.data)}
IsTask(t) ==
  \/ t \in {NoTask, GiveCount(-1), GiveCount(RespLen)}
  \/ /\ t.cb \in {"read", "line"} /\ t.bytes.data \in Seq(Bytes)
     /\ t = GiveBytes(t.cb, t.bytes.data)

ConnTypeOK ==
  /\ rx \in Seq(Bytes) /\ sent \in Seq(Bytes) /\ heard \in Seq(Bytes) /\ line \in Seq(Bytes)
  /\ tx \in 0 .. TxMax /\ wire \in 1 .. RespLen
  /\ fin \in BOOLEAN /\ err \in BOOLEAN
  /\ handler \in Handlers /\ input \in Buffers /\ IsTask(task)
  /\ app \in {"reading", "writing", "stopped"}

LoopTypeOK ==
  /\ pc \in {"pending", "read", "write", "wait", "batch", "handler", "swap", "tasks", "task",
            "killed"}
  /\ batch \subseteq {"socket", "eventfd"}

QueueTypeOK ==
  LET Tasks == OtherTasks \cup OwnTasks IN
  /\ unsent \subseteq Tasks /\ announcing \subseteq Tasks /\ ran \subseteq Tasks
  /\ incoming \in Seq(Tasks) /\ temp \in Seq(Tasks) /\ notify \in BOOLEAN

TypeOK == ConnTypeOK /\ LoopTypeOK /\ QueueTypeOK

\* The application's continuation is held once: by its handler, by pending_tasks
\* or by the code that runs.  When the application has stopped nothing holds it,
\* so the connection, which the handlers share, is closed.
OneHolder ==
  ~Killed => Cardinality({h \in {"handler", "task"} :
                 IF h = "handler" THEN handler # NoHandler ELSE task # NoTask})
    = IF app = "stopped" \/ pc \in {"read", "write"} THEN 0 ELSE 1

\* Reactor::add never replaces a handler, as its comment assumes (Reactor.cpp:67):
\* the one for EPOLLOUT and the one for EPOLLIN never meet, in this program.
AddReplacesNone == [][handler' # handler => NoHandler \in {handler, handler'}]_vars

\* What read() and read_until() gave, what is buffered and what is still in the
\* kernel is what the peer sent, over appended reads, lines taken out of the
\* middle and the moves of make_room.
InputIntact ==
  heard \o View(task.bytes) \o Readable(input) \o rx = sent

\* What read_until() gave is one line with its delimiter, also when a delimiter
\* came in pieces.
LinesWhole == line # << >> => Ends(line) = {Len(line)}

\* A packet cut out of what a read gave is inside it, and shows the bytes asked for,
\* unless start + length wraps around size_t, which slice() does not look at: then
\* it always reaches beyond the bytes, except from a start that is past them.
SlicesInside ==
  \A start, length \in Word :
    task.bytes.size \in Word \ {0} =>
      LET p == Slice(task.bytes, start, length) IN
      /\ InsideData(p) <=> start >= task.bytes.size \/ start + length \in Word
      /\ InsideData(p) =>
           View(p) = SubSeq(View(task.bytes), start + 1, Least(start + length, task.bytes.size))

\* A response is reported as written when its last byte is in the kernel.
WrittenToTheEnd == app = "reading" => wire = RespLen

\* The peer's end of stream stops the application, unless it waits for room or a
\* SIGPIPE ends it: a level-triggered socket cannot lose it.
PeerCloseNoticed == fin ~> app = "stopped" \/ handler.kind = "write" \/ Killed

\* Every task that is submitted runs, whatever the connection does short of ending
\* the process; a task may submit to its own core, and submitting never waits.
TasksRun == \A t \in OtherTasks \cup OwnTasks : t \notin unsent ~> t \in ran \/ Killed

\* What the peer is sent brings it no further than the number of bytes: bytes may
\* be sent again, as HandleRoom does, but none is left out, over partial writes of
\* packets of any length that are cut anywhere.
NothingSkipped == [][tx' > tx => wire' - (tx' - tx) <= wire % RespLen]_vars
=============================================================================
