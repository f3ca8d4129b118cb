# A TLA+ verification of Mini_Seastar

Mini_Seastar is a small shared-nothing server framework in C++: one thread per
core, one epoll reactor per thread, lock-free rings between cores, and futures
on top.  The repository holds three generations of it, `Mini_SeaStar` (v1),
`Mini_SeaStar_v2` and `Mini_SeaStar_v3`.  This directory models v3, v2 where it
differs, and the connection, the packets and the event loop of v1; it checks small
instances with TLC and proves what holds for every size with TLAPS.

## 1. Inventory

| Component | Source (v3 unless said) | State | Operations | Hard behaviour |
|---|---|---|---|---|
| Ring between cores | `SpscQueue.h` (v2 the same) | `head_`, `tail_`, two cached copies, 1024 raw slots | `emplace`/`push`, `pop`, destructor | two threads, acquire/release, stale copies, wrap-around |
| Engine | `Seastar.h` | `g_reactors`, `ready_count_`, threads | `run`, `submit_to` | start-up barrier; who may submit to whom |
| Reactor | `Reactor.h`, `Reactor.cpp` | epoll set, `handlers`, `pending_tasks`, ring, eventfd | `run`, `add`, `modify_events`, `remove`, `schedule`, `submit_task` | lost wake-ups, full rings, tasks scheduled by handlers |
| Timers | `Reactor.cpp` | heap `timers_`, timerfd | `run_at`, `run_after`, `sleep`, `handle_timer_events` | re-arming, callbacks that add timers, `seconds * 1000` |
| TCP connection | `TcpConnection.h`, `NetBuffer.h` | input and output chains of buffers, `pending_read_`, `pending_write_`, `closed_` | `read`, `write`, `handle_events`, `handle_close` | edge-triggered events against partial reads and writes, close in every state |
| Futures | `Future.h` | shared `State`: value, `ready`, `callback` | `then`, `set_value`, `get_future` | inline or scheduled continuation, moved-from value, set twice |
| Acceptor | `TcpServer.h`, `Socket.h` | listening socket, `idle_fd` | `handle_accept`, `accept` | edge-triggered accept, EINTR, EMFILE |
| Memory | `Poolable.h`, `IntrusivePtr.h` | thread-local free lists, reference counts | allocate, free, copy, move | order of release, use after the last release, nodes handed out again |
| Packet | `Packet.h` (all generations) | shared bytes, offset, size | `slice`, `drop_front`, `share` | `size_t` wrap-around |
| Application | `main.cpp` | none | `start_http_bench`, `main` | chain of futures per connection |
| v2 connection | `Mini_SeaStar_v2/TcpConnection.h` | one vector per direction instead of a chain | as v3 | as v3 |
| v1 connection | `Mini_SeaStar/TcpConnection.h` | `input_buffer_`, `read_index_`, a handler per call | `read`, `read_until`, vectored `write` | buffer that moves under a reader, state kept in a handler |
| v1 reactor | `Mini_SeaStar/Reactor.cpp` | `handlers`, `incoming_tasks` under a mutex, eventfd | `run`, `add`, `remove`, `submit_task` | one handler per descriptor, which `run` copies; swap of the task vector |

How they interact.  `Engine::run` starts a thread per core; each builds its own
`Reactor`, stores it in `g_reactors` and waits until all have.  After that the
only shared memory is the ring of each reactor, written by `submit_to` on
another core, and its eventfd.  Inside one thread everything is callbacks: epoll
events call handlers, handlers resolve promises, `set_value` puts the
continuation on `pending_tasks`, and `run` calls those before it sleeps again.
The kernel and the peer act between any two system calls.

What makes each part correct:

- *Ring*: nothing overwritten, lost, taken twice or leaked; first in, first out.
- *Engine, reactor*: no null entry of `g_reactors` is followed; no reactor sleeps
  on a task; every task runs; the loop is never blocked for good.
- *Connection*: no input or output is stranded behind a consumed edge; each
  promise is resolved exactly once; a response is reported only when all of it
  is out; every byte is delivered; closing ends the application's chain.
- *Timers*: never early, never lost, armed while any timer is waiting.
- *Futures*: each continuation runs once with the value that was set.
- *Acceptor*: every queued connection is accepted or refused while epoll sleeps.
- *Memory*: a count is the number of pointers, no usable pointer dangles, every node
  is free or in use, never both.
- *Packet*: a slice is inside what it was cut from.
- *v1 connection*: the application is given exactly the bytes the peer sent, lines
  whole; one handler at a time; an end of stream is always noticed.

`PROJECT.json` lists every hazard with its line and the properties that cover it.

## 2. Modules

| Module | What it is |
|---|---|
| `FifoQueue` | What `SpscQueue` promises: a bounded first-in first-out queue |
| `SpscQueue` | The ring, one action per atomic access; `FifoSpec` is the refinement |
| `SpscQueueProofs` | Its theorems |
| `CrossCore` | Threads, barrier, `submit_to`, eventfd and event loop of all cores |
| `CrossCoreProofs` | Its theorems |
| `Exchange` | What a connection promises a program that reads, writes and reads again |
| `TcpConnection` | One connection of v2 or v3, the kernel's socket, the peer and the application; `ExchangeSpec` is the refinement |
| `TcpConnectionProofs` | Its theorems |
| `AlarmClock` | What the timers promise: each callback once, none early |
| `Timers` | The heap, the timerfd, the clock and the event loop; `AlarmSpec` is the refinement |
| `TimersProofs` | Its theorems |
| `Acceptor` | `TcpServer::listen`, `handle_accept`, `Socket::accept` and the descriptor table |
| `AcceptorProofs` | Its theorems |
| `Continuations` | What `then` promises: each continuation once, in order, in the end |
| `Futures` | Promise, Future, State and `pending_tasks`; `ContinuationSpec` is the refinement |
| `FuturesProofs` | Its theorems |
| `Packets` | `Packet`: views of shared bytes with `size_t` that wraps, and the iovecs of a write |
| `ConnectionV1` | The connection and the event loop of v1, with its task queue; uses `Packets` |
| `ConnectionV1Proofs` | Its theorems |
| `Memory` | `LocalPtr` and reference counts over the free list of `Poolable` |
| `MemoryProofs` | Its theorems |
| `MCSpscQueue`, `MCCrossCore`, `MCTimers`, `MCConnectionV1`, `MCMemory` | Definitions for the configurations |

### SpscQueue

`head`, `tail`, `cachedTail`, `cachedHead` and `ring` are the members of the same
names; `ppc`/`phead`/`pitem` and `cpc`/`citem` are the local state of a thread
inside `emplace` and `pop`.  Each function is cut where the other thread could
see a difference: loading and comparing the index, refreshing the cached copy,
constructing or taking the object, the release store.  An acquire load returns
*any* value between the last one the thread saw and the current one (`Visible`),
which is what the C++ memory model allows for one variable; the release store
orders the slot's contents, so once an index is seen its slots are as well.
`Destroy` is the destructor, which the owner runs when no thread is inside.

`Producers` is a set.  The proofs and `spsc_one` take one producer, as the
class requires; `spsc_two` shows what more than one would do.

### CrossCore

Per core: `pc` is the place in the start-up code or in `Reactor::run`, `stage`
and `to` the place inside `submit_task` and its target.  A ring is a count of
tasks, justified by the refinement of `SpscQueue`; the one thing this loses is
that `pop` may not yet see the last push.  `known` keeps it: when the drain
starts after a read of the eventfd, it is bound to see every task whose
`write` has been made (that system call orders the memory), and only an
unannounced one may be missed or seen.  `io` stands for every other descriptor
with its handler (sockets, the listening socket, the timerfd), `pending` for
`pending_tasks`.  User code (`user_main`, tasks, handlers) may submit along
`Link`, schedule, and return, in any order.  `EpollWait` takes what is ready as a
batch and handles it in any order; the eventfd is level-triggered.

### TcpConnection

One connection of `start_http_bench`.  The thread's code is cut at each system
call, so data, FIN, RST and ACKs can come between any two.  Bytes are counted,
their values are not looked at by any code.  `inBytes` and `room` stand for the
chain of input buffers (total readable bytes, and what is writable in the last
buffer), `out` for the output chain.  Kernel behaviour is external and modelled
from how this code uses it: `edge` is membership of epoll's ready list, set by
arriving data, FIN or RST, by `EPOLL_CTL_ADD`/`MOD` on a socket that polls as
ready, and by a draining send buffer after a write that found it full
(`nospace`).  `task` is the continuation `set_value` has scheduled; a
continuation of a ready future runs at once, as in `Future::then`.

`chained` is chosen once: with it the buffers are v3's chain of `NetBuffer`s, without it
v2's vectors, where a read always asks for `kReadBufSize` and the rest of a response is
kept in one piece.  Everything else is the same code in both.

`Exchange` is the connection as its user sees it: phases of reading and writing, bytes
given, bytes of the response the kernel still has to take.  `Phase` and `Begun` map a
state of the connection to it: what is scheduled or running tells which call the
application waits for, and the bytes pushed say how much is owed.

Two properties pin limits of the code rather than its strengths.  `OnlyWholeBuffersLost`:
`handle_close` resolves a pending read with an empty packet before the bytes drained
with it are delivered (`TcpConnection.h:213`), which happens only when they fill whole
buffers, since a short read ends the drain before the end of stream is seen.
`OwnedWhileClosing`: `run` calls the handler in place (`Reactor.cpp:184`), so
`reactor_->remove` inside `handle_close` destroys the lambda and its reference to the
connection, while `handle_close` goes on to read `pending_read_` and `pending_write_`
(`TcpConnection.h:285`).  The connection is kept alive by the application then, unless
the peer has reset it and a write has already failed, when that reference was the last.

No generation ignores SIGPIPE or passes `MSG_NOSIGNAL`.  A `write` to a socket that the peer
has only reset gives ECONNRESET and returns -1 (`WriteError`, `FlushError`).  When the reset
follows a FIN, or when `read` in the same dispatch has already taken the socket's error, the
error is EPIPE, and it comes with a signal that ends the whole process (`Broken`,
`WriteKilled`, the place `"killed"`).  A process that has ended keeps no promise: the
properties that say what must happen are about one that has not (`Killed`), while the edge
properties, the refinement of the steps and the accounting hold up to that point.

### Timers

`timers` is the heap `timers_` as a set (`IsTop` is any of its earliest jobs, since a
`std::priority_queue` orders no ties), `when` the `expire_time` of each.  `armed` and
`fired` are the timerfd: the time it expires at, and whether it can be read.
`reset_timer_fd` is two steps, `ReadClock` and `SetTime`, because the clock moves
between its look at it and `timerfd_settime`, which counts the delay from its own
moment and drops an expiration nobody has read.  `sub` is the place inside it, `pc`
the place in `Reactor::run` and `handle_timer_events`; `start` is the latter's local
`now`, read once and compared with every timer.  `Settime` is the system call: a delay of zero disarms
the timerfd and a negative one is refused, which is why `reset_timer_fd` asks for one tick
at least; a timer that has passed and is set as it is never fires (`TimersFire`).
User code calls `run_at` and `run_after` from tasks, from other handlers of the same batch and from callbacks.
`sleep` is `run_after` with a promise, so it is not an action of its own.  `Expire` may
be late by any amount.

### Acceptor

`used` counts the descriptors of the process: the listening socket, those of other
threads (`other`), those inside a `Socket` the connection handler has been given
(`held`), `idle_fd` (`idle`) and `temp_fd` (`temp`).  `accept4` looks for a free descriptor
before it looks at the queue, so `AcceptNoDescriptor` comes first when there is none.
`idle_fd` is a thread-local static: it is opened when EMFILE is first met, which is
when no descriptor is free, so usually it fails and the spare does not exist until
another thread has closed something.  `edge` is epoll's ready list, as in
`TcpConnection`.  Three things are chosen once, in `Init`: how many descriptors the process
may have (`limit`), what `accept4` may report besides EAGAIN and EMFILE (`errors`), and
whether the program has set a connection handler (`handled`); without one, `handle_accept`
destroys the `Socket`, which closes the connection, and goes on (`DropConnection`).  Any
other error is thrown through the event loop, and the process ends (`AcceptThrows`).

`NoStrandedConnection` is what the comments in `TcpServer.h` claim of the loop.  The code
breaks it wherever `accept` fails for a reason other than EAGAIN (see the findings), so
`accept_strands` expects a violation, and `AmpleDrains` says where it does hold: with
descriptors for everything and no other error (`Ample`).

### Futures

One `State` per promise and its future.  `then` on a future that is not ready stores the
continuation (`ThenLater`, which overwrites any that is there); on a ready future it
calls it inside `then` (`CallNow`).  `moving` is chosen once: v3 moves the value out of
the `State` there (`ThenMoves`), v1 and v2 copy it (`ThenCopies`).  `MakeReady` is v3's
`Future::make_ready`.  `set_value` puts a task on `pending_tasks` when there is a
callback.  A continuation is user code and is modelled by what it may do: while it is on
`stack`, any user action can happen, including another `then` that runs inline on top of
it.  `Return` is the end of the wrapper `then` builds: it sets the next promise.  In the
abstract `Continuations`, a continuation that another `then` replaced is `lost`; all
others must be called, after the future they wait for and before the one they resolve.

A second `then` can find, or leave, a value that was moved away: when it comes after
`set_value` but before the task of the first has run, the second gets the value and
the first is called with what is left.  `ValueIntact` says that only v3, and only a
future with more than one `then`, can meet this.

### Packets and ConnectionV1

A packet is its bytes, an offset and a size.  `Wrap` is arithmetic in a word of
`WordSize` values: `slice` compares `start + length`, computed in `size_t`, with the size, so
a sum that wraps passes the test.  `SlicesInside` says, for every start and length there is
and every packet a read can give, that the slice is inside the packet exactly when the sum
does not wrap or the start is already past the end; any other wrap gives a packet that
reaches beyond the bytes.  Nothing in the repository calls `slice` so.  `Unsent` is the loop of
`write` that builds the iovecs for what has not been sent.

`ConnectionV1` follows the bytes themselves: `input` is `input_buffer_` with `read_index_`,
`Retrieve` and `MakeRoom` move it, `Ends` is `std::search` for the delimiter.  `handler` is
the entry of `handlers` for the socket and at the same time its presence in epoll; a
`written` in it is the `total_written` captured when `write` had to stop.  `run` calls a
copy of the handler, so what the mutable lambda adds to `total_written` is lost with the
copy (`HandleRoom`): a response that needs more than one EPOLLOUT event is sent again from
where `write` had stopped, and reported when one event takes all of the rest.  `NothingSkipped`
and `WrittenToTheEnd` say what remains true of such a response: bytes may be sent again but
none is left out, and it is not reported before its last byte is in the kernel.  `task` is the continuation of the read or write, `incoming`, `temp`,
`announcing` and `notify` are `incoming_tasks`, `temp_tasks`, the tasks pushed before the
eventfd is written, and the eventfd.  Mutex sections are single steps.  `WriteKilled` is the
SIGPIPE of a `writev` that meets EPIPE, as in `TcpConnection`; it ends the other threads too.

### Memory

Every object has one `LocalPtr` as a member; `Locals` are the slots outside objects, such
as local variables and captures.  `ptr` is what each slot points to, `count` is
`ref_count_`, `free` the list from `head_`.  A release that reaches zero runs a
destructor, which releases the member and may run another one, before the node goes
back to the list: `stack` holds the destructors that are not finished, and a move
assignment that waits for them, since `operator=(LocalPtr&&)` releases its old object
first and reads the source after that.  User code uses slots it can name: its own, and
the member of an object that a slot of its own keeps alive (`Usable`).  A copy may come out of
the object that its target is about to release (`p = p->next`): copy and swap takes the new
pointer first.

A move assignment may not: in `p = std::move(p->next)` the code releases the object, and with
it the source, before it reads the source, and would read freed memory.  Nothing in the
repository does it, and the model leaves it out: the source of `MoveAssign` is kept alive by a
slot other than the target.  What `memory` shows of moves is therefore that the
destructors which run between the release and the read harm no other slot.  Cycles of objects are possible in the model and leak,
as in the code, where `handle_close` breaks the one between a connection and its handler.

## 3. Runs

| Run | Question | Answer |
|---|---|---|
| `spsc_one` | Does the ring keep its slots, lose nothing, and refine `FifoQueue`? | holds |
| `spsc_two` | And with two producers, as `submit_to` permits? | `SlotDiscipline` fails |
| `cross` | Barrier, wake-ups, and do all tasks run with rings that fill up? | holds |
| `cross_mutual` | And when two cores submit to each other? | both spin for ever |
| `timers` | Is the timerfd always armed in time, and is every callback called once, not early? | holds |
| `futures` | Does `then` keep its promise, nested and repeated, moving and copying? | holds |
| `accept_full` | Is any descriptor lost on the EMFILE path, and with enough of them, any connection? | holds |
| `accept_strands` | Does the accept loop always leave an empty queue or an edge? | no |
| `conn` | Edges, promises, partial writes, ownership; is it an `Exchange`? | holds, for v2 and v3 |
| `conn_eof` | Is the peer's close always noticed? | no |
| `v1` | Are bytes, lines, slices, responses, handlers and tasks of v1 right? | holds |
| `memory` | Are counts, pointers and the pool consistent in every order of release that `Usable` allows? | holds |

### Bounds and why they are enough

- `spsc_one`: four slots (room for three) and three distinct items, symmetric.
  Indices wrap many times, the ring fills and empties, and the cached copies lag
  by every possible amount.  Nothing bounds the length of a run.
- `cross`: two cores, one linked to the other, a ring of two tasks and three submissions
  (`MaxSubmit`), so the ring is full with one more task to come; `MaxSchedule` = 2 bounds
  locally scheduled tasks.  Longer chains, and a core that submits to itself, are
  instances of the theorems, which allow any `Link` with one source per core.
  `cross_mutual`: rings of one task and two submissions each.
- `conn`, `conn_eof`: a buffer of two bytes, a response of three (so two buffers, the second
  partly filled) and a send buffer of two (so no response leaves in one write).
  Received data can fill a buffer exactly, fall short of it or need two.
  `MaxIn` bounds what the peer sends and leaves room for several requests.
- `timers`: three timers, times up to `MaxTime` = 2, delays of -1, 0 and 2: one that has
  passed, one that is due and one that lies ahead, in every order of insertion.  The
  clock stops at `MaxTime` unless the timerfd is armed for later.
- `accept_full`: four connections (`MaxArrive`) and two descriptors of other threads
  (`MaxOther`), with every set of errors, with and without a handler.  With three
  descriptors the table fills up before, inside and after the EMFILE path, with and without
  a spare; eight are one more than everything can use, which is `Ample`.
- `accept_strands`: two descriptors, one of them the listening socket's, two connections, no
  error but EMFILE and no other thread: the smallest instance that strands one.
- `futures`: five States and two calls of `then` on each (`MaxThen`): a replaced
  continuation, two nested ones, and chains of four.
- `v1`: bytes 0 and 1 and the delimiter `01`, which a read of two bytes can cut
  in two; up to three bytes from the peer (`MaxIn`), a receive buffer of two, a buffer that
  compacts at two bytes (`CompactAt`, 1024 in the code); a response of three bytes whose
  first packet has one, a send buffer of two, so that a write stops inside either packet;
  words of eight values; one task of another thread and one of its own.
- `memory`: three local slots, two chunks of two nodes: chains of two destructors under a
  waiting move, a pool that runs out and grows, and a node used again.  `Interchangeable`
  permutes the local slots, which no definition tells apart.

`CHECK_DEADLOCK FALSE` is said where the system may really stop: a connection whose peer is
silent or gone does nothing (`conn`, `conn_eof`, `v1`), an `accept` that throws
ends the process, a program that has used its States stops (`futures`), and in
`cross_mutual` both threads really make no progress.

### Fairness

`CrossCore!FairSpec` has weak fairness of each thread: the operating system runs
each of them again and again.  Nothing is assumed of sockets.  User code returns
because `MaxSubmit` and `MaxSchedule` bound what it does; that a full ring makes it
wait is modelled and not assumed away (`SubmitPush` is just not enabled).
`TcpConnection!FairSpec` has weak fairness of the thread and of `PeerAck`: the
peer's side reads what it is sent.  `PeerSend`, `PeerFin` and `PeerReset` are never
obliged to happen.  `Timers!FairSpec` has weak fairness of the thread, of time passing
and of the timerfd expiring; that other descriptors wake the loop is not assumed.
`Acceptor!FairSpec` has weak fairness of the thread alone: no other thread need close
anything, no further connection need come.  `Futures!FairSpec` has weak fairness of
`Loop` (the reactor runs its tasks) and of `UserReturns` (user code returns; `MaxThen` and
the finite set of States bound what it can do before).  `ConnectionV1!FairSpec` has weak
fairness of the thread, of the acknowledging peer and of each `Announce`: a thread that
pushed a task goes on to write the eventfd.  `Exchange` asks for one thing, weak fairness
of `Respond`: a response that has begun is finished or ends the connection.  Nothing makes
the peer send, close or reset.

### Findings

1. **A ring with many producers** (`spsc_two`).  `src/README.md:15` calls the ring
   single-producer and the only way cores communicate.  `submit_to` lets every
   core push on the one ring of its target.  With two producers both are
   inside `emplace` with the same `head_` and construct in the same slot.  The
   modules above this one therefore assume one source per core
   (`LinkAssumption`).
2. **A blocking submit in a non-blocking loop** (`cross_mutual`).  `submit_task`
   spins until the target has room.  Two cores that submit to each other with
   full rings, or a core that submits to itself, never return to the loop that
   would make room.
3. **End of stream behind a short read** (`conn_eof`).  `src/README.md:35` says the
   drain reads until EAGAIN.  It returns on a short read, so an end of stream
   that arrived before that read is never read, and its edge is gone.
4. **An accept loop that ends early** (`accept_strands`).  `TcpServer.h:44` of v3 says that
   `handle_accept` accepts until EAGAIN, as edge-triggered mode requires, line 48 that a
   negative descriptor means EAGAIN, and line 36 that this drains the socket.
   `Socket::accept` returns the same -1 for EINTR and for EMFILE (`Socket.h:80-92`).  A process
   that is out of descriptors when it first meets EMFILE cannot open `idle_fd` either, so
   nothing is accepted or refused, and the connection stays in the queue with no edge that
   would wake the reactor; the next one to arrive is the first to tell of it.

Limits of the code that no document speaks of are stated as properties that hold:
`OnlyWholeBuffersLost` and `OwnedWhileClosing` (above), `ValueIntact`, `SlicesInside`, and
`NothingSkipped` with `WrittenToTheEnd` for the responses that v1 sends again: `run` calls a
copy of the handler (`src/Mini_SeaStar/Reactor.cpp:193`), which forgets `total_written`
(`TcpConnection.h:135`).  The response has a `Content-Length` (`src/Mini_SeaStar/main.cpp:12`), so
a client would take what is sent again for the beginning of the next response.

One declaration in v3 cannot be modelled as it is written:
`std::vector<<std::function<void()>,1024>> cross_core_queue_` (`Reactor.h:47`)
does not compile.  It is taken to be v2's
`SpscQueue<std::function<void()>,1024>`, which is what `push` and `pop` need.

## 4. Proofs

All theorems hold for every value of the constants that satisfies the named
assumptions.

**SpscQueueProofs** assumes one producer (`Producers = {p}`) and a capacity of at
least one slot.  `SlotDiscipline` is not inductive: a slot is empty only because
the cached index never promises more room than there is (`IndexOrder`), and what
"room" is depends on which slots hold objects (`NoLostObject`).  The inductive
invariant `IInv` is `TypeOK /\ IndexOrder /\ NoLostObject`, and `SlotDiscipline`
follows from it.  `RingIsFifo` shows `Spec => FifoSpec` with one more fact,
`Filled` (a slot about to be published holds the producer's item): the step of
`EmplacePublish` is `Put`, `PopTake` is `Get`, `Destroy` is `Drop`, and every other
step leaves the mapped queue unchanged (`QueueKept`).  The arithmetic modulo the
capacity is in small lemmas (`DistPlus`, `FrontInRing`).

**CrossCoreProofs** assumes finite `Cores` and one source per core.  `IInv` adds
to `TypeOK`: `BootInv` (`readyCount` is the number of threads that have arrived,
a thread past its first step is registered, and once any thread has passed the
barrier all are), `SubmitInv` (a thread is inside `submit_task` only while user code
runs, towards a core it is linked to) and `WakeInv` (while the eventfd is clear,
the only task the running drain is not bound to see is one whose producer is
about to announce it).  `WakeInv` is the strengthening `NoSleepOnWork` needs: it
speaks of every place in the loop and not only of `epoll_wait`.

**TimersProofs** assumes that delays are integers and that `None` is not one.  `NoSleepPastTimer`
speaks of `epoll_wait` only; `ArmedInv` says the same of every place where the timerfd has
neither been read nor is about to be set, and `CallInv` says where `reset_timer_fd` can be
called from.  `TimersKeepPromise` shows `Spec => AlarmSpec`: `RunAt` is `Set`, `PopExpired` is
`Ring` (its guard compares with `start`, and `TypeOK` has `start <= now`), everything but
`Tick` leaves the abstract state alone.

**AcceptorProofs** assumes positive `Limits`.  `NoDescriptorLost` needs `SpareInv` (where in the
EMFILE path `idle_fd` and `temp_fd` are open or closed).  `AmpleDescriptors` adds `ArriveInv`
(`held`, the connection in hand and `backlog` are together at most `arrived`), from which
`AmpleRoom` follows: with more descriptors than the listening socket, the other threads and all
connections can use, `accept` never fails.  `LoopInv` says that the EMFILE path is then never
entered, and so the loop is left by EAGAIN alone, with an empty queue.

**TcpConnectionProofs** assumes positive sizes and covers both generations of the buffers.
`IInv` is the conjunction of seven parts, none of which is inductive without the types and
`StageInv` (what the place in the code says of the rest: an application that has not
stopped runs at `read` and `write`, `"out"` was reported before a flush, a closed
connection is not registered).  `HoldInv` says which of the three holders has the
continuation, unless the process was killed, and gives `OneContinuation`; `InputInv` says that unread bytes have an edge at
every place in the loop but between `epoll_wait` and the drain; `OutputInv` that EPOLLOUT
is asked for exactly while a write is pending, and that a full send buffer was found
full; `EndInv` why the application is told to end, from which with `HoldInv` follows
`OwnedWhileClosing`, an action property; `DrainInv` that a pending read has drained
whole buffers only, whose arithmetic is in `Remainder` and `WholeBuffers`.  Each part has
a lemma with one step per action.  `ExchangeSteps` is `ExchangeSpec` without its fairness:
`Deliver` and a `Read` of buffered bytes are `Give`, `WriteSome` and `FlushWrite` are `Send`,
`RunWriteDone` is `Report`, a close or an error that resolves a promise is `End`, and every
other step, `FlushDone` among them, leaves the abstract state alone.  It needs one part more,
`ServInv`: what the kernel has not accepted of a response (`Due`) is the `remaining` of
`write()`, and once that has buffered it, what the output buffers hold.  They hold it cut as
`Chunks` cuts it but for the first buffer (`Filled`), which is what makes the sum inductive
over partial sends without a sum over a sequence.

**ConnectionV1Proofs** assumes what `ConnectionV1` and `Packets` do: positive sizes, a header
inside the response, a response that `size_t` can count, a delimiter that is not empty, and a
word of at least one value.  `OneHolder` is inductive as `HoldInv` (the same without
cardinalities) with `StageInv` (the kind of the handler or task is what the application waits
for), and then no `add` finds a handler (`AddFindsNone`).  `InputIntact` is inductive given
those; every action that moves bytes has a lemma on what is readable before and after it
(`RetrieveReadable`, with and without `make_room`; `GrowReadable`), and the rest is regrouping
of concatenations.  `LineInv` says of a scheduled line what `LinesWhole` says of one that was
given; both follow from `FirstLine`: what ends at the first match of the delimiter contains no
other.  `WriteInv` says that a scheduled success has sent the last byte; its arithmetic is in
`UnsentOfTwo`, what the loop over the two packets of a response leaves for a write that has
sent `skip` bytes.  `SkipInv` says that a waiting handler starts no further than the bytes that
are out, which `NothingSkipped` needs (`NoneLeftOut`).  `SlicesInside` follows from the types,
`SliceView` where the sum does not wrap and `SliceWraps` where it does, for any width of
`size_t`.  For the tasks of other threads, `WakeInv` says that a queued one has its wake-up
under way at every place of the loop and that the swapped-out vector is empty when the next
is taken; with it `EachInOnePlace` is inductive (`TasksKept`), and no task is called twice.

**FuturesProofs** assumes that `None` is no future.  `NoSecondSet` needs to know why a State
is ready (`OriginInv`), that a callback belongs to the State it is attached to
(`CallbackInv`), and that a queued task is queued once and not yet called (`PendingInv`);
`ValueIntact` needs `MovedInv`, which counts the calls of `then` before a value was moved.
`PromisesKept` shows that every step is one of `Continuations` or leaves it alone:
`ThenLater` is `Attach`, `ThenMoves` and `ThenCopies` are `AttachAndStart`, `RunTask` is `Start`,
`SetValue`, `MakeReady` and `Return` are `Resolve`.

**MemoryProofs** assumes finitely many `Locals`, that `Null` is neither a slot nor a node, and
chunks of at least one node.  `CountExact` and `NoDangling` hold in every step but are
proved through a state in between, which the code passes through: a pointer has left its
slot and is not yet released.  `Balanced` says the counts are right but for it, `Overwritten`
that an assignment leads there, and `Released` that a release leads back, with the destructor
among the waiting calls if it was the last.  `MoveInv` is the strengthening a waiting move
needs: source and target stay usable whatever the destructors release.  `PoolExact` needs that
the free list repeats nothing and that chunks are whole (`PoolInv`).

Model-checked only: every liveness property, and with it the fairness part of
`ContinuationSpec` and `ExchangeSpec`, since fairness and `ENABLED` are out of the prover's
reach.  Every safety invariant and every action property of a run that holds is a theorem.

## 5. Not modelled, and the plan

Left out for good: the benchmark programs and configurations (other servers),
logging, socket set-up (`bind`, `listen`, options), CPU pinning.  A batch of
more than `MAX_EVENTS` events is not modelled: epoll returns the rest next time.
`submit_to` with a core id out of range does nothing, as in the code.  The
multiplication `seconds * 1000` of `sleep` overflows for more than 24 days, which lies
outside the delays of `Timers`.  Exceptions thrown by user code are not modelled.
Nothing in the repository moves a packet and uses it afterwards, moves a promise, or
calls `read` or `write` again before the first has resolved, so moved-from packets and
promises and overlapping calls are not modelled either.  The assertions of `LocalPtr` that
an object stays on its thread are not: one thread is modelled.  The acceptor of v1 is
`Acceptor` on a level-triggered socket, where a loop that ends early is called again.

What is left, in this order:

1. An application that overlaps `read` and `write`, to state what the second call loses.
2. Several connections on one reactor: a handler table that one handler changes while
   a batch still has events for another.
3. Proofs of what these two add.
