------------------------------ MODULE CrossCore ------------------------------
(***************************************************************************)
(* The threads of an Engine (Seastar.h) and their Reactors (Reactor.cpp):  *)
(* start-up behind the ready_count_ barrier, the event loop with its       *)
(* pending tasks and epoll batches, and submit_task, which pushes on       *)
(* another core's ring and then writes to its eventfd.                     *)
(*                                                                         *)
(* A ring is the number of tasks in it: SpscQueue shows that, with one     *)
(* producer, it is a bounded first-in first-out queue.  What that module   *)
(* leaves to the memory model stays here: the consumer may miss a task     *)
(* whose eventfd write it has not read yet, and only such a task.          *)
(***************************************************************************)
EXTENDS Integers, FiniteSets

CONSTANTS
  Cores,       \* the cores; one thread and one Reactor each
  Link,        \* <<p, c>>: the tasks of core p may submit to core c
  Bound,       \* tasks that fit in a ring: its capacity less one
  MaxSubmit,   \* bound: tasks submitted to each core
  MaxSchedule  \* bound: tasks scheduled locally on each core

ASSUME CoresAssumption == IsFiniteSet(Cores) /\ Cores # {}
\* The ring is single-producer, so the callers must give each core one source.
ASSUME LinkAssumption ==
  /\ Link \subseteq Cores \X Cores
  /\ \A l, m \in Link : l[2] = m[2] => l = m
ASSUME BoundAssumption ==
  /\ Bound \in Nat \ {0}
  /\ MaxSubmit \in Nat
  /\ MaxSchedule \in Nat

VARIABLES
  reactors,   \* the cores whose entry in g_reactors is set
  readyCount, \* ready_count_
  pc,         \* where each thread is
  stage,      \* where it is inside submit_task: "none", "push" or "notify"
  to,         \* the core it submits to
  queue,      \* cross_core_queue_: how many tasks are in each ring
  known,      \* of those, how many the running drain is bound to see
  efd,        \* notify_fd: TRUE when its counter is not zero
  io,         \* TRUE when epoll has an event for another descriptor
  events,     \* the rest of the batch that epoll_wait returned
  pending,    \* pending_tasks: how many are waiting
  sent,       \* tasks pushed to each core so far
  scheduled   \* tasks scheduled on each core so far

bootVars == <<reactors, readyCount>>
submitVars == <<stage, to>>
ringVars == <<queue, known, sent>>
loopVars == <<io, events, pending, scheduled>>
vars == <<bootVars, pc, submitVars, ringVars, efd, loopVars>>

Running == {"main", "task", "incoming", "handler"}   \* user code is running
Places == {"start", "arrive", "barrier", "pending", "wait", "dispatch", "pop"}
            \cup Running

Init ==
  /\ reactors = {}
  /\ readyCount = 0
  /\ pc = [c \in Cores |-> "start"]
  /\ stage = [c \in Cores |-> "none"]
  /\ to \in {f \in [Cores -> Cores] : \A c \in Cores : f[c] = c}
  /\ queue = [c \in Cores |-> 0]
  /\ known = [c \in Cores |-> 0]
  /\ efd = [c \in Cores |-> FALSE]
  /\ io = [c \in Cores |-> FALSE]
  /\ events = [c \in Cores |-> {}]
  /\ pending = [c \in Cores |-> 0]
  /\ sent = [c \in Cores |-> 0]
  /\ scheduled = [c \in Cores |-> 0]

Goto(c, from, dest) ==
  /\ pc[c] = from
  /\ pc' = [pc EXCEPT ![c] = dest]

Inc(f, c) == f' = [f EXCEPT ![c] = @ + 1]
Dec(f, c) == f' = [f EXCEPT ![c] = @ - 1]

-----------------------------------------------------------------------------
\* Engine::run, one thread per core: create the Reactor, wait for the others.
Register(c) ==
  /\ Goto(c, "start", "arrive")
  /\ reactors' = reactors \cup {c}
  /\ UNCHANGED <<readyCount, submitVars, ringVars, efd, loopVars>>

Arrive(c) ==
  /\ Goto(c, "arrive", "barrier")
  /\ readyCount' = readyCount + 1
  /\ UNCHANGED <<reactors, submitVars, ringVars, efd, loopVars>>

\* A bug to compare with: the barrier opens one core too early.
LeaveBarrierEarly(c) ==
  /\ readyCount >= Cardinality(Cores) - 1
  /\ Goto(c, "barrier", "main")
  /\ UNCHANGED <<bootVars, submitVars, ringVars, efd, loopVars>>

LeaveBarrier(c) ==
  /\ readyCount >= Cardinality(Cores)
  /\ Goto(c, "barrier", "main")
  /\ UNCHANGED <<bootVars, submitVars, ringVars, efd, loopVars>>

-----------------------------------------------------------------------------
\* User code: user_main, a task or an event handler.
InUserCode(c) == pc[c] \in Running /\ stage[c] = "none"

\* Engine::submit_to: look the target's Reactor up and enter submit_task.
Submit(c, d) ==
  /\ InUserCode(c)
  /\ <<c, d>> \in Link
  /\ sent[d] < MaxSubmit
  /\ stage' = [stage EXCEPT ![c] = "push"]
  /\ to' = [to EXCEPT ![c] = d]
  /\ UNCHANGED <<bootVars, pc, ringVars, efd, loopVars>>

\* A bug to compare with: push does not look whether there is room.
SubmitPushUnchecked(c) ==
  /\ stage[c] = "push"
  /\ stage' = [stage EXCEPT ![c] = "notify"]
  /\ Inc(queue, to[c])
  /\ Inc(sent, to[c])
  /\ UNCHANGED <<bootVars, pc, to, known, efd, loopVars>>

\* A push that succeeds; while the ring is full the thread only spins.
SubmitPush(c) ==
  /\ stage[c] = "push"
  /\ queue[to[c]] < Bound
  /\ stage' = [stage EXCEPT ![c] = "notify"]
  /\ Inc(queue, to[c])
  /\ Inc(sent, to[c])
  /\ UNCHANGED <<bootVars, pc, to, known, efd, loopVars>>

SubmitNotify(c) ==
  /\ stage[c] = "notify"
  /\ stage' = [stage EXCEPT ![c] = "none"]
  /\ efd' = [efd EXCEPT ![to[c]] = TRUE]
  /\ UNCHANGED <<bootVars, pc, to, ringVars, loopVars>>

Schedule(c) ==
  /\ InUserCode(c)
  /\ scheduled[c] < MaxSchedule
  /\ Inc(pending, c)
  /\ Inc(scheduled, c)
  /\ UNCHANGED <<bootVars, pc, submitVars, ringVars, efd, io, events>>

\* Where the event loop goes on when user code returns.
Resume == [main |-> "pending", task |-> "pending", incoming |-> "pop",
           handler |-> "dispatch"]

\* Bugs to compare with: one task per wake-up, one pending task per turn.
ReturnOneIncoming(c) ==
  /\ InUserCode(c)
  /\ pc' = [pc EXCEPT ![c] = IF @ = "incoming" THEN "dispatch" ELSE Resume[@]]
  /\ UNCHANGED <<bootVars, submitVars, ringVars, efd, loopVars>>

ReturnOnePending(c) ==
  /\ InUserCode(c)
  /\ pc' = [pc EXCEPT ![c] = IF @ = "task" THEN "wait" ELSE Resume[@]]
  /\ UNCHANGED <<bootVars, submitVars, ringVars, efd, loopVars>>

Return(c) ==
  /\ InUserCode(c)
  /\ pc' = [pc EXCEPT ![c] = Resume[@]]
  /\ UNCHANGED <<bootVars, submitVars, ringVars, efd, loopVars>>

-----------------------------------------------------------------------------
\* Reactor::run.
RunPending(c) ==
  /\ pending[c] > 0
  /\ Goto(c, "pending", "task")
  /\ Dec(pending, c)
  /\ UNCHANGED <<bootVars, submitVars, ringVars, efd, io, events, scheduled>>

EnterWait(c) ==
  /\ pending[c] = 0
  /\ Goto(c, "pending", "wait")
  /\ UNCHANGED <<bootVars, submitVars, ringVars, efd, loopVars>>

Ready(c) ==
  (IF efd[c] THEN {"notify"} ELSE {}) \cup (IF io[c] THEN {"io"} ELSE {})

\* epoll_wait has no timeout: it sleeps until something is ready.  notify_fd
\* is level-triggered, the other descriptors are edge-triggered.
EpollWait(c) ==
  /\ Ready(c) # {}
  /\ Goto(c, "wait", "dispatch")
  /\ events' = [events EXCEPT ![c] = Ready(c)]
  /\ io' = [io EXCEPT ![c] = FALSE]
  /\ UNCHANGED <<bootVars, submitVars, ringVars, efd, pending, scheduled>>

\* The pushed tasks whose eventfd write has been made; with one producer only
\* the last task can be one that has not been announced.
Announcing(c) == \E p \in Cores : stage[p] = "notify" /\ to[p] = c
Announced(c) ==
  IF Announcing(c) /\ queue[c] > 0 THEN queue[c] - 1 ELSE queue[c]

\* A bug to compare with: the eventfd is read and the ring left alone.
ReadNotifyOnly(c) ==
  /\ "notify" \in events[c]
  /\ pc[c] = "dispatch"
  /\ events' = [events EXCEPT ![c] = @ \ {"notify"}]
  /\ efd' = [efd EXCEPT ![c] = FALSE]
  /\ UNCHANGED <<bootVars, pc, submitVars, ringVars, io, pending, scheduled>>

\* Read notify_fd, which resets it, and enter handle_incoming_tasks.
ReadNotify(c) ==
  /\ "notify" \in events[c]
  /\ Goto(c, "dispatch", "pop")
  /\ events' = [events EXCEPT ![c] = @ \ {"notify"}]
  /\ efd' = [efd EXCEPT ![c] = FALSE]
  /\ known' = [known EXCEPT ![c] = Announced(c)]
  /\ UNCHANGED <<bootVars, submitVars, queue, sent, io, pending, scheduled>>

PopTask(c) ==
  /\ queue[c] > 0
  /\ Goto(c, "pop", "incoming")
  /\ Dec(queue, c)
  /\ known' = [known EXCEPT ![c] = IF @ > 0 THEN @ - 1 ELSE 0]
  /\ UNCHANGED <<bootVars, submitVars, sent, efd, loopVars>>

\* A bug to compare with: notify_fd is read after the ring was found empty.
PopNoneThenRead(c) ==
  /\ known[c] = 0
  /\ Goto(c, "pop", "dispatch")
  /\ efd' = [efd EXCEPT ![c] = FALSE]
  /\ UNCHANGED <<bootVars, submitVars, ringVars, loopVars>>

\* pop returns false: no task that the drain is bound to see is left.
PopNone(c) ==
  /\ known[c] = 0
  /\ Goto(c, "pop", "dispatch")
  /\ UNCHANGED <<bootVars, submitVars, ringVars, efd, loopVars>>

DispatchHandler(c) ==
  /\ "io" \in events[c]
  /\ Goto(c, "dispatch", "handler")
  /\ events' = [events EXCEPT ![c] = @ \ {"io"}]
  /\ UNCHANGED <<bootVars, submitVars, ringVars, efd, io, pending, scheduled>>

BatchDone(c) ==
  /\ events[c] = {}
  /\ Goto(c, "dispatch", "pending")
  /\ UNCHANGED <<bootVars, submitVars, ringVars, efd, loopVars>>

\* Something happens on a socket or a timer expires.
IoEvent(c) ==
  /\ c \in reactors
  /\ ~io[c]
  /\ io' = [io EXCEPT ![c] = TRUE]
  /\ UNCHANGED <<bootVars, pc, submitVars, ringVars, efd, events, pending, scheduled>>

-----------------------------------------------------------------------------
Loop(c) ==
  \/ RunPending(c) \/ EnterWait(c) \/ EpollWait(c)
  \/ ReadNotify(c) \/ PopTask(c) \/ PopNone(c)
  \/ DispatchHandler(c) \/ BatchDone(c)

User(c) ==
  \/ \E d \in Cores : Submit(c, d)
  \/ SubmitPush(c) \/ SubmitNotify(c) \/ Schedule(c) \/ Return(c)

Boot(c) == Register(c) \/ Arrive(c) \/ LeaveBarrier(c)

Thread(c) == Boot(c) \/ User(c) \/ Loop(c)

Next == \E c \in Cores : Thread(c) \/ IoEvent(c)

Spec == Init /\ [][Next]_vars

\* The operating system runs every thread again and again.  Nothing is assumed
\* about IoEvent.  MaxSubmit and MaxSchedule make user code return.
FairSpec == Spec /\ \A c \in Cores : WF_vars(Thread(c))

-----------------------------------------------------------------------------
TypeOK ==
  /\ reactors \subseteq Cores
  /\ readyCount \in 0 .. Cardinality(Cores)
  /\ pc \in [Cores -> Places]
  /\ stage \in [Cores -> {"none", "push", "notify"}]
  /\ to \in [Cores -> Cores]
  /\ queue \in [Cores -> 0 .. Bound]
  /\ known \in [Cores -> 0 .. Bound]
  /\ efd \in [Cores -> BOOLEAN]
  /\ io \in [Cores -> BOOLEAN]
  /\ events \in [Cores -> SUBSET {"notify", "io"}]
  /\ pending \in [Cores -> Nat]
  /\ sent \in [Cores -> Nat]
  /\ scheduled \in [Cores -> Nat]

\* submit_to never follows a null entry of g_reactors: no user code runs
\* anywhere before every core has stored its Reactor, whatever the order in
\* which the threads start and pass the barrier.
NoNullReactor == \A c \in Cores : stage[c] # "none" => to[c] \in reactors

\* A reactor that is about to sleep in epoll_wait, or sleeps there, with its
\* eventfd clear has no pending task and no task in its ring, save one whose
\* producer is about to write to the eventfd.  This is the order push, write on
\* one side and read, drain on the other; either order reversed loses a wake-up.
NoSleepOnWork ==
  \A c \in Cores :
    pc[c] = "wait" /\ ~efd[c] =>
      /\ pending[c] = 0
      /\ queue[c] > 0 => queue[c] = 1 /\ Announcing(c)

\* Every task handed to submit_task is run by the target's reactor: with the
\* submissions bounded, the ring is always drained in the end.
SubmittedRuns == \A c \in Cores : queue[c] > 0 ~> queue[c] = 0

\* Every scheduled task, the way a promise's continuation is run, gets its turn
\* even when no descriptor ever becomes ready again.
ScheduledRuns == \A c \in Cores : pending[c] > 0 ~> pending[c] = 0

\* The event loop is never blocked for good: whatever user code submits or
\* schedules, the thread comes back to epoll_wait.
LoopKeepsTurning == \A c \in Cores : pc[c] # "wait" ~> pc[c] = "wait"
=============================================================================
