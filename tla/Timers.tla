------------------------------- MODULE Timers -------------------------------
(***************************************************************************)
(* The timers of one Reactor (Reactor.cpp): the heap timers_, the timerfd  *)
(* that wakes the event loop for the earliest of them, and the clock,      *)
(* which moves between any two steps of the thread.                        *)
(*                                                                         *)
(* timerfd_settime takes a delay and counts it from the moment of the      *)
(* call, which comes after the moment the delay was computed for.          *)
(***************************************************************************)
EXTENDS Integers

CONSTANTS
  Jobs,     \* the callbacks; each is set at most once
  Delays,   \* the delay_ms arguments of run_after
  MaxTime,  \* bound: the latest expire_time, and the clock with nothing armed
  None      \* a timerfd that is not armed; a job that has no time

ASSUME DelaysAssumption == Delays \subseteq Int
ASSUME TimeAssumption == MaxTime \in Nat /\ None \notin Int

VARIABLES
  now,     \* Clock::now(), which is also the timerfd's clock
  when,    \* the expire_time given for each job
  timers,  \* timers_: the jobs in the heap
  armed,   \* the time at which the timerfd expires
  fired,   \* the timerfd is readable
  pc,      \* where the thread is
  due,     \* the timerfd is in the rest of the batch
  start,   \* handle_timer_events' local variable now
  sub,     \* where it is inside reset_timer_fd: "none", "clock" or "settime"
  clock,   \* reset_timer_fd's local variable now, kept when it returns
  setAt    \* when timerfd_settime was last called

fdVars == <<armed, fired, setAt>>
threadVars == <<pc, due, start>>
vars == <<now, when, timers, fdVars, threadVars, sub, clock>>

Init ==
  /\ now = 0
  /\ when = [j \in Jobs |-> None]
  /\ timers = {}
  /\ armed = None /\ fired = FALSE /\ setAt = 0
  /\ pc = "user" /\ due = FALSE /\ start = 0
  /\ sub = "none" /\ clock = 0

\* A job that timers_.top() may be: std::priority_queue orders no ties.
IsTop(j) == j \in timers /\ \A k \in timers : when[j] <= when[k]

-----------------------------------------------------------------------------
(* run_at, called by user code: user_main, a task, a handler or a callback. *)

InUserCode == pc \in {"user", "callback"} /\ sub = "none"

\* A bug to compare with: an earlier timer does not move the timerfd.
PushIfEmpty(j, t) ==
  /\ when' = [when EXCEPT ![j] = t]
  /\ timers' = timers \cup {j}
  /\ sub' = IF timers = {} THEN "clock" ELSE "none"

\* Push the timer; the timerfd has to be set when it is now the earliest.
Push(j, t) ==
  /\ when' = [when EXCEPT ![j] = t]
  /\ timers' = timers \cup {j}
  /\ sub' = IF \A k \in timers : t < when[k] THEN "clock" ELSE "none"

\* The bound on the time stands for how far ahead timers are set.
RunAt(j, t) ==
  /\ InUserCode
  /\ when[j] = None
  /\ t <= MaxTime
  /\ Push(j, t)
  /\ UNCHANGED <<now, fdVars, threadVars, clock>>

RunAfter(j, d) == RunAt(j, now + d)

\* reset_timer_fd, called with a heap that is not empty: read the clock.
ReadClock ==
  /\ sub = "clock"
  /\ clock' = now
  /\ sub' = "settime"
  /\ UNCHANGED <<now, when, timers, fdVars, threadVars>>

\* timerfd_settime with a delay: zero disarms the timerfd, a negative one is
\* refused, and an expiration that was not read is dropped.
Settime(delay) ==
  IF delay < 0
  THEN UNCHANGED fdVars
  ELSE /\ armed' = IF delay = 0 THEN None ELSE now + delay
       /\ fired' = FALSE
       /\ setAt' = now

\* A bug to compare with: a time that has passed is given as it is.
SetTimeUnclamped ==
  /\ sub = "settime"
  /\ \E j \in timers : IsTop(j) /\ Settime(when[j] - clock)
  /\ sub' = "none"
  /\ UNCHANGED <<now, when, timers, threadVars, clock>>

\* Set the timerfd, at least one tick ahead.
SetTime ==
  /\ sub = "settime"
  /\ \E j \in timers :
        /\ IsTop(j)
        /\ Settime(IF when[j] - clock < 1 THEN 1 ELSE when[j] - clock)
  /\ sub' = "none"
  /\ UNCHANGED <<now, when, timers, threadVars, clock>>

-----------------------------------------------------------------------------
(* The event loop.                                                         *)

\* Pending tasks and handlers are done: the timerfd next, or the next wait.
LeaveUser ==
  /\ pc = "user"
  /\ sub = "none"
  /\ pc' = IF due THEN "read" ELSE "wait"
  /\ due' = FALSE
  /\ UNCHANGED <<now, when, timers, fdVars, start, sub, clock>>

\* epoll_wait returns; handlers of other descriptors may run before the
\* timerfd's turn and call run_at.
EpollWait ==
  /\ pc = "wait"
  /\ pc' = "user"
  /\ due' = fired
  /\ UNCHANGED <<now, when, timers, fdVars, start, sub, clock>>

Wake == fired /\ EpollWait

WakeByOther == EpollWait

\* handle_timer_events: read the timerfd, which may have nothing to read.
ReadTimer ==
  /\ pc = "read"
  /\ pc' = "now"
  /\ fired' = FALSE
  /\ UNCHANGED <<now, when, timers, armed, setAt, due, start, sub, clock>>

ReadNow ==
  /\ pc = "now"
  /\ pc' = "loop"
  /\ start' = now
  /\ UNCHANGED <<now, when, timers, fdVars, due, sub, clock>>

\* A bug to compare with: the top is taken to have expired.
PopUnchecked(j) ==
  /\ pc = "loop"
  /\ IsTop(j)
  /\ timers' = timers \ {j}
  /\ pc' = "callback"
  /\ UNCHANGED <<now, when, fdVars, due, start, sub, clock>>

\* Take the top off the heap and call it, if it has expired.
PopExpired(j) ==
  /\ pc = "loop"
  /\ IsTop(j)
  /\ when[j] <= start
  /\ timers' = timers \ {j}
  /\ pc' = "callback"
  /\ UNCHANGED <<now, when, fdVars, due, start, sub, clock>>

CallbackDone ==
  /\ pc = "callback"
  /\ sub = "none"
  /\ pc' = "loop"
  /\ UNCHANGED <<now, when, timers, fdVars, due, start, sub, clock>>

\* No timer has expired: set the timerfd for the next one, if there is one.
LoopDone ==
  /\ pc = "loop"
  /\ \A j \in timers : when[j] > start
  /\ pc' = "user"
  /\ sub' = IF timers = {} THEN "none" ELSE "clock"
  /\ UNCHANGED <<now, when, timers, fdVars, due, start, clock>>

-----------------------------------------------------------------------------
(* The clock, and the kernel's timer, which may be late.                   *)

Tick ==
  /\ now < MaxTime \/ (armed # None /\ now < armed)
  /\ now' = now + 1
  /\ UNCHANGED <<when, timers, fdVars, threadVars, sub, clock>>

Expire ==
  /\ armed # None
  /\ armed <= now
  /\ armed' = None
  /\ fired' = TRUE
  /\ UNCHANGED <<now, when, timers, setAt, threadVars, sub, clock>>

-----------------------------------------------------------------------------
Thread ==
  \/ \E j \in Jobs, t \in 0 .. MaxTime : RunAt(j, t)
  \/ \E j \in Jobs, d \in Delays : RunAfter(j, d)
  \/ ReadClock \/ SetTime
  \/ LeaveUser \/ Wake \/ ReadTimer \/ ReadNow
  \/ \E j \in Jobs : PopExpired(j)
  \/ CallbackDone \/ LoopDone

Next == Thread \/ WakeByOther \/ Tick \/ Expire

Spec == Init /\ [][Next]_vars

\* The thread runs, time passes and the kernel's timer expires.  Nothing is
\* assumed about the other descriptors.
FairSpec == Spec /\ WF_vars(Thread) /\ WF_vars(Tick) /\ WF_vars(Expire)

-----------------------------------------------------------------------------
TypeOK ==
  /\ now \in Nat
  /\ when \in [Jobs -> Int \cup {None}]
  /\ timers \subseteq {j \in Jobs : when[j] # None}
  /\ armed \in Nat \cup {None}
  /\ fired \in BOOLEAN /\ due \in BOOLEAN
  /\ pc \in {"user", "wait", "read", "now", "loop", "callback"}
  /\ sub \in {"none", "clock", "settime"}
  /\ start \in 0 .. now /\ clock \in 0 .. now /\ setAt \in 0 .. now

\* The timerfd is armed for the job in time: for its expire_time, or for the
\* next tick when that had passed, plus what the clock moved between
\* reset_timer_fd's look at it and timerfd_settime.
InTime(j) ==
  /\ armed # None
  /\ \/ armed <= when[j] + (setAt - clock)
     \/ armed <= setAt + 1

\* Whenever the reactor waits in epoll_wait, no timer is forgotten: the timerfd
\* has expired and is about to wake it, or it will in time for every timer.
\* Timers are added by callbacks, by handlers between epoll_wait and the
\* timerfd's turn, and earlier than those there are; reset_timer_fd throws
\* unread expirations away.
NoSleepPastTimer ==
  pc = "wait" => fired \/ \A j \in timers : InTime(j)

Alarm == INSTANCE AlarmClock WITH waiting <- timers

\* The heap and the timerfd keep the promise of AlarmClock: every callback runs
\* once and never before its time, although handle_timer_events compares with
\* a clock it has read before the callbacks ran.
AlarmSpec == Alarm!Spec

\* Every timer that is set is called in the end.
TimersFire == \A j \in Jobs : j \in timers ~> j \notin timers
=============================================================================
