---------------------------- MODULE TimersProofs ----------------------------
(***************************************************************************)
(* For any jobs, delays and times: the timerfd is always armed in time,    *)
(* and the timers keep the promise of AlarmClock.                          *)
(***************************************************************************)
EXTENDS Timers, TLAPS

\* While the timerfd has not been read and is not about to be set, it has
\* expired or is armed in time for every timer.
ArmedInv ==
  sub = "none" /\ pc \in {"user", "wait", "read"} =>
    fired \/ \A j \in timers : InTime(j)

\* reset_timer_fd is called by user code, or last of all by the timer loop.
CallInv == sub # "none" => pc \in {"user", "callback"}

IInv == TypeOK /\ ArmedInv /\ CallInv

-----------------------------------------------------------------------------
LEMMA InitIInv == Init => IInv
  <1> SUFFICES ASSUME Init PROVE IInv
    OBVIOUS
  <1>1. TypeOK
    <2>1. when \in [Jobs -> Int \cup {None}] /\ timers \subseteq {j \in Jobs : when[j] # None}
      BY DEF Init
    <2>2. /\ now \in Nat
          /\ start \in 0 .. now /\ clock \in 0 .. now /\ setAt \in 0 .. now
      BY DEF Init
    <2> QED
      BY <2>1, <2>2 DEF Init, TypeOK
  <1>2. ArmedInv /\ CallInv
    BY DEF Init, ArmedInv, CallInv
  <1> QED
    BY <1>1, <1>2 DEF IInv

\* run_at: when the new timer is not the earliest, the timerfd is armed in time
\* for an earlier one, hence for this one.
LEMMA RunAtIInv ==
  ASSUME IInv, NEW j \in Jobs, NEW t \in Int, RunAt(j, t)
  PROVE  IInv'
  <1> USE TimeAssumption DEF IInv, RunAt, InUserCode, Push, fdVars, threadVars
  <1>1. TypeOK'
    BY DEF TypeOK
  <1>2. /\ when'[j] = t
        /\ \A k \in timers : k # j /\ when'[k] = when[k] /\ when[k] \in Int
    BY DEF TypeOK
  <1>3. ArmedInv'
    <2> SUFFICES ASSUME sub' = "none", pc \in {"user", "wait", "read"}, ~fired
                 PROVE  \A k \in timers' : InTime(k)'
      BY DEF ArmedInv
    <2>1. \A k \in timers : InTime(k)
      BY DEF ArmedInv
    <2>2. PICK k \in timers : ~(t < when[k])
      OBVIOUS
    <2>3. InTime(j)'
      BY <1>2, <2>1, <2>2 DEF InTime, TypeOK
    <2>4. \A i \in timers : InTime(i)'
      BY <1>2, <2>1 DEF InTime
    <2> QED
      BY <2>3, <2>4
  <1>4. CallInv'
    BY DEF CallInv
  <1> QED
    BY <1>1, <1>3, <1>4

\* timerfd_settime makes the timerfd right for every timer.
LEMMA SetTimeIInv == IInv /\ SetTime => IInv'
  <1> SUFFICES ASSUME IInv, SetTime PROVE IInv'
    OBVIOUS
  <1> USE TimeAssumption DEF IInv, SetTime, threadVars
  <1>a. PICK j \in timers :
          /\ IsTop(j)
          /\ Settime(IF when[j] - clock < 1 THEN 1 ELSE when[j] - clock)
    OBVIOUS
  <1>2. /\ \A k \in timers : when[k] \in Int /\ when[j] <= when[k]
        /\ now \in Nat /\ clock \in 0 .. now
    BY <1>a DEF IsTop, TypeOK
  <1>1. /\ armed' = now + (IF when[j] - clock < 1 THEN 1 ELSE when[j] - clock)
        /\ fired' = FALSE /\ setAt' = now
    BY <1>a, <1>2 DEF Settime
  <1>3. armed' \in Nat
    BY <1>1, <1>2
  <1>4. TypeOK'
    <2>1. when' = when /\ timers' = timers /\ now' = now
      OBVIOUS
    <2>2. when' \in [Jobs -> Int \cup {None}] /\ timers' \subseteq {k \in Jobs : when'[k] # None}
      BY <2>1 DEF TypeOK
    <2>3. setAt' \in 0 .. now'
      BY <1>1, <1>2, <2>1
    <2> QED
      BY <1>1, <1>3, <2>2, <2>3 DEF TypeOK
  <1>5. \A k \in timers : InTime(k)'
    BY <1>1, <1>2, <1>3 DEF InTime
  <1>6. ArmedInv'
    BY <1>5 DEF ArmedInv
  <1>7. CallInv'
    BY DEF CallInv
  <1> QED
    BY <1>4, <1>6, <1>7

LEMMA NextIInv == IInv /\ [Next]_vars => IInv'
  <1> SUFFICES ASSUME IInv, [Next]_vars PROVE IInv'
    OBVIOUS
  <1> USE TimeAssumption, DelaysAssumption DEF IInv
  <1>1. ASSUME NEW j \in Jobs, NEW t \in 0 .. MaxTime, RunAt(j, t) PROVE IInv'
    BY <1>1, RunAtIInv
  <1>2. ASSUME NEW j \in Jobs, NEW d \in Delays, RunAfter(j, d) PROVE IInv'
    <2>1. now + d \in Int
      BY DEF TypeOK
    <2> QED
      BY <1>2, <2>1, RunAtIInv DEF RunAfter
  <1>3. CASE ReadClock
    BY <1>3 DEF ReadClock, TypeOK, ArmedInv, CallInv, fdVars, threadVars
  <1>4. CASE SetTime
    BY <1>4, SetTimeIInv
  <1>5. CASE LeaveUser
    BY <1>5 DEF LeaveUser, TypeOK, ArmedInv, CallInv, InTime, fdVars
  <1>6. CASE EpollWait
    BY <1>6 DEF EpollWait, TypeOK, ArmedInv, CallInv, InTime, fdVars
  <1>7. CASE ReadTimer
    BY <1>7 DEF ReadTimer, TypeOK, ArmedInv, CallInv
  <1>8. CASE ReadNow
    BY <1>8 DEF ReadNow, TypeOK, ArmedInv, CallInv, fdVars
  <1>9. ASSUME NEW j \in Jobs, PopExpired(j) PROVE IInv'
    BY <1>9 DEF PopExpired, TypeOK, ArmedInv, CallInv, fdVars
  <1>10. CASE CallbackDone
    BY <1>10 DEF CallbackDone, TypeOK, ArmedInv, CallInv, fdVars
  <1>11. CASE LoopDone
    BY <1>11 DEF LoopDone, TypeOK, ArmedInv, CallInv, fdVars
  <1>12. CASE Tick
    <2>1. TypeOK'
      BY <1>12 DEF Tick, TypeOK, fdVars, threadVars
    <2>2. ArmedInv' /\ CallInv'
      BY <1>12 DEF Tick, ArmedInv, CallInv, InTime, fdVars, threadVars
    <2> QED
      BY <2>1, <2>2
  <1>13. CASE Expire
    BY <1>13 DEF Expire, TypeOK, ArmedInv, CallInv, threadVars
  <1>14. CASE UNCHANGED vars
    BY <1>14 DEF vars, TypeOK, ArmedInv, CallInv, InTime, fdVars, threadVars
  <1> QED
    BY <1>1, <1>2, <1>3, <1>4, <1>5, <1>6, <1>7, <1>8, <1>9, <1>10, <1>11, <1>12,
       <1>13, <1>14 DEF Next, Thread, Wake, WakeByOther

-----------------------------------------------------------------------------
\* The variables of the timers and of the event loop stay well-typed.
THEOREM TypeCorrect == Spec => []TypeOK
  <1>1. Init => IInv
    BY InitIInv
  <1>2. IInv /\ [Next]_vars => IInv'
    BY NextIInv
  <1>3. IInv => TypeOK
    BY DEF IInv
  <1> QED
    BY <1>1, <1>2, <1>3, PTL DEF Spec

\* The reactor never waits in epoll_wait past a timer: whatever is added by
\* callbacks and handlers, the timerfd is armed in time for all of them.
THEOREM TimersArmed == Spec => []NoSleepPastTimer
  <1>1. Init => IInv
    BY InitIInv
  <1>2. IInv /\ [Next]_vars => IInv'
    BY NextIInv
  <1>3. IInv => NoSleepPastTimer
    BY DEF IInv, ArmedInv, CallInv, NoSleepPastTimer
  <1> QED
    BY <1>1, <1>2, <1>3, PTL DEF Spec

-----------------------------------------------------------------------------
LEMMA InitRefines == Init => Alarm!Init
  BY DEF Init, Alarm!Init

\* run_at sets an alarm.
LEMMA RunAtSets ==
  ASSUME IInv, NEW j \in Jobs, NEW t \in Int, RunAt(j, t)
  PROVE  Alarm!Set(j)
  <1>1. /\ when \in [Jobs -> Int \cup {None}]
        /\ when[j] = None
        /\ when' = [when EXCEPT ![j] = t]
        /\ timers' = timers \cup {j}
        /\ now' = now
    BY DEF IInv, TypeOK, RunAt, Push
  <1> QED
    BY <1>1 DEF Alarm!Set

\* A callback is only called when its time has passed, since the clock that
\* handle_timer_events has read never goes back.
LEMMA PopRings ==
  ASSUME IInv, NEW j \in Jobs, PopExpired(j)
  PROVE  Alarm!Ring(j)
  <1>1. when[j] \in Int /\ start \in Int /\ now \in Int /\ start <= now
    BY TimeAssumption DEF IInv, TypeOK, PopExpired, IsTop
  <1> QED
    BY <1>1 DEF PopExpired, IsTop, Alarm!Ring

LEMMA NextRefines ==
  IInv /\ [Next]_vars => [Alarm!Next]_<<now, when, timers>>
  <1> SUFFICES ASSUME IInv, [Next]_vars
               PROVE  Alarm!Next \/ UNCHANGED <<now, when, timers>>
    OBVIOUS
  <1>1. ASSUME NEW j \in Jobs, NEW t \in 0 .. MaxTime, RunAt(j, t) PROVE Alarm!Next
    BY <1>1, RunAtSets DEF Alarm!Next
  <1>2. ASSUME NEW j \in Jobs, NEW d \in Delays, RunAfter(j, d) PROVE Alarm!Next
    <2>1. now + d \in Int
      BY DelaysAssumption DEF IInv, TypeOK
    <2> QED
      BY <1>2, <2>1, RunAtSets DEF RunAfter, Alarm!Next
  <1>3. ASSUME NEW j \in Jobs, PopExpired(j) PROVE Alarm!Next
    BY <1>3, PopRings DEF Alarm!Next
  <1>4. CASE Tick
    BY <1>4 DEF Tick, Alarm!Next, Alarm!Tick
  <1>5. CASE \/ ReadClock \/ SetTime \/ LeaveUser \/ EpollWait \/ ReadTimer
             \/ ReadNow \/ CallbackDone \/ LoopDone \/ Expire \/ UNCHANGED vars
    BY <1>5 DEF ReadClock, SetTime, LeaveUser, EpollWait, ReadTimer, ReadNow,
                CallbackDone, LoopDone, Expire, vars
  <1> QED
    BY <1>1, <1>2, <1>3, <1>4, <1>5 DEF Next, Thread, Wake, WakeByOther

\* The timers of a reactor implement AlarmClock: no callback is early, none is
\* called twice.
THEOREM TimersKeepPromise == Spec => AlarmSpec
  <1>1. Init => IInv
    BY InitIInv
  <1>2. IInv /\ [Next]_vars => IInv'
    BY NextIInv
  <1>3. Init => Alarm!Init
    BY InitRefines
  <1>4. IInv /\ [Next]_vars => [Alarm!Next]_<<now, when, timers>>
    BY NextRefines
  <1> QED
    BY <1>1, <1>2, <1>3, <1>4, PTL DEF Spec, AlarmSpec, Alarm!Spec
=============================================================================
