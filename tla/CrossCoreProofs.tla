--------------------------- MODULE CrossCoreProofs ---------------------------
(***************************************************************************)
(* For any number of cores, any size of ring and any links that give each  *)
(* core a single source: the barrier protects g_reactors, and no wake-up   *)
(* is ever lost.                                                           *)
(***************************************************************************)
EXTENDS CrossCore, FiniteSetTheorems, TLAPS

Arrived == {c \in Cores : pc[c] \notin {"start", "arrive"}}

\* Start-up: who has stored its Reactor, who is counted, who may run user code.
BootInv ==
  /\ \A c \in Cores : pc[c] # "start" => c \in reactors
  /\ readyCount = Cardinality(Arrived)
  /\ \A c \in Cores : pc[c] \notin {"start", "arrive", "barrier"} => reactors = Cores

\* A thread is inside submit_task only while user code runs, on one of its links.
SubmitInv ==
  \A c \in Cores :
    stage[c] # "none" => pc[c] \in Running /\ <<c, to[c]>> \in Link

\* While the eventfd is clear, the only task of a ring that the running drain is
\* not bound to see is one that is about to be announced.
WakeInv ==
  \A c \in Cores :
    /\ efd[c] \/ queue[c] <= known[c] + (IF Announcing(c) THEN 1 ELSE 0)
    /\ known[c] > 0 => pc[c] \in {"pop", "incoming"}
    /\ pc[c] = "wait" => pending[c] = 0

IInv == TypeOK /\ BootInv /\ SubmitInv /\ WakeInv

-----------------------------------------------------------------------------
LEMMA InitIInv == Init => IInv
  <1> SUFFICES ASSUME Init PROVE IInv
    OBVIOUS
  <1>1. Cardinality(Cores) \in Nat
    BY CoresAssumption, FS_CardinalityType
  <1>2. Arrived = {}
    BY DEF Init, Arrived
  <1>3. TypeOK
    BY <1>1, BoundAssumption DEF Init, TypeOK, Places, Running
  <1>4. BootInv
    BY <1>2, FS_EmptySet DEF Init, BootInv
  <1>5. SubmitInv
    BY DEF Init, SubmitInv
  <1>6. WakeInv
    BY DEF Init, WakeInv, Announcing
  <1> QED
    BY <1>3, <1>4, <1>5, <1>6 DEF IInv

\* Start-up moves a thread towards the event loop; later steps keep it there.
LEMMA BootStep ==
  ASSUME IInv, NEW c \in Cores, Boot(c)
  PROVE  IInv'
  <1> USE DEF IInv
  <1>1. /\ IsFiniteSet(Arrived)
        /\ Cardinality(Arrived) \in Nat
        /\ Cardinality(Cores) \in Nat
    BY CoresAssumption, FS_Subset, FS_CardinalityType DEF Arrived
  <1>2. CASE Register(c)
    <2>1. Arrived' = Arrived
      BY <1>2 DEF Register, Goto, Arrived, TypeOK
    <2>2. TypeOK'
      BY <1>2 DEF Register, Goto, TypeOK, Places, submitVars, ringVars, loopVars
    <2>3. BootInv'
      BY <1>2, <2>1 DEF Register, Goto, BootInv, TypeOK
    <2>4. SubmitInv'
      BY <1>2 DEF Register, Goto, SubmitInv, TypeOK, Running, submitVars
    <2>5. WakeInv'
      BY <1>2 DEF Register, Goto, WakeInv, TypeOK, Announcing, submitVars, ringVars, loopVars
    <2> QED
      BY <2>2, <2>3, <2>4, <2>5
  <1>3. CASE Arrive(c)
    <2>1. Arrived' = Arrived \cup {c} /\ c \notin Arrived
      BY <1>3 DEF Arrive, Goto, Arrived, TypeOK
    <2>2. Cardinality(Arrived') = Cardinality(Arrived) + 1
      BY <2>1, <1>1, FS_AddElement
    <2>3. Cardinality(Arrived') <= Cardinality(Cores)
      <3>1. Arrived' \subseteq Cores
        BY DEF Arrived
      <3> QED
        BY <3>1, CoresAssumption, FS_Subset
    <2>4. TypeOK'
      BY <1>3, <1>1, <2>2, <2>3 DEF Arrive, Goto, TypeOK, BootInv, Places, submitVars, ringVars, loopVars
    <2>5. BootInv'
      BY <1>3, <2>2 DEF Arrive, Goto, BootInv, TypeOK
    <2>6. SubmitInv'
      BY <1>3 DEF Arrive, Goto, SubmitInv, TypeOK, Running, submitVars
    <2>7. WakeInv'
      BY <1>3 DEF Arrive, Goto, WakeInv, TypeOK, Announcing, submitVars, ringVars, loopVars
    <2> QED
      BY <2>4, <2>5, <2>6, <2>7
  <1>4. CASE LeaveBarrier(c)
    <2>1. Arrived' = Arrived
      BY <1>4 DEF LeaveBarrier, Goto, Arrived, TypeOK
    <2>2. Arrived = Cores
      <3>1. Arrived \subseteq Cores
        BY DEF Arrived
      <3>2. Cardinality(Arrived) >= Cardinality(Cores)
        BY <1>4 DEF LeaveBarrier, BootInv
      <3>3. Cardinality(Arrived) <= Cardinality(Cores)
        BY <3>1, CoresAssumption, FS_Subset
      <3>4. Cardinality(Arrived) = Cardinality(Cores)
        BY <3>2, <3>3, <1>1
      <3> QED
        BY <3>1, <3>4, CoresAssumption, FS_Subset
    <2>3. reactors = Cores
      BY <2>2 DEF Arrived, BootInv, TypeOK
    <2>4. TypeOK'
      BY <1>4 DEF LeaveBarrier, Goto, TypeOK, Places, Running, bootVars, submitVars, ringVars, loopVars
    <2>5. BootInv'
      BY <1>4, <2>1, <2>3 DEF LeaveBarrier, Goto, BootInv, TypeOK, bootVars
    <2>6. SubmitInv'
      BY <1>4 DEF LeaveBarrier, Goto, SubmitInv, TypeOK, Running, submitVars
    <2>7. WakeInv'
      BY <1>4 DEF LeaveBarrier, Goto, WakeInv, TypeOK, Announcing, submitVars, ringVars, loopVars
    <2> QED
      BY <2>4, <2>5, <2>6, <2>7
  <1> QED
    BY <1>2, <1>3, <1>4 DEF Boot

\* No later step moves a thread across the barrier, so BootInv is untouched.
LEMMA BootKept ==
  ASSUME BootInv, TypeOK, UNCHANGED bootVars,
         \A d \in Cores :
           \/ pc'[d] = pc[d]
           \/ /\ pc[d] \notin {"start", "arrive", "barrier"}
              /\ pc'[d] \notin {"start", "arrive", "barrier"}
  PROVE  BootInv'
  <1>1. Arrived' = Arrived
    BY DEF Arrived
  <1> QED
    BY <1>1 DEF BootInv, bootVars

\* User code: submit_to, the push, the eventfd write, schedule and return.
LEMMA UserStep ==
  ASSUME IInv, NEW c \in Cores, User(c)
  PROVE  IInv'
  <1> USE DEF IInv
  <1>1. ASSUME NEW d \in Cores, Submit(c, d) PROVE IInv'
    <2>1. TypeOK'
      BY <1>1 DEF Submit, TypeOK, bootVars, ringVars, loopVars
    <2>2. BootInv'
      BY <1>1, BootKept DEF Submit
    <2>3. SubmitInv'
      BY <1>1 DEF Submit, InUserCode, SubmitInv, TypeOK
    <2>4. WakeInv'
      BY <1>1 DEF Submit, InUserCode, WakeInv, TypeOK, Announcing, ringVars, loopVars
    <2> QED
      BY <2>1, <2>2, <2>3, <2>4
  <1>2. CASE SubmitPush(c)
    <2>1. TypeOK'
      BY <1>2, BoundAssumption DEF SubmitPush, Inc, TypeOK, bootVars, loopVars
    <2>2. BootInv'
      BY <1>2, BootKept DEF SubmitPush
    <2>3. SubmitInv'
      BY <1>2 DEF SubmitPush, SubmitInv, TypeOK
    <2>4. ~Announcing(to[c])
      <3> SUFFICES ASSUME NEW p \in Cores, stage[p] = "notify", to[p] = to[c]
                   PROVE  FALSE
        BY DEF Announcing
      <3>1. <<p, to[p]>> \in Link /\ <<c, to[c]>> \in Link
        BY <1>2 DEF SubmitPush, SubmitInv
      <3>2. <<p, to[p]>> = <<c, to[c]>>
        BY <3>1, LinkAssumption
      <3> QED
        BY <3>2, <1>2 DEF SubmitPush
    <2>5. Announcing(to[c])'
      BY <1>2 DEF SubmitPush, Announcing, TypeOK
    <2>6. \A d \in Cores : d # to[c] => Announcing(d)' = Announcing(d)
      BY <1>2 DEF SubmitPush, Announcing, TypeOK
    <2>7. WakeInv'
      BY <1>2, <2>4, <2>5, <2>6, BoundAssumption DEF SubmitPush, Inc, WakeInv, TypeOK, loopVars
    <2> QED
      BY <2>1, <2>2, <2>3, <2>7
  <1>3. CASE SubmitNotify(c)
    <2>1. TypeOK'
      BY <1>3 DEF SubmitNotify, TypeOK, bootVars, ringVars, loopVars
    <2>2. BootInv'
      BY <1>3, BootKept DEF SubmitNotify
    <2>3. SubmitInv'
      BY <1>3 DEF SubmitNotify, SubmitInv, TypeOK
    <2>4. \A d \in Cores : d # to[c] => Announcing(d)' = Announcing(d)
      BY <1>3 DEF SubmitNotify, Announcing, TypeOK
    <2>5. WakeInv'
      BY <1>3, <2>4 DEF SubmitNotify, WakeInv, TypeOK, ringVars, loopVars
    <2> QED
      BY <2>1, <2>2, <2>3, <2>5
  <1>4. CASE Schedule(c)
    <2>1. TypeOK'
      BY <1>4 DEF Schedule, Inc, TypeOK, bootVars, submitVars, ringVars
    <2>2. BootInv'
      BY <1>4, BootKept DEF Schedule
    <2>3. SubmitInv'
      BY <1>4 DEF Schedule, SubmitInv, submitVars
    <2>4. WakeInv'
      BY <1>4 DEF Schedule, InUserCode, Inc, WakeInv, TypeOK, Announcing, Running, submitVars, ringVars
    <2> QED
      BY <2>1, <2>2, <2>3, <2>4
  <1>5. CASE Return(c)
    <2>1. /\ pc[c] \in Running
          /\ pc'[c] \in {"pending", "pop", "dispatch"}
          /\ pc[c] = "incoming" => pc'[c] = "pop"
          /\ pc[c] # "incoming" => pc'[c] \in {"pending", "dispatch"}
          /\ \A d \in Cores : d # c => pc'[d] = pc[d]
      BY <1>5 DEF Return, InUserCode, Resume, Running, TypeOK
    <2>2. TypeOK'
      <3>1. pc' \in [Cores -> Places]
        BY <1>5, <2>1 DEF Return, TypeOK, Places
      <3> QED
        BY <1>5, <3>1 DEF Return, TypeOK, bootVars, submitVars, ringVars, loopVars
    <2>3. BootInv'
      BY <1>5, <2>1, BootKept DEF Return, Running
    <2>4. SubmitInv'
      BY <1>5, <2>1 DEF Return, InUserCode, SubmitInv, submitVars
    <2>5. WakeInv'
      BY <1>5, <2>1 DEF Return, WakeInv, Announcing, Running, TypeOK, submitVars, ringVars, loopVars
    <2> QED
      BY <2>2, <2>3, <2>4, <2>5
  <1> QED
    BY <1>1, <1>2, <1>3, <1>4, <1>5 DEF User

\* The event loop: pending tasks, epoll_wait, the drain of the ring, handlers.
LEMMA LoopStep ==
  ASSUME IInv, NEW c \in Cores, Loop(c)
  PROVE  IInv'
  <1> USE DEF IInv
  <1>1. CASE RunPending(c)
    <2>1. TypeOK'
      BY <1>1 DEF RunPending, Goto, Dec, TypeOK, Places, Running, bootVars, submitVars, ringVars
    <2>2. BootInv'
      BY <1>1, BootKept DEF RunPending, Goto, TypeOK
    <2>3. SubmitInv'
      BY <1>1 DEF RunPending, Goto, SubmitInv, TypeOK, Running, submitVars
    <2>4. WakeInv'
      BY <1>1 DEF RunPending, Goto, Dec, WakeInv, Announcing, TypeOK, submitVars, ringVars
    <2> QED
      BY <2>1, <2>2, <2>3, <2>4
  <1>2. CASE EnterWait(c)
    <2>1. TypeOK'
      BY <1>2 DEF EnterWait, Goto, TypeOK, Places, bootVars, submitVars, ringVars, loopVars
    <2>2. BootInv'
      BY <1>2, BootKept DEF EnterWait, Goto, TypeOK
    <2>3. SubmitInv'
      BY <1>2 DEF EnterWait, Goto, SubmitInv, TypeOK, Running, submitVars
    <2>4. WakeInv'
      BY <1>2 DEF EnterWait, Goto, WakeInv, Announcing, TypeOK, submitVars, ringVars, loopVars
    <2> QED
      BY <2>1, <2>2, <2>3, <2>4
  <1>3. CASE EpollWait(c)
    <2>1. TypeOK'
      BY <1>3 DEF EpollWait, Ready, Goto, TypeOK, Places, bootVars, submitVars, ringVars
    <2>2. BootInv'
      BY <1>3, BootKept DEF EpollWait, Goto, TypeOK
    <2>3. SubmitInv'
      BY <1>3 DEF EpollWait, Goto, SubmitInv, TypeOK, Running, submitVars
    <2>4. WakeInv'
      BY <1>3 DEF EpollWait, Goto, WakeInv, Announcing, TypeOK, submitVars, ringVars
    <2> QED
      BY <2>1, <2>2, <2>3, <2>4
  <1>4. CASE ReadNotify(c)
    <2>1. Announced(c) \in 0 .. Bound
      BY BoundAssumption DEF Announced, TypeOK
    <2>2. TypeOK'
      BY <1>4, <2>1 DEF ReadNotify, Goto, TypeOK, Places, bootVars, submitVars
    <2>3. BootInv'
      BY <1>4, BootKept DEF ReadNotify, Goto, TypeOK
    <2>4. SubmitInv'
      BY <1>4 DEF ReadNotify, Goto, SubmitInv, TypeOK, Running, submitVars
    <2>5. \A d \in Cores : Announcing(d)' = Announcing(d)
      BY <1>4 DEF ReadNotify, Announcing, submitVars
    <2>6. queue[c] <= Announced(c) + (IF Announcing(c) THEN 1 ELSE 0)
      BY DEF Announced, TypeOK
    <2>7. WakeInv'
      BY <1>4, <2>5, <2>6 DEF ReadNotify, Goto, WakeInv, TypeOK
    <2> QED
      BY <2>2, <2>3, <2>4, <2>7
  <1>5. CASE PopTask(c)
    <2>1. TypeOK'
      BY <1>5, BoundAssumption DEF PopTask, Goto, Dec, TypeOK, Places, Running, bootVars, submitVars, loopVars
    <2>2. BootInv'
      BY <1>5, BootKept DEF PopTask, Goto, TypeOK
    <2>3. SubmitInv'
      BY <1>5 DEF PopTask, Goto, SubmitInv, TypeOK, Running, submitVars
    <2>4. \A d \in Cores : Announcing(d)' = Announcing(d)
      BY <1>5 DEF PopTask, Announcing, submitVars
    <2>5. WakeInv'
      BY <1>5, <2>4, BoundAssumption DEF PopTask, Goto, Dec, WakeInv, TypeOK, loopVars
    <2> QED
      BY <2>1, <2>2, <2>3, <2>5
  <1>6. CASE PopNone(c)
    <2>1. TypeOK'
      BY <1>6 DEF PopNone, Goto, TypeOK, Places, bootVars, submitVars, ringVars, loopVars
    <2>2. BootInv'
      BY <1>6, BootKept DEF PopNone, Goto, TypeOK
    <2>3. SubmitInv'
      BY <1>6 DEF PopNone, Goto, SubmitInv, TypeOK, Running, submitVars
    <2>4. WakeInv'
      BY <1>6 DEF PopNone, Goto, WakeInv, Announcing, TypeOK, submitVars, ringVars, loopVars
    <2> QED
      BY <2>1, <2>2, <2>3, <2>4
  <1>7. CASE DispatchHandler(c)
    <2>1. TypeOK'
      BY <1>7 DEF DispatchHandler, Goto, TypeOK, Places, Running, bootVars, submitVars, ringVars
    <2>2. BootInv'
      BY <1>7, BootKept DEF DispatchHandler, Goto, TypeOK
    <2>3. SubmitInv'
      BY <1>7 DEF DispatchHandler, Goto, SubmitInv, TypeOK, Running, submitVars
    <2>4. WakeInv'
      BY <1>7 DEF DispatchHandler, Goto, WakeInv, Announcing, TypeOK, submitVars, ringVars
    <2> QED
      BY <2>1, <2>2, <2>3, <2>4
  <1>8. CASE BatchDone(c)
    <2>1. TypeOK'
      BY <1>8 DEF BatchDone, Goto, TypeOK, Places, bootVars, submitVars, ringVars, loopVars
    <2>2. BootInv'
      BY <1>8, BootKept DEF BatchDone, Goto, TypeOK
    <2>3. SubmitInv'
      BY <1>8 DEF BatchDone, Goto, SubmitInv, TypeOK, Running, submitVars
    <2>4. WakeInv'
      BY <1>8 DEF BatchDone, Goto, WakeInv, Announcing, TypeOK, submitVars, ringVars, loopVars
    <2> QED
      BY <2>1, <2>2, <2>3, <2>4
  <1> QED
    BY <1>1, <1>2, <1>3, <1>4, <1>5, <1>6, <1>7, <1>8 DEF Loop

LEMMA NextIInv == IInv /\ [Next]_vars => IInv'
  <1> SUFFICES ASSUME IInv, [Next]_vars PROVE IInv'
    OBVIOUS
  <1>1. ASSUME NEW c \in Cores, Thread(c) PROVE IInv'
    BY <1>1, BootStep, UserStep, LoopStep DEF Thread
  <1>2. ASSUME NEW c \in Cores, IoEvent(c) PROVE IInv'
    <2>1. TypeOK'
      BY <1>2 DEF IInv, IoEvent, TypeOK, bootVars, submitVars, ringVars
    <2>2. BootInv'
      BY <1>2, BootKept DEF IInv, IoEvent
    <2>3. SubmitInv' /\ WakeInv'
      BY <1>2 DEF IInv, IoEvent, SubmitInv, WakeInv, Announcing, submitVars, ringVars
    <2> QED
      BY <2>1, <2>2, <2>3 DEF IInv
  <1>3. CASE UNCHANGED vars
    BY <1>3 DEF IInv, vars, bootVars, submitVars, ringVars, loopVars, TypeOK,
                BootInv, Arrived, SubmitInv, WakeInv, Announcing
  <1> QED
    BY <1>1, <1>2, <1>3 DEF Next

-----------------------------------------------------------------------------
\* The state of every thread stays well-typed; in particular no ring ever holds
\* more than it has room for.
THEOREM TypeCorrect == Spec => []TypeOK
  <1>1. IInv => TypeOK
    BY DEF IInv
  <1> QED
    BY <1>1, InitIInv, NextIInv, PTL DEF Spec

\* Whatever the order in which the threads start, submit_to finds the target's
\* Reactor in g_reactors.
THEOREM BarrierProtects == Spec => []NoNullReactor
  <1>1. IInv => NoNullReactor
    <2> SUFFICES ASSUME IInv, NEW c \in Cores, stage[c] # "none"
                 PROVE  to[c] \in reactors
      BY DEF NoNullReactor
    <2>1. pc[c] \in Running
      BY DEF IInv, SubmitInv
    <2>2. reactors = Cores
      BY <2>1 DEF IInv, BootInv, Running
    <2> QED
      BY <2>2 DEF IInv, TypeOK
  <1> QED
    BY <1>1, InitIInv, NextIInv, PTL DEF Spec

\* No reactor sleeps on a task: push before write and read before drain make
\* the eventfd a reliable wake-up, for any timing of the two cores.
THEOREM NoLostWakeup == Spec => []NoSleepOnWork
  <1>1. IInv => NoSleepOnWork
    <2> SUFFICES ASSUME IInv, NEW c \in Cores, pc[c] = "wait", ~efd[c]
                 PROVE  /\ pending[c] = 0
                        /\ queue[c] > 0 => queue[c] = 1 /\ Announcing(c)
      BY DEF NoSleepOnWork
    <2>1. known[c] = 0
      BY DEF IInv, WakeInv, TypeOK
    <2>2. queue[c] <= (IF Announcing(c) THEN 1 ELSE 0)
      BY <2>1 DEF IInv, WakeInv, TypeOK
    <2> QED
      BY <2>2 DEF IInv, WakeInv, TypeOK
  <1> QED
    BY <1>1, InitIInv, NextIInv, PTL DEF Spec
=============================================================================
