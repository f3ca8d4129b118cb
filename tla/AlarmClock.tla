----------------------------- MODULE AlarmClock -----------------------------
(***************************************************************************)
(* What the timers of a Reactor promise to those who call run_at: every    *)
(* callback runs once, and not before its time.                            *)
(***************************************************************************)
EXTENDS Integers

CONSTANTS
  Jobs,   \* the callbacks
  None    \* no time has been given for the job yet

VARIABLES
  now,     \* the clock
  when,    \* the time each job is set for
  waiting  \* the jobs that are set and have not been called

Init ==
  /\ now = 0
  /\ when = [j \in Jobs |-> None]
  /\ waiting = {}

Set(j) ==
  /\ when[j] = None
  /\ when'[j] \in Int
  /\ when' = [when EXCEPT ![j] = when'[j]]
  /\ waiting' = waiting \cup {j}
  /\ UNCHANGED now

Ring(j) ==
  /\ j \in waiting
  /\ when[j] <= now
  /\ waiting' = waiting \ {j}
  /\ UNCHANGED <<now, when>>

Tick ==
  /\ now' = now + 1
  /\ UNCHANGED <<when, waiting>>

Next == Tick \/ \E j \in Jobs : Set(j) \/ Ring(j)

Spec == Init /\ [][Next]_<<now, when, waiting>>
=============================================================================
