--------------------------- MODULE Continuations ----------------------------
(***************************************************************************)
(* What Future.h promises: a continuation is called once, after the future *)
(* it was attached to has been resolved, and resolves its own future when  *)
(* it returns.  One that another then() has replaced before is lost.       *)
(***************************************************************************)
CONSTANTS
  Futures,  \* the futures of a program
  None      \* no future

VARIABLES
  after,     \* for each future, the one whose continuation resolves it
  lost,      \* the futures whose continuation another one has replaced
  started,   \* the futures whose continuation has been called
  resolved   \* the futures that have their value

vars == <<after, lost, started, resolved>>

Init ==
  /\ after = [g \in Futures |-> None]
  /\ lost = {}
  /\ started = {}
  /\ resolved = {}

Waiting(f) == {g \in Futures : after[g] = f /\ g \notin started}

\* A continuation is attached to f and replaces any that waits for f; g is the
\* future it will resolve.
Attach(f, g) ==
  /\ after[g] = None
  /\ f \notin resolved /\ g \notin resolved
  /\ after' = [after EXCEPT ![g] = f]
  /\ lost' = lost \cup Waiting(f)
  /\ UNCHANGED <<started, resolved>>

Start(g) ==
  /\ after[g] \in resolved
  /\ g \notin started \cup lost
  /\ started' = started \cup {g}
  /\ UNCHANGED <<after, lost, resolved>>

\* Attached to a future that is ready, it is called at once.
AttachAndStart(f, g) ==
  /\ after[g] = None
  /\ f \in resolved /\ g \notin resolved
  /\ after' = [after EXCEPT ![g] = f]
  /\ started' = started \cup {g}
  /\ UNCHANGED <<lost, resolved>>

\* A promise that belongs to no continuation is resolved by its owner.
Resolve(g) ==
  /\ g \notin resolved
  /\ after[g] = None \/ g \in started
  /\ resolved' = resolved \cup {g}
  /\ UNCHANGED <<after, lost, started>>

Next ==
  \/ \E f, g \in Futures : Attach(f, g) \/ AttachAndStart(f, g)
  \/ \E g \in Futures : Start(g) \/ Resolve(g)

Spec == Init /\ [][Next]_vars /\ \A g \in Futures : WF_vars(Start(g))
=============================================================================
