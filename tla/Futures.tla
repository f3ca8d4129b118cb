------------------------------- MODULE Futures -------------------------------
(***************************************************************************)
(* Promise, Future and their shared State (Future.h), on one reactor with  *)
(* its pending_tasks.  A continuation attached to a ready future runs      *)
(* inside then(); one attached before is scheduled by set_value.  Either   *)
(* way it is user code, which may use any promise or future it can reach.  *)
(*                                                                         *)
(* The generations differ in one thing: a then() on a ready future moves   *)
(* the value out of the State in v3, and copies it in v1 and v2.           *)
(***************************************************************************)
EXTENDS Integers, Sequences

CONSTANTS
  Futures,  \* the States of a program, one for each promise and its future
  None,     \* no State
  MaxThen   \* bound: calls of then() on one future

ASSUME FuturesAssumption == None \notin Futures /\ MaxThen \in Nat

VARIABLES
  moving,    \* then() moves the value, as in v3; never changes
  root,      \* the States that user code has made, not a then()
  ready,     \* ready of each State
  value,     \* its value: "unset", "set" or "moved" away
  callback,  \* its callback, named by the State the continuation resolves
  source,    \* for each continuation, the State it was attached to
  heard,     \* the value each continuation was called with, or "nothing"
  usable,    \* the futures that user code has
  pending,   \* pending_tasks: the States whose callback is scheduled
  stack,     \* the continuations that are running, the innermost last
  thens      \* how often then() was called on each future

stateVars == <<ready, value, callback>>
userVars == <<root, usable>>
vars == <<userVars, stateVars, source, heard, pending, stack, thens, moving>>

Init ==
  /\ root = {} /\ usable = {}
  /\ ready = [f \in Futures |-> FALSE]
  /\ value = [f \in Futures |-> "unset"]
  /\ callback = [f \in Futures |-> None]
  /\ source = [f \in Futures |-> None]
  /\ heard = [f \in Futures |-> "nothing"]
  /\ pending = << >> /\ stack = << >>
  /\ thens = [f \in Futures |-> 0]
  /\ moving \in BOOLEAN

\* A State that does not exist yet.
Fresh(f) == f \notin root /\ source[f] = None

-----------------------------------------------------------------------------
(* User code, in a task, a handler or a continuation.                      *)

\* make_local<Promise<T>>() and get_future().
MakePromise(f) ==
  /\ Fresh(f)
  /\ root' = root \cup {f}
  /\ usable' = usable \cup {f}
  /\ UNCHANGED <<stateVars, source, heard, pending, stack, thens>>

\* Future::make_ready(): a State with a value and no Promise, in v3.
MakeReady(f) ==
  /\ moving
  /\ Fresh(f)
  /\ root' = root \cup {f}
  /\ usable' = usable \cup {f}
  /\ ready' = [ready EXCEPT ![f] = TRUE]
  /\ value' = [value EXCEPT ![f] = "set"]
  /\ UNCHANGED <<callback, source, heard, pending, stack, thens>>

\* A bug to compare with: a callback that is there is left alone.
SetUnscheduled(f) ==
  /\ ready' = [ready EXCEPT ![f] = TRUE]
  /\ value' = [value EXCEPT ![f] = "set"]
  /\ UNCHANGED <<callback, pending>>

\* Promise::set_value on a State that is not ready.
Set(f) ==
  /\ ready' = [ready EXCEPT ![f] = TRUE]
  /\ value' = [value EXCEPT ![f] = "set"]
  /\ pending' = IF callback[f] = None THEN pending ELSE Append(pending, f)
  /\ UNCHANGED callback

SetValue(f) ==
  /\ f \in root
  /\ ~ready[f]
  /\ Set(f)
  /\ UNCHANGED <<userVars, source, heard, stack, thens>>

\* Common to both ways of then(): the next State, and the call that is counted.
Attach(f, g) ==
  /\ f \in usable
  /\ Fresh(g) /\ f # g
  /\ thens[f] < MaxThen
  /\ source' = [source EXCEPT ![g] = f]
  /\ thens' = [thens EXCEPT ![f] = @ + 1]

\* The future is not ready: the continuation takes the place of any other.
ThenLater(f, g) ==
  /\ Attach(f, g)
  /\ ~ready[f]
  /\ callback' = [callback EXCEPT ![f] = g]
  /\ usable' = usable \cup {g}
  /\ UNCHANGED <<root, ready, value, heard, pending, stack>>

\* The future is ready: the continuation is called inside then().
CallNow(f, g, given) ==
  /\ Attach(f, g)
  /\ ready[f]
  /\ heard' = [heard EXCEPT ![g] = given]
  /\ stack' = Append(stack, g)
  /\ UNCHANGED <<userVars, ready, callback, pending>>

\* A bug to compare with: the value is moved away before it is passed on.
ThenMovesFirst(f, g) ==
  /\ moving
  /\ CallNow(f, g, "moved")
  /\ value' = [value EXCEPT ![f] = "moved"]

ThenMoves(f, g) ==
  /\ moving
  /\ CallNow(f, g, value[f])
  /\ value' = [value EXCEPT ![f] = "moved"]

ThenCopies(f, g) ==
  /\ ~moving
  /\ CallNow(f, g, value[f])
  /\ UNCHANGED value

-----------------------------------------------------------------------------
\* A bug to compare with: the task is called and stays in the queue.
RunTaskKeep ==
  /\ stack = << >>
  /\ pending # << >>
  /\ LET f == Head(pending) IN
        /\ heard' = [heard EXCEPT ![callback[f]] = value[f]]
        /\ stack' = <<callback[f]>>
  /\ UNCHANGED <<userVars, stateVars, source, pending, thens>>

\* Reactor::run calls the next bound_task: the callback gets a copy of the value.
RunTask ==
  /\ stack = << >>
  /\ pending # << >>
  /\ LET f == Head(pending) IN
        /\ heard' = [heard EXCEPT ![callback[f]] = value[f]]
        /\ stack' = <<callback[f]>>
  /\ pending' = Tail(pending)
  /\ UNCHANGED <<userVars, stateVars, source, thens>>

Top == stack[Len(stack)]

\* The continuation returns: its promise is set, and then(), if it was that
\* which called it, returns the next future.
Return ==
  /\ stack # << >>
  /\ Set(Top)
  /\ stack' = SubSeq(stack, 1, Len(stack) - 1)
  /\ usable' = usable \cup {Top}
  /\ UNCHANGED <<root, source, heard, thens>>

-----------------------------------------------------------------------------
User ==
  \/ \E f \in Futures : MakePromise(f) \/ MakeReady(f) \/ SetValue(f)
  \/ \E f, g \in Futures : ThenLater(f, g) \/ ThenMoves(f, g) \/ ThenCopies(f, g)

Loop == RunTask /\ UNCHANGED moving
UserReturns == Return /\ UNCHANGED moving

Next == (User /\ UNCHANGED moving) \/ Loop \/ UserReturns

Spec == Init /\ [][Next]_vars

\* The reactor runs its tasks and user code returns.
FairSpec == Spec /\ WF_vars(Loop) /\ WF_vars(UserReturns)

-----------------------------------------------------------------------------
TypeOK ==
  /\ moving \in BOOLEAN
  /\ root \subseteq Futures /\ usable \subseteq Futures
  /\ ready \in [Futures -> BOOLEAN]
  /\ value \in [Futures -> {"unset", "set", "moved"}]
  /\ callback \in [Futures -> Futures \cup {None}]
  /\ source \in [Futures -> Futures \cup {None}]
  /\ heard \in [Futures -> {"nothing", "set", "moved"}]
  /\ pending \in Seq({f \in Futures : callback[f] # None})
  /\ stack \in Seq(Futures)
  /\ thens \in [Futures -> 0 .. MaxThen]

\* set_value, which throws when the State is ready, never throws out of a
\* continuation, at any depth of then() inside then(): the promise that the
\* innermost one resolves is still open, and no continuation is running twice.
NoSecondSet ==
  \A i \in 1 .. Len(stack) :
    /\ ~ready[stack[i]]
    /\ \A k \in 1 .. Len(stack) : k # i => stack[k] # stack[i]

\* A continuation is called with a value that was moved away only in v3, and only
\* if then() was called more than once on that future; in v1 and v2 never.
ValueIntact ==
  \A g \in Futures : heard[g] = "moved" => moving /\ thens[source[g]] > 1

Promised ==
  INSTANCE Continuations
    WITH after <- source,
         lost <- {g \in Futures : /\ source[g] # None
                                  /\ heard[g] = "nothing"
                                  /\ callback[source[g]] # g},
         started <- {g \in Futures : heard[g] # "nothing"},
         resolved <- {f \in Futures : ready[f]}

\* Promises and futures are the continuations of that module: each is called once,
\* after its future and before the ones that wait for it, and in the end, unless
\* another then() replaced it while its future was not ready.
ContinuationSpec == Promised!Spec
=============================================================================
