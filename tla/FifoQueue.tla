------------------------------ MODULE FifoQueue ------------------------------
(***************************************************************************)
(* What SpscQueue (Mini_SeaStar_v2/v3, SpscQueue.h) promises its users: a  *)
(* first-in first-out queue of at most Bound items.  A refused push and a  *)
(* pop that finds nothing change nothing, so they are stuttering steps.    *)
(***************************************************************************)
EXTENDS Naturals, Sequences

CONSTANTS
  Items,   \* what can be queued
  Empty,   \* the value of a slot, or of the consumer's variable, with no item
  Bound    \* how many items fit

VARIABLES
  q,       \* the items accepted and not yet handed to the consumer
  item     \* the consumer's variable, overwritten by each successful pop

fifoVars == <<q, item>>

FifoTypeOK ==
  /\ q \in Seq(Items)
  /\ Len(q) <= Bound
  /\ item \in Items \cup {Empty}

Init ==
  /\ q = << >>
  /\ item = Empty

Put(x) ==
  /\ Len(q) < Bound
  /\ q' = Append(q, x)
  /\ UNCHANGED item

Get ==
  /\ q # << >>
  /\ item' = Head(q)
  /\ q' = Tail(q)

\* The queue is destroyed together with what it still holds.
Drop ==
  /\ q' = << >>
  /\ UNCHANGED item

Next == (\E x \in Items : Put(x)) \/ Get \/ Drop

Spec == Init /\ [][Next]_fifoVars
=============================================================================
