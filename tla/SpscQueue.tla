------------------------------ MODULE SpscQueue ------------------------------
(***************************************************************************)
(* The ring of SpscQueue.h, one action per access that another thread can  *)
(* observe.  head_ and tail_ are atomics: a release store is one step, an  *)
(* acquire load may return any value from the last one this thread saw up  *)
(* to the current one (coherence), so the cached copies lag arbitrarily.   *)
(*                                                                         *)
(* The code is correct for one producer thread.  Producers is a set so     *)
(* that what happens when several threads call emplace on the same queue   *)
(* can be checked as well.                                                 *)
(***************************************************************************)
EXTENDS Integers, Sequences

CONSTANTS
  Capacity,    \* number of slots; the static_assert makes it a power of 2
  Producers,   \* the threads that call emplace
  Items,       \* what they push
  Empty        \* a slot that holds no constructed object

ASSUME CapacityAssumption == Capacity \in Nat \ {0}
ASSUME EmptyAssumption == Empty \notin Items

VARIABLES
  head,         \* head_: next slot to fill
  tail,         \* tail_: next slot to drain
  cachedTail,   \* cached_tail_, used by the producer only
  cachedHead,   \* cached_head_, used by the consumer only
  ring,         \* ring_data_: the object in each slot
  ppc,          \* where each producer is inside emplace
  phead,        \* its local copy of head_
  pitem,        \* the item it is pushing
  cpc,          \* where the consumer is inside pop
  citem,        \* the consumer's item variable
  alive         \* FALSE once the destructor has run

prodVars == <<head, cachedTail, ppc, phead, pitem>>
consVars == <<tail, cachedHead, cpc, citem>>
vars == <<head, tail, cachedTail, cachedHead, ring, ppc, phead, pitem, cpc,
          citem, alive>>

Slots == 0 .. Capacity - 1
Mask == Capacity - 1

-----------------------------------------------------------------------------
\* Ring arithmetic.  (i + 1) & Mask, for an index below a power of 2.
SuccNoWrap(i) == i + 1
Succ(i) == IF i = Mask THEN 0 ELSE i + 1

\* How many times Succ takes a to b.
Dist(a, b) == IF b >= a THEN b - a ELSE b - a + Capacity

\* Succ applied n times.
Plus(i, n) == IF i + n < Capacity THEN i + n ELSE i + n - Capacity

\* The values an acquire load can return when the loading thread last saw
\* "seen" and the variable now holds "now".
Visible(seen, now) == {i \in Slots : Dist(seen, i) <= Dist(seen, now)}

-----------------------------------------------------------------------------
Init ==
  /\ head = 0
  /\ tail = 0
  /\ cachedTail = 0
  /\ cachedHead = 0
  /\ ring = [i \in Slots |-> Empty]
  /\ ppc = [p \in Producers |-> "idle"]
  /\ phead = [p \in Producers |-> 0]
  /\ pitem = [p \in Producers |-> Empty]
  /\ cpc = "idle"
  /\ citem = Empty
  /\ alive = TRUE

PStep(p, from, to) ==
  /\ ppc[p] = from
  /\ ppc' = [ppc EXCEPT ![p] = to]

\* A bug to compare with: full is taken to be head = tail, which is empty.
EmplaceLoadOffByOne(p, x) ==
  /\ alive
  /\ PStep(p, "idle", "construct")
  /\ phead' = [phead EXCEPT ![p] = head]
  /\ pitem' = [pitem EXCEPT ![p] = x]
  /\ UNCHANGED <<head, cachedTail, ring, alive, consVars>>

\* emplace starts: load head_ and compare with the cached tail.
EmplaceLoad(p, x) ==
  /\ alive
  /\ PStep(p, "idle", IF Succ(head) = cachedTail THEN "reload" ELSE "construct")
  /\ phead' = [phead EXCEPT ![p] = head]
  /\ pitem' = [pitem EXCEPT ![p] = x]
  /\ UNCHANGED <<head, cachedTail, ring, alive, consVars>>

\* A bug to compare with: the second comparison is missing.
EmplaceReloadUnchecked(p) ==
  /\ PStep(p, "reload", "construct")
  /\ cachedTail' = tail
  /\ UNCHANGED <<head, ring, phead, pitem, alive, consVars>>

\* The ring looked full: refresh the cached tail, return false if it still does.
EmplaceReload(p) ==
  /\ \E t \in Visible(cachedTail, tail) :
        /\ PStep(p, "reload", IF Succ(phead[p]) = t THEN "idle" ELSE "construct")
        /\ cachedTail' = t
  /\ UNCHANGED <<head, ring, phead, pitem, alive, consVars>>

EmplaceConstruct(p) ==
  /\ PStep(p, "construct", "publish")
  /\ ring' = [ring EXCEPT ![phead[p]] = pitem[p]]
  /\ UNCHANGED <<head, cachedTail, phead, pitem, alive, consVars>>

EmplacePublish(p) ==
  /\ PStep(p, "publish", "idle")
  /\ head' = Succ(phead[p])
  /\ UNCHANGED <<cachedTail, ring, phead, pitem, alive, consVars>>

-----------------------------------------------------------------------------
CStep(from, to) ==
  /\ cpc = from
  /\ cpc' = to

PopLoad ==
  /\ alive
  /\ CStep("idle", IF tail = cachedHead THEN "reload" ELSE "take")
  /\ UNCHANGED <<tail, cachedHead, citem, ring, alive, prodVars>>

PopReload ==
  /\ \E h \in Visible(cachedHead, head) :
        /\ CStep("reload", IF tail = h THEN "idle" ELSE "take")
        /\ cachedHead' = h
  /\ UNCHANGED <<tail, citem, ring, alive, prodVars>>

\* Move the item out of its slot and destroy what is left there.
PopTake ==
  /\ CStep("take", "release")
  /\ citem' = ring[tail]
  /\ ring' = [ring EXCEPT ![tail] = Empty]
  /\ UNCHANGED <<tail, cachedHead, alive, prodVars>>

PopRelease ==
  /\ CStep("release", "idle")
  /\ tail' = Succ(tail)
  /\ UNCHANGED <<cachedHead, citem, ring, alive, prodVars>>

-----------------------------------------------------------------------------
\* The slots from tail_ to head_ whose objects have been published.
Published == {i \in Slots : Dist(tail, i) < Dist(tail, head)}

Quiet == cpc = "idle" /\ \A p \in Producers : ppc[p] = "idle"

\* A bug to compare with: the loop stops one short of head_.
DestroyStopsShort ==
  /\ alive
  /\ Quiet
  /\ ring' = [i \in Slots |-> IF Succ(i) \in Published THEN Empty ELSE ring[i]]
  /\ alive' = FALSE
  /\ UNCHANGED <<prodVars, consVars>>

\* The destructor, which runs once no thread uses the queue any more.
Destroy ==
  /\ alive
  /\ Quiet
  /\ ring' = [i \in Slots |-> IF i \in Published THEN Empty ELSE ring[i]]
  /\ alive' = FALSE
  /\ UNCHANGED <<prodVars, consVars>>

Destroyed == ~alive /\ UNCHANGED vars

Next ==
  \/ \E p \in Producers :
        \/ \E x \in Items : EmplaceLoad(p, x)
        \/ EmplaceReload(p)
        \/ EmplaceConstruct(p)
        \/ EmplacePublish(p)
  \/ PopLoad
  \/ PopReload
  \/ PopTake
  \/ PopRelease
  \/ Destroy
  \/ Destroyed

Spec == Init /\ [][Next]_vars

-----------------------------------------------------------------------------
TypeOK ==
  /\ head \in Slots /\ tail \in Slots
  /\ cachedTail \in Slots /\ cachedHead \in Slots
  /\ ring \in [Slots -> Items \cup {Empty}]
  /\ ppc \in [Producers -> {"idle", "reload", "construct", "publish"}]
  /\ phead \in [Producers -> Slots]
  /\ pitem \in [Producers -> Items \cup {Empty}]
  /\ cpc \in {"idle", "reload", "take", "release"}
  /\ citem \in Items \cup {Empty}
  /\ alive \in BOOLEAN

\* The first slot whose item has not been handed to the consumer.
Front == IF cpc = "release" THEN Succ(tail) ELSE tail

\* The slots that must hold an object: the published ones that have not been
\* taken, and those a producer has filled and is about to publish.
Occupied ==
  {i \in Slots : Dist(Front, i) < Dist(Front, head)}
    \cup {phead[p] : p \in {r \in Producers : ppc[r] = "publish"}}

\* An object is constructed only in a slot that holds none and moved from and
\* destroyed only in a slot that holds one, whatever the two threads'
\* cached indices say (emplace's placement new, pop's explicit destructor call).
SlotDiscipline ==
  /\ \A p \in Producers : ppc[p] = "construct" => ring[phead[p]] = Empty
  /\ cpc = "take" => ring[tail] # Empty

\* The objects alive in the ring are exactly the occupied slots' and, once the
\* destructor has walked from tail_ to head_, there are none: nothing pushed is
\* lost in the ring, leaked by the destructor or destroyed twice.
NoLostObject ==
  \A i \in Slots : ring[i] # Empty <=> alive /\ i \in Occupied

\* Each cached index is one its owner really saw: it lies between the other
\* side's index and the owner's own, so a stale copy makes the ring look fuller
\* to the producer and emptier to the consumer, never the other way round.
\* Without it a thread could act on room or on items that are not there.
IndexOrder ==
  /\ Dist(cachedTail, tail) <= Dist(cachedTail, head)
  /\ Dist(tail, cachedHead) <= Dist(tail, head)
  /\ cpc \in {"take", "release"} => cachedHead # tail
  /\ \A p \in Producers :
        /\ ppc[p] # "idle" => phead[p] = head /\ pitem[p] \in Items
        /\ ppc[p] \in {"construct", "publish"} => Succ(head) # cachedTail
  /\ ~alive => Quiet

\* The abstract queue: the published, untaken items in slot order.
Queued ==
  IF alive
  THEN [i \in 1 .. Dist(Front, head) |-> ring[Plus(Front, i - 1)]]
  ELSE << >>

Fifo == INSTANCE FifoQueue WITH q <- Queued, item <- citem, Bound <- Capacity - 1

\* The lock-free ring implements a bounded first-in first-out queue: push takes
\* effect at the store to head_, pop when the item is moved out.
FifoSpec == Fifo!Spec
=============================================================================
