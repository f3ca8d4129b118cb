--------------------------- MODULE SpscQueueProofs ---------------------------
(***************************************************************************)
(* SpscQueue is correct for every capacity and every set of items, as long *)
(* as one thread is the producer.                                          *)
(***************************************************************************)
EXTENDS SpscQueue, SequenceTheorems, TLAPS

\* The inductive invariant.  SlotDiscipline needs to know which slots hold an
\* object (NoLostObject), and that needs the order of the indices.
IInv == TypeOK /\ IndexOrder /\ NoLostObject

\* The refinement also needs to know what a producer is about to publish.
Filled ==
  \A p \in Producers : ppc[p] = "publish" => ring[phead[p]] = pitem[p]

-----------------------------------------------------------------------------
\* Initially the ring is empty and every index is 0.
LEMMA InitIInv == Init => IInv
  <1> SUFFICES ASSUME Init PROVE IInv
    OBVIOUS
  <1>1. TypeOK
    BY CapacityAssumption DEF Init, TypeOK, Slots
  <1>2. IndexOrder
    BY CapacityAssumption DEF Init, IndexOrder, Dist, Slots
  <1>3. NoLostObject
    BY CapacityAssumption DEF Init, NoLostObject, Occupied, Front, Dist, Slots
  <1> QED
    BY <1>1, <1>2, <1>3 DEF IInv

\* Every step preserves the invariant when there is a single producer.
LEMMA NextIInv ==
  ASSUME NEW p, Producers = {p}
  PROVE  IInv /\ [Next]_vars => IInv'
  <1> SUFFICES ASSUME IInv, [Next]_vars PROVE IInv'
    OBVIOUS
  <1> USE CapacityAssumption, EmptyAssumption DEF IInv, Slots
  <1>1. ASSUME NEW x \in Items, EmplaceLoad(p, x) PROVE IInv'
    <2>1. TypeOK'
      BY <1>1 DEF EmplaceLoad, PStep, consVars, TypeOK
    <2>2. IndexOrder'
      BY <1>1 DEF EmplaceLoad, PStep, consVars, TypeOK, IndexOrder, Dist, Succ, Mask, Quiet
    <2>3. NoLostObject'
      BY <1>1 DEF EmplaceLoad, PStep, consVars, TypeOK, NoLostObject, Occupied, Front, Dist, Succ, Mask
    <2> QED
      BY <2>1, <2>2, <2>3
  <1>2. ASSUME EmplaceReload(p) PROVE IInv'
    <2>1. TypeOK'
      BY <1>2 DEF EmplaceReload, PStep, consVars, TypeOK, Visible
    <2>2. IndexOrder'
      BY <1>2 DEF EmplaceReload, PStep, consVars, TypeOK, IndexOrder, Dist, Succ, Mask, Quiet, Visible
    <2>3. NoLostObject'
      BY <1>2 DEF EmplaceReload, PStep, consVars, TypeOK, NoLostObject, Occupied, Front, Dist, Succ, Mask
    <2> QED
      BY <2>1, <2>2, <2>3
  <1>3. ASSUME EmplaceConstruct(p) PROVE IInv'
    <2>1. TypeOK'
      BY <1>3 DEF EmplaceConstruct, PStep, consVars, TypeOK
    <2>2. IndexOrder'
      BY <1>3 DEF EmplaceConstruct, PStep, consVars, TypeOK, IndexOrder, Dist, Succ, Mask, Quiet
    <2>3. NoLostObject'
      BY <1>3 DEF EmplaceConstruct, PStep, consVars, TypeOK, NoLostObject, Occupied, Front, Dist, Succ, Mask, IndexOrder, Quiet
    <2> QED
      BY <2>1, <2>2, <2>3
  <1>4. ASSUME EmplacePublish(p) PROVE IInv'
    <2>1. TypeOK'
      BY <1>4 DEF EmplacePublish, PStep, consVars, TypeOK, Succ, Mask
    <2>2. IndexOrder'
      BY <1>4 DEF EmplacePublish, PStep, consVars, TypeOK, IndexOrder, Dist, Succ, Mask, Quiet
    <2>3. NoLostObject'
      BY <1>4 DEF EmplacePublish, PStep, consVars, TypeOK, NoLostObject, Occupied, Front, Dist, Succ, Mask, IndexOrder, Quiet
    <2> QED
      BY <2>1, <2>2, <2>3
  <1>5. CASE PopLoad
    <2>1. TypeOK'
      BY <1>5 DEF PopLoad, CStep, prodVars, TypeOK
    <2>2. IndexOrder'
      BY <1>5 DEF PopLoad, CStep, prodVars, TypeOK, IndexOrder, Dist, Succ, Mask, Quiet
    <2>3. NoLostObject'
      BY <1>5 DEF PopLoad, CStep, prodVars, TypeOK, NoLostObject, Occupied, Front, Dist, Succ, Mask
    <2> QED
      BY <2>1, <2>2, <2>3
  <1>6. CASE PopReload
    <2>1. TypeOK'
      BY <1>6 DEF PopReload, CStep, prodVars, TypeOK, Visible
    <2>2. IndexOrder'
      BY <1>6 DEF PopReload, CStep, prodVars, TypeOK, IndexOrder, Dist, Succ, Mask, Quiet, Visible
    <2>3. NoLostObject'
      BY <1>6 DEF PopReload, CStep, prodVars, TypeOK, NoLostObject, Occupied, Front, Dist, Succ, Mask
    <2> QED
      BY <2>1, <2>2, <2>3
  <1>7. CASE PopTake
    <2>1. TypeOK'
      BY <1>7 DEF PopTake, CStep, prodVars, TypeOK
    <2>2. IndexOrder'
      BY <1>7 DEF PopTake, CStep, prodVars, TypeOK, IndexOrder, Dist, Succ, Mask, Quiet
    <2>3. NoLostObject'
      BY <1>7 DEF PopTake, CStep, prodVars, TypeOK, NoLostObject, Occupied, Front, Dist, Succ, Mask, IndexOrder, Quiet
    <2> QED
      BY <2>1, <2>2, <2>3
  <1>8. CASE PopRelease
    <2>1. TypeOK'
      BY <1>8 DEF PopRelease, CStep, prodVars, TypeOK, Succ, Mask
    <2>2. IndexOrder'
      BY <1>8 DEF PopRelease, CStep, prodVars, TypeOK, IndexOrder, Dist, Succ, Mask, Quiet
    <2>3. NoLostObject'
      BY <1>8 DEF PopRelease, CStep, prodVars, TypeOK, NoLostObject, Occupied, Front, Dist, Succ, Mask, IndexOrder, Quiet
    <2> QED
      BY <2>1, <2>2, <2>3
  <1>9. CASE Destroy
    <2>1. TypeOK'
      BY <1>9 DEF Destroy, prodVars, consVars, TypeOK
    <2>2. IndexOrder'
      BY <1>9 DEF Destroy, prodVars, consVars, TypeOK, IndexOrder, Dist, Succ, Mask, Quiet
    <2>3. NoLostObject'
      BY <1>9 DEF Destroy, prodVars, consVars, TypeOK, NoLostObject, Occupied, Published, Front, Dist, Succ, Mask, IndexOrder, Quiet
    <2> QED
      BY <2>1, <2>2, <2>3
  <1>10. CASE UNCHANGED vars
    BY <1>10 DEF vars, TypeOK, IndexOrder, NoLostObject, Occupied, Front, Quiet
  <1> QED
    BY <1>1, <1>2, <1>3, <1>4, <1>5, <1>6, <1>7, <1>8, <1>9, <1>10 DEF Next, Destroyed

\* With a single producer the indices, the cached copies and the slots stay
\* well-typed.
THEOREM TypeCorrect ==
  ASSUME NEW p, Producers = {p}
  PROVE  Spec => []TypeOK
  <1>1. IInv => TypeOK
    BY DEF IInv
  <1> QED
    BY <1>1, InitIInv, NextIInv, PTL DEF Spec

\* A single producer never constructs over an object that the consumer has not
\* taken, and the consumer never moves from a slot that holds nothing.
THEOREM SlotsDisciplined ==
  ASSUME NEW p, Producers = {p}
  PROVE  Spec => []SlotDiscipline
  <1>1. IInv => SlotDiscipline
    <2> SUFFICES ASSUME IInv PROVE SlotDiscipline
      OBVIOUS
    <2> USE CapacityAssumption, EmptyAssumption DEF IInv, Slots
    <2>1. \A r \in Producers : ppc[r] = "construct" => ring[phead[r]] = Empty
      BY DEF TypeOK, IndexOrder, NoLostObject, Occupied, Dist, Front, Succ, Mask
    <2>2. cpc = "take" => ring[tail] # Empty
      BY DEF TypeOK, IndexOrder, NoLostObject, Occupied, Dist, Front, Quiet
    <2> QED
      BY <2>1, <2>2 DEF SlotDiscipline
  <1> QED
    BY <1>1, InitIInv, NextIInv, PTL DEF Spec

\* Nothing pushed by the single producer is lost in the ring, and the
\* destructor leaves no object behind.
THEOREM NothingLost ==
  ASSUME NEW p, Producers = {p}
  PROVE  Spec => []NoLostObject
  <1>1. IInv => NoLostObject
    BY DEF IInv
  <1> QED
    BY <1>1, InitIInv, NextIInv, PTL DEF Spec

\* The cached copies only ever lag behind: they never promise room or items
\* that are not there.
THEOREM IndicesOrdered ==
  ASSUME NEW p, Producers = {p}
  PROVE  Spec => []IndexOrder
  <1>1. IInv => IndexOrder
    BY DEF IInv
  <1> QED
    BY <1>1, InitIInv, NextIInv, PTL DEF Spec

-----------------------------------------------------------------------------
(***************************************************************************)
(* The refinement: the ring implements FifoQueue.                          *)
(***************************************************************************)

LEMMA InitFilled == Init => Filled
  BY DEF Init, Filled

LEMMA NextFilled ==
  ASSUME NEW p, Producers = {p}
  PROVE  IInv /\ Filled /\ [Next]_vars => Filled'
  <1> SUFFICES ASSUME IInv, Filled, [Next]_vars PROVE Filled'
    OBVIOUS
  <1> USE DEF IInv
  <1>1. ASSUME NEW x \in Items, EmplaceLoad(p, x) PROVE Filled'
    BY <1>1 DEF EmplaceLoad, PStep, consVars, TypeOK, Filled
  <1>2. CASE EmplaceReload(p)
    BY <1>2 DEF EmplaceReload, PStep, consVars, TypeOK, Filled
  <1>3. CASE EmplaceConstruct(p)
    BY <1>3 DEF EmplaceConstruct, PStep, consVars, TypeOK, Filled
  <1>4. CASE EmplacePublish(p)
    BY <1>4 DEF EmplacePublish, PStep, consVars, TypeOK, Filled
  <1>5. CASE PopTake
    <2>1. ASSUME ppc[p] = "publish" PROVE phead[p] # tail
      BY <1>5, <2>1, CapacityAssumption DEF PopTake, CStep, TypeOK, IndexOrder, Dist, Slots
    <2> QED
      BY <1>5, <2>1 DEF PopTake, CStep, prodVars, TypeOK, Filled
  <1>6. CASE PopLoad \/ PopReload \/ PopRelease
    BY <1>6 DEF PopLoad, PopReload, PopRelease, prodVars, Filled
  <1>7. CASE Destroy
    BY <1>7 DEF Destroy, Quiet, prodVars, Filled
  <1>8. CASE UNCHANGED vars
    BY <1>8 DEF vars, Filled
  <1> QED
    BY <1>1, <1>2, <1>3, <1>4, <1>5, <1>6, <1>7, <1>8 DEF Next, Destroyed

\* Ring arithmetic: Plus stays in the ring, and Dist undoes it.
LEMMA DistPlus ==
  ASSUME NEW a \in Slots, NEW n \in 0 .. Mask
  PROVE  Plus(a, n) \in Slots /\ Dist(a, Plus(a, n)) = n
  BY CapacityAssumption DEF Plus, Dist, Slots, Mask

\* Front is a slot, and what lies between Front and head_ fits in the ring.
LEMMA FrontInRing ==
  ASSUME TypeOK
  PROVE  Front \in Slots /\ Dist(Front, head) \in 0 .. Mask
  BY CapacityAssumption DEF TypeOK, Front, Succ, Dist, Mask, Slots

\* The queue is a sequence of slots' contents.
LEMMA QueuedIsSeq ==
  ASSUME IInv, alive
  PROVE  /\ Queued \in Seq(Items)
         /\ Len(Queued) = Dist(Front, head)
         /\ \A i \in 1 .. Dist(Front, head) : Queued[i] = ring[Plus(Front, i - 1)]
  <1>1. \A i \in 1 .. Dist(Front, head) : ring[Plus(Front, i - 1)] \in Items
    <2> SUFFICES ASSUME NEW i \in 1 .. Dist(Front, head)
                 PROVE  ring[Plus(Front, i - 1)] \in Items
      OBVIOUS
    <2> DEFINE j == Plus(Front, i - 1)
    <2>1. i - 1 \in 0 .. Mask /\ i - 1 < Dist(Front, head)
      BY FrontInRing, CapacityAssumption DEF IInv, Mask
    <2>2. j \in Slots /\ Dist(Front, j) = i - 1
      BY <2>1, FrontInRing, DistPlus DEF IInv
    <2>3. j \in Occupied
      BY <2>1, <2>2 DEF Occupied
    <2> QED
      BY <2>2, <2>3 DEF IInv, NoLostObject, TypeOK
  <1>2. Queued = [i \in 1 .. Dist(Front, head) |-> ring[Plus(Front, i - 1)]]
    BY DEF Queued
  <1>3. Dist(Front, head) \in Nat
    BY FrontInRing, CapacityAssumption DEF IInv, Mask
  <1>4. Queued \in Seq(Items)
    BY <1>1, <1>2, <1>3, IsASeq
  <1> QED
    BY <1>2, <1>3, <1>4

\* Steps that move no index and touch no queued slot leave the queue as it is.
LEMMA QueueKept ==
  ASSUME TypeOK, alive, alive', Front' = Front, head' = head,
         \A i \in Slots : Dist(Front, i) < Dist(Front, head) => ring'[i] = ring[i]
  PROVE  Queued' = Queued
  <1>1. ASSUME NEW i \in 1 .. Dist(Front, head)
        PROVE  ring'[Plus(Front, i - 1)] = ring[Plus(Front, i - 1)]
    <2>1. i - 1 \in 0 .. Mask /\ i - 1 < Dist(Front, head)
      BY FrontInRing, CapacityAssumption DEF Mask
    <2> QED
      BY <2>1, FrontInRing, DistPlus
  <1>2. [i \in 1 .. Dist(Front, head) |-> ring[Plus(Front, i - 1)]]'
          = [i \in 1 .. Dist(Front, head) |-> ring[Plus(Front, i - 1)]]
    BY <1>1 DEF Dist, Plus
  <1> QED
    BY <1>2 DEF Queued

LEMMA InitRefines == Init => Fifo!Init
  <1> SUFFICES ASSUME Init PROVE Fifo!Init
    OBVIOUS
  <1>1. Dist(Front, head) = 0
    BY CapacityAssumption DEF Init, Front, Dist
  <1>2. Queued = << >>
    BY <1>1 DEF Queued, Init
  <1> QED
    BY <1>2 DEF Init, Fifo!Init

\* The store to head_ is where the push takes effect.
LEMMA PublishPuts ==
  ASSUME NEW p, Producers = {p}, IInv, Filled, EmplacePublish(p)
  PROVE  Fifo!Put(pitem[p])
  <1> USE DEF IInv
  <1>1. /\ alive /\ alive' /\ Front' = Front /\ ring' = ring /\ citem' = citem
        /\ ppc[p] = "publish" /\ phead[p] = head /\ head' = Succ(head)
        /\ pitem[p] \in Items
    BY DEF EmplacePublish, PStep, consVars, Front, IndexOrder, Quiet
  <1>2. Succ(head) # Front
    BY <1>1, CapacityAssumption DEF IndexOrder, TypeOK, Dist, Succ, Mask, Slots, Front
  <1>3. Dist(Front, head') = Dist(Front, head) + 1 /\ Dist(Front, head) < Mask
    BY <1>1, <1>2, FrontInRing, CapacityAssumption DEF TypeOK, Dist, Succ, Mask, Slots
  <1>4. Plus(Front, Dist(Front, head)) = head
    BY FrontInRing, CapacityAssumption DEF TypeOK, Dist, Plus, Mask, Slots
  <1>5. ring[head] = pitem[p]
    BY <1>1 DEF Filled
  <1>6. Queued' = [i \in 1 .. Dist(Front, head) + 1 |-> ring[Plus(Front, i - 1)]]
    BY <1>1, <1>3 DEF Queued
  <1>7. Queued' = Append(Queued, pitem[p])
    <2>1. Dist(Front, head) \in Nat
      BY FrontInRing, CapacityAssumption DEF Mask
    <2>2. /\ Append(Queued, pitem[p]) \in Seq(Items)
          /\ Len(Append(Queued, pitem[p])) = Dist(Front, head) + 1
          /\ \A i \in 1 .. Dist(Front, head) : Append(Queued, pitem[p])[i] = Queued[i]
          /\ Append(Queued, pitem[p])[Dist(Front, head) + 1] = pitem[p]
      BY <1>1, QueuedIsSeq, AppendProperties
    <2>3. \A i \in 1 .. Dist(Front, head) + 1 :
            ring[Plus(Front, i - 1)] = Append(Queued, pitem[p])[i]
      BY <2>1, <2>2, <1>1, <1>4, <1>5, QueuedIsSeq
    <2>4. Append(Queued, pitem[p])
            = [i \in 1 .. Dist(Front, head) + 1 |-> Append(Queued, pitem[p])[i]]
      BY <2>2
    <2> QED
      BY <2>3, <2>4, <1>6
  <1> QED
    BY <1>1, <1>3, <1>7, QueuedIsSeq DEF Fifo!Put, Mask

\* Moving the item out of its slot is where the pop takes effect.
LEMMA TakeGets ==
  ASSUME IInv, PopTake
  PROVE  Fifo!Get
  <1> USE DEF IInv
  <1>1. /\ alive /\ alive' /\ head' = head /\ tail' = tail
        /\ Front = tail /\ Front' = Succ(tail)
        /\ citem' = ring[tail]
        /\ ring' = [ring EXCEPT ![tail] = Empty]
    BY DEF PopTake, CStep, prodVars, Front, IndexOrder, Quiet
  <1>2. Dist(tail, head) # 0
    BY CapacityAssumption DEF PopTake, CStep, IndexOrder, TypeOK, Dist, Slots
  <1>3. Dist(Succ(tail), head) = Dist(tail, head) - 1 /\ Dist(tail, head) \in 1 .. Mask
    BY <1>2, CapacityAssumption DEF TypeOK, Dist, Succ, Mask, Slots
  <1>4. \A i \in 1 .. Dist(tail, head) - 1 :
          /\ Plus(Succ(tail), i - 1) = Plus(tail, i)
          /\ Plus(tail, i) \in Slots
          /\ Plus(tail, i) # tail
    BY <1>3, CapacityAssumption DEF TypeOK, Plus, Succ, Mask, Slots
  <1>5. /\ Queued \in Seq(Items)
        /\ Len(Queued) = Dist(tail, head)
        /\ \A i \in 1 .. Dist(tail, head) : Queued[i] = ring[Plus(tail, i - 1)]
    BY <1>1, QueuedIsSeq
  <1>6. Queued # << >> /\ citem' = Head(Queued)
    <2>1. Plus(tail, 0) = tail
      BY CapacityAssumption DEF TypeOK, Plus, Slots
    <2>2. Queued[1] = ring[tail]
      BY <2>1, <1>3, <1>5, CapacityAssumption DEF Mask
    <2>3. Queued # << >>
      BY <1>3, <1>5, CapacityAssumption DEF Mask
    <2> QED
      BY <2>2, <2>3, <1>1, <1>5
  <1>7. Queued' = Tail(Queued)
    <2>1. Queued' = [i \in 1 .. Dist(tail, head) - 1 |-> ring'[Plus(Succ(tail), i - 1)]]
      BY <1>1, <1>3 DEF Queued
    <2>2. \A i \in 1 .. Dist(tail, head) - 1 : ring'[Plus(Succ(tail), i - 1)] = Queued[i + 1]
      <3> SUFFICES ASSUME NEW i \in 1 .. Dist(tail, head) - 1
                   PROVE  ring'[Plus(Succ(tail), i - 1)] = Queued[i + 1]
        OBVIOUS
      <3>1. i + 1 \in 1 .. Dist(tail, head) /\ (i + 1) - 1 = i
        BY <1>3, CapacityAssumption DEF Mask
      <3>2. Queued[i + 1] = ring[Plus(tail, i)]
        BY <3>1, <1>5
      <3>3. ring'[Plus(tail, i)] = ring[Plus(tail, i)]
        BY <1>1, <1>4 DEF TypeOK
      <3> QED
        BY <3>2, <3>3, <1>4
    <2>3. /\ Tail(Queued) \in Seq(Items)
          /\ Len(Tail(Queued)) = Dist(tail, head) - 1
          /\ \A i \in 1 .. Dist(tail, head) - 1 : Tail(Queued)[i] = Queued[i + 1]
      BY <1>5, <1>6, HeadTailProperties
    <2>4. Tail(Queued) = [i \in 1 .. Dist(tail, head) - 1 |-> Tail(Queued)[i]]
      <3>1. Tail(Queued) \in [1 .. Len(Tail(Queued)) -> Items]
        BY <2>3, LenProperties
      <3>2. Tail(Queued) \in [1 .. Dist(tail, head) - 1 -> Items]
        BY <2>3, <3>1
      <3> QED
        BY <3>2
    <2> QED
      BY <2>1, <2>2, <2>3, <2>4
  <1> QED
    BY <1>6, <1>7 DEF Fifo!Get

LEMMA NextRefines ==
  ASSUME NEW p, Producers = {p}
  PROVE  IInv /\ Filled /\ [Next]_vars => [Fifo!Next]_<<Queued, citem>>
  <1> SUFFICES ASSUME IInv, Filled, [Next]_vars
               PROVE  [Fifo!Next]_<<Queued, citem>>
    OBVIOUS
  <1> USE DEF IInv
  <1>1. ASSUME NEW x \in Items, EmplaceLoad(p, x) PROVE UNCHANGED <<Queued, citem>>
    BY <1>1, QueueKept DEF EmplaceLoad, consVars, Front
  <1>2. CASE EmplaceReload(p)
    BY <1>2, QueueKept DEF EmplaceReload, PStep, consVars, Front, IndexOrder, Quiet
  <1>3. CASE EmplaceConstruct(p)
    <2>1. \A i \in Slots : Dist(Front, i) < Dist(Front, head) => ring'[i] = ring[i]
      <3>1. \A i \in Slots : Dist(Front, i) < Dist(Front, head) => i # head
        BY FrontInRing, CapacityAssumption DEF Mask
      <3>2. \A i \in Slots : i # head => ring'[i] = ring[i]
        BY <1>3 DEF EmplaceConstruct, PStep, IndexOrder, TypeOK
      <3> QED
        BY <3>1, <3>2
    <2> QED
      BY <1>3, <2>1, QueueKept DEF EmplaceConstruct, PStep, consVars, Front, IndexOrder, Quiet
  <1>4. CASE EmplacePublish(p)
    <2>1. pitem[p] \in Items
      BY <1>4 DEF EmplacePublish, PStep, IndexOrder
    <2> QED
      BY <1>4, <2>1, PublishPuts DEF Fifo!Next
  <1>5. CASE PopLoad
    BY <1>5, QueueKept DEF PopLoad, CStep, prodVars, Front
  <1>6. CASE PopReload
    BY <1>6, QueueKept DEF PopReload, CStep, prodVars, Front, IndexOrder, Quiet
  <1>7. CASE PopTake
    BY <1>7, TakeGets DEF Fifo!Next
  <1>8. CASE PopRelease
    BY <1>8, QueueKept DEF PopRelease, CStep, prodVars, Front, IndexOrder, Quiet
  <1>9. CASE Destroy
    BY <1>9 DEF Destroy, consVars, Queued, Fifo!Next, Fifo!Drop
  <1>10. CASE UNCHANGED vars
    BY <1>10 DEF vars, Queued, Front, Dist, Plus
  <1> QED
    BY <1>1, <1>2, <1>3, <1>4, <1>5, <1>6, <1>7, <1>8, <1>9, <1>10 DEF Next, Destroyed, Fifo!fifoVars

\* With one producer the lock-free ring is a bounded first-in first-out queue:
\* push and pop take effect at one step each, whatever the cached indices say.
THEOREM RingIsFifo ==
  ASSUME NEW p, Producers = {p}
  PROVE  Spec => FifoSpec
  <1>1. Spec => Fifo!Init /\ [][Fifo!Next]_<<Queued, citem>>
    BY InitIInv, NextIInv, InitFilled, NextFilled, InitRefines, NextRefines, PTL DEF Spec
  <1> QED
    BY <1>1 DEF FifoSpec, Fifo!Spec, Fifo!fifoVars
=============================================================================
