------------------------------- MODULE Memory -------------------------------
(***************************************************************************)
(* LocalPtr and RefCounted (IntrusivePtr.h) over the free list of Poolable *)
(* (Poolable.h), on one thread.  Every object has one LocalPtr as a member,*)
(* like the state of a Promise or pending_read_ of a connection, and is    *)
(* named by its node of the pool; the slot of that member has the name of  *)
(* the object.  Locals are the other slots: local variables and the        *)
(* captures of handlers and continuations.                                 *)
(*                                                                         *)
(* A release that reaches zero runs destructors, each of which releases the*)
(* member before the memory goes back, so it is cut into steps.            *)
(***************************************************************************)
EXTENDS Integers, Sequences, FiniteSets

CONSTANTS
  Locals,     \* slots outside objects
  Null,       \* nullptr
  ChunkSize,  \* nodes in a chunk
  MaxChunks   \* bound: chunks that are allocated

ASSUME MemoryAssumption ==
  /\ {ChunkSize, MaxChunks} \subseteq Nat \ {0}
  /\ Null \notin Nat /\ Locals \cap (Nat \cup {Null}) = {} /\ IsFiniteSet(Locals)

Nodes == 1 .. ChunkSize * MaxChunks
Slots == Locals \cup Nodes

VARIABLES
  free,   \* the list from head_
  made,   \* nodes in the chunks so far
  live,   \* objects that are constructed and not being destroyed
  count,  \* ref_count_ of each
  ptr,    \* ptr_ of each slot
  stack   \* calls to be finished: destructors, and a move that waits for one

vars == <<free, made, live, count, ptr, stack>>

Destructor(n) == [call |-> "delete", to |-> n, from |-> n]
MoveInto(to, from) == [call |-> "move", to |-> to, from |-> from]

Chunk(first) == [i \in 1 .. ChunkSize |-> first + i]

Init ==
  /\ free = Chunk(0) /\ made = ChunkSize
  /\ live = {}
  /\ count = [n \in Nodes |-> 0]
  /\ ptr = [s \in Slots |-> Null]
  /\ stack = << >>

-----------------------------------------------------------------------------
(* Counts.  A release may push the destructor on the calls that wait.      *)

AddRef(n) == IF n = Null THEN count ELSE [count EXCEPT ![n] = @ + 1]

\* A bug to compare with: the last but one reference deletes.
ReleaseEarly(n, counts, waiting) ==
  IF n = Null THEN count' = counts /\ stack' = waiting /\ UNCHANGED live
  ELSE /\ count' = [counts EXCEPT ![n] = @ - 1]
       /\ IF counts[n] <= 2 /\ n \in live
          THEN stack' = <<Destructor(n)>> \o waiting /\ live' = live \ {n}
          ELSE stack' = waiting /\ UNCHANGED live

Release(n, counts, waiting) ==
  IF n = Null THEN count' = counts /\ stack' = waiting /\ UNCHANGED live
  ELSE /\ count' = [counts EXCEPT ![n] = @ - 1]
       /\ IF counts[n] = 1
          THEN stack' = <<Destructor(n)>> \o waiting /\ live' = live \ {n}
          ELSE stack' = waiting /\ UNCHANGED live

-----------------------------------------------------------------------------
(* The operations of user code, on slots that it can name: its own, and    *)
(* those of objects that a slot of its own keeps alive.                    *)

\* An own slot other than "but" keeps s alive.
Usable(s, but) == s \in Locals \/ \E h \in Locals \ {but} : ptr[h] = s

\* make_local, with an empty pool and without.
AllocateChunk ==
  /\ stack = << >>
  /\ free = << >>
  /\ made < ChunkSize * MaxChunks
  /\ free' = Chunk(made)
  /\ made' = made + ChunkSize
  /\ UNCHANGED <<live, count, ptr, stack>>

\* A bug to compare with: head_ stays where it is.
MakeKeepsHead(h) ==
  /\ stack = << >> /\ free # << >>
  /\ ptr[h] = Null
  /\ live' = live \cup {Head(free)}
  /\ count' = [count EXCEPT ![Head(free)] = 1]
  /\ ptr' = [ptr EXCEPT ![h] = Head(free), ![Head(free)] = Null]
  /\ UNCHANGED <<free, made, stack>>

Make(h) ==
  /\ stack = << >> /\ free # << >>
  /\ ptr[h] = Null
  /\ free' = Tail(free)
  /\ live' = live \cup {Head(free)}
  /\ count' = [count EXCEPT ![Head(free)] = 1]
  /\ ptr' = [ptr EXCEPT ![h] = Head(free), ![Head(free)] = Null]
  /\ UNCHANGED <<made, stack>>

CopyConstruct(h, from) ==
  /\ stack = << >>
  /\ ptr[h] = Null /\ Usable(from, h)
  /\ count' = AddRef(ptr[from])
  /\ ptr' = [ptr EXCEPT ![h] = ptr[from]]
  /\ UNCHANGED <<free, made, live, stack>>

\* A copy of other, swapped with the target and then destroyed: other may be
\* inside what the target has, as in p = p->next.
CopyAssign(to, from) ==
  /\ stack = << >>
  /\ Usable(to, to) /\ Usable(from, Null)
  /\ ptr' = [ptr EXCEPT ![to] = ptr[from]]
  /\ Release(ptr[to], AddRef(ptr[from]), << >>)
  /\ UNCHANGED <<free, made>>

MoveConstruct(h, from) ==
  /\ stack = << >>
  /\ ptr[h] = Null /\ from # h /\ Usable(from, h)
  /\ ptr' = [ptr EXCEPT ![h] = ptr[from], ![from] = Null]
  /\ UNCHANGED <<free, made, live, count, stack>>

\* Move assignment releases what the target had before it reads the source, which
\* something else must keep alive: p = std::move(p->next) reads freed memory.
MoveAssign(to, from) ==
  /\ stack = << >>
  /\ to # from /\ Usable(to, to) /\ Usable(from, to)
  /\ Release(ptr[to], count, <<MoveInto(to, from)>>)
  /\ UNCHANGED <<free, made, ptr>>

Destroy(h) ==
  /\ stack = << >>
  /\ ptr[h] # Null
  /\ ptr' = [ptr EXCEPT ![h] = Null]
  /\ Release(ptr[h], count, << >>)
  /\ UNCHANGED <<free, made>>

-----------------------------------------------------------------------------
(* The calls that wait.                                                    *)

\* The destructor of the member.
DestroyMember ==
  /\ stack # << >> /\ Head(stack).call = "delete"
  /\ LET n == Head(stack).to IN
     /\ ptr[n] # Null
     /\ ptr' = [ptr EXCEPT ![n] = Null]
     /\ Release(ptr[n], count, stack)
  /\ UNCHANGED <<free, made>>

\* operator delete.
Deallocate ==
  /\ stack # << >> /\ Head(stack).call = "delete"
  /\ ptr[Head(stack).to] = Null
  /\ free' = <<Head(stack).to>> \o free
  /\ stack' = Tail(stack)
  /\ UNCHANGED <<made, live, count, ptr>>

\* A bug to compare with: the source keeps its pointer.
FinishMoveKeeps ==
  /\ stack # << >> /\ Head(stack).call = "move"
  /\ ptr' = [ptr EXCEPT ![Head(stack).to] = ptr[Head(stack).from]]
  /\ stack' = Tail(stack)
  /\ UNCHANGED <<free, made, live, count>>

FinishMove ==
  /\ stack # << >> /\ Head(stack).call = "move"
  /\ ptr' = [ptr EXCEPT ![Head(stack).to] = ptr[Head(stack).from],
                        ![Head(stack).from] = Null]
  /\ stack' = Tail(stack)
  /\ UNCHANGED <<free, made, live, count>>

Next ==
  \/ AllocateChunk
  \/ \E h \in Locals : Make(h) \/ Destroy(h)
  \/ \E h \in Locals, from \in Slots : CopyConstruct(h, from) \/ MoveConstruct(h, from)
  \/ \E to, from \in Slots : CopyAssign(to, from) \/ MoveAssign(to, from)
  \/ DestroyMember \/ Deallocate \/ FinishMove

Spec == Init /\ [][Next]_vars

-----------------------------------------------------------------------------
Dying == {stack[i].to : i \in {j \in 1 .. Len(stack) : stack[j].call = "delete"}}

TypeOK ==
  /\ free \in Seq(Nodes) /\ made \in 0 .. ChunkSize * MaxChunks
  /\ live \subseteq Nodes
  /\ count \in [Nodes -> Nat]
  /\ ptr \in [Slots -> Nodes \cup {Null}]
  /\ stack \in Seq([call : {"delete", "move"}, to : Slots, from : Slots])

\* The slot whose object was released, while a move assignment waits.
Vacated == {stack[i].to : i \in {j \in 1 .. Len(stack) : stack[j].call = "move"}}

\* The slots that hold a reference.
Holding == (Locals \cup live \cup Dying) \ Vacated

\* An object lives as long as ref_count_ is not zero, and that is the number of
\* LocalPtrs that point to it, over copies, moves, self-assignment and chains of
\* destructors.
CountExact ==
  \A n \in live :
    count[n] > 0 /\ count[n] = Cardinality({s \in Holding : ptr[s] = n})

\* No LocalPtr that can still be used points to an object that is destroyed or
\* being destroyed.
NoDangling == \A s \in Holding : ptr[s] \in live \cup {Null}

\* Every node of the chunks is in use, being destroyed or in the free list, and
\* there once.
PoolExact ==
  LET listed == {free[i] : i \in 1 .. Len(free)} IN
  /\ Cardinality(listed) = Len(free)
  /\ live \cap Dying = {} /\ (live \cup Dying) \cap listed = {}
  /\ live \cup Dying \cup listed = 1 .. made
=============================================================================
