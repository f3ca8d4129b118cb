---------------------------- MODULE MemoryProofs ----------------------------
(***************************************************************************)
(* For any number of local pointers and any size of the pool: counts are   *)
(* the pointers there are, none that can be used dangles, and every node is*)
(* in one place.                                                           *)
(*                                                                         *)
(* An operation moves a pointer and then releases what the slot had.  In   *)
(* between the counts are right but for that one pointer: Balanced, with   *)
(* which Released shows that a release puts them right.                    *)
(***************************************************************************)
EXTENDS Memory, FiniteSetTheorems, SequenceTheorems, TLAPS

\* The calls that wait: destructors of different objects and, at the bottom, at
\* most one move.
Calls == [call : {"delete", "move"}, to : Slots, from : Slots]
Deletes(s) == {i \in 1 .. Len(s) : s[i].call = "delete"}
Moves(s) == {i \in 1 .. Len(s) : s[i].call = "move"}
Waiting(s) == {s[i] : i \in Moves(s)}

Shape(s) ==
  /\ s \in Seq(Calls)
  /\ \A i \in Deletes(s) : s[i].to \in Nodes
  /\ \A i, k \in Deletes(s) : i # k => s[i].to # s[k].to
  /\ \A i \in Moves(s) : i = Len(s)

\* A move that waits is between slots that stay usable.
MoveInv ==
  \A m \in Waiting(stack) :
    m.to # m.from /\ Usable(m.to, m.to) /\ Usable(m.from, m.to)

-----------------------------------------------------------------------------
(* The calls that wait.                                                    *)

\* The objects that are being destroyed and the targets of moves, for a stack s.
DyingOf(s) == {s[i].to : i \in Deletes(s)}
VacatedOf(s) == {s[i].to : i \in Moves(s)}

\* An element in front.
LEMMA Cons ==
  ASSUME NEW S, NEW s \in Seq(S), NEW e \in S
  PROVE  LET t == <<e>> \o s IN
         /\ t \in Seq(S) /\ Len(t) = Len(s) + 1 /\ Len(s) \in Nat /\ t[1] = e
         /\ \A i \in 1 .. Len(s) : t[i + 1] = s[i] /\ i + 1 \in 1 .. Len(t) /\ i + 1 # 1
         /\ 1 \in 1 .. Len(t)
         /\ \A i \in 1 .. Len(t) : i # 1 => i - 1 \in 1 .. Len(s) /\ t[i] = s[i - 1]
  OBVIOUS

\* Without its head.
LEMMA Rest ==
  ASSUME NEW S, NEW s \in Seq(S), s # << >>
  PROVE  /\ Tail(s) \in Seq(S) /\ Len(Tail(s)) = Len(s) - 1 /\ Len(s) \in Nat
         /\ Head(s) = s[1] /\ Head(s) \in S /\ 1 \in 1 .. Len(s)
         /\ \A i \in 1 .. Len(Tail(s)) :
              Tail(s)[i] = s[i + 1] /\ i + 1 \in 1 .. Len(s) /\ i + 1 # 1
         /\ \A i \in 1 .. Len(s) : i # 1 => i - 1 \in 1 .. Len(Tail(s)) /\ s[i] = Tail(s)[i - 1]
  OBVIOUS

\* Another destructor begins.
LEMMA PushDestructor ==
  ASSUME NEW s, Shape(s), NEW n \in Nodes, n \notin DyingOf(s)
  PROVE  LET t == <<Destructor(n)>> \o s IN
         /\ Shape(t)
         /\ DyingOf(t) = DyingOf(s) \cup {n}
         /\ VacatedOf(t) = VacatedOf(s)
         /\ Waiting(t) = Waiting(s)
  <1> DEFINE t == <<Destructor(n)>> \o s
  <1>1. Destructor(n) \in Calls /\ Destructor(n).call = "delete" /\ Destructor(n).to = n
    BY DEF Destructor, Calls, Slots
  <1>2. /\ t \in Seq(Calls) /\ Len(t) = Len(s) + 1 /\ Len(s) \in Nat /\ t[1] = Destructor(n)
        /\ \A i \in 1 .. Len(s) : t[i + 1] = s[i] /\ i + 1 \in 1 .. Len(t) /\ i + 1 # 1
        /\ 1 \in 1 .. Len(t)
        /\ \A i \in 1 .. Len(t) : i # 1 => i - 1 \in 1 .. Len(s) /\ t[i] = s[i - 1]
    BY <1>1, Cons DEF Shape
  <1> HIDE DEF t
  <1>3. \A i \in Deletes(t) : i = 1 \/ (i - 1 \in Deletes(s) /\ t[i] = s[i - 1])
    BY <1>2 DEF Deletes
  <1>4. 1 \in Deletes(t) /\ \A i \in Deletes(s) : i + 1 \in Deletes(t) /\ t[i + 1] = s[i]
    BY <1>1, <1>2 DEF Deletes
  <1>5. \A i \in Moves(t) : i - 1 \in Moves(s) /\ t[i] = s[i - 1]
    BY <1>1, <1>2 DEF Moves
  <1>6. \A i \in Moves(s) : i + 1 \in Moves(t) /\ t[i + 1] = s[i]
    BY <1>1, <1>2 DEF Moves
  <1>7. DyingOf(t) = DyingOf(s) \cup {n}
    <2>1. DyingOf(t) \subseteq DyingOf(s) \cup {n}
      BY <1>1, <1>2, <1>3 DEF DyingOf
    <2>2. DyingOf(s) \subseteq DyingOf(t)
      BY <1>4 DEF DyingOf
    <2>3. n \in DyingOf(t)
      BY <1>1, <1>2, <1>4 DEF DyingOf
    <2> QED
      BY <2>1, <2>2, <2>3
  <1>8. VacatedOf(t) = VacatedOf(s) /\ Waiting(t) = Waiting(s)
    BY <1>5, <1>6 DEF VacatedOf, Waiting
  <1>9. \A i \in Deletes(t) : t[i].to \in Nodes
    BY <1>1, <1>2, <1>3 DEF Shape
  <1>10. \A i, k \in Deletes(t) : i # k => t[i].to # t[k].to
    <2>1. \A i, k \in Deletes(t) : i # k => i - 1 # k - 1
      BY DEF Deletes
    <2>2. \A i \in Deletes(s) : s[i].to # n
      BY DEF DyingOf
    <2> QED
      BY <1>1, <1>2, <1>3, <2>1, <2>2 DEF Shape
  <1>11. \A i \in Moves(t) : i = Len(t)
    <2>1. \A i \in Moves(t) : i \in Nat /\ i - 1 = Len(s)
      BY <1>5 DEF Shape, Moves
    <2> QED
      BY <1>2, <2>1
  <1> QED
    BY <1>2, <1>7, <1>8, <1>9, <1>10, <1>11 DEF Shape, t

\* The innermost destructor ends.
LEMMA PopDestructor ==
  ASSUME NEW s, Shape(s), s # << >>, Head(s).call = "delete"
  PROVE  /\ Head(s).to \in Nodes \cap DyingOf(s)
         /\ Shape(Tail(s))
         /\ DyingOf(Tail(s)) = DyingOf(s) \ {Head(s).to}
         /\ VacatedOf(Tail(s)) = VacatedOf(s)
         /\ Waiting(Tail(s)) = Waiting(s)
  <1> DEFINE t == Tail(s)
  <1>1. /\ t \in Seq(Calls) /\ Len(t) = Len(s) - 1 /\ Len(s) \in Nat
        /\ Head(s) = s[1] /\ 1 \in 1 .. Len(s)
        /\ \A i \in 1 .. Len(t) : t[i] = s[i + 1] /\ i + 1 \in 1 .. Len(s) /\ i + 1 # 1
        /\ \A i \in 1 .. Len(s) : i # 1 => i - 1 \in 1 .. Len(t) /\ s[i] = t[i - 1]
    BY Rest DEF Shape
  <1> HIDE DEF t
  <1>2. /\ 1 \in Deletes(s)
        /\ \A i \in Deletes(s) : i = 1 \/ (i - 1 \in Deletes(t) /\ s[i] = t[i - 1])
    BY <1>1 DEF Deletes
  <1>3. \A i \in Deletes(t) : i + 1 \in Deletes(s) /\ i + 1 # 1 /\ t[i] = s[i + 1]
    BY <1>1 DEF Deletes
  <1>4. \A i \in Moves(s) : i - 1 \in Moves(t) /\ s[i] = t[i - 1]
    BY <1>1 DEF Moves
  <1>5. \A i \in Moves(t) : i + 1 \in Moves(s) /\ t[i] = s[i + 1]
    BY <1>1 DEF Moves
  <1>6. Head(s).to \in Nodes \cap DyingOf(s)
    BY <1>1, <1>2 DEF DyingOf, Shape
  <1>7. \A i \in Deletes(t) : t[i].to # Head(s).to
    BY <1>1, <1>2, <1>3 DEF Shape
  <1>8. DyingOf(t) = DyingOf(s) \ {Head(s).to}
    BY <1>1, <1>2, <1>3, <1>7 DEF DyingOf
  <1>9. VacatedOf(t) = VacatedOf(s) /\ Waiting(t) = Waiting(s)
    BY <1>4, <1>5 DEF VacatedOf, Waiting
  <1>10. \A i, k \in Deletes(t) : i # k => t[i].to # t[k].to
    <2>1. \A i, k \in Deletes(t) : i # k => i + 1 # k + 1
      BY DEF Deletes
    <2> QED
      BY <1>3, <2>1 DEF Shape
  <1>11. \A i \in Moves(t) : i = Len(t)
    <2>1. \A i \in Moves(t) : i \in Nat /\ i + 1 = Len(s)
      BY <1>5 DEF Shape, Moves
    <2> QED
      BY <1>1, <2>1
  <1>12. \A i \in Deletes(t) : t[i].to \in Nodes
    BY <1>3 DEF Shape
  <1> QED
    BY <1>1, <1>6, <1>8, <1>9, <1>10, <1>11, <1>12 DEF Shape, t

\* A move that goes on is the only call that waits.
LEMMA PopMove ==
  ASSUME NEW s, Shape(s), s # << >>, Head(s).call = "move"
  PROVE  /\ Head(s) \in Waiting(s) /\ Head(s) \in Calls
         /\ Tail(s) = << >>
         /\ DyingOf(s) = {} /\ VacatedOf(s) = {Head(s).to}
  <1>1. /\ Len(s) \in Nat /\ Head(s) = s[1] /\ Head(s) \in Calls /\ 1 \in 1 .. Len(s)
        /\ Tail(s) \in Seq(Calls) /\ Len(Tail(s)) = Len(s) - 1
    BY Rest DEF Shape
  <1>2. 1 \in Moves(s)
    BY <1>1 DEF Moves
  <1>3. Len(s) = 1
    BY <1>2 DEF Shape
  <1>4. Tail(s) = << >>
    <2>1. \A q \in Seq(Calls) : q # << >> => Len(q) # 0
      BY EmptySeq
    <2>2. Len(Tail(s)) = 0
      BY <1>1, <1>3
    <2> QED
      BY <1>1, <2>1, <2>2
  <1>5. 1 .. Len(s) = {1}
    BY <1>3
  <1>6. Deletes(s) = {} /\ Moves(s) = {1}
    BY <1>1, <1>2, <1>5 DEF Deletes, Moves
  <1> QED
    BY <1>1, <1>2, <1>4, <1>6 DEF DyingOf, VacatedOf, Waiting

\* Nothing waits.
LEMMA NoCalls ==
  /\ Shape(<< >>) /\ DyingOf(<< >>) = {} /\ VacatedOf(<< >>) = {} /\ Waiting(<< >>) = {}
  BY DEF Shape, DyingOf, VacatedOf, Waiting, Deletes, Moves

\* A move begins to wait.
LEMMA OneMove ==
  ASSUME NEW to \in Slots, NEW from \in Slots
  PROVE  LET s == <<MoveInto(to, from)>> IN
         /\ Shape(s) /\ DyingOf(s) = {} /\ VacatedOf(s) = {to}
         /\ Waiting(s) = {MoveInto(to, from)}
  <1> DEFINE s == <<MoveInto(to, from)>>
  <1>1. /\ s \in Seq(Calls) /\ Len(s) = 1 /\ s[1] = MoveInto(to, from)
        /\ s[1].call = "move" /\ s[1].to = to
    BY DEF MoveInto, Calls
  <1> HIDE DEF s
  <1>2. 1 .. Len(s) = {1}
    BY <1>1
  <1>3. Deletes(s) = {} /\ Moves(s) = {1}
    BY <1>1, <1>2 DEF Deletes, Moves
  <1> QED
    BY <1>1, <1>3 DEF Shape, DyingOf, VacatedOf, Waiting, s

-----------------------------------------------------------------------------
(* Counting the pointers to an object: the slots of H, with the pointers p.*)

Pointing(H, p, n) == {s \in H : p[s] = n}
One(n, a) == IF n = a THEN 1 ELSE 0

LEMMA FinitePointing ==
  ASSUME NEW H, IsFiniteSet(H), NEW p, NEW n
  PROVE  IsFiniteSet(Pointing(H, p, n)) /\ Cardinality(Pointing(H, p, n)) \in Nat
  BY FS_Subset, FS_CardinalityType DEF Pointing

\* A slot that is used no more.
LEMMA LessOne ==
  ASSUME NEW H, IsFiniteSet(H), NEW p, NEW n, NEW x \in H
  PROVE  Cardinality(Pointing(H, p, n))
           = Cardinality(Pointing(H \ {x}, p, n)) + One(n, p[x])
  <1>1. /\ IsFiniteSet(Pointing(H, p, n)) /\ Cardinality(Pointing(H, p, n)) \in Nat
        /\ Pointing(H \ {x}, p, n) = Pointing(H, p, n) \ {x}
        /\ x \in Pointing(H, p, n) <=> n = p[x]
    <2>1. IsFiniteSet(Pointing(H, p, n)) /\ Cardinality(Pointing(H, p, n)) \in Nat
      BY FinitePointing
    <2>2. /\ Pointing(H \ {x}, p, n) = Pointing(H, p, n) \ {x}
          /\ x \in Pointing(H, p, n) <=> n = p[x]
      BY DEF Pointing
    <2> QED
      BY <2>1, <2>2
  <1>2. Cardinality(Pointing(H, p, n) \ {x})
          = IF x \in Pointing(H, p, n) THEN Cardinality(Pointing(H, p, n)) - 1
                                       ELSE Cardinality(Pointing(H, p, n))
    BY <1>1, FS_RemoveElement
  <1> QED
    BY <1>1, <1>2 DEF One

\* A slot that is assigned.
LEMMA Redirect ==
  ASSUME NEW H, IsFiniteSet(H), NEW p, NEW q, NEW n, NEW x \in H,
         \A s \in H \ {x} : q[s] = p[s]
  PROVE  Cardinality(Pointing(H, q, n)) + One(n, p[x])
           = Cardinality(Pointing(H, p, n)) + One(n, q[x])
  <1>1. Pointing(H \ {x}, q, n) = Pointing(H \ {x}, p, n)
    BY DEF Pointing
  <1>2. Cardinality(Pointing(H, p, n))
          = Cardinality(Pointing(H \ {x}, p, n)) + One(n, p[x])
    BY LessOne
  <1>3. Cardinality(Pointing(H, q, n))
          = Cardinality(Pointing(H \ {x}, p, n)) + One(n, q[x])
    BY <1>1, LessOne
  <1>4. Cardinality(Pointing(H \ {x}, p, n)) \in Nat
    <2>1. IsFiniteSet(H \ {x})
      BY FS_RemoveElement
    <2> QED
      BY <2>1, FinitePointing
  <1>5. One(n, q[x]) \in Nat /\ One(n, p[x]) \in Nat
    BY DEF One
  <1> QED
    BY <1>2, <1>3, <1>4, <1>5

-----------------------------------------------------------------------------
(* Objects L, calls s, pointers p and counts c.  The counts are right but  *)
(* for one pointer to a, gone from its slot and not yet released.          *)

HoldingOf(L, s) == (Locals \cup L \cup DyingOf(s)) \ VacatedOf(s)

Balanced(L, s, p, c, a) ==
  /\ \A n \in L :
       /\ c[n] > 0
       /\ c[n] = Cardinality(Pointing(HoldingOf(L, s), p, n)) + One(n, a)
  /\ \A x \in HoldingOf(L, s) : p[x] \in L \cup {Null}

Calm(L, s) == Shape(s) /\ L \subseteq Nodes /\ DyingOf(s) \cap L = {}

LEMMA FiniteHolding ==
  ASSUME NEW L, NEW s, Calm(L, s)
  PROVE  IsFiniteSet(HoldingOf(L, s)) /\ HoldingOf(L, s) \subseteq Slots
  <1>1. DyingOf(s) \subseteq Nodes
    BY DEF Calm, Shape, DyingOf
  <1>2. ChunkSize * MaxChunks \in Nat
    BY MemoryAssumption
  <1>3. IsFiniteSet(Nodes)
    BY <1>2, FS_Interval DEF Nodes
  <1>4. IsFiniteSet(Slots)
    BY <1>3, MemoryAssumption, FS_Union DEF Slots
  <1>5. HoldingOf(L, s) \subseteq Slots
    BY <1>1 DEF HoldingOf, Slots, Calm
  <1> QED
    BY <1>4, <1>5, FS_Subset

\* What the invariants say in these terms.
LEMMA InTheseTerms ==
  ASSUME Calm(live, stack)
  PROVE  /\ Dying = DyingOf(stack) /\ Vacated = VacatedOf(stack)
         /\ Holding = HoldingOf(live, stack)
         /\ CountExact /\ NoDangling <=> Balanced(live, stack, ptr, count, Null)
  <1>1. Dying = DyingOf(stack) /\ Vacated = VacatedOf(stack)
    BY DEF Dying, DyingOf, Vacated, VacatedOf, Deletes, Moves
  <1>2. Holding = HoldingOf(live, stack)
    BY <1>1 DEF Holding, HoldingOf
  <1>3. ASSUME NEW n \in live
        PROVE  Cardinality(Pointing(Holding, ptr, n))
                 = Cardinality(Pointing(Holding, ptr, n)) + One(n, Null)
    <2>1. One(n, Null) = 0
      BY MemoryAssumption DEF One, Nodes, Calm
    <2>2. Cardinality(Pointing(Holding, ptr, n)) \in Nat
      BY <1>2, FiniteHolding, FinitePointing
    <2> QED
      BY <2>1, <2>2
  <1>4. CountExact
          <=> \A n \in live :
                count[n] > 0 /\ count[n] = Cardinality(Pointing(Holding, ptr, n))
    BY DEF CountExact, Pointing
  <1> QED
    BY <1>1, <1>2, <1>3, <1>4 DEF NoDangling, Balanced

\* A release restores the balance, and goes on with the destructor at zero.
LEMMA Released ==
  ASSUME NEW s, Calm(live, s), NEW p \in [Slots -> Nodes \cup {Null}],
         NEW c \in [Nodes -> Nat], NEW a \in live \cup {Null},
         Balanced(live, s, p, c, a), Release(a, c, s)
  PROVE  /\ Balanced(live', stack', p, count', Null)
         /\ Calm(live', stack') /\ count' \in [Nodes -> Nat]
         /\ live' \cup DyingOf(stack') = live \cup DyingOf(s)
         /\ HoldingOf(live', stack') = HoldingOf(live, s)
         /\ Waiting(stack') = Waiting(s)
  <1> DEFINE H == HoldingOf(live, s)
             Number(n) == Cardinality(Pointing(H, p, n))
  <1>1. \A n : IsFiniteSet(Pointing(H, p, n)) /\ Number(n) \in Nat
    BY FiniteHolding, FinitePointing
  <1>2. \A n \in live : c[n] > 0 /\ c[n] = Number(n) + One(n, a)
    BY DEF Balanced
  <1>3. \A x \in H : p[x] \in live \cup {Null}
    BY DEF Balanced
  <1>4. Null \notin Nodes /\ live \subseteq Nodes
    BY MemoryAssumption DEF Nodes, Calm
  <1> HIDE DEF H, Number
  <1>5. CASE a = Null
    BY <1>5 DEF Release, Calm
  <1>6. CASE a # Null /\ c[a] = 1
    <2>1. /\ a \in live /\ a \in Nodes
          /\ count' = [c EXCEPT ![a] = @ - 1]
          /\ stack' = <<Destructor(a)>> \o s /\ live' = live \ {a}
      BY <1>4, <1>6 DEF Release
    <2>2. /\ Shape(stack') /\ DyingOf(stack') = DyingOf(s) \cup {a}
          /\ VacatedOf(stack') = VacatedOf(s) /\ Waiting(stack') = Waiting(s)
      BY <2>1, PushDestructor DEF Calm
    <2>3. HoldingOf(live', stack') = H
      BY <2>1, <2>2 DEF HoldingOf, H
    <2>4. Calm(live', stack')
      BY <2>1, <2>2 DEF Calm
    <2>5. Pointing(H, p, a) = {}
      <3>1. Number(a) = 0
        BY <1>1, <1>2, <1>6, <2>1 DEF One
      <3> QED
        BY <1>1, <3>1, FS_EmptySet DEF Number
    <2>6. \A x \in H : p[x] \in live' \cup {Null}
      BY <1>3, <2>1, <2>5 DEF Pointing
    <2>7. \A n \in live' : count'[n] > 0 /\ count'[n] = Number(n) + One(n, Null)
      BY <1>1, <1>2, <1>4, <2>1 DEF One
    <2>8. count' \in [Nodes -> Nat]
      <3>1. c[a] - 1 \in Nat
        BY <1>6
      <3> QED
        BY <2>1, <3>1
    <2> QED
      BY <2>1, <2>2, <2>3, <2>4, <2>6, <2>7, <2>8 DEF Balanced, H, Number
  <1>7. CASE a # Null /\ c[a] # 1
    <2>1. /\ a \in live /\ a \in Nodes
          /\ count' = [c EXCEPT ![a] = @ - 1] /\ stack' = s /\ live' = live
      BY <1>4, <1>7 DEF Release
    <2>2. c[a] - 1 \in Nat \ {0}
      BY <1>2, <1>7, <2>1
    <2>3. \A n \in live' : count'[n] > 0 /\ count'[n] = Number(n) + One(n, Null)
      <3> SUFFICES ASSUME NEW n \in live
                   PROVE  count'[n] > 0 /\ count'[n] = Number(n) + One(n, Null)
        BY <2>1
      <3>1. CASE n = a
        BY <1>1, <1>2, <1>4, <2>1, <2>2, <3>1 DEF One
      <3>2. CASE n # a
        BY <1>1, <1>2, <1>4, <2>1, <3>2 DEF One
      <3> QED
        BY <3>1, <3>2
    <2>4. count' \in [Nodes -> Nat]
      BY <2>1, <2>2
    <2> QED
      BY <1>3, <2>1, <2>3, <2>4 DEF Balanced, H, Number
  <1> QED
    BY <1>5, <1>6, <1>7

-----------------------------------------------------------------------------
(* The counts, step by step.                                               *)

RefInv ==
  /\ count \in [Nodes -> Nat]
  /\ ptr \in [Slots -> Nodes \cup {Null}]
  /\ Calm(live, stack) /\ MoveInv
  /\ Balanced(live, stack, ptr, count, Null)

LEMMA NullIsNoSlot == Null \notin Slots /\ Null \notin Nodes /\ Locals \cap Nodes = {}
  BY MemoryAssumption DEF Slots, Nodes

LEMMA NothingWaits ==
  ASSUME stack = << >>
  PROVE  /\ HoldingOf(live, stack) = Locals \cup live
         /\ DyingOf(stack) = {} /\ VacatedOf(stack) = {} /\ Waiting(stack) = {}
  BY NoCalls DEF HoldingOf

\* A slot that can be named is outside objects or in one that is alive.
LEMMA UsableIsAlive ==
  ASSUME RefInv, NEW s \in Slots, NEW but, Usable(s, but), VacatedOf(stack) \subseteq {but}
  PROVE  s \in Locals \cup live
  <1>1. CASE s \in Locals
    BY <1>1
  <1>2. ASSUME NEW h \in Locals \ {but}, ptr[h] = s
        PROVE  s \in live
    <2>1. h \in HoldingOf(live, stack)
      BY <1>2 DEF HoldingOf
    <2> QED
      BY <1>2, <2>1, NullIsNoSlot DEF RefInv, Balanced
  <1> QED
    BY <1>1, <1>2 DEF Usable

\* Numbers of pointers are numbers.
LEMMA Counted ==
  ASSUME RefInv, NEW n, NEW p
  PROVE  /\ Cardinality(Pointing(HoldingOf(live, stack), p, n)) \in Nat
         /\ \A a : One(n, a) \in Nat
         /\ n \in Nodes => One(n, Null) = 0
  BY FiniteHolding, FinitePointing, NullIsNoSlot DEF RefInv, One

\* A slot points elsewhere, and the pointer that it had is still to be released.
LEMMA Overwritten ==
  ASSUME RefInv, NEW x \in HoldingOf(live, stack), NEW b \in live \cup {Null},
         NEW c \in [Nodes -> Nat], c = AddRef(b)
  PROVE  /\ Balanced(live, stack, [ptr EXCEPT ![x] = b], c, ptr[x])
         /\ ptr[x] \in live \cup {Null}
         /\ [ptr EXCEPT ![x] = b] \in [Slots -> Nodes \cup {Null}]
  <1> DEFINE H == HoldingOf(live, stack)
             q == [ptr EXCEPT ![x] = b]
  <1>1. IsFiniteSet(H) /\ H \subseteq Slots /\ x \in H /\ x \in Slots /\ live \subseteq Nodes
    BY FiniteHolding DEF RefInv, Calm
  <1>2. ASSUME NEW n \in live
        PROVE  c[n] > 0 /\ c[n] = Cardinality(Pointing(H, q, n)) + One(n, ptr[x])
    <2>1. count[n] > 0 /\ count[n] = Cardinality(Pointing(H, ptr, n)) + One(n, Null)
      BY DEF RefInv, Balanced
    <2>2. c[n] = count[n] + One(n, b)
      BY <1>1, NullIsNoSlot DEF AddRef, One, RefInv
    <2>3. Cardinality(Pointing(H, q, n)) + One(n, ptr[x])
            = Cardinality(Pointing(H, ptr, n)) + One(n, b)
      <3>1. q[x] = b /\ \A s \in H \ {x} : q[s] = ptr[s]
        BY <1>1 DEF RefInv
      <3> HIDE DEF H, q
      <3> QED
        BY <1>1, <3>1, Redirect
    <2>4. Cardinality(Pointing(H, ptr, n)) \in Nat /\ One(n, Null) = 0 /\ One(n, b) \in Nat
      BY <1>1, Counted
    <2> QED
      BY <2>1, <2>2, <2>3, <2>4
  <1>3. \A y \in H : ptr[y] \in live \cup {Null}
    BY DEF RefInv, Balanced
  <1>4. \A y \in H : q[y] \in live \cup {Null}
    BY <1>1, <1>3 DEF RefInv
  <1>5. q \in [Slots -> Nodes \cup {Null}]
    BY <1>1 DEF RefInv
  <1> QED
    BY <1>2, <1>3, <1>4, <1>5 DEF Balanced

\* The assignments and the destructors that release what a slot pointed to.  A
\* move that waits is not disturbed by what destructors do.
LEMMA ReleasesKeepRefInv ==
  ASSUME RefInv, NEW x \in HoldingOf(live, stack), NEW b \in live \cup {Null},
         ptr' = [ptr EXCEPT ![x] = b],
         Release(ptr[x], AddRef(b), stack),
         stack = << >> \/ x \notin Locals
  PROVE  RefInv' /\ live' \cup DyingOf(stack') = live \cup DyingOf(stack)
  <1>1. AddRef(b) \in [Nodes -> Nat]
    <2>1. b \in Nodes => count[b] \in Nat
      BY DEF RefInv
    <2> QED
      BY <2>1 DEF AddRef, RefInv, Calm
  <1>2. /\ Balanced(live, stack, ptr', AddRef(b), ptr[x])
        /\ ptr[x] \in live \cup {Null} /\ ptr' \in [Slots -> Nodes \cup {Null}]
    BY <1>1, Overwritten
  <1>3. /\ Balanced(live', stack', ptr', count', Null)
        /\ Calm(live', stack') /\ count' \in [Nodes -> Nat]
        /\ live' \cup DyingOf(stack') = live \cup DyingOf(stack)
        /\ Waiting(stack') = Waiting(stack)
    BY <1>1, <1>2, Released DEF RefInv
  <1>4. MoveInv'
    <2>1. CASE stack = << >>
      BY <1>3, <2>1, NothingWaits DEF MoveInv
    <2>2. CASE x \notin Locals
      <3>1. \A h \in Locals : ptr'[h] = ptr[h]
        BY <2>2 DEF RefInv, Slots
      <3>2. \A s, but : Usable(s, but) => Usable(s, but)'
        BY <3>1 DEF Usable
      <3> QED
        BY <1>3, <3>2 DEF MoveInv, RefInv
    <2> QED
      BY <2>1, <2>2
  <1> QED
    BY <1>2, <1>3, <1>4 DEF RefInv

LEMMA CopyAssignCounts ==
  ASSUME RefInv, NEW to \in Slots, NEW from \in Slots, CopyAssign(to, from)
  PROVE  RefInv' /\ live' \cup DyingOf(stack') = live \cup DyingOf(stack)
  <1>1. stack = << >> /\ Usable(to, to) /\ Usable(from, Null)
    BY DEF CopyAssign
  <1>2. to \in Locals \cup live /\ from \in Locals \cup live
    BY <1>1, UsableIsAlive, NothingWaits
  <1>3. to \in HoldingOf(live, stack) /\ ptr[from] \in live \cup {Null}
    BY <1>1, <1>2, NothingWaits DEF RefInv, Balanced
  <1>4. /\ ptr' = [ptr EXCEPT ![to] = ptr[from]]
        /\ Release(ptr[to], AddRef(ptr[from]), stack)
    BY <1>1 DEF CopyAssign
  <1> QED
    BY <1>1, <1>3, <1>4, ReleasesKeepRefInv

LEMMA DestroyCounts ==
  ASSUME RefInv, NEW h \in Locals, Destroy(h)
  PROVE  RefInv' /\ live' \cup DyingOf(stack') = live \cup DyingOf(stack)
  <1>1. stack = << >> /\ h \in HoldingOf(live, stack)
    BY NothingWaits DEF Destroy
  <1>2. /\ ptr' = [ptr EXCEPT ![h] = Null]
        /\ Release(ptr[h], AddRef(Null), stack)
    BY <1>1 DEF Destroy, AddRef
  <1> QED
    BY <1>1, <1>2, ReleasesKeepRefInv

\* The target of a move is outside objects or in one that is alive, so a
\* destructor that runs meanwhile is of another.
LEMMA MoveTargets ==
  ASSUME RefInv, NEW m \in Waiting(stack), VacatedOf(stack) = {m.to}
  PROVE  m.to # m.from /\ {m.to, m.from} \subseteq Locals \cup live
  <1>1. m \in Calls
    BY DEF Waiting, Moves, RefInv, Calm, Shape
  <1>2. m.to # m.from /\ Usable(m.to, m.to) /\ Usable(m.from, m.to)
    BY DEF RefInv, MoveInv
  <1> QED
    BY <1>1, <1>2, UsableIsAlive DEF Calls

LEMMA VacatedIsAlive ==
  ASSUME RefInv
  PROVE  VacatedOf(stack) \subseteq Locals \cup live
  <1> SUFFICES ASSUME NEW i \in Moves(stack)
               PROVE  stack[i].to \in Locals \cup live
    BY DEF VacatedOf
  <1>1. \A k \in Moves(stack) : k = i
    BY DEF RefInv, Calm, Shape
  <1>2. stack[i] \in Waiting(stack) /\ VacatedOf(stack) = {stack[i].to}
    BY <1>1 DEF Waiting, VacatedOf
  <1> QED
    BY <1>2, MoveTargets

LEMMA DestroyMemberCounts ==
  ASSUME RefInv, DestroyMember
  PROVE  RefInv' /\ live' \cup DyingOf(stack') = live \cup DyingOf(stack)
  <1> DEFINE n == Head(stack).to
  <1>1. /\ stack # << >> /\ Head(stack).call = "delete"
        /\ ptr' = [ptr EXCEPT ![n] = Null]
        /\ Release(ptr[n], AddRef(Null), stack)
    BY DEF DestroyMember, AddRef
  <1>2. n \in Nodes \cap DyingOf(stack)
    BY <1>1, PopDestructor DEF RefInv, Calm
  <1>3. n \notin Locals /\ n \notin live
    BY <1>2, NullIsNoSlot DEF RefInv, Calm
  <1>4. n \in HoldingOf(live, stack)
    BY <1>2, <1>3, VacatedIsAlive DEF HoldingOf
  <1> HIDE DEF n
  <1> QED
    BY <1>1, <1>3, <1>4, ReleasesKeepRefInv

LEMMA CopyConstructCounts ==
  ASSUME RefInv, NEW h \in Locals, NEW from \in Slots, CopyConstruct(h, from)
  PROVE  RefInv'
  <1>1. /\ stack = << >> /\ ptr[h] = Null /\ Usable(from, h)
        /\ count' = AddRef(ptr[from]) /\ ptr' = [ptr EXCEPT ![h] = ptr[from]]
        /\ live' = live /\ stack' = stack
    BY DEF CopyConstruct
  <1>2. from \in Locals \cup live
    BY <1>1, UsableIsAlive, NothingWaits
  <1>3. h \in HoldingOf(live, stack) /\ ptr[from] \in live \cup {Null}
    BY <1>1, <1>2, NothingWaits DEF RefInv, Balanced
  <1>4. count' \in [Nodes -> Nat]
    <2>1. ptr[from] \in Nodes => count[ptr[from]] \in Nat
      BY DEF RefInv
    <2> QED
      BY <1>1, <2>1 DEF AddRef, RefInv, Calm
  <1>5. Balanced(live, stack, ptr', count', Null) /\ ptr' \in [Slots -> Nodes \cup {Null}]
    BY <1>1, <1>3, <1>4, Overwritten
  <1>6. MoveInv'
    BY <1>1, NothingWaits DEF MoveInv
  <1> QED
    BY <1>1, <1>4, <1>5, <1>6 DEF RefInv

\* Slots h and from, where h points to nothing, after a pointer moved to h.
LEMMA MoveConstructCounts ==
  ASSUME RefInv, NEW h \in Locals, NEW from \in Slots, MoveConstruct(h, from)
  PROVE  RefInv'
  <1> DEFINE H == HoldingOf(live, stack)
             mid == [ptr EXCEPT ![from] = Null]
  <1>1. /\ stack = << >> /\ ptr[h] = Null /\ h # from /\ Usable(from, h)
        /\ ptr' = [ptr EXCEPT ![h] = ptr[from], ![from] = Null]
        /\ live' = live /\ stack' = stack /\ count' = count
    BY DEF MoveConstruct
  <1>2. from \in Locals \cup live
    BY <1>1, UsableIsAlive, NothingWaits
  <1>3. /\ h \in H /\ from \in H /\ ptr[from] \in live \cup {Null}
        /\ H \subseteq Slots /\ IsFiniteSet(H) /\ live \subseteq Nodes
    BY <1>1, <1>2, NothingWaits, FiniteHolding DEF RefInv, Balanced, Calm
  <1>4. /\ \A s \in H \ {from} : mid[s] = ptr[s]
        /\ \A s \in H \ {h} : ptr'[s] = mid[s]
        /\ mid[from] = Null /\ mid[h] = Null /\ ptr'[h] = ptr[from] /\ ptr'[from] = Null
    BY <1>1, <1>3 DEF RefInv
  <1>5. \A n \in live :
          count[n] > 0 /\ count[n] = Cardinality(Pointing(H, ptr', n)) + One(n, Null)
    <2> SUFFICES ASSUME NEW n \in live
                 PROVE  /\ count[n] > 0
                        /\ count[n] = Cardinality(Pointing(H, ptr', n)) + One(n, Null)
      OBVIOUS
    <2>1. count[n] > 0 /\ count[n] = Cardinality(Pointing(H, ptr, n)) + One(n, Null)
      BY DEF RefInv, Balanced
    <2>2. /\ \A p : Cardinality(Pointing(H, p, n)) \in Nat
          /\ \A a : One(n, a) \in Nat
          /\ One(n, Null) = 0
      BY <1>3, Counted
    <2> HIDE DEF H, mid
    <2>3. Cardinality(Pointing(H, mid, n)) + One(n, ptr[from])
            = Cardinality(Pointing(H, ptr, n)) + One(n, mid[from])
      BY <1>3, <1>4, Redirect
    <2>4. Cardinality(Pointing(H, ptr', n)) + One(n, mid[h])
            = Cardinality(Pointing(H, mid, n)) + One(n, ptr'[h])
      BY <1>3, <1>4, Redirect
    <2> QED
      BY <1>4, <2>1, <2>2, <2>3, <2>4
  <1>6. \A s \in H : ptr'[s] \in live \cup {Null}
    <2>1. \A s \in H : ptr[s] \in live \cup {Null}
      BY DEF RefInv, Balanced
    <2> QED
      BY <1>3, <1>4, <2>1
  <1>7. ptr' \in [Slots -> Nodes \cup {Null}]
    BY <1>1, <1>3 DEF RefInv
  <1>8. MoveInv'
    BY <1>1, NothingWaits DEF MoveInv
  <1> QED
    BY <1>1, <1>5, <1>6, <1>7, <1>8 DEF RefInv, Balanced

LEMMA MoveAssignCounts ==
  ASSUME RefInv, NEW to \in Slots, NEW from \in Slots, MoveAssign(to, from)
  PROVE  RefInv' /\ live' \cup DyingOf(stack') = live \cup DyingOf(stack)
  <1> DEFINE w == <<MoveInto(to, from)>>
             H == HoldingOf(live, stack)
  <1>1. /\ stack = << >> /\ to # from /\ Usable(to, to) /\ Usable(from, to)
        /\ Release(ptr[to], count, w) /\ ptr' = ptr
    BY DEF MoveAssign
  <1>2. to \in Locals \cup live
    BY <1>1, UsableIsAlive, NothingWaits
  <1>3. /\ to \in H /\ ptr[to] \in live \cup {Null}
        /\ IsFiniteSet(H) /\ live \subseteq Nodes
    BY <1>1, <1>2, NothingWaits, FiniteHolding DEF RefInv, Balanced, Calm
  <1>4. /\ Calm(live, w) /\ DyingOf(w) = {} /\ DyingOf(stack) = {}
        /\ HoldingOf(live, w) = H \ {to} /\ Waiting(w) = {MoveInto(to, from)}
    BY <1>1, <1>3, OneMove, NothingWaits DEF Calm, HoldingOf
  <1>5. Balanced(live, w, ptr, count, ptr[to])
    <2>1. ASSUME NEW n \in live
          PROVE  /\ count[n] > 0
                 /\ count[n] = Cardinality(Pointing(H \ {to}, ptr, n)) + One(n, ptr[to])
      <3>1. count[n] > 0 /\ count[n] = Cardinality(Pointing(H, ptr, n)) + One(n, Null)
        BY DEF RefInv, Balanced
      <3>2. Cardinality(Pointing(H, ptr, n)) \in Nat /\ One(n, Null) = 0
        BY <1>3, Counted
      <3> HIDE DEF H
      <3>3. Cardinality(Pointing(H, ptr, n))
              = Cardinality(Pointing(H \ {to}, ptr, n)) + One(n, ptr[to])
        BY <1>3, LessOne
      <3> QED
        BY <3>1, <3>2, <3>3
    <2>2. \A x \in H \ {to} : ptr[x] \in live \cup {Null}
      BY DEF RefInv, Balanced
    <2> QED
      BY <1>4, <2>1, <2>2 DEF Balanced
  <1> HIDE DEF w, H
  <1>6. /\ Balanced(live', stack', ptr, count', Null)
        /\ Calm(live', stack') /\ count' \in [Nodes -> Nat]
        /\ live' \cup DyingOf(stack') = live \cup DyingOf(stack)
        /\ Waiting(stack') = {MoveInto(to, from)}
    BY <1>1, <1>3, <1>4, <1>5, Released DEF RefInv
  <1>7. MoveInv'
    BY <1>1, <1>6 DEF MoveInv, MoveInto, Usable
  <1> QED
    BY <1>1, <1>6, <1>7 DEF RefInv

LEMMA FinishMoveCounts ==
  ASSUME RefInv, FinishMove
  PROVE  RefInv' /\ live' \cup DyingOf(stack') = live \cup DyingOf(stack)
  <1> DEFINE m == Head(stack)
             H == HoldingOf(live, stack)
  <1>1. /\ stack # << >> /\ m.call = "move"
        /\ ptr' = [ptr EXCEPT ![m.to] = ptr[m.from], ![m.from] = Null]
        /\ stack' = Tail(stack) /\ live' = live /\ count' = count
    BY DEF FinishMove
  <1>2. /\ m \in Waiting(stack) /\ stack' = << >>
        /\ DyingOf(stack) = {} /\ VacatedOf(stack) = {m.to}
    BY <1>1, PopMove DEF RefInv, Calm
  <1>3. m.to # m.from /\ {m.to, m.from} \subseteq Locals \cup live
    BY <1>2, MoveTargets
  <1>4. /\ DyingOf(stack') = {} /\ Waiting(stack') = {} /\ Shape(stack')
        /\ HoldingOf(live, stack') = Locals \cup live /\ H = (Locals \cup live) \ {m.to}
    BY <1>2, NoCalls DEF HoldingOf
  <1>5. /\ m.from \in H /\ m.to \notin H /\ H \subseteq Slots /\ IsFiniteSet(H)
        /\ m.to \in Slots /\ live \subseteq Nodes
        /\ HoldingOf(live, stack') \ {m.to} = H /\ m.to \in HoldingOf(live, stack')
        /\ IsFiniteSet(HoldingOf(live, stack'))
    <2>1. IsFiniteSet(H) /\ H \subseteq Slots /\ live \subseteq Nodes
      BY FiniteHolding DEF RefInv, Calm
    <2>2. Calm(live, stack')
      BY <1>4, <2>1 DEF Calm
    <2> QED
      BY <1>3, <1>4, <2>1, <2>2, FiniteHolding
  <1>6. ptr[m.from] \in live \cup {Null} /\ \A s \in H : ptr[s] \in live \cup {Null}
    BY <1>5 DEF RefInv, Balanced
  <1>7. /\ \A s \in H \ {m.from} : ptr'[s] = ptr[s]
        /\ ptr'[m.to] = ptr[m.from] /\ ptr'[m.from] = Null
    BY <1>1, <1>3, <1>5 DEF RefInv
  <1>8. ASSUME NEW n \in live
        PROVE  /\ count[n] > 0
               /\ count[n] = Cardinality(Pointing(HoldingOf(live, stack'), ptr', n))
                               + One(n, Null)
    <2>1. count[n] > 0 /\ count[n] = Cardinality(Pointing(H, ptr, n)) + One(n, Null)
      BY DEF RefInv, Balanced
    <2>2. /\ \A p : Cardinality(Pointing(H, p, n)) \in Nat
          /\ \A a : One(n, a) \in Nat
          /\ One(n, Null) = 0
      BY <1>5, Counted
    <2> DEFINE G == HoldingOf(live, stack')
    <2> HIDE DEF H, G, m
    <2>3. Cardinality(Pointing(H, ptr', n)) + One(n, ptr[m.from])
            = Cardinality(Pointing(H, ptr, n)) + One(n, ptr'[m.from])
      BY <1>5, <1>7, Redirect
    <2>4. Cardinality(Pointing(G, ptr', n))
            = Cardinality(Pointing(G \ {m.to}, ptr', n)) + One(n, ptr'[m.to])
      BY <1>5, LessOne DEF G
    <2>5. G \ {m.to} = H
      BY <1>5 DEF G
    <2>6. Cardinality(Pointing(G, ptr', n)) = Cardinality(Pointing(H, ptr, n))
      BY <1>7, <2>2, <2>3, <2>4, <2>5
    <2> QED
      BY <2>1, <2>6 DEF G
  <1>9. \A s \in HoldingOf(live, stack') : ptr'[s] \in live \cup {Null}
    BY <1>5, <1>6, <1>7
  <1>10. ptr' \in [Slots -> Nodes \cup {Null}]
    BY <1>1, <1>5, <1>6 DEF RefInv
  <1>11. Calm(live', stack') /\ MoveInv'
    BY <1>1, <1>4, <1>5 DEF Calm, MoveInv
  <1> QED
    BY <1>1, <1>2, <1>4, <1>8, <1>9, <1>10, <1>11 DEF RefInv, Balanced

\* A new object, which nothing points to yet, and its member, which points nowhere.
LEMMA MakeCounts ==
  ASSUME RefInv, NEW h \in Locals, Make(h), Head(free) \in Nodes \ live
  PROVE  RefInv'
  <1> DEFINE k == Head(free)
             H == HoldingOf(live, stack)
             G == HoldingOf(live', stack')
  <1>1. /\ stack = << >> /\ ptr[h] = Null /\ live' = live \cup {k} /\ stack' = stack
        /\ count' = [count EXCEPT ![k] = 1]
        /\ ptr' = [ptr EXCEPT ![h] = k, ![k] = Null]
    BY DEF Make
  <1>2. k \in Nodes /\ k \notin live /\ k \notin Locals /\ h \in Slots /\ k \in Slots
    BY NullIsNoSlot DEF Slots
  <1> HIDE DEF k
  <1>3. H = Locals \cup live /\ G = H \cup {k} /\ h \in H /\ k \notin H /\ h # k
    BY <1>1, <1>2, NothingWaits DEF HoldingOf
  <1>4. H \subseteq Slots /\ IsFiniteSet(H) /\ live \subseteq Nodes
    BY FiniteHolding DEF RefInv, Calm
  <1>5. /\ ptr'[h] = k /\ ptr'[k] = Null
        /\ \A s \in H \ {h} : ptr'[s] = ptr[s]
    BY <1>1, <1>2, <1>3, <1>4 DEF RefInv
  <1>6. \A s \in H : ptr[s] \in live \cup {Null}
    BY DEF RefInv, Balanced
  <1>7. \A s \in G : ptr'[s] \in live' \cup {Null}
    <2> HIDE DEF H, G
    <2> SUFFICES ASSUME NEW s \in G
                 PROVE  ptr'[s] \in live' \cup {Null}
      OBVIOUS
    <2>1. CASE s = k \/ s = h
      BY <1>1, <1>5, <2>1
    <2>2. CASE s \in H \ {h}
      <3>1. ptr'[s] = ptr[s] /\ ptr[s] \in live \cup {Null}
        BY <1>5, <1>6, <2>2
      <3> QED
        BY <1>1, <3>1
    <2> QED
      BY <1>3, <2>1, <2>2
  <1>8. ASSUME NEW n \in live'
        PROVE  count'[n] > 0 /\ count'[n] = Cardinality(Pointing(G, ptr', n)) + One(n, Null)
    <2> HIDE DEF H, G
    <2>1. CASE n = k
      <3>1. Pointing(G, ptr', n) = {h}
        <4>1. ptr'[h] = n /\ h \in G
          BY <1>3, <1>5, <2>1
        <4>2. ASSUME NEW s \in G, s # h
              PROVE  ptr'[s] # n
          <5>1. CASE s = k
            BY <1>2, <1>5, <2>1, <5>1, NullIsNoSlot
          <5>2. CASE s # k
            <6>1. ptr'[s] = ptr[s] /\ ptr[s] \in live \cup {Null}
              BY <1>3, <1>5, <1>6, <4>2, <5>2
            <6> QED
              BY <1>2, <2>1, <6>1, NullIsNoSlot
          <5> QED
            BY <5>1, <5>2
        <4> QED
          BY <4>1, <4>2 DEF Pointing
      <3>2. One(n, Null) = 0 /\ count'[n] = 1
        BY <1>1, <1>2, <2>1, NullIsNoSlot DEF One, RefInv
      <3> QED
        BY <3>1, <3>2, FS_Singleton
    <2>2. CASE n # k
      <3>1. n \in live /\ n \in Nodes /\ n # Null
        BY <1>1, <1>4, <2>2, NullIsNoSlot
      <3>2. Pointing(G, ptr', n) = Pointing(H, ptr, n)
        BY <1>1, <1>3, <1>5, <2>2, <3>1 DEF Pointing
      <3>3. count'[n] = count[n]
        BY <1>1, <2>2, <3>1 DEF RefInv
      <3> QED
        BY <3>1, <3>2, <3>3 DEF RefInv, Balanced, H
    <2> QED
      BY <2>1, <2>2
  <1>9. Calm(live', stack') /\ MoveInv'
    BY <1>1, <1>2, NothingWaits DEF RefInv, Calm, MoveInv
  <1>10. /\ ptr' \in [Slots -> Nodes \cup {Null}]
         /\ count' \in [Nodes -> Nat]
    BY <1>1, <1>2 DEF RefInv
  <1> QED
    BY <1>7, <1>8, <1>9, <1>10 DEF RefInv, Balanced

\* A destructor that ends takes a slot away that points nowhere.
LEMMA DeallocateCounts ==
  ASSUME RefInv, Deallocate
  PROVE  /\ RefInv' /\ live' = live
         /\ Head(stack).to \in Nodes \cap DyingOf(stack)
         /\ DyingOf(stack') = DyingOf(stack) \ {Head(stack).to}
  <1> DEFINE n == Head(stack).to
             H == HoldingOf(live, stack)
             G == HoldingOf(live, stack')
  <1>1. /\ stack # << >> /\ Head(stack).call = "delete" /\ ptr[n] = Null
        /\ stack' = Tail(stack) /\ live' = live /\ count' = count /\ ptr' = ptr
    BY DEF Deallocate
  <1>2. /\ n \in Nodes \cap DyingOf(stack) /\ Shape(stack')
        /\ DyingOf(stack') = DyingOf(stack) \ {n}
        /\ VacatedOf(stack') = VacatedOf(stack) /\ Waiting(stack') = Waiting(stack)
    BY <1>1, PopDestructor DEF RefInv, Calm
  <1>3. n \notin Locals /\ n \notin live
    BY <1>2, NullIsNoSlot DEF RefInv, Calm
  <1> HIDE DEF n
  <1>4. G = H \ {n} /\ n \in H
    BY <1>2, <1>3, VacatedIsAlive DEF HoldingOf
  <1>5. IsFiniteSet(H) /\ live \subseteq Nodes
    BY FiniteHolding DEF RefInv, Calm
  <1>6. ASSUME NEW x \in live
        PROVE  count[x] > 0 /\ count[x] = Cardinality(Pointing(G, ptr, x)) + One(x, Null)
    <2>1. count[x] > 0 /\ count[x] = Cardinality(Pointing(H, ptr, x)) + One(x, Null)
      BY DEF RefInv, Balanced
    <2>2. Cardinality(Pointing(H, ptr, x)) \in Nat /\ One(x, Null) = 0
      BY <1>5, Counted
    <2>3. Cardinality(Pointing(G, ptr, x)) \in Nat
      <3>1. IsFiniteSet(G)
        BY <1>4, <1>5, FS_RemoveElement
      <3> QED
        BY <3>1, FinitePointing
    <2> HIDE DEF H, G
    <2>4. Cardinality(Pointing(H, ptr, x)) = Cardinality(Pointing(G, ptr, x)) + One(x, ptr[n])
      BY <1>4, <1>5, LessOne
    <2> QED
      BY <1>1, <2>1, <2>2, <2>3, <2>4
  <1>7. \A s \in G : ptr[s] \in live \cup {Null}
    BY <1>4 DEF RefInv, Balanced
  <1>8. Calm(live, stack') /\ MoveInv'
    BY <1>1, <1>2 DEF RefInv, Calm, MoveInv, Usable
  <1>9. RefInv'
    BY <1>1, <1>6, <1>7, <1>8 DEF RefInv, Balanced
  <1> QED
    BY <1>1, <1>2, <1>9 DEF n

-----------------------------------------------------------------------------
(* The nodes of the chunks.                                                *)

Listed(f) == {f[i] : i \in 1 .. Len(f)}
Once(f) == \A i, k \in 1 .. Len(f) : i # k => f[i] # f[k]

InUse == live \cup DyingOf(stack)

\* What is listed is there once, and the chunks are whole.
PoolInv ==
  /\ free \in Seq(Nodes) /\ Once(free) /\ Cardinality(Listed(free)) = Len(free)
  /\ \E k \in 1 .. MaxChunks : made = k * ChunkSize
  /\ InUse \cap Listed(free) = {}
  /\ InUse \cup Listed(free) = 1 .. made

LEMMA FiniteList ==
  ASSUME NEW f \in Seq(Nodes)
  PROVE  Listed(f) \subseteq Nodes /\ IsFiniteSet(Listed(f))
  <1>1. ChunkSize * MaxChunks \in Nat
    BY MemoryAssumption
  <1>2. IsFiniteSet(Nodes)
    BY <1>1, FS_Interval DEF Nodes
  <1>3. Listed(f) \subseteq Nodes
    BY DEF Listed
  <1> QED
    BY <1>2, <1>3, FS_Subset

LEMMA Listing ==
  ASSUME NEW f \in Seq(Nodes), Once(f), Cardinality(Listed(f)) = Len(f),
         NEW n \in Nodes \ Listed(f)
  PROVE  LET g == <<n>> \o f IN
         /\ g \in Seq(Nodes) /\ Once(g) /\ Listed(g) = Listed(f) \cup {n}
         /\ Cardinality(Listed(g)) = Len(g)
  <1> DEFINE g == <<n>> \o f
  <1>1. /\ g \in Seq(Nodes) /\ Len(g) = Len(f) + 1 /\ Len(f) \in Nat /\ g[1] = n
        /\ \A i \in 1 .. Len(f) : g[i + 1] = f[i] /\ i + 1 \in 1 .. Len(g) /\ i + 1 # 1
        /\ 1 \in 1 .. Len(g)
        /\ \A i \in 1 .. Len(g) : i # 1 => i - 1 \in 1 .. Len(f) /\ g[i] = f[i - 1]
    BY Cons
  <1> HIDE DEF g
  <1>2. Listed(g) = Listed(f) \cup {n}
    <2>1. ASSUME NEW i \in 1 .. Len(g)
          PROVE  g[i] \in Listed(f) \cup {n}
      <3>1. CASE i = 1
        BY <1>1, <3>1
      <3>2. CASE i # 1
        BY <1>1, <3>2 DEF Listed
      <3> QED
        BY <3>1, <3>2
    <2>2. ASSUME NEW i \in 1 .. Len(f)
          PROVE  f[i] \in Listed(g)
      <3>1. g[i + 1] = f[i] /\ i + 1 \in 1 .. Len(g)
        BY <1>1
      <3> QED
        BY <3>1 DEF Listed
    <2>3. n \in Listed(g)
      BY <1>1 DEF Listed
    <2> QED
      BY <2>1, <2>2, <2>3 DEF Listed
  <1>3. Once(g)
    <2>1. \A i \in 1 .. Len(f) : f[i] # n
      BY DEF Listed
    <2>2. \A i, k \in 1 .. Len(g) : i # k => i - 1 # k - 1
      OBVIOUS
    <2> QED
      BY <1>1, <2>1, <2>2 DEF Once
  <1>4. Cardinality(Listed(g)) = Len(g)
    BY <1>1, <1>2, FiniteList, FS_AddElement
  <1> QED
    BY <1>1, <1>2, <1>3, <1>4 DEF g

LEMMA Unlisting ==
  ASSUME NEW f \in Seq(Nodes), f # << >>, Once(f), Cardinality(Listed(f)) = Len(f)
  PROVE  LET g == Tail(f) IN
         /\ g \in Seq(Nodes) /\ Once(g) /\ Listed(g) = Listed(f) \ {Head(f)}
         /\ Head(f) \in Listed(f) /\ Cardinality(Listed(g)) = Len(g)
  <1> DEFINE g == Tail(f)
  <1>1. /\ g \in Seq(Nodes) /\ Len(g) = Len(f) - 1 /\ Len(f) \in Nat
        /\ Head(f) = f[1] /\ Head(f) \in Nodes /\ 1 \in 1 .. Len(f)
        /\ \A i \in 1 .. Len(g) : g[i] = f[i + 1] /\ i + 1 \in 1 .. Len(f) /\ i + 1 # 1
        /\ \A i \in 1 .. Len(f) : i # 1 => i - 1 \in 1 .. Len(g) /\ f[i] = g[i - 1]
    BY Rest
  <1> HIDE DEF g
  <1>2. Head(f) \in Listed(f)
    BY <1>1 DEF Listed
  <1>3. Listed(g) = Listed(f) \ {Head(f)}
    <2>1. ASSUME NEW i \in 1 .. Len(g)
          PROVE  g[i] \in Listed(f) /\ g[i] # Head(f)
      <3>1. g[i] = f[i + 1] /\ i + 1 \in 1 .. Len(f) /\ i + 1 # 1
        BY <1>1
      <3> QED
        BY <1>1, <3>1 DEF Listed, Once
    <2>2. Listed(f) \subseteq Listed(g) \cup {Head(f)}
      BY <1>1 DEF Listed
    <2> QED
      BY <2>1, <2>2 DEF Listed
  <1>4. Once(g)
    <2>1. \A i, k \in 1 .. Len(g) : i # k => i + 1 # k + 1
      OBVIOUS
    <2> QED
      BY <1>1, <2>1 DEF Once
  <1>5. Cardinality(Listed(g)) = Len(g)
    BY <1>1, <1>2, <1>3, FiniteList, FS_RemoveElement
  <1> QED
    BY <1>1, <1>2, <1>3, <1>4, <1>5 DEF g

LEMMA NewChunk ==
  ASSUME NEW m \in Nat, m + ChunkSize <= ChunkSize * MaxChunks
  PROVE  LET f == Chunk(m) IN
         /\ f \in Seq(Nodes) /\ Once(f) /\ Listed(f) = (m + 1) .. (m + ChunkSize)
         /\ Cardinality(Listed(f)) = Len(f)
  <1> DEFINE f == Chunk(m)
  <1>1. ChunkSize \in Nat \ {0} /\ ChunkSize * MaxChunks \in Nat
    BY MemoryAssumption
  <1>2. \A i \in 1 .. ChunkSize : m + i \in Nodes
    BY <1>1 DEF Nodes
  <1>3. f \in [1 .. ChunkSize -> Nodes]
    BY <1>2 DEF Chunk
  <1>4. f \in Seq(Nodes) /\ Len(f) = ChunkSize /\ \A i \in 1 .. ChunkSize : f[i] = m + i
    BY <1>1, <1>3 DEF Chunk
  <1> HIDE DEF f
  <1>5. Once(f)
    BY <1>4 DEF Once
  <1>6. Listed(f) = (m + 1) .. (m + ChunkSize)
    <2>1. ASSUME NEW n \in (m + 1) .. (m + ChunkSize)
          PROVE  n \in Listed(f)
      <3>1. n - m \in 1 .. ChunkSize /\ f[n - m] = n
        BY <1>1, <1>4
      <3> QED
        BY <1>4, <3>1 DEF Listed
    <2>2. Listed(f) \subseteq (m + 1) .. (m + ChunkSize)
      BY <1>1, <1>4 DEF Listed
    <2> QED
      BY <2>1, <2>2
  <1>7. Cardinality((m + 1) .. (m + ChunkSize)) = ChunkSize
    BY <1>1, FS_Interval
  <1> QED
    BY <1>4, <1>5, <1>6, <1>7 DEF f

\* Steps that neither take a node nor give one back.
LEMMA SameNodes ==
  ASSUME PoolInv, free' = free, made' = made, InUse' = InUse
  PROVE  PoolInv'
  BY DEF PoolInv

LEMMA AllocateChunkPool ==
  ASSUME RefInv, PoolInv, AllocateChunk
  PROVE  RefInv' /\ PoolInv'
  <1>1. /\ free = << >> /\ made < ChunkSize * MaxChunks
        /\ free' = Chunk(made) /\ made' = made + ChunkSize
        /\ UNCHANGED <<live, count, ptr, stack>>
    BY DEF AllocateChunk
  <1>2. RefInv' /\ InUse' = InUse
    BY <1>1 DEF RefInv, InUse, MoveInv, Usable
  <1>3. ChunkSize \in Nat \ {0} /\ MaxChunks \in Nat \ {0}
    BY MemoryAssumption
  <1>4. PICK k \in 1 .. MaxChunks : made = k * ChunkSize
    BY DEF PoolInv
  <1>5. k # MaxChunks
    BY <1>1, <1>3, <1>4
  <1>6. PICK d \in Nat : MaxChunks = k + 1 + d
    <2>1. MaxChunks - k - 1 \in Nat /\ MaxChunks = k + 1 + (MaxChunks - k - 1)
      BY <1>3, <1>5
    <2> QED
      BY <2>1
  <1>7. /\ made \in Nat /\ made + ChunkSize = (k + 1) * ChunkSize
        /\ made + ChunkSize <= ChunkSize * MaxChunks
    <2>1. k * ChunkSize \in Nat /\ d * ChunkSize \in Nat
      BY <1>3
    <2>2. (k + 1) * ChunkSize = k * ChunkSize + ChunkSize
      BY <1>3
    <2>3. ChunkSize * MaxChunks = k * ChunkSize + ChunkSize + d * ChunkSize
      BY <1>3, <1>6
    <2> QED
      BY <1>3, <1>4, <2>1, <2>2, <2>3
  <1>8. k + 1 \in 1 .. MaxChunks
    BY <1>3, <1>5
  <1>9. /\ free' \in Seq(Nodes) /\ Once(free') /\ Cardinality(Listed(free')) = Len(free')
        /\ Listed(free') = (made + 1) .. (made + ChunkSize)
    BY <1>1, <1>7, NewChunk
  <1>10. InUse = 1 .. made
    <2>1. Listed(free) = {}
      BY <1>1 DEF Listed
    <2> QED
      BY <2>1 DEF PoolInv
  <1>11. /\ InUse' \cap Listed(free') = {}
         /\ InUse' \cup Listed(free') = 1 .. made'
    BY <1>1, <1>2, <1>3, <1>7, <1>9, <1>10
  <1> QED
    BY <1>1, <1>2, <1>7, <1>8, <1>9, <1>11 DEF PoolInv

LEMMA MakePool ==
  ASSUME RefInv, PoolInv, NEW h \in Locals, Make(h)
  PROVE  RefInv' /\ PoolInv'
  <1> DEFINE k == Head(free)
  <1>1. /\ free # << >> /\ free' = Tail(free) /\ made' = made
        /\ live' = live \cup {k} /\ stack' = stack
    BY DEF Make
  <1>2. /\ free' \in Seq(Nodes) /\ Once(free') /\ Listed(free') = Listed(free) \ {k}
        /\ k \in Listed(free) /\ Cardinality(Listed(free')) = Len(free')
    BY <1>1, Unlisting DEF PoolInv
  <1>3. k \in Nodes /\ k \notin live
    BY <1>2, FiniteList DEF PoolInv, InUse
  <1>4. RefInv'
    BY <1>3, MakeCounts
  <1>5. InUse' = InUse \cup {k}
    BY <1>1 DEF InUse
  <1> HIDE DEF k
  <1> QED
    BY <1>1, <1>2, <1>4, <1>5 DEF PoolInv

LEMMA DeallocatePool ==
  ASSUME RefInv, PoolInv, Deallocate
  PROVE  RefInv' /\ PoolInv'
  <1> DEFINE n == Head(stack).to
  <1>1. free' = <<n>> \o free /\ made' = made
    BY DEF Deallocate
  <1>2. /\ RefInv' /\ live' = live /\ n \in Nodes \cap DyingOf(stack)
        /\ DyingOf(stack') = DyingOf(stack) \ {n}
    BY DeallocateCounts
  <1> HIDE DEF n
  <1>3. n \in InUse /\ n \in Nodes \ Listed(free)
    BY <1>2 DEF PoolInv, InUse
  <1>4. /\ free' \in Seq(Nodes) /\ Once(free') /\ Listed(free') = Listed(free) \cup {n}
        /\ Cardinality(Listed(free')) = Len(free')
    BY <1>1, <1>3, Listing DEF PoolInv
  <1>5. InUse' = InUse \ {n}
    BY <1>2 DEF InUse, RefInv, Calm
  <1> QED
    BY <1>1, <1>2, <1>3, <1>4, <1>5 DEF PoolInv

-----------------------------------------------------------------------------
(* The theorems.                                                           *)

IInv == RefInv /\ PoolInv

LEMMA InitEstablishes == Init => IInv
  <1> SUFFICES ASSUME Init
               PROVE  IInv
    OBVIOUS
  <1>1. /\ stack = << >> /\ live = {} /\ made = ChunkSize /\ free = Chunk(0)
        /\ count = [n \in Nodes |-> 0] /\ ptr = [s \in Slots |-> Null]
    BY DEF Init
  <1>2. Calm(live, stack) /\ MoveInv
    BY <1>1, NoCalls DEF Calm, MoveInv
  <1>3. Balanced(live, stack, ptr, count, Null)
    <2>1. HoldingOf(live, stack) \subseteq Slots
      BY <1>2, FiniteHolding
    <2> QED
      BY <1>1, <2>1 DEF Balanced
  <1>4. RefInv
    BY <1>1, <1>2, <1>3 DEF RefInv
  <1>5. /\ ChunkSize \in Nat \ {0} /\ MaxChunks \in Nat \ {0} /\ 0 + ChunkSize = ChunkSize
        /\ 0 + ChunkSize <= ChunkSize * MaxChunks
    <2>1. ChunkSize \in Nat \ {0} /\ MaxChunks \in Nat \ {0}
      BY MemoryAssumption
    <2>2. PICK d \in Nat : MaxChunks = 1 + d
      <3>1. MaxChunks - 1 \in Nat /\ MaxChunks = 1 + (MaxChunks - 1)
        BY <2>1
      <3> QED
        BY <3>1
    <2>3. ChunkSize * MaxChunks = ChunkSize + d * ChunkSize /\ d * ChunkSize \in Nat
      BY <2>1, <2>2
    <2> QED
      BY <2>1, <2>3
  <1>6. /\ free \in Seq(Nodes) /\ Once(free) /\ Cardinality(Listed(free)) = Len(free)
        /\ Listed(free) = 1 .. ChunkSize
    BY <1>1, <1>5, NewChunk
  <1>7. InUse = {}
    BY <1>1, NoCalls DEF InUse
  <1>8. 1 \in 1 .. MaxChunks /\ made = 1 * ChunkSize
    BY <1>1, <1>5
  <1> QED
    BY <1>1, <1>4, <1>6, <1>7, <1>8 DEF IInv, PoolInv

LEMMA StepKeeps == IInv /\ [Next]_vars => IInv'
  <1> SUFFICES ASSUME RefInv, PoolInv, [Next]_vars
               PROVE  RefInv' /\ PoolInv'
    BY DEF IInv
  <1>1. CASE AllocateChunk
    BY <1>1, AllocateChunkPool
  <1>2. ASSUME NEW h \in Locals, Make(h)
        PROVE  RefInv' /\ PoolInv'
    BY <1>2, MakePool
  <1>3. ASSUME NEW h \in Locals, Destroy(h)
        PROVE  RefInv' /\ PoolInv'
    BY <1>3, DestroyCounts, SameNodes DEF Destroy, InUse
  <1>4. ASSUME NEW h \in Locals, NEW from \in Slots, CopyConstruct(h, from)
        PROVE  RefInv' /\ PoolInv'
    BY <1>4, CopyConstructCounts, SameNodes DEF CopyConstruct, InUse
  <1>5. ASSUME NEW h \in Locals, NEW from \in Slots, MoveConstruct(h, from)
        PROVE  RefInv' /\ PoolInv'
    BY <1>5, MoveConstructCounts, SameNodes DEF MoveConstruct, InUse
  <1>6. ASSUME NEW to \in Slots, NEW from \in Slots, CopyAssign(to, from)
        PROVE  RefInv' /\ PoolInv'
    BY <1>6, CopyAssignCounts, SameNodes DEF CopyAssign, InUse
  <1>7. ASSUME NEW to \in Slots, NEW from \in Slots, MoveAssign(to, from)
        PROVE  RefInv' /\ PoolInv'
    BY <1>7, MoveAssignCounts, SameNodes DEF MoveAssign, InUse
  <1>8. CASE DestroyMember
    BY <1>8, DestroyMemberCounts, SameNodes DEF DestroyMember, InUse
  <1>9. CASE Deallocate
    BY <1>9, DeallocatePool
  <1>10. CASE FinishMove
    BY <1>10, FinishMoveCounts, SameNodes DEF FinishMove, InUse
  <1>11. CASE UNCHANGED vars
    BY <1>11, SameNodes DEF vars, RefInv, InUse, MoveInv, Usable
  <1> QED
    BY <1>1, <1>2, <1>3, <1>4, <1>5, <1>6, <1>7, <1>8, <1>9, <1>10, <1>11 DEF Next

LEMMA Invariant == Spec => []IInv
  BY InitEstablishes, StepKeeps, PTL DEF Spec

\* What ref_count_ holds is the number of LocalPtrs that point to the object, so
\* an object lives as long as one does: for every number of pointers and nodes.
THEOREM CountsAreExact == Spec => []CountExact
  <1>1. IInv => CountExact
    BY InTheseTerms DEF IInv, RefInv
  <1> QED
    BY <1>1, Invariant, PTL

\* No LocalPtr that can still be used points to an object whose destructor has
\* begun, over moves that wait for destructors too.
THEOREM NoneDangles == Spec => []NoDangling
  <1>1. IInv => NoDangling
    BY InTheseTerms DEF IInv, RefInv
  <1> QED
    BY <1>1, Invariant, PTL

\* operator new never hands out a node that is in use, and none is lost.
THEOREM PoolKeepsNodes == Spec => []PoolExact
  <1>1. IInv => PoolExact
    <2> SUFFICES ASSUME IInv
                 PROVE  PoolExact
      OBVIOUS
    <2>1. Dying = DyingOf(stack) /\ live \cap Dying = {}
      BY InTheseTerms DEF IInv, RefInv, Calm
    <2> QED
      BY <2>1 DEF IInv, PoolInv, PoolExact, InUse, Listed
  <1> QED
    BY <1>1, Invariant, PTL

\* The variables have their types: free, count and the calls that wait are of
\* nodes and slots that there are.
THEOREM TypeCorrect == Spec => []TypeOK
  <1>1. IInv => TypeOK
    <2> SUFFICES ASSUME RefInv, PoolInv
                 PROVE  TypeOK
      BY DEF IInv
    <2>1. made \in 0 .. ChunkSize * MaxChunks
      <3>1. ChunkSize \in Nat \ {0} /\ MaxChunks \in Nat \ {0}
        BY MemoryAssumption
      <3>2. PICK k \in 1 .. MaxChunks : made = k * ChunkSize
        BY DEF PoolInv
      <3>3. PICK d \in Nat : MaxChunks = k + d
        <4>1. MaxChunks - k \in Nat /\ MaxChunks = k + (MaxChunks - k)
          BY <3>1
        <4> QED
          BY <4>1
      <3>4. /\ ChunkSize * MaxChunks = k * ChunkSize + d * ChunkSize
            /\ k * ChunkSize \in Nat /\ d * ChunkSize \in Nat
        BY <3>1, <3>3
      <3> QED
        BY <3>2, <3>4
    <2>2. stack \in Seq([call : {"delete", "move"}, to : Slots, from : Slots])
      BY DEF RefInv, Calm, Shape, Calls
    <2> QED
      BY <2>1, <2>2 DEF TypeOK, RefInv, PoolInv, Calm
  <1> QED
    BY <1>1, Invariant, PTL
=============================================================================
