--------------------------- MODULE FuturesProofs ----------------------------
(***************************************************************************)
(* For any number of futures and of calls of then(), for the State that    *)
(* moves its value and the one that copies it: no promise is set twice, a  *)
(* moved value is seen only by a second then(), and the promises implement *)
(* the steps of Continuations.                                             *)
(***************************************************************************)
EXTENDS Futures, SequenceTheorems, TLAPS

\* Where a State comes from, and why it is ready.
OriginInv ==
  /\ \A f \in root : source[f] = None
  /\ \A f \in Futures : ready[f] => f \in root \/ heard[f] # "nothing"
  /\ \A f \in Futures : heard[f] # "nothing" => source[f] # None
  /\ \A f \in Futures : ready[f] <=> value[f] # "unset"

\* A callback is that of a continuation attached there, not called while its
\* future is not ready.
CallbackInv ==
  \A f \in Futures : callback[f] # None =>
    /\ source[callback[f]] = f
    /\ ~ready[f] => heard[callback[f]] = "nothing"

\* The elements of a sequence, and that none is there twice.
Elements(s) == {s[i] : i \in 1 .. Len(s)}
Distinct(s) == \A i, k \in 1 .. Len(s) : i # k => s[i] # s[k]

\* A task in the queue is there once and will be called for the first time.
PendingInv ==
  /\ Distinct(pending)
  /\ \A f \in Elements(pending) :
       f \in Futures /\ ready[f] /\ callback[f] # None /\ heard[callback[f]] = "nothing"

\* A continuation that runs does so once, is called and not resolved.
StackInv ==
  /\ Distinct(stack)
  /\ \A g \in Elements(stack) : g \in Futures /\ ~ready[g] /\ heard[g] # "nothing"

\* What was moved, and how often then() was called before.
MovedInv ==
  /\ \A f \in Futures : value[f] = "moved" => moving /\ thens[f] > 0
  /\ \A f \in Futures : callback[f] # None => thens[f] > 0
  /\ \A f \in Futures : callback[f] # None /\ value[f] = "moved" => thens[f] > 1
  /\ ValueIntact

-----------------------------------------------------------------------------

\* What the operators on sequences do to the elements.
LEMMA AppendElements ==
  ASSUME NEW S, NEW s \in Seq(S), NEW e \in S
  PROVE  /\ Elements(Append(s, e)) = Elements(s) \cup {e}
         /\ Distinct(s) /\ e \notin Elements(s) => Distinct(Append(s, e))
  <1> DEFINE t == Append(s, e)
  <1>1. /\ Len(t) = Len(s) + 1 /\ Len(s) \in Nat
        /\ \A i \in 1 .. Len(s) : t[i] = s[i]
        /\ t[Len(s) + 1] = e
    BY AppendProperties
  <1> HIDE DEF t
  <1>2. 1 .. Len(t) = (1 .. Len(s)) \cup {Len(s) + 1} /\ Len(s) + 1 \notin 1 .. Len(s)
    BY <1>1
  <1>3. Elements(t) = Elements(s) \cup {e}
    BY <1>1, <1>2 DEF Elements
  <1>4. Distinct(s) /\ e \notin Elements(s) => Distinct(t)
    BY <1>1, <1>2 DEF Elements, Distinct
  <1> QED
    BY <1>3, <1>4 DEF t

\* A head is an element, a tail has the others.
LEMMA TailElements ==
  ASSUME NEW S, NEW s \in Seq(S), s # << >>
  PROVE  /\ Head(s) \in Elements(s) /\ Elements(Tail(s)) \subseteq Elements(s)
         /\ Distinct(s) => Distinct(Tail(s)) /\ Head(s) \notin Elements(Tail(s))
  <1> DEFINE t == Tail(s)
  <1>1. /\ Len(t) = Len(s) - 1 /\ Len(s) \in Nat /\ Len(s) > 0 /\ Head(s) = s[1]
        /\ \A i \in 1 .. Len(t) : t[i] = s[i + 1]
    BY HeadTailProperties
  <1> HIDE DEF t
  <1>2. 1 \in 1 .. Len(s) /\ \A i \in 1 .. Len(t) : i + 1 \in 1 .. Len(s) /\ i + 1 # 1
    BY <1>1
  <1>3. Head(s) \in Elements(s) /\ Elements(t) \subseteq Elements(s)
    BY <1>1, <1>2 DEF Elements
  <1>4. ASSUME Distinct(s)
        PROVE  Distinct(t) /\ Head(s) \notin Elements(t)
    <2>1. \A i, k \in 1 .. Len(t) : i # k => i + 1 # k + 1
      BY <1>1
    <2>2. Distinct(t)
      BY <1>1, <1>2, <1>4, <2>1 DEF Distinct
    <2>3. Head(s) \notin Elements(t)
      BY <1>1, <1>2, <1>4 DEF Distinct, Elements
    <2> QED
      BY <2>2, <2>3
  <1> QED
    BY <1>3, <1>4 DEF t

\* Without its last element a sequence has the others.
LEMMA PrefixElements ==
  ASSUME NEW S, NEW s \in Seq(S), s # << >>, Distinct(s)
  PROVE  LET p == SubSeq(s, 1, Len(s) - 1) IN
         /\ Elements(p) \subseteq Elements(s) \ {s[Len(s)]}
         /\ Distinct(p)
         /\ s[Len(s)] \in Elements(s)
  <1> DEFINE p == SubSeq(s, 1, Len(s) - 1)
  <1>1. Len(s) \in Nat /\ Len(s) > 0 /\ \A i \in 1 .. Len(s) - 1 : s[i] \in S
    OBVIOUS
  <1>2. Len(p) = Len(s) - 1 /\ \A i \in 1 .. Len(p) : p[i] = s[i]
    <2> DEFINE n == Len(s) - 1
    <2>1. n \in Nat /\ Len(s) - 1 = n
      BY <1>1
    <2> HIDE DEF n
    <2>2. /\ Len(SubSeq(s, 1, n)) = IF 1 <= n THEN n - 1 + 1 ELSE 0
          /\ \A i \in 1 .. n - 1 + 1 : SubSeq(s, 1, n)[i] = s[1 + i - 1]
      BY <1>1, <2>1, SubSeqProperties
    <2>3. n - 1 + 1 = n /\ (IF 1 <= n THEN n - 1 + 1 ELSE 0) = n
      BY <2>1
    <2>4. \A i \in 1 .. n : 1 + i - 1 = i
      BY <2>1
    <2> QED
      BY <2>1, <2>2, <2>3, <2>4
  <1> HIDE DEF p
  <1>3. /\ \A i \in 1 .. Len(p) : i \in 1 .. Len(s) /\ i # Len(s)
        /\ Len(s) \in 1 .. Len(s)
    BY <1>1, <1>2
  <1> QED
    BY <1>2, <1>3 DEF Elements, Distinct, p


\* The types.
LEMMA TypeStep == TypeOK /\ OriginInv /\ PendingInv /\ [Next]_vars => TypeOK'
  <1> SUFFICES ASSUME TypeOK, OriginInv, PendingInv, [Next]_vars PROVE TypeOK'
    OBVIOUS
  <1> USE FuturesAssumption DEF TypeOK, OriginInv, PendingInv, Elements, stateVars, userVars
  <1>1. ASSUME NEW f \in Futures, MakePromise(f), UNCHANGED moving
        PROVE  TypeOK'
    BY <1>1 DEF MakePromise, Fresh
  <1>2. ASSUME NEW f \in Futures, MakeReady(f), UNCHANGED moving
        PROVE  TypeOK'
    BY <1>2 DEF MakeReady, Fresh
  <1>3. ASSUME NEW f \in Futures, SetValue(f), UNCHANGED moving
        PROVE  TypeOK'
    BY <1>3 DEF SetValue, Set
  <1>4. ASSUME NEW f \in Futures, NEW g \in Futures, ThenLater(f, g), UNCHANGED moving
        PROVE  TypeOK'
    BY <1>4 DEF ThenLater, Attach, Fresh
  <1>5. ASSUME NEW f \in Futures, NEW g \in Futures, ThenMoves(f, g), UNCHANGED moving
        PROVE  TypeOK'
    BY <1>5 DEF ThenMoves, CallNow, Attach, Fresh
  <1>6. ASSUME NEW f \in Futures, NEW g \in Futures, ThenCopies(f, g), UNCHANGED moving
        PROVE  TypeOK'
    BY <1>6 DEF ThenCopies, CallNow, Attach, Fresh
  <1>7. ASSUME RunTask, UNCHANGED moving
        PROVE  TypeOK'
    BY <1>7 DEF RunTask
  <1>8. ASSUME Return, UNCHANGED moving
        PROVE  TypeOK'
    BY <1>8 DEF Return, Set, Top
  <1>9. CASE UNCHANGED vars
    BY <1>9 DEF vars
  <1> QED
    BY <1>1, <1>2, <1>3, <1>4, <1>5, <1>6, <1>7, <1>8, <1>9 DEF Next, User, Loop,
       UserReturns

\* A State is ready because its owner or its continuation set it.
LEMMA OriginStep == TypeOK /\ OriginInv /\ CallbackInv /\ PendingInv /\ StackInv /\
   [Next]_vars => OriginInv'
  <1> SUFFICES ASSUME TypeOK, OriginInv, CallbackInv, PendingInv, StackInv, [Next]_vars
     PROVE OriginInv'
    OBVIOUS
  <1> USE FuturesAssumption DEF TypeOK, OriginInv, CallbackInv, PendingInv, StackInv,
     Elements, stateVars, userVars
  <1>1. ASSUME NEW f \in Futures, MakePromise(f), UNCHANGED moving
        PROVE  OriginInv'
    BY <1>1 DEF MakePromise, Fresh
  <1>2. ASSUME NEW f \in Futures, MakeReady(f), UNCHANGED moving
        PROVE  OriginInv'
    BY <1>2 DEF MakeReady, Fresh
  <1>3. ASSUME NEW f \in Futures, SetValue(f), UNCHANGED moving
        PROVE  OriginInv'
    BY <1>3 DEF SetValue, Set
  <1>4. ASSUME NEW f \in Futures, NEW g \in Futures, ThenLater(f, g), UNCHANGED moving
        PROVE  OriginInv'
    BY <1>4 DEF ThenLater, Attach, Fresh
  <1>5. ASSUME NEW f \in Futures, NEW g \in Futures, ThenMoves(f, g), UNCHANGED moving
        PROVE  OriginInv'
    BY <1>5 DEF ThenMoves, CallNow, Attach, Fresh
  <1>6. ASSUME NEW f \in Futures, NEW g \in Futures, ThenCopies(f, g), UNCHANGED moving
        PROVE  OriginInv'
    BY <1>6 DEF ThenCopies, CallNow, Attach, Fresh
  <1>7. ASSUME RunTask, UNCHANGED moving
        PROVE  OriginInv'
    BY <1>7 DEF RunTask
  <1>8. ASSUME Return, UNCHANGED moving
        PROVE  OriginInv'
    BY <1>8 DEF Return, Set, Top
  <1>9. CASE UNCHANGED vars
    BY <1>9 DEF vars
  <1> QED
    BY <1>1, <1>2, <1>3, <1>4, <1>5, <1>6, <1>7, <1>8, <1>9 DEF Next, User, Loop,
       UserReturns

\* A callback waits for the State it is attached to.
LEMMA CallbackStep == TypeOK /\ OriginInv /\ CallbackInv /\ PendingInv /\ [Next]_vars =>
   CallbackInv'
  <1> SUFFICES ASSUME TypeOK, OriginInv, CallbackInv, PendingInv, [Next]_vars PROVE
     CallbackInv'
    OBVIOUS
  <1> USE FuturesAssumption DEF TypeOK, OriginInv, CallbackInv, PendingInv, Elements,
     stateVars, userVars
  <1>1. ASSUME NEW f \in Futures, MakePromise(f), UNCHANGED moving
        PROVE  CallbackInv'
    BY <1>1 DEF MakePromise, Fresh
  <1>2. ASSUME NEW f \in Futures, MakeReady(f), UNCHANGED moving
        PROVE  CallbackInv'
    BY <1>2 DEF MakeReady, Fresh
  <1>3. ASSUME NEW f \in Futures, SetValue(f), UNCHANGED moving
        PROVE  CallbackInv'
    BY <1>3 DEF SetValue, Set
  <1>4. ASSUME NEW f \in Futures, NEW g \in Futures, ThenLater(f, g), UNCHANGED moving
        PROVE  CallbackInv'
    BY <1>4 DEF ThenLater, Attach, Fresh
  <1>5. ASSUME NEW f \in Futures, NEW g \in Futures, ThenMoves(f, g), UNCHANGED moving
        PROVE  CallbackInv'
    BY <1>5 DEF ThenMoves, CallNow, Attach, Fresh
  <1>6. ASSUME NEW f \in Futures, NEW g \in Futures, ThenCopies(f, g), UNCHANGED moving
        PROVE  CallbackInv'
    BY <1>6 DEF ThenCopies, CallNow, Attach, Fresh
  <1>7. ASSUME RunTask, UNCHANGED moving
        PROVE  CallbackInv'
    BY <1>7 DEF RunTask
  <1>8. ASSUME Return, UNCHANGED moving
        PROVE  CallbackInv'
    BY <1>8 DEF Return, Set, Top
  <1>9. CASE UNCHANGED vars
    BY <1>9 DEF vars
  <1> QED
    BY <1>1, <1>2, <1>3, <1>4, <1>5, <1>6, <1>7, <1>8, <1>9 DEF Next, User, Loop,
       UserReturns

\* No task is queued twice, or queued again.
LEMMA PendingStep == TypeOK /\ OriginInv /\ CallbackInv /\ PendingInv /\ StackInv /\
   [Next]_vars => PendingInv'
  <1> SUFFICES ASSUME TypeOK, OriginInv, CallbackInv, PendingInv, StackInv, [Next]_vars
     PROVE PendingInv'
    OBVIOUS
  <1> USE FuturesAssumption DEF PendingInv, stateVars, userVars
  <1>1. ASSUME NEW f \in Futures, MakePromise(f), UNCHANGED moving
        PROVE  PendingInv'
    BY <1>1 DEF MakePromise, Fresh
  <1>2. ASSUME NEW f \in Futures, MakeReady(f), UNCHANGED moving
        PROVE  PendingInv'
    BY <1>2 DEF MakeReady, Fresh, TypeOK, OriginInv, CallbackInv
  <1>3. ASSUME NEW f \in Futures, SetValue(f), UNCHANGED moving
        PROVE  PendingInv'
    <2>1. pending \in Seq(Futures) /\ ~ready[f]
      BY <1>3 DEF TypeOK, SetValue
    <2>2. /\ ready' = [ready EXCEPT ![f] = TRUE]
          /\ UNCHANGED <<callback, heard>>
          /\ pending' = IF callback[f] = None THEN pending ELSE Append(pending, f)
      BY <1>3 DEF SetValue, Set
    <2>3. CASE pending' = pending
      <3>1. ready \in [Futures -> BOOLEAN]
        BY DEF TypeOK
      <3> QED
        BY <2>1, <2>2, <2>3, <3>1
    <2>4. CASE pending' = Append(pending, f) /\ callback[f] # None
      <3>1. heard[callback[f]] = "nothing"
        BY <2>1, <2>4 DEF CallbackInv
      <3>2. f \notin Elements(pending)
        BY <2>1
      <3>3. Distinct(pending') /\ Elements(pending') = Elements(pending) \cup {f}
        BY <2>1, <2>4, <3>2, AppendElements
      <3>4. ready \in [Futures -> BOOLEAN]
        BY DEF TypeOK
      <3> QED
        BY <2>1, <2>2, <2>4, <3>1, <3>3, <3>4
    <2> QED
      BY <2>2, <2>3, <2>4
  <1>4. ASSUME NEW f \in Futures, NEW g \in Futures, ThenLater(f, g), UNCHANGED moving
        PROVE  PendingInv'
    BY <1>4 DEF ThenLater, Attach, Fresh, TypeOK, OriginInv, CallbackInv
  <1>5. ASSUME NEW f \in Futures, NEW g \in Futures, ThenMoves(f, g), UNCHANGED moving
        PROVE  PendingInv'
    BY <1>5 DEF ThenMoves, CallNow, Attach, Fresh, TypeOK, OriginInv, CallbackInv
  <1>6. ASSUME NEW f \in Futures, NEW g \in Futures, ThenCopies(f, g), UNCHANGED moving
        PROVE  PendingInv'
    BY <1>6 DEF ThenCopies, CallNow, Attach, Fresh, TypeOK, OriginInv, CallbackInv
  <1>7. ASSUME RunTask, UNCHANGED moving
        PROVE  PendingInv'
    <2> DEFINE f == Head(pending)
    <2>1. /\ pending \in Seq(Futures) /\ pending # << >> /\ pending' = Tail(pending)
          /\ heard' = [heard EXCEPT ![callback[f]] = value[f]]
          /\ UNCHANGED <<ready, callback>>
      BY <1>7 DEF RunTask, TypeOK
    <2>2. /\ f \in Elements(pending) \ Elements(pending')
          /\ Elements(pending') \subseteq Elements(pending)
          /\ Distinct(pending')
      BY <2>1, TailElements
    <2> HIDE DEF f
    <2>3. \A g \in Elements(pending') : callback[g] # callback[f]
      BY <2>2 DEF CallbackInv
    <2>4. heard \in [Futures -> {"nothing", "set", "moved"}]
      BY DEF TypeOK
    <2> QED
      BY <2>1, <2>2, <2>3, <2>4
  <1>8. ASSUME Return, UNCHANGED moving
        PROVE  PendingInv'
    <2> DEFINE f == Top
    <2>1. pending \in Seq(Futures) /\ f \in Futures /\ ~ready[f]
      <3>1. Top \in Elements(stack)
        BY <1>8, PrefixElements DEF Return, TypeOK, Top, StackInv
      <3> QED
        BY <3>1 DEF StackInv, TypeOK
    <2>2. /\ ready' = [ready EXCEPT ![f] = TRUE]
          /\ UNCHANGED <<callback, heard>>
          /\ pending' = IF callback[f] = None THEN pending ELSE Append(pending, f)
      BY <1>8 DEF Return, Set
    <2> HIDE DEF f
    <2>3. CASE pending' = pending
      <3>1. ready \in [Futures -> BOOLEAN]
        BY DEF TypeOK
      <3> QED
        BY <2>1, <2>2, <2>3, <3>1
    <2>4. CASE pending' = Append(pending, f) /\ callback[f] # None
      <3>1. heard[callback[f]] = "nothing"
        BY <2>1, <2>4 DEF CallbackInv
      <3>2. f \notin Elements(pending)
        BY <2>1
      <3>3. Distinct(pending') /\ Elements(pending') = Elements(pending) \cup {f}
        BY <2>1, <2>4, <3>2, AppendElements
      <3>4. ready \in [Futures -> BOOLEAN]
        BY DEF TypeOK
      <3> QED
        BY <2>1, <2>2, <2>4, <3>1, <3>3, <3>4
    <2> QED
      BY <2>2, <2>3, <2>4
  <1>9. CASE UNCHANGED vars
    BY <1>9 DEF vars
  <1> QED
    BY <1>1, <1>2, <1>3, <1>4, <1>5, <1>6, <1>7, <1>8, <1>9 DEF Next, User, Loop,
       UserReturns

\* No continuation runs inside itself.
LEMMA StackStep == TypeOK /\ OriginInv /\ CallbackInv /\ PendingInv /\ StackInv /\
   [Next]_vars => StackInv'
  <1> SUFFICES ASSUME TypeOK, OriginInv, CallbackInv, PendingInv, StackInv, [Next]_vars
     PROVE StackInv'
    OBVIOUS
  <1> USE FuturesAssumption DEF StackInv, stateVars, userVars
  <1>1. ASSUME NEW f \in Futures, MakePromise(f), UNCHANGED moving
        PROVE  StackInv'
    BY <1>1 DEF MakePromise, Fresh
  <1>2. ASSUME NEW f \in Futures, MakeReady(f), UNCHANGED moving
        PROVE  StackInv'
    BY <1>2 DEF MakeReady, Fresh, TypeOK, OriginInv, CallbackInv
  <1>3. ASSUME NEW f \in Futures, SetValue(f), UNCHANGED moving
        PROVE  StackInv'
    BY <1>3 DEF SetValue, Set, TypeOK, OriginInv, CallbackInv
  <1>4. ASSUME NEW f \in Futures, NEW g \in Futures, ThenLater(f, g), UNCHANGED moving
        PROVE  StackInv'
    BY <1>4 DEF ThenLater, Attach, Fresh, TypeOK, OriginInv, CallbackInv
  <1>5. ASSUME NEW f \in Futures, NEW g \in Futures, ThenMoves(f, g), UNCHANGED moving
        PROVE  StackInv'
    <2>1. /\ stack' = Append(stack, g) /\ stack \in Seq(Futures)
          /\ UNCHANGED ready /\ heard' = [heard EXCEPT ![g] = value[f]]
      BY <1>5 DEF TypeOK, ThenMoves, CallNow
    <2>2. g \notin root /\ source[g] = None /\ value[f] # "nothing"
      BY <1>5 DEF TypeOK, ThenMoves, CallNow, Attach, Fresh
    <2>3. ~ready[g] /\ g \notin Elements(stack)
      BY <2>2 DEF OriginInv
    <2>4. Distinct(stack') /\ Elements(stack') = Elements(stack) \cup {g}
      BY <2>1, <2>3, AppendElements
    <2>5. heard \in [Futures -> {"nothing", "set", "moved"}]
      BY DEF TypeOK
    <2> QED
      BY <2>1, <2>2, <2>3, <2>4, <2>5
  <1>6. ASSUME NEW f \in Futures, NEW g \in Futures, ThenCopies(f, g), UNCHANGED moving
        PROVE  StackInv'
    <2>1. /\ stack' = Append(stack, g) /\ stack \in Seq(Futures)
          /\ UNCHANGED ready /\ heard' = [heard EXCEPT ![g] = value[f]]
      BY <1>6 DEF TypeOK, ThenCopies, CallNow
    <2>2. g \notin root /\ source[g] = None /\ value[f] # "nothing"
      BY <1>6 DEF TypeOK, ThenCopies, CallNow, Attach, Fresh
    <2>3. ~ready[g] /\ g \notin Elements(stack)
      BY <2>2 DEF OriginInv
    <2>4. Distinct(stack') /\ Elements(stack') = Elements(stack) \cup {g}
      BY <2>1, <2>3, AppendElements
    <2>5. heard \in [Futures -> {"nothing", "set", "moved"}]
      BY DEF TypeOK
    <2> QED
      BY <2>1, <2>2, <2>3, <2>4, <2>5
  <1>7. ASSUME RunTask, UNCHANGED moving
        PROVE  StackInv'
    <2> DEFINE f == Head(pending)
    <2> DEFINE g == callback[f]
    <2>1. f \in Futures /\ ready[f] /\ g # None /\ heard[g] = "nothing"
      BY <1>7, TailElements DEF RunTask, TypeOK, PendingInv
    <2>2. stack' = <<g>> /\ heard' = [heard EXCEPT ![g] = value[f]] /\ UNCHANGED ready
      BY <1>7 DEF RunTask
    <2>3. g \in Futures
      BY <2>1 DEF TypeOK
    <2>4. source[g] = f
      BY <2>1 DEF CallbackInv
    <2>5. value[f] # "nothing" /\ heard \in [Futures -> {"nothing", "set", "moved"}]
      BY <2>1 DEF TypeOK
    <2> HIDE DEF g, f
    <2>6. ~ready[g]
      BY <2>1, <2>3, <2>4, FuturesAssumption DEF OriginInv
    <2>7. Elements(stack') = {g} /\ Distinct(stack')
      BY <2>2 DEF Elements, Distinct
    <2> QED
      BY <2>2, <2>3, <2>5, <2>6, <2>7
  <1>8. ASSUME Return, UNCHANGED moving
        PROVE  StackInv'
    <2>1. stack \in Seq(Futures) /\ stack # << >> /\ stack' = SubSeq(stack, 1, Len(stack) -
       1)
      BY <1>8 DEF Return, TypeOK
    <2>2. ready' = [ready EXCEPT ![Top] = TRUE] /\ UNCHANGED heard
      BY <1>8 DEF Return, Set
    <2>3. Elements(stack') \subseteq Elements(stack) \ {Top} /\ Distinct(stack')
      BY <2>1, PrefixElements DEF Top
    <2>4. ready \in [Futures -> BOOLEAN]
      BY DEF TypeOK
    <2> QED
      BY <2>2, <2>3, <2>4
  <1>9. CASE UNCHANGED vars
    BY <1>9 DEF vars
  <1> QED
    BY <1>1, <1>2, <1>3, <1>4, <1>5, <1>6, <1>7, <1>8, <1>9 DEF Next, User, Loop,
       UserReturns

\* Only a second then() finds a moved value.
LEMMA MovedStep == TypeOK /\ OriginInv /\ CallbackInv /\ PendingInv /\ MovedInv /\
   [Next]_vars => MovedInv'
  <1> SUFFICES ASSUME TypeOK, OriginInv, CallbackInv, PendingInv, MovedInv, [Next]_vars
     PROVE MovedInv'
    OBVIOUS
  <1> USE FuturesAssumption DEF TypeOK, OriginInv, CallbackInv, PendingInv, MovedInv,
     ValueIntact, Elements, stateVars, userVars
  <1>1. ASSUME NEW f \in Futures, MakePromise(f), UNCHANGED moving
        PROVE  MovedInv'
    BY <1>1 DEF MakePromise, Fresh
  <1>2. ASSUME NEW f \in Futures, MakeReady(f), UNCHANGED moving
        PROVE  MovedInv'
    BY <1>2 DEF MakeReady, Fresh
  <1>3. ASSUME NEW f \in Futures, SetValue(f), UNCHANGED moving
        PROVE  MovedInv'
    BY <1>3 DEF SetValue, Set
  <1>4. ASSUME NEW f \in Futures, NEW g \in Futures, ThenLater(f, g), UNCHANGED moving
        PROVE  MovedInv'
    BY <1>4 DEF ThenLater, Attach, Fresh
  <1>5. ASSUME NEW f \in Futures, NEW g \in Futures, ThenMoves(f, g), UNCHANGED moving
        PROVE  MovedInv'
    BY <1>5 DEF ThenMoves, CallNow, Attach, Fresh
  <1>6. ASSUME NEW f \in Futures, NEW g \in Futures, ThenCopies(f, g), UNCHANGED moving
        PROVE  MovedInv'
    BY <1>6 DEF ThenCopies, CallNow, Attach, Fresh
  <1>7. ASSUME RunTask, UNCHANGED moving
        PROVE  MovedInv'
    BY <1>7 DEF RunTask
  <1>8. ASSUME Return, UNCHANGED moving
        PROVE  MovedInv'
    BY <1>8 DEF Return, Set, Top
  <1>9. CASE UNCHANGED vars
    BY <1>9 DEF vars
  <1> QED
    BY <1>1, <1>2, <1>3, <1>4, <1>5, <1>6, <1>7, <1>8, <1>9 DEF Next, User, Loop,
       UserReturns

-----------------------------------------------------------------------------
(* The inductive invariant.                                                *)

IInv == TypeOK /\ OriginInv /\ CallbackInv /\ PendingInv /\ StackInv /\ MovedInv

\* It holds before user code has made a promise.
LEMMA InitIInv == Init => IInv
  <1> SUFFICES ASSUME Init PROVE IInv
    OBVIOUS
  <1> USE FuturesAssumption DEF Init
  <1>1. TypeOK
    BY DEF TypeOK
  <1>2. OriginInv /\ CallbackInv /\ MovedInv
    BY DEF OriginInv, CallbackInv, MovedInv, ValueIntact
  <1>3. PendingInv /\ StackInv
    BY DEF PendingInv, StackInv, Elements, Distinct
  <1> QED
    BY <1>1, <1>2, <1>3 DEF IInv

\* Every step keeps it.
LEMMA NextIInv == IInv /\ [Next]_vars => IInv'
  BY TypeStep, OriginStep, CallbackStep, PendingStep, StackStep, MovedStep DEF IInv

\* So it always holds.
LEMMA Inductive == Spec => []IInv
  BY InitIInv, NextIInv, PTL DEF Spec

-----------------------------------------------------------------------------
(* What follows from it.                                                   *)

\* Every variable keeps its type; a task in the queue has a callback to call.
THEOREM TypeCorrect == Spec => []TypeOK
  <1>1. IInv => TypeOK
    BY DEF IInv
  <1> QED
    BY Inductive, <1>1, PTL

\* set_value never throws out of a continuation, at any depth of then() inside
\* then(), and no continuation runs inside itself.
THEOREM NeverSetTwice == Spec => []NoSecondSet
  <1>1. IInv => NoSecondSet
    BY DEF IInv, StackInv, Elements, Distinct, NoSecondSet
  <1> QED
    BY Inductive, <1>1, PTL

\* A moved value is seen only in v3, and only by a second then() on its future.
THEOREM ValueSeenOnce == Spec => []ValueIntact
  <1>1. IInv => ValueIntact
    BY DEF IInv, MovedInv
  <1> QED
    BY Inductive, <1>1, PTL

-----------------------------------------------------------------------------
(* The steps of Continuations.                                             *)

\* The initial states.
LEMMA InitPromised == Init => Promised!Init
  BY DEF Init, Promised!Init

\* Attaching to a future that is not ready replaces what waited there.
LEMMA LaterAttaches ==
  ASSUME IInv, NEW f \in Futures, NEW g \in Futures, ThenLater(f, g)
  PROVE  Promised!Attach(f, g)
  <1> USE DEF ThenLater, Attach, Fresh
  <1> QED
    BY FuturesAssumption DEF IInv, TypeOK, OriginInv, Promised!Attach, Promised!Waiting

\* Attaching to one that is calls the continuation.
LEMMA NowStarts ==
  ASSUME IInv, NEW f \in Futures, NEW g \in Futures, CallNow(f, g, value[f])
  PROVE  Promised!AttachAndStart(f, g)
  <1>1. /\ source[g] = None /\ source' = [source EXCEPT ![g] = f]
        /\ g \notin root /\ ready[f] /\ UNCHANGED <<ready, callback>>
        /\ heard' = [heard EXCEPT ![g] = value[f]]
    BY DEF CallNow, Attach, Fresh
  <1>2. /\ source \in [Futures -> Futures \cup {None}]
        /\ heard \in [Futures -> {"nothing", "set", "moved"}]
        /\ value[f] # "nothing"
    BY DEF IInv, TypeOK
  <1>3. ~ready[g] /\ heard[g] = "nothing"
    BY <1>1 DEF IInv, OriginInv
  <1>4. \A h \in Futures : h # g => source'[h] = source[h] /\ heard'[h] = heard[h]
    BY <1>1, <1>2
  <1>5. source'[g] = f /\ heard'[g] # "nothing"
    BY <1>1, <1>2
  <1>6. {h \in Futures : heard[h] # "nothing"}' = {h \in Futures : heard[h] # "nothing"} \cup {g}
    BY <1>4, <1>5
  <1>7. {h \in Futures : ready[h]}' = {h \in Futures : ready[h]}
    BY <1>1
  <1>8. {h \in Futures : source[h] # None /\ heard[h] = "nothing" /\ callback[source[h]] # h}'
          = {h \in Futures : source[h] # None /\ heard[h] = "nothing" /\ callback[source[h]] # h}
    BY <1>1, <1>3, <1>4, <1>5
  <1> QED
    BY <1>1, <1>3, <1>6, <1>7, <1>8 DEF Promised!AttachAndStart

\* A task starts the continuation that is its State's callback.
LEMMA TaskStarts ==
  ASSUME IInv, RunTask
  PROVE  \E g \in Futures : Promised!Start(g)
  <1> DEFINE f == Head(pending)
  <1> DEFINE g == callback[f]
  <1>1. f \in Futures /\ ready[f] /\ g # None /\ heard[g] = "nothing"
    BY TailElements DEF RunTask, IInv, TypeOK, PendingInv
  <1>2. heard' = [heard EXCEPT ![g] = value[f]] /\ UNCHANGED <<ready, callback, source>>
    BY DEF RunTask, stateVars
  <1>3. /\ g \in Futures /\ value[f] # "nothing"
        /\ heard \in [Futures -> {"nothing", "set", "moved"}]
    BY <1>1 DEF IInv, TypeOK
  <1>4. source[g] = f /\ callback[f] = g
    BY <1>1 DEF IInv, CallbackInv
  <1> HIDE DEF g, f
  <1>5. heard'[g] # "nothing" /\ \A h \in Futures : h # g => heard'[h] = heard[h]
    BY <1>2, <1>3
  <1>6. {h \in Futures : heard[h] # "nothing"}' = {h \in Futures : heard[h] # "nothing"} \cup {g}
    BY <1>3, <1>5
  <1>7. {h \in Futures : source[h] # None /\ heard[h] = "nothing" /\ callback[source[h]] # h}'
          = {h \in Futures : source[h] # None /\ heard[h] = "nothing" /\ callback[source[h]] # h}
    BY <1>2, <1>4, <1>5
  <1>8. {h \in Futures : ready[h]}' = {h \in Futures : ready[h]}
    BY <1>2
  <1>9. PICK c \in Futures : c = g
    BY <1>3
  <1>10. Promised!Start(c)
    BY <1>1, <1>2, <1>3, <1>4, <1>6, <1>7, <1>8, <1>9 DEF Promised!Start
  <1> QED
    BY <1>10

\* set_value by user code and make_ready resolve.
LEMMA SetResolves ==
  ASSUME IInv, NEW f \in Futures, MakeReady(f) \/ SetValue(f)
  PROVE  Promised!Resolve(f)
  BY DEF MakeReady, SetValue, Set, Fresh, IInv, TypeOK, OriginInv, Promised!Resolve

\* A continuation that returns resolves its own future.
LEMMA ReturnResolves ==
  ASSUME IInv, Return
  PROVE  \E g \in Futures : Promised!Resolve(g)
  <1> DEFINE g == Top
  <1>1. g \in Elements(stack)
    BY PrefixElements DEF Return, Top, IInv, TypeOK, StackInv
  <1>2. g \in Futures /\ ~ready[g] /\ heard[g] # "nothing"
    BY <1>1 DEF IInv, StackInv
  <1>3. ready' = [ready EXCEPT ![g] = TRUE] /\ UNCHANGED <<callback, source, heard>>
    BY DEF Return, Set
  <1> HIDE DEF g
  <1>4. {h \in Futures : ready[h]}' = {h \in Futures : ready[h]} \cup {g}
    BY <1>2, <1>3 DEF IInv, TypeOK
  <1>5. PICK c \in Futures : c = g
    BY <1>2
  <1>6. Promised!Resolve(c)
    BY <1>2, <1>3, <1>4, <1>5 DEF Promised!Resolve
  <1> QED
    BY <1>6

\* Promises and futures do the steps of Continuations: every continuation is
\* called once, after its future and before the ones that wait for it.
THEOREM PromisesKept == Spec => Promised!Init /\ [][Promised!Next]_(Promised!vars)
  <1>1. IInv /\ [Next]_vars => [Promised!Next]_(Promised!vars)
    <2> SUFFICES ASSUME IInv, [Next]_vars
                 PROVE  Promised!Next \/ UNCHANGED Promised!vars
      OBVIOUS
    <2>1. ASSUME NEW f \in Futures, MakePromise(f)
          PROVE  UNCHANGED Promised!vars
      BY <2>1 DEF MakePromise, stateVars, Promised!vars
    <2>2. ASSUME NEW f \in Futures, MakeReady(f) \/ SetValue(f)
          PROVE  Promised!Next
      BY <2>2, SetResolves DEF Promised!Next
    <2>3. ASSUME NEW f \in Futures, NEW g \in Futures, ThenLater(f, g)
          PROVE  Promised!Next
      BY <2>3, LaterAttaches DEF Promised!Next
    <2>4. ASSUME NEW f \in Futures, NEW g \in Futures,
                 ThenMoves(f, g) \/ ThenCopies(f, g)
          PROVE  Promised!Next
      BY <2>4, NowStarts DEF ThenMoves, ThenCopies, Promised!Next
    <2>5. CASE RunTask
      BY <2>5, TaskStarts DEF Promised!Next
    <2>6. CASE Return
      BY <2>6, ReturnResolves DEF Promised!Next
    <2>7. CASE UNCHANGED vars
      BY <2>7 DEF vars, stateVars, Promised!vars
    <2> QED
      BY <2>1, <2>2, <2>3, <2>4, <2>5, <2>6, <2>7 DEF Next, User, Loop, UserReturns
  <1> QED
    BY Inductive, InitPromised, <1>1, PTL DEF Spec
=============================================================================
