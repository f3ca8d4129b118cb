------------------------------ MODULE Exchange ------------------------------
(***************************************************************************)
(* What a connection promises the application that reads a request, writes *)
(* a response and reads again: a read gives at least one byte, a write is  *)
(* reported when the kernel has the whole response and nothing else, each  *)
(* ends before the next begins, and after an end nothing more happens.     *)
(***************************************************************************)
EXTENDS Integers

CONSTANT RespLen   \* the length of a response

VARIABLES
  phase,  \* the call that the application waits for, or the end
  got,    \* bytes given by reads
  owed    \* bytes of the response that the kernel has not accepted

vars == <<phase, got, owed>>

Init == phase = "reading" /\ got = 0 /\ owed = 0

\* A read gives some bytes, and a response is due.
Give ==
  /\ phase = "reading"
  /\ phase' = "writing"
  /\ got' \in Nat /\ got' > got
  /\ owed' = RespLen

\* The kernel accepts n more bytes; the last ones may be reported at once.
Send(n) ==
  /\ phase = "writing"
  /\ owed' = owed - n
  /\ phase' \in IF owed' = 0 THEN {"writing", "reading"} ELSE {"writing"}
  /\ UNCHANGED got

\* The write is reported and the next read begins.
Report ==
  /\ phase = "writing"
  /\ owed = 0
  /\ phase' = "reading"
  /\ UNCHANGED <<got, owed>>

\* The application is told of the end, by an empty packet or by -1.
End ==
  /\ phase # "ended"
  /\ phase' = "ended"
  /\ owed' = 0
  /\ UNCHANGED got

Respond == phase = "writing" /\ (Report \/ End \/ \E n \in 1 .. owed : Send(n))

Next == Give \/ Respond \/ End

\* A response that has begun is finished or ends the connection.  Nothing makes
\* the peer send another request.
Spec == Init /\ [][Next]_vars /\ WF_vars(Respond)
=============================================================================
