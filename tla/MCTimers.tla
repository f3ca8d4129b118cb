------------------------------ MODULE MCTimers ------------------------------
(* Small instances of Timers for TLC. *)
EXTENDS Timers

\* A delay can be negative, zero or positive.
SomeDelays == {-1, 0, 2}
=============================================================================
