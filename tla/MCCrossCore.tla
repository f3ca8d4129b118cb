---------------------------- MODULE MCCrossCore ----------------------------
(* Small instances of CrossCore for TLC. *)
EXTENDS CrossCore

CONSTANTS c1, c2

\* c1 submits to c2.
OneWay == {<<c1, c2>>}

\* Two cores submit to each other.
Mutual == {<<c1, c2>>, <<c2, c1>>}
=============================================================================
