--------------------------- MODULE MCConnectionV1 ---------------------------
(* Small instances of ConnectionV1 for TLC. *)
EXTENDS ConnectionV1

CONSTANTS t1, t2

\* A delimiter of two bytes, which a read can cut in two.
TwoBytes == <<0, 1>>
=============================================================================
