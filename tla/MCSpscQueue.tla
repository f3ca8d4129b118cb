---------------------------- MODULE MCSpscQueue ----------------------------
(* Small instances of SpscQueue for TLC. *)
EXTENDS SpscQueue, TLC

\* Items are only copied and compared; nothing tells one from another.
ItemSymmetry == Permutations(Items)
=============================================================================
