---------------------------- MODULE LockOrderMC ----------------------------
(* LockOrder on a small instance for TLC. *)
EXTENDS LockOrder, TLC

\* The workers are alike, and so are the rooms (safety runs only).
Symmetry == Permutations(Workers) \union Permutations(Rooms)
==============================================================================
