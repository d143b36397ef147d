---------------------------- MODULE GameServerMC ----------------------------
(* GameServer on a small instance for TLC. *)
EXTENDS GameServer, TLC

\* The worker threads are alike, and so are the sessions.
Symmetry == Permutations(Workers) \union Permutations(Sessions)
==============================================================================
