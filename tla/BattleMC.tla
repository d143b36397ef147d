------------------------------ MODULE BattleMC ------------------------------
(***************************************************************************)
(* A field of one column: the base at its foot, a wall before it, the two    *)
(* tanks above.  What the tanks do sideways is turn and shoot at the sides.  *)
(***************************************************************************)
EXTENDS Battle, TLC

WallAndSteel == (<<0, 2>> :> "wall") @@ (<<1, 2>> :> "steel") @@ (<<0, 4>> :> "ice")
Foot == <<0, 0>>
Places == [t \in {"player", "enemy"} |-> IF t = "player" THEN <<0, 6>> ELSE <<0, 10>>]
=============================================================================
