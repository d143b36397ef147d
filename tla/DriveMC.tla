------------------------------ MODULE DriveMC ------------------------------
(***************************************************************************)
(* A field of six by three sceneries, the base in a corner.                  *)
(***************************************************************************)
EXTENDS Drive, TLC

Corner == (<<3, 2>> :> "steel") @@ (<<2, 2>> :> "wall") @@ (<<0, 0>> :> "ice")
Foot == <<8, 0>>
Places == [t \in {"player", "enemy"} |-> <<4, 0>>]
=============================================================================
