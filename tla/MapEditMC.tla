----------------------------- MODULE MapEditMC -----------------------------
(* MapEdit on a field of 7 x 3 sceneries: the left column is free to build.  *)
EXTENDS MapEdit

HomeAt == <<8, 0>>
BornAt == {<<2, 0>>}
EditAt == <<2, 0>>
StageMap == {<<<<1, 1>>, "WALL">>, <<<<4, 0>>, "STEEL">>, <<<<6, 1>>, "GRASS">>}
=============================================================================
