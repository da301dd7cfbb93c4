------------------------------ MODULE MCContext ------------------------------
(* A tree for TLC: root has a deadline of 2, mid below it an earlier one and  *)
(* side, below a wrapper of root, none; leaf below mid asks for a later       *)
(* deadline than mid's.                                                       *)
EXTENDS Context, TLC

CONSTANTS root, mid, leaf, side

ParentOf   == root :> Background @@ mid :> root @@ leaf :> mid @@ side :> root
DeadlineOf == root :> 2 @@ mid :> 1 @@ leaf :> 2 @@ side :> Never
Calls      == {<<root, 1>>, <<mid, 1>>, <<leaf, 1>>}
=============================================================================
