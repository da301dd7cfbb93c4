------------------------------- MODULE MCIoPipe -------------------------------
(* Instances of IoPipe for TLC. *)
EXTENDS IoPipe, TLC

CONSTANTS w1, w2, r1, r2

Sizes == w1 :> 2 @@ w2 :> 1
Rooms == r1 :> 1 @@ r2 :> 2

SizeOf == [w \in Writers |-> Sizes[w]]
CallsOf == [r \in Readers |-> IF r = r1 THEN 2 ELSE 1]
RoomOf == [r \in Readers |-> Rooms[r]]
=============================================================================
