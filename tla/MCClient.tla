------------------------------ MODULE MCClient ------------------------------
(***************************************************************************)
(* A small instance of Client for TLC: one interval in a room with two     *)
(* seats and one in a room with none.                                      *)
(***************************************************************************)
EXTENDS Client, TLC

CONSTANTS c1, c2, zece

MCRooms == {<<1, 1>>, <<1, 2>>}
MCCapacity == (<<1, 1>> :> 2) @@ (<<1, 2>> :> 0)
MCOraStart == [ora \in Times |-> 10]
MCOraGrup == [ora \in Times |-> "10"]
=============================================================================
