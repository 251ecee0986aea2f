------------------------------ MODULE MCService ------------------------------
(***************************************************************************)
(* Small instances of WorkshopService for TLC.                             *)
(***************************************************************************)
EXTENDS ServiceProperties, TLC

CONSTANTS a1, a2,                    \* worker threads
          zece, zeceJumatate, noua, seara, fara, rau   \* request texts

\* Center 1 with a pair that has a capacity row and one that has none.
CuRand == <<1, 1>>
FaraRand == <<1, 2>>

MCRooms == {CuRand, FaraRand}
MCOneRoom == {CuRand}
MCCapacity == [room \in {CuRand} |-> 2] @@ [room \in {FaraRand} |-> NoRow]
MCNoRowRooms == {FaraRand}
MCNoRowCapacity == [room \in MCNoRowRooms |-> NoRow]
MCOneCapacity == [room \in MCOneRoom |-> 1]

\* Two texts of one interval, one of another, one after hours, one that is
\* not a time at all, and one with an hour where strftime finds no time.
MCOraStart == [t \in Times |->
    CASE t = noua -> 9 [] t = seara -> 17 [] t = rau -> Malformed [] OTHER -> 10]
MCOraGrup == [t \in Times |->
    CASE t = noua -> "09" [] t = seara -> "17" [] t \in {rau, fara} -> NullSlot [] OTHER -> "10"]

Symmetry == Permutations(Workers)
=============================================================================
