------------------------------ MODULE Bookings ------------------------------
(***************************************************************************)
(* What the reservation service promises, without threads, locks or        *)
(* tables: one book of reservations in which every operation is a single   *)
(* step, and in which a reservation's money moves in the very step that    *)
(* changes its status.  WorkshopService implements this specification.     *)
(***************************************************************************)
EXTENDS Schema

VARIABLES
    book,     \* the reservations ever made, each with the money it moved
    overdue   \* the first overdue ones were made longer ago than the timeout

vars == <<book, overdue>>

Booking == [room : Rooms, ora : Times, status : Statuses,
            incasat : Int, rambursat : Int]

TypeOK ==
    /\ book \in Seq(Booking)
    /\ overdue \in 0..Len(book)

Init == book = <<>> /\ overdue = 0

\* A seat is given away only while the interval has one left.
Reserve(room, ora) ==
    /\ Deschis(ora)
    /\ Load(book, room, OraGrup[ora]) < MaxCap(room)
    /\ book' = Append(book, [room |-> room, ora |-> ora, status |-> "REZERVARE",
                             incasat |-> 0, rambursat |-> 0])
    /\ UNCHANGED overdue

\* Paying moves status and money together, once.
Pay(id, suma) ==
    /\ Matches(book, id, "REZERVARE")
    /\ book' = [book EXCEPT ![id].status = "PLATITA", ![id].incasat = suma]
    /\ UNCHANGED overdue

\* Cancelling gives back exactly what was paid, once, and frees the seat.
Cancel(id) ==
    /\ Matches(book, id, "PLATITA")
    /\ book' = [book EXCEPT ![id].status = "ANULATA", ![id].rambursat = book[id].incasat]
    /\ UNCHANGED overdue

\* A clean-up takes every overdue unpaid reservation, and no other.
Expire ==
    /\ book' = Expired(book, overdue)
    /\ UNCHANGED overdue

\* Reservations pass the payment timeout in the order they were made.
TimeoutPasses ==
    /\ overdue < Len(book)
    /\ overdue' = overdue + 1
    /\ UNCHANGED book

Next ==
    \/ \E room \in Rooms, ora \in Times : Reserve(room, ora)
    \/ \E id \in DOMAIN book, suma \in Sume : Pay(id, suma)
    \/ \E id \in DOMAIN book : Cancel(id)
    \/ Expire \/ TimeoutPasses

Spec == Init /\ [][Next]_vars
=============================================================================
