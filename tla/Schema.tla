------------------------------- MODULE Schema -------------------------------
(***************************************************************************)
(* The tables of workshops.db and the SQL predicates every operation uses. *)
(* A table is a sequence: the rowid of a row is its index, because both    *)
(* tables are AUTOINCREMENT and no statement of the server deletes a row.  *)
(***************************************************************************)
EXTENDS Integers, Sequences, FiniteSets

CONSTANTS
    Rooms,            \* pairs <<center_id, workshop_id>> a request can name
    NoRow,            \* "no row in center_capacities"
    Capacity,         \* center_capacities, a function of Rooms
    DefaultCapacity,  \* the literal used when a pair has no capacity row
    Times,            \* the texts a request can carry in "ora"
    Malformed,        \* "std::stoi or substr throws on this text"
    OraStart,         \* the hour std::stoi reads at offset 11 of a text
    NullSlot,         \* SQL NULL: strftime cannot parse the text
    OraGrup,          \* the hour interval strftime('%Y-%m-%d %H', .) gives
    Sume              \* the amounts a payment request can carry

ASSUME SchemaAssumption ==
    /\ NoRow \notin Nat
    /\ Capacity \in [Rooms -> Nat \cup {NoRow}]
    /\ DefaultCapacity \in Nat
    /\ Malformed \notin Int
    /\ OraStart \in [Times -> Int \cup {Malformed}]
    /\ DOMAIN OraGrup = Times
    /\ Sume \subseteq Int

Statuses == {"REZERVARE", "PLATITA", "ANULATA", "EXPIRAT"}

\* A row of reservations; client_name and cnp are carried and never read.
Reservation == [room : Rooms, ora : Times, status : Statuses]

\* A row of transactions.
Transaction == [reservation_id : Nat \ {0}, type : {"INCASARE", "RAMBURS"}, amount : Int]

\* The seats of a pair; the variant forgets the default.
FaraDefault(room) == Capacity[room]
MaxCap(room) == IF Capacity[room] = NoRow THEN DefaultCapacity ELSE Capacity[room]

\* The opening hours test made on the text, before any lock is taken.
Deschis(ora) ==
    /\ OraStart[ora] # Malformed
    /\ 9 <= OraStart[ora] /\ OraStart[ora] < 17

\* The statuses that hold a seat.
Active == {"REZERVARE", "PLATITA"}

\* SQL equality of two intervals: NULL equals nothing.
SameInterval(slot1, slot2) == slot1 = slot2 /\ slot1 # NullSlot

\* The rows of a table (of records with a room, a text and a status) that
\* hold a seat in a room during an interval.
Occupied(table, room, slot) ==
    {id \in DOMAIN table :
        /\ table[id].room = room
        /\ SameInterval(OraGrup[table[id].ora], slot)
        /\ table[id].status \in Active}

Load(table, room, slot) == Cardinality(Occupied(table, room, slot))

\* Row id exists and has status st: the WHERE of both UPDATEs by id.
Matches(table, id, st) == id \in DOMAIN table /\ table[id].status = st

\* The WHERE of the clean-up, with the first n rows past the timeout, and the
\* variants that stop one row early and that forget the status.
UltimulScapa(table, id, n) == id < n /\ table[id].status = "REZERVARE"
OriceStatus(table, id, n) == id <= n
Expirabil(table, id, n) == id <= n /\ table[id].status = "REZERVARE"

\* The clean-up UPDATE.
Expired(table, n) ==
    [id \in DOMAIN table |->
        IF Expirabil(table, id, n) THEN [table[id] EXCEPT !.status = "EXPIRAT"] ELSE table[id]]
=============================================================================
