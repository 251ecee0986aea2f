-------------------------- MODULE RefinementProofs --------------------------
(***************************************************************************)
(* Proof that WorkshopService implements Bookings when no statement of a   *)
(* request fails and the process is not killed: through the book, every    *)
(* step of every thread is one whole operation or nothing.                 *)
(***************************************************************************)
EXTENDS LedgerProofs

-----------------------------------------------------------------------------
\* The money of a book.

\* What the book says of a reservation's money: the row on record, or the
\* amount in the hands of the one thread about to write it, or nothing.
BookReads ==
    /\ \A id : \A t \in Entries(id, "INCASARE") : Incasat(id) = transactions[t].amount
    /\ \A id : \A w \in Workers :
          pc[w] = "incasare" /\ task[w].id = id => Incasat(id) = task[w].suma
    /\ \A id : Entries(id, "INCASARE") = {} /\ ~InFlight(id, "incasare") => Incasat(id) = 0
    /\ \A id : \A t \in Entries(id, "RAMBURS") : Rambursat(id) = -transactions[t].amount
    /\ \A id : \A w \in Workers :
          pc[w] = "ramburs" /\ task[w].id = id => Rambursat(id) = frame[w].amountPaid
    /\ \A id : Entries(id, "RAMBURS") = {} /\ ~InFlight(id, "ramburs") => Rambursat(id) = 0

\* The choices in the book's definition are no choices: there is one row, and
\* one thread.
LEMMA BookIsRead == MoneyInv => BookReads
<1> SUFFICES ASSUME MoneyInv PROVE BookReads
  OBVIOUS
<1> USE DEF MoneyInv
<1>1. EntriesSingle
  BY OneEntry
<1>2. ASSUME NEW label \in {"incasare", "ramburs"}, NEW id,
             NEW w \in Workers, pc[w] = label, task[w].id = id
      PROVE  (CHOOSE v \in Workers : pc[v] = label /\ task[v].id = id) = w
  <2>1. \A v \in Workers : pc[v] = label => v = w
    BY <1>2, OneAtATime DEF CriticalLabels, Threads
  <2> QED
    BY <1>2, <2>1
<1>3. ASSUME NEW id, NEW t \in Entries(id, "INCASARE")
      PROVE  Incasat(id) = transactions[t].amount
  BY <1>1, <1>3 DEF Incasat, EntriesSingle, AmountPaid
<1>4. ASSUME NEW id, NEW w \in Workers, pc[w] = "incasare", task[w].id = id
      PROVE  Incasat(id) = task[w].suma
  <2>1. Entries(id, "INCASARE") = {} /\ InFlight(id, "incasare")
    BY <1>4 DEF InFlightInv, PaymentUnderWay, InFlight
  <2> QED
    BY <1>2, <1>4, <2>1 DEF Incasat
<1>5. ASSUME NEW id, NEW t \in Entries(id, "RAMBURS")
      PROVE  Rambursat(id) = -transactions[t].amount
  BY <1>1, <1>5 DEF Rambursat, EntriesSingle
<1>6. ASSUME NEW id, NEW w \in Workers, pc[w] = "ramburs", task[w].id = id
      PROVE  Rambursat(id) = frame[w].amountPaid
  <2>1. Entries(id, "RAMBURS") = {} /\ InFlight(id, "ramburs")
    BY <1>6 DEF InFlightInv, RefundUnderWay, InFlight
  <2> QED
    BY <1>2, <1>6, <2>1 DEF Rambursat
<1>7. \A id : /\ Entries(id, "INCASARE") = {} /\ ~InFlight(id, "incasare") => Incasat(id) = 0
              /\ Entries(id, "RAMBURS") = {} /\ ~InFlight(id, "ramburs") => Rambursat(id) = 0
  BY DEF Incasat, Rambursat
<1> QED
  BY <1>3, <1>4, <1>5, <1>6, <1>7 DEF BookReads

\* A payment in the book stands still while the row on record and the thread
\* about to write it do.
LEMMA PaymentStill ==
    ASSUME BookReads, BookReads', NEW id,
           Entries(id, "INCASARE")' = Entries(id, "INCASARE"),
           \A t \in Entries(id, "INCASARE") : transactions'[t] = transactions[t],
           \A w \in Workers :
              (pc[w] = "incasare" /\ task[w].id = id) \/ (pc'[w] = "incasare" /\ task'[w].id = id)
                 => pc'[w] = pc[w] /\ task'[w] = task[w]
    PROVE  Incasat(id)' = Incasat(id)
<1>1. CASE Entries(id, "INCASARE") # {}
  BY <1>1 DEF BookReads
<1>2. ASSUME NEW w \in Workers, pc[w] = "incasare", task[w].id = id
      PROVE  Incasat(id)' = Incasat(id)
  <2>1. pc'[w] = "incasare" /\ task'[w] = task[w]
    BY <1>2
  <2>2. Incasat(id) = task[w].suma
    BY <1>2 DEF BookReads
  <2>3. Incasat(id)' = task'[w].suma
    BY <1>2, <2>1 DEF BookReads
  <2> QED
    BY <2>1, <2>2, <2>3
<1>3. CASE Entries(id, "INCASARE") = {} /\ ~InFlight(id, "incasare")
  <2>1. ~InFlight(id, "incasare")'
    BY <1>3 DEF InFlight
  <2> QED
    BY <1>3, <2>1 DEF BookReads
<1> QED
  BY <1>1, <1>2, <1>3 DEF InFlight

\* And so does a refund.
LEMMA RefundStill ==
    ASSUME BookReads, BookReads', NEW id,
           Entries(id, "RAMBURS")' = Entries(id, "RAMBURS"),
           \A t \in Entries(id, "RAMBURS") : transactions'[t] = transactions[t],
           \A w \in Workers :
              (pc[w] = "ramburs" /\ task[w].id = id) \/ (pc'[w] = "ramburs" /\ task'[w].id = id)
                 => pc'[w] = pc[w] /\ task'[w] = task[w] /\ frame'[w] = frame[w]
    PROVE  Rambursat(id)' = Rambursat(id)
<1>1. CASE Entries(id, "RAMBURS") # {}
  BY <1>1 DEF BookReads
<1>2. ASSUME NEW w \in Workers, pc[w] = "ramburs", task[w].id = id
      PROVE  Rambursat(id)' = Rambursat(id)
  <2>1. pc'[w] = "ramburs" /\ task'[w] = task[w] /\ frame'[w] = frame[w]
    BY <1>2
  <2>2. Rambursat(id) = frame[w].amountPaid
    BY <1>2 DEF BookReads
  <2>3. Rambursat(id)' = frame'[w].amountPaid
    BY <1>2, <2>1 DEF BookReads
  <2> QED
    BY <2>1, <2>2, <2>3
<1>3. CASE Entries(id, "RAMBURS") = {} /\ ~InFlight(id, "ramburs")
  <2>1. ~InFlight(id, "ramburs")'
    BY <1>3 DEF InFlight
  <2> QED
    BY <1>3, <2>1 DEF BookReads
<1> QED
  BY <1>1, <1>2, <1>3 DEF InFlight

-----------------------------------------------------------------------------
\* The rows of a book.

\* A book has a row for every row of reservations, with the same room, text
\* and status.
LEMMA BookRows ==
    ASSUME TypeInv
    PROVE  /\ DOMAIN Book = DOMAIN reservations
           /\ Len(Book) = Len(reservations)
           /\ Book \in Seq({Book[id] : id \in DOMAIN reservations})
           /\ \A id \in DOMAIN reservations :
                 /\ Book[id].room = reservations[id].room
                 /\ Book[id].ora = reservations[id].ora
                 /\ Book[id].status = reservations[id].status
                 /\ Book[id].incasat = Incasat(id)
                 /\ Book[id].rambursat = Rambursat(id)
<1> DEFINE S == {Book[id] : id \in DOMAIN reservations}
<1>1. DOMAIN reservations = 1..Len(reservations) /\ Len(reservations) \in Nat
  BY LenProperties DEF TypeInv, TypeOK
<1>2. Book \in [1..Len(reservations) -> S]
  BY <1>1 DEF Book
<1>3. Book \in Seq(S)
  BY <1>1, <1>2, SeqDef
<1>4. Len(Book) = Len(reservations)
  BY <1>1, <1>2, <1>3, LenProperties
<1> QED
  BY <1>3, <1>4 DEF Book

\* The book counts seats, and finds rows, exactly as the tables do.
LEMMA BookCounts ==
    ASSUME TypeInv
    PROVE  /\ \A room, slot : Promise!Load(Book, room, slot) = Load(reservations, room, slot)
           /\ \A id, st : Promise!Matches(Book, id, st) <=> Matches(reservations, id, st)
<1>1. ASSUME NEW room, NEW slot
      PROVE  Promise!Occupied(Book, room, slot) = Occupied(reservations, room, slot)
  BY BookRows DEF Promise!Occupied, Occupied, Promise!SameInterval, SameInterval,
     Promise!Active, Active
<1>2. ASSUME NEW id, NEW st
      PROVE  Promise!Matches(Book, id, st) <=> Matches(reservations, id, st)
  BY BookRows DEF Promise!Matches, Matches
<1>3. \A S : Promise!Cardinality(S) = Cardinality(S)
  BY DEF Promise!Cardinality, Cardinality
<1> QED
  BY <1>1, <1>2, <1>3 DEF Promise!Load, Load

\* Threads that do not move money leave the book alone.
LEMMA BookStutters ==
    ASSUME BookReads, BookReads', UNCHANGED db,
           \A w \in Workers :
              pc[w] \in {"incasare", "ramburs"} \/ pc'[w] \in {"incasare", "ramburs"}
                 => pc'[w] = pc[w] /\ task'[w] = task[w] /\ frame'[w] = frame[w]
    PROVE  Book' = Book
<1>1. /\ UNCHANGED reservations /\ UNCHANGED transactions
      /\ \A id, type : Entries(id, type)' = Entries(id, type)
  BY DEF db, Entries
<1>2. \A id : Incasat(id)' = Incasat(id) /\ Rambursat(id)' = Rambursat(id)
  <2> TAKE id
  <2>1. Incasat(id)' = Incasat(id)
    BY <1>1, PaymentStill
  <2>2. Rambursat(id)' = Rambursat(id)
    BY <1>1, RefundStill
  <2> QED
    BY <2>1, <2>2
<1> QED
  BY <1>1, <1>2 DEF Book

\* Where no thread is about to write money, the money of the book stands still
\* with the table transactions until a thread announces some.
LEMMA MoneyStill ==
    ASSUME BookReads, BookReads', UNCHANGED transactions,
           \A w \in Workers : pc[w] \notin {"incasare", "ramburs"}
    PROVE  /\ (\A w \in Workers : pc'[w] # "incasare") => \A id : Incasat(id)' = Incasat(id)
           /\ (\A w \in Workers : pc'[w] # "ramburs") => \A id : Rambursat(id)' = Rambursat(id)
<1>1. \A id, type : Entries(id, type)' = Entries(id, type)
  BY DEF Entries
<1>2. ASSUME \A w \in Workers : pc'[w] # "incasare", NEW id
      PROVE  Incasat(id)' = Incasat(id)
  BY <1>1, <1>2, PaymentStill
<1>3. ASSUME \A w \in Workers : pc'[w] # "ramburs", NEW id
      PROVE  Rambursat(id)' = Rambursat(id)
  BY <1>1, <1>3, RefundStill
<1> QED
  BY <1>2, <1>3

-----------------------------------------------------------------------------
\* The steps that take effect.

RefineInv == SeatsInv /\ LedgerInv /\ OpenHours

\* The UPDATE of a payment is the payment: the amount it announces is in the
\* book from then on.
LEMMA PayRefines ==
    ASSUME RefineInv, BookReads, BookReads', TypeInv', NEW w \in Workers, PlataUpdate(w)
    PROVE  [Promise!Next]_(Promise!vars)
<1> USE ServiceAssumption DEF RefineInv, LedgerInv, MoneyInv, TypeInv, TypeOK, Threads
<1>1. pc[w] = "plata" /\ \A v \in Workers : pc[v] \notin {"incasare", "ramburs"}
  BY OneAtATime DEF PlataUpdate, CriticalLabels
<1>2. CASE UNCHANGED reservations /\ Goto(w, "return")
  <2>1. Book' = Book
    BY <1>1, <1>2, BookStutters DEF PlataUpdate, Goto, db
  <2> QED
    BY <2>1 DEF PlataUpdate, Promise!vars
<1>3. ASSUME NEW id, id = task[w].id, Matches(reservations, id, "REZERVARE"),
             reservations' = [reservations EXCEPT ![id].status = "PLATITA"],
             Goto(w, "incasare")
      PROVE  [Promise!Next]_(Promise!vars)
  <2> DEFINE suma == task[w].suma
             paid == [Book EXCEPT ![id].status = "PLATITA", ![id].incasat = suma]
  <2>1. suma \in Sume /\ id \in DOMAIN reservations /\ "PLATITA" \in Statuses
    BY <1>1, <1>3 DEF TasksFit, Plati, Matches, Statuses
  <2>2. /\ DOMAIN reservations' = DOMAIN reservations
        /\ \A i \in DOMAIN reservations :
              reservations'[i] = IF i = id THEN [reservations[i] EXCEPT !.status = "PLATITA"]
                                 ELSE reservations[i]
    BY <1>3, <2>1, UpdateStatus
  <2>3. reservations[id] \in Reservation
    BY <2>1, LenProperties
  <2>4. UNCHANGED <<transactions, task, frame, overdue>>
    BY DEF PlataUpdate
  <2>5. pc'[w] = "incasare" /\ \A v \in Workers \ {w} : pc'[v] = pc[v]
    BY <1>3 DEF Goto
  <2>6. Incasat(id)' = suma
    BY <1>3, <2>4, <2>5 DEF BookReads
  <2>7. \A i : i # id => Incasat(i)' = Incasat(i)
    <3> SUFFICES ASSUME NEW i, i # id
                 PROVE  Incasat(i)' = Incasat(i)
      OBVIOUS
    <3>1. Entries(i, "INCASARE")' = Entries(i, "INCASARE")
      BY <2>4 DEF Entries
    <3>2. \A v \in Workers :
            ~(pc[v] = "incasare" /\ task[v].id = i) /\ ~(pc'[v] = "incasare" /\ task'[v].id = i)
      BY <1>1, <1>3, <2>4, <2>5
    <3> QED
      BY <2>4, <3>1, <3>2, PaymentStill
  <2>8. \A i : Rambursat(i)' = Rambursat(i)
    BY <1>1, <2>4, <2>5, MoneyStill
  <2>9. Book' = paid
    <3>1. DOMAIN Book' = DOMAIN reservations /\ DOMAIN paid = DOMAIN reservations
      BY <2>2, BookRows DEF Book
    <3>2. ASSUME NEW i \in DOMAIN reservations
          PROVE  Book'[i] = paid[i]
      <4>1. CASE i # id
        BY <2>2, <2>7, <2>8, <4>1 DEF Book
      <4>2. CASE i = id
        <5> DEFINE old == reservations[id]
                   row == [room |-> old.room, ora |-> old.ora, status |-> "PLATITA",
                           incasat |-> suma, rambursat |-> Rambursat(id)]
        <5>1. Book[id] = [room |-> old.room, ora |-> old.ora, status |-> old.status,
                          incasat |-> Incasat(id), rambursat |-> Rambursat(id)]
          BY <2>1 DEF Book
        <5>2. paid[id] = row
          BY <2>1, <3>1, <5>1 DEF Book
        <5>3. /\ reservations'[id].room = old.room /\ reservations'[id].ora = old.ora
              /\ reservations'[id].status = "PLATITA"
          BY <2>1, <2>2, <2>3 DEF Reservation
        <5>4. Book'[id] = row
          BY <2>1, <2>2, <2>6, <2>8, <5>3 DEF Book
        <5> QED
          BY <4>2, <5>2, <5>4
      <4> QED
        BY <4>1, <4>2
    <3> QED
      BY <3>1, <3>2 DEF Book
  <2>10. id \in DOMAIN Book /\ Promise!Matches(Book, id, "REZERVARE")
    BY <1>3, <2>1, BookRows, BookCounts
  <2>11. Promise!Pay(id, suma)
    BY <2>4, <2>9, <2>10 DEF Promise!Pay
  <2> QED
    BY <2>1, <2>10, <2>11 DEF Promise!Next
<1> QED
  BY <1>2, <1>3 DEF PlataUpdate, Plateste, UpdateById, Answer

\* The UPDATE of a cancellation is the cancellation: what it gives back is what
\* the book says was paid.
LEMMA CancelRefines ==
    ASSUME RefineInv, BookReads, BookReads', TypeInv', NEW w \in Workers, AnulareUpdate(w)
    PROVE  [Promise!Next]_(Promise!vars)
<1> USE ServiceAssumption DEF RefineInv, LedgerInv, MoneyInv, TypeInv, TypeOK, Threads
<1>1. pc[w] = "anulare" /\ \A v \in Workers : pc[v] \notin {"incasare", "ramburs"}
  BY OneAtATime DEF AnulareUpdate, CriticalLabels
<1>2. CASE UNCHANGED reservations /\ Goto(w, "return")
  <2>1. Book' = Book
    BY <1>1, <1>2, BookStutters DEF AnulareUpdate, Goto, db
  <2> QED
    BY <2>1 DEF AnulareUpdate, Promise!vars
<1>3. ASSUME NEW id, id = task[w].id, Matches(reservations, id, "PLATITA"),
             reservations' = [reservations EXCEPT ![id].status = "ANULATA"],
             Goto(w, "ramburs")
      PROVE  [Promise!Next]_(Promise!vars)
  <2> DEFINE cancelled == [Book EXCEPT ![id].status = "ANULATA", ![id].rambursat = Book[id].incasat]
  <2>1. id \in DOMAIN reservations /\ "ANULATA" \in Statuses
    BY <1>3 DEF Matches, Statuses
  <2>2. /\ DOMAIN reservations' = DOMAIN reservations
        /\ \A i \in DOMAIN reservations :
              reservations'[i] = IF i = id THEN [reservations[i] EXCEPT !.status = "ANULATA"]
                                 ELSE reservations[i]
    BY <1>3, <2>1, UpdateStatus
  <2>3. reservations[id] \in Reservation
    BY <2>1, LenProperties
  <2>4. UNCHANGED <<transactions, task, frame, overdue>>
    BY DEF AnulareUpdate
  <2>5. pc'[w] = "ramburs" /\ \A v \in Workers \ {w} : pc'[v] = pc[v]
    BY <1>3 DEF Goto
  <2>6. Rambursat(id)' = Incasat(id)
    <3>1. Rambursat(id)' = frame[w].amountPaid
      BY <1>3, <2>4, <2>5 DEF BookReads
    <3>2. PICK t \in Entries(id, "INCASARE") : transactions[t].amount = frame[w].amountPaid
      BY <1>1, <1>3 DEF InFlightInv, PaymentFound
    <3>3. Incasat(id) = frame[w].amountPaid
      BY <3>2 DEF BookReads
    <3> QED
      BY <3>1, <3>3
  <2>7. \A i : i # id => Rambursat(i)' = Rambursat(i)
    <3> SUFFICES ASSUME NEW i, i # id
                 PROVE  Rambursat(i)' = Rambursat(i)
      OBVIOUS
    <3>1. Entries(i, "RAMBURS")' = Entries(i, "RAMBURS")
      BY <2>4 DEF Entries
    <3>2. \A v \in Workers :
            ~(pc[v] = "ramburs" /\ task[v].id = i) /\ ~(pc'[v] = "ramburs" /\ task'[v].id = i)
      BY <1>1, <1>3, <2>4, <2>5
    <3> QED
      BY <2>4, <3>1, <3>2, RefundStill
  <2>8. \A i : Incasat(i)' = Incasat(i)
    BY <1>1, <2>4, <2>5, MoneyStill
  <2>9. Book' = cancelled
    <3>1. DOMAIN Book' = DOMAIN reservations /\ DOMAIN cancelled = DOMAIN reservations
      BY <2>2, BookRows DEF Book
    <3>2. ASSUME NEW i \in DOMAIN reservations
          PROVE  Book'[i] = cancelled[i]
      <4>1. CASE i # id
        BY <2>2, <2>7, <2>8, <4>1 DEF Book
      <4>2. CASE i = id
        <5> DEFINE old == reservations[id]
                   row == [room |-> old.room, ora |-> old.ora, status |-> "ANULATA",
                           incasat |-> Incasat(id), rambursat |-> Incasat(id)]
        <5>1. Book[id] = [room |-> old.room, ora |-> old.ora, status |-> old.status,
                          incasat |-> Incasat(id), rambursat |-> Rambursat(id)]
          BY <2>1 DEF Book
        <5>2. cancelled[id] = row
          BY <2>1, <3>1, <5>1 DEF Book
        <5>3. /\ reservations'[id].room = old.room /\ reservations'[id].ora = old.ora
              /\ reservations'[id].status = "ANULATA"
          BY <2>1, <2>2, <2>3 DEF Reservation
        <5>4. Book'[id] = row
          BY <2>1, <2>2, <2>6, <2>8, <5>3 DEF Book
        <5> QED
          BY <4>2, <5>2, <5>4
      <4> QED
        BY <4>1, <4>2
    <3> QED
      BY <3>1, <3>2 DEF Book
  <2>10. id \in DOMAIN Book /\ Promise!Matches(Book, id, "PLATITA")
    BY <1>3, <2>1, BookRows, BookCounts
  <2>11. Promise!Cancel(id)
    BY <2>4, <2>9, <2>10 DEF Promise!Cancel
  <2> QED
    BY <2>10, <2>11 DEF Promise!Next
<1> QED
  BY <1>2, <1>3 DEF AnulareUpdate, UpdateById, Answer

\* No money is on record for a reservation that does not exist.
LEMMA EntryHasRow ==
    ASSUME MoneyConserved, NEW id, NEW type, NEW t \in Entries(id, type)
    PROVE  id \in DOMAIN reservations
  BY DEF MoneyConserved, Entries, Matches

\* The INSERT of a reservation is the reservation: what the worker has read
\* before is what the book says at this moment.
LEMMA ReserveRefines ==
    ASSUME "write" \notin Faults, RefineInv, RefineInv', BookReads, BookReads',
           NEW w \in Workers, RezervareInsert(w)
    PROVE  [Promise!Next]_(Promise!vars)
<1> USE ServiceAssumption DEF RefineInv, SeatsInv, LedgerInv, MoneyInv, TypeInv, TypeOK, Threads
<1>1. PICK room, ora : room = task[w].room /\ ora = task[w].ora
  OBVIOUS
<1> DEFINE n == Len(reservations) + 1
           row == [room |-> room, ora |-> ora, status |-> "REZERVARE"]
           entry == [room |-> room, ora |-> ora, status |-> "REZERVARE",
                     incasat |-> 0, rambursat |-> 0]
<1>2. /\ pc[w] = "insert" /\ task[w] \in Rezervari
      /\ room \in Rooms /\ ora \in Times /\ row \in Reservation
  BY <1>1 DEF RezervareInsert, TasksFit, Rezervari, Reservation, Statuses
<1>3. /\ reservations' = Append(reservations, row)
      /\ UNCHANGED <<transactions, overdue, task, frame>>
      /\ Goto(w, "return")
  BY <1>1 DEF RezervareInsert, Answer
<1>4. /\ Len(reservations) \in Nat
      /\ DOMAIN reservations = 1..Len(reservations) /\ DOMAIN reservations' = 1..n
      /\ \A i \in 1..Len(reservations) : reservations'[i] = reservations[i]
      /\ reservations'[n] = row
  BY <1>2, <1>3, InsertRow, LenProperties
<1>5. Deschis(ora)
  BY <1>1, <1>2 DEF OpenHours, Rezervari
<1>6. Load(reservations, room, OraGrup[ora]) < MaxCap(room)
  <2>1. frame[w].load < frame[w].max_cap
    BY DEF RezervareInsert, MaiAreLoc
  <2> QED
    BY <1>1, <1>2, <2>1 DEF CapacityRead, LoadRead
<1>7. /\ \A v \in Workers : pc[v] \notin {"incasare", "ramburs"}
      /\ \A v \in Workers : pc'[v] \notin {"incasare", "ramburs"}
  BY <1>2, <1>3, OneAtATime DEF CriticalLabels, Goto
<1>8. \A i : Incasat(i)' = Incasat(i) /\ Rambursat(i)' = Rambursat(i)
  BY <1>3, <1>7, MoneyStill
<1>9. Incasat(n) = 0 /\ Rambursat(n) = 0
  <2>1. n \notin DOMAIN reservations
    BY <1>4
  <2>2. Entries(n, "INCASARE") = {} /\ Entries(n, "RAMBURS") = {}
    BY <2>1, EntryHasRow
  <2>3. ~InFlight(n, "incasare") /\ ~InFlight(n, "ramburs")
    BY <1>7 DEF InFlight
  <2> QED
    BY <2>1, <2>2, <2>3 DEF BookReads
<1>10. Book' = Append(Book, entry)
  <2> DEFINE S == {Book[id] : id \in DOMAIN reservations} \cup {entry}
  <2>1. Book \in Seq(S) /\ Len(Book) = Len(reservations)
    <3>1. Book \in [1..Len(reservations) -> S]
      BY <1>4, BookRows
    <3> QED
      BY <1>4, <3>1, BookRows, SeqDef
  <2>2. /\ DOMAIN Append(Book, entry) = 1..n
        /\ \A i \in 1..Len(reservations) : Append(Book, entry)[i] = Book[i]
        /\ Append(Book, entry)[n] = entry
        /\ Append(Book, entry) \in Seq(S)
    BY <2>1, InsertRow
  <2>3. DOMAIN Book' = 1..n
    BY <1>4 DEF Book
  <2>4. ASSUME NEW i \in 1..n
        PROVE  Book'[i] = Append(Book, entry)[i]
    <3>1. Book'[i] = [room |-> reservations'[i].room, ora |-> reservations'[i].ora,
                      status |-> reservations'[i].status,
                      incasat |-> Incasat(i), rambursat |-> Rambursat(i)]
      BY <1>4, <1>8 DEF Book
    <3>2. CASE i = n
      BY <1>4, <1>9, <2>2, <3>1, <3>2
    <3>3. CASE i \in 1..Len(reservations)
      <4>1. Book[i] = [room |-> reservations[i].room, ora |-> reservations[i].ora,
                       status |-> reservations[i].status,
                       incasat |-> Incasat(i), rambursat |-> Rambursat(i)]
        BY <1>4, <3>3 DEF Book
      <4> QED
        BY <1>4, <2>2, <3>1, <3>3, <4>1
    <3>4. i = Len(reservations) + 1 \/ i \in 1..Len(reservations)
      BY <1>4
    <3> QED
      BY <3>2, <3>3, <3>4
  <2>5. Book' = [i \in 1..n |-> Book'[i]]
    BY <2>3 DEF Book
  <2>6. Append(Book, entry) = [i \in 1..n |-> Append(Book, entry)[i]]
    BY <2>2, SeqDef
  <2> QED
    BY <2>4, <2>5, <2>6
<1>11. /\ Promise!Deschis(ora)
       /\ Promise!Load(Book, room, OraGrup[ora]) < Promise!MaxCap(room)
  BY <1>5, <1>6, BookCounts DEF Promise!Deschis, Deschis, Promise!MaxCap, MaxCap
<1>12. Promise!Reserve(room, ora)
  BY <1>3, <1>10, <1>11 DEF Promise!Reserve
<1> QED
  BY <1>2, <1>12 DEF Promise!Next

\* The clean-up is the clean-up: it leaves the money alone.
LEMMA ExpireRefines ==
    ASSUME "write" \notin Faults, RefineInv, BookReads, BookReads', AuditExpira
    PROVE  [Promise!Next]_(Promise!vars)
<1> USE ServiceAssumption DEF RefineInv, LedgerInv, MoneyInv, TypeInv, TypeOK, Threads
<1>1. /\ reservations' = Expired(reservations, overdue)
      /\ UNCHANGED <<transactions, overdue, task, frame>>
      /\ \A v \in Workers : pc'[v] = pc[v]
  BY DEF AuditExpira, Outcomes, Goto
<1>2. \A v \in Workers : pc[v] \notin {"incasare", "ramburs"}
  BY OneAtATime DEF AuditExpira, CriticalLabels
<1>3. \A i : Incasat(i)' = Incasat(i) /\ Rambursat(i)' = Rambursat(i)
  BY <1>1, <1>2, MoneyStill
<1>4. DOMAIN reservations' = DOMAIN reservations
  BY <1>1 DEF Expired
<1>5. ASSUME NEW i \in DOMAIN reservations
      PROVE  Book'[i] = IF Promise!Expirabil(Book, i, overdue)
                        THEN [Book[i] EXCEPT !.status = "EXPIRAT"] ELSE Book[i]
  <2> DEFINE old == reservations[i]
             row(st) == [room |-> old.room, ora |-> old.ora, status |-> st,
                         incasat |-> Incasat(i), rambursat |-> Rambursat(i)]
  <2>1. Book[i] = row(old.status)
    BY DEF Book
  <2>2. Promise!Expirabil(Book, i, overdue) <=> Expirabil(reservations, i, overdue)
    BY <2>1 DEF Promise!Expirabil, Expirabil
  <2>3. Book'[i] = [room |-> reservations'[i].room, ora |-> reservations'[i].ora,
                    status |-> reservations'[i].status,
                    incasat |-> Incasat(i), rambursat |-> Rambursat(i)]
    BY <1>3, <1>4 DEF Book
  <2>4. old \in Reservation
    BY LenProperties
  <2>5. /\ reservations'[i].room = old.room /\ reservations'[i].ora = old.ora
        /\ reservations'[i].status =
              IF Expirabil(reservations, i, overdue) THEN "EXPIRAT" ELSE old.status
    BY <1>1, <2>4 DEF Expired, Reservation
  <2>6. [Book[i] EXCEPT !.status = "EXPIRAT"] = row("EXPIRAT")
    BY <2>1
  <2> QED
    BY <2>1, <2>2, <2>3, <2>5, <2>6
<1>6. Book' = [i \in DOMAIN reservations |-> Book'[i]]
  BY <1>4 DEF Book
<1>7. Book' = Promise!Expired(Book, overdue)
  BY <1>5, <1>6, BookRows DEF Promise!Expired
<1> QED
  BY <1>1, <1>7 DEF Promise!Next, Promise!Expire

-----------------------------------------------------------------------------
\* Every step.

\* The second statements of a payment and of a refund write what the book
\* already says.
LEMMA RecordStutters ==
    ASSUME RefineInv, BookReads, BookReads', NEW w \in Workers,
           PlataIncasare(w) \/ AnulareRamburs(w), Faults \subseteq {"audit"}
    PROVE  Book' = Book
<1> USE ServiceAssumption DEF RefineInv, LedgerInv, MoneyInv, TypeInv, TypeOK, Threads
<1>1. PICK id : id = task[w].id
  OBVIOUS
<1>2. /\ UNCHANGED <<reservations, task, frame>>
      /\ pc[w] \in {"incasare", "ramburs"} /\ pc'[w] = "return"
      /\ \A v \in Workers \ {w} : pc'[v] = pc[v]
  BY DEF PlataIncasare, AnulareRamburs, Answer, Goto
<1>3. \A v \in Workers \ {w} : pc[v] \notin {"incasare", "ramburs"}
  BY <1>2, OneAtATime DEF CriticalLabels
<1>4. ASSUME NEW x \in Transaction, x.reservation_id = id,
             transactions' = Append(transactions, x)
      PROVE  /\ \A other, type : other # id \/ type # x.type =>
                   Entries(other, type)' = Entries(other, type)
             /\ \A other, type : \A t \in Entries(other, type) : transactions'[t] = transactions[t]
             /\ \E t \in Entries(id, x.type)' : transactions'[t] = x
  <2>1. /\ Len(transactions) \in Nat /\ DOMAIN transactions = 1..Len(transactions)
        /\ DOMAIN transactions' = 1..(Len(transactions) + 1)
        /\ \A t \in 1..Len(transactions) : transactions'[t] = transactions[t]
        /\ transactions'[Len(transactions) + 1] = x
    BY <1>4, InsertRow, LenProperties
  <2>2. DOMAIN transactions' = DOMAIN transactions \cup {Len(transactions) + 1}
    BY <2>1
  <2> QED
    BY <1>4, <2>1, <2>2 DEF Entries
<1>5. CASE PlataIncasare(w)
  <2>1. PICK x \in Transaction :
           x = [reservation_id |-> task[w].id, type |-> "INCASARE", amount |-> task[w].suma]
    BY <1>5, SchemaAssumption DEF PlataIncasare, TasksFit, Plati, Transaction
  <2>2. transactions' = Append(transactions, x) /\ pc[w] = "incasare"
    BY <1>5, <2>1 DEF PlataIncasare, InsertTransaction, Outcomes
  <2>3. /\ \A other, type : other # id \/ type # "INCASARE" =>
              Entries(other, type)' = Entries(other, type)
        /\ \A other, type : \A t \in Entries(other, type) : transactions'[t] = transactions[t]
        /\ \E t \in Entries(id, "INCASARE")' : transactions'[t].amount = task[w].suma
    <3>1. x.reservation_id = id /\ x.type = "INCASARE" /\ x.amount = task[w].suma
      BY <1>1, <2>1
    <3>2. /\ \A other, type : other # id \/ type # x.type =>
                Entries(other, type)' = Entries(other, type)
          /\ \A other, type : \A t \in Entries(other, type) : transactions'[t] = transactions[t]
          /\ \E t \in Entries(id, x.type)' : transactions'[t] = x
      BY <1>4, <2>2, <3>1
    <3> QED
      BY <3>1, <3>2
  <2>4. Incasat(id)' = Incasat(id)
    <3>1. Incasat(id) = task[w].suma
      BY <1>1, <2>2 DEF BookReads
    <3>2. PICK t \in Entries(id, "INCASARE")' : transactions'[t].amount = task[w].suma
      BY <2>3
    <3>3. Incasat(id)' = transactions'[t].amount
      BY <3>2 DEF BookReads
    <3> QED
      BY <3>1, <3>2, <3>3
  <2>5. \A other : other # id => Incasat(other)' = Incasat(other)
    <3> SUFFICES ASSUME NEW other, other # id PROVE Incasat(other)' = Incasat(other)
      OBVIOUS
    <3>1. \A v \in Workers :
            ~(pc[v] = "incasare" /\ task[v].id = other) /\ ~(pc'[v] = "incasare" /\ task'[v].id = other)
      BY <1>1, <1>2, <1>3
    <3> QED
      BY <2>3, <3>1, PaymentStill
  <2>6. \A other : Rambursat(other)' = Rambursat(other)
    <3> SUFFICES ASSUME NEW other PROVE Rambursat(other)' = Rambursat(other)
      OBVIOUS
    <3>1. \A v \in Workers : pc[v] # "ramburs" /\ pc'[v] # "ramburs"
      BY <1>2, <1>3, <2>2
    <3> QED
      BY <2>3, <3>1, RefundStill
  <2> QED
    BY <1>2, <2>4, <2>5, <2>6 DEF Book
<1>6. CASE AnulareRamburs(w)
  <2>1. task[w].id \in Nat \ {0} /\ frame[w].amountPaid \in Int
    BY <1>6 DEF AnulareRamburs, TasksFit, Anulari, Frames
  <2>2. PICK x \in Transaction :
           x = [reservation_id |-> task[w].id, type |-> "RAMBURS", amount |-> -frame[w].amountPaid]
    <3>1. [reservation_id |-> task[w].id, type |-> "RAMBURS", amount |-> -frame[w].amountPaid]
             \in Transaction
      BY <2>1 DEF Transaction
    <3> QED
      BY <3>1
  <2>3. transactions' = Append(transactions, x) /\ pc[w] = "ramburs"
    BY <1>6, <2>2 DEF AnulareRamburs, InsertTransaction, Outcomes
  <2>4. /\ \A other, type : other # id \/ type # "RAMBURS" =>
              Entries(other, type)' = Entries(other, type)
        /\ \A other, type : \A t \in Entries(other, type) : transactions'[t] = transactions[t]
        /\ \E t \in Entries(id, "RAMBURS")' : transactions'[t].amount = -frame[w].amountPaid
    <3>1. x.reservation_id = id /\ x.type = "RAMBURS" /\ x.amount = -frame[w].amountPaid
      BY <1>1, <2>2
    <3>2. /\ \A other, type : other # id \/ type # x.type =>
                Entries(other, type)' = Entries(other, type)
          /\ \A other, type : \A t \in Entries(other, type) : transactions'[t] = transactions[t]
          /\ \E t \in Entries(id, x.type)' : transactions'[t] = x
      BY <1>4, <2>3, <3>1
    <3> QED
      BY <3>1, <3>2
  <2>5. Rambursat(id)' = Rambursat(id)
    <3>1. Rambursat(id) = frame[w].amountPaid
      BY <1>1, <2>3 DEF BookReads
    <3>2. PICK t \in Entries(id, "RAMBURS")' : transactions'[t].amount = -frame[w].amountPaid
      BY <2>4
    <3>3. Rambursat(id)' = -transactions'[t].amount
      BY <3>2 DEF BookReads
    <3> QED
      BY <2>1, <3>1, <3>2, <3>3
  <2>6. \A other : other # id => Rambursat(other)' = Rambursat(other)
    <3> SUFFICES ASSUME NEW other, other # id PROVE Rambursat(other)' = Rambursat(other)
      OBVIOUS
    <3>1. \A v \in Workers :
            ~(pc[v] = "ramburs" /\ task[v].id = other) /\ ~(pc'[v] = "ramburs" /\ task'[v].id = other)
      BY <1>1, <1>2, <1>3
    <3> QED
      BY <2>4, <3>1, RefundStill
  <2>7. \A other : Incasat(other)' = Incasat(other)
    <3> SUFFICES ASSUME NEW other PROVE Incasat(other)' = Incasat(other)
      OBVIOUS
    <3>1. \A v \in Workers : pc[v] # "incasare" /\ pc'[v] # "incasare"
      BY <1>2, <1>3, <2>3
    <3> QED
      BY <2>4, <3>1, PaymentStill
  <2> QED
    BY <1>2, <2>5, <2>6, <2>7 DEF Book
<1> QED
  BY <1>5, <1>6

\* Every step of the service is a step of the promise or leaves it alone.
LEMMA StepRefines ==
    ASSUME Faults \subseteq {"audit"}, RefineInv, RefineInv', BookReads, BookReads', [Next]_vars
    PROVE  [Promise!Next]_(Promise!vars)
<1> USE ServiceAssumption
    DEF RefineInv, SeatsInv, LedgerInv, MoneyInv, TypeInv, TypeOK, Threads, Promise!vars
<1> DEFINE Writing == {"incasare", "ramburs"}
<1>1. ASSUME NEW t \in Threads, UNCHANGED <<db, overdue>>,
             pc[t] \notin Writing, pc'[t] \notin Writing,
             \A w \in Workers \ {t} : /\ pc'[w] = pc[w] /\ task'[w] = task[w]
                                      /\ frame'[w] = frame[w]
      PROVE  [Promise!Next]_(Promise!vars)
  <2>1. \A w \in Workers :
            pc[w] \in Writing \/ pc'[w] \in Writing
               => pc'[w] = pc[w] /\ task'[w] = task[w] /\ frame'[w] = frame[w]
    BY <1>1
  <2>2. Book' = Book
    BY <1>1, <2>1, BookStutters
  <2> QED
    BY <1>1, <2>2
<1>2. ASSUME NEW w \in Workers, NewRequest(w)
      PROVE  [Promise!Next]_(Promise!vars)
  <2>1. /\ UNCHANGED <<db, overdue, frame>>
        /\ pc[w] = "idle" /\ pc'[w] \in {"lock", "return"}
        /\ \A v \in Workers \ {w} : pc'[v] = pc[v] /\ task'[v] = task[v]
    BY <1>2 DEF NewRequest, Answer, Goto
  <2> QED
    BY <1>1, <2>1
<1>3. ASSUME NEW t \in Threads, Lock(t)
      PROVE  [Promise!Next]_(Promise!vars)
  <2>1. /\ UNCHANGED <<db, overdue, frame, task>>
        /\ pc[t] = "lock" /\ pc'[t] \notin Writing
        /\ \A v \in Workers \ {t} : pc'[v] = pc[v]
    BY <1>3 DEF Lock, FirstStatement, Goto
  <2> QED
    BY <1>1, <2>1
<1>4. ASSUME NEW w \in Workers, Return(w)
      PROVE  [Promise!Next]_(Promise!vars)
  <2>1. /\ UNCHANGED <<db, overdue>>
        /\ pc[w] = "return" /\ pc'[w] = "idle"
        /\ \A v \in Workers \ {w} : pc'[v] = pc[v] /\ task'[v] = task[v] /\ frame'[v] = frame[v]
    BY <1>4 DEF Return, Goto
  <2> QED
    BY <1>1, <2>1
<1>5. ASSUME NEW w \in Workers,
             \/ RezervareCapacitate(w) \/ RezervareOcupare(w) \/ RezervarePlin(w)
             \/ AnulareGasita(w) \/ AnulareNegasita(w)
      PROVE  [Promise!Next]_(Promise!vars)
  <2>1. /\ UNCHANGED <<db, overdue, task>>
        /\ pc[w] \notin Writing /\ pc'[w] \notin Writing
        /\ \A v \in Workers \ {w} : pc'[v] = pc[v] /\ frame'[v] = frame[v]
    BY <1>5 DEF RezervareCapacitate, RezervareOcupare, RezervarePlin, AnulareGasita,
       AnulareNegasita, Answer, Goto
  <2> QED
    BY <1>1, <2>1
<1>6. ASSUME NEW w \in Workers, Statement(w)
      PROVE  [Promise!Next]_(Promise!vars)
  <2>1. CASE RezervareInsert(w)
    BY <2>1, ReserveRefines
  <2>2. CASE PlataUpdate(w)
    BY <2>2, PayRefines
  <2>3. CASE AnulareUpdate(w)
    BY <2>3, CancelRefines
  <2>4. CASE PlataIncasare(w) \/ AnulareRamburs(w)
    BY <2>4, RecordStutters DEF PlataIncasare, AnulareRamburs
  <2> QED
    BY <1>5, <1>6, <2>1, <2>2, <2>3, <2>4 DEF Statement
<1>7. CASE AuditExpira
  BY <1>7, ExpireRefines
<1>8. CASE AuditWake \/ AuditOcupari \/ AuditSolduri \/ AuditUnlock
  <2>1. /\ UNCHANGED <<db, overdue, task, frame>>
        /\ pc[Auditor] \notin Writing /\ pc'[Auditor] \notin Writing
        /\ \A w \in Workers : pc'[w] = pc[w]
    BY <1>8 DEF AuditWake, AuditOcupari, AuditSolduri, AuditUnlock, Goto
  <2> QED
    BY <1>1, <2>1
<1>9. CASE AuditTermina
  <2>1. \A w \in Workers : pc[w] \notin Writing /\ pc'[w] \notin Writing
    BY <1>9, OneAtATime DEF AuditTermina, NewProcess, FreshPC, CriticalLabels
  <2>2. Book' = Book
    BY <1>9, <2>1, BookStutters DEF AuditTermina, NewProcess
  <2> QED
    BY <1>9, <2>2 DEF AuditTermina, NewProcess
<1>10. CASE TimeoutPasses
  <2>1. Book' = Book
    BY <1>10, BookStutters DEF TimeoutPasses
  <2>2. Promise!TimeoutPasses
    BY <1>10, <2>1, BookRows DEF TimeoutPasses, Promise!TimeoutPasses
  <2> QED
    BY <2>2 DEF Promise!Next
<1>11. CASE UNCHANGED vars
  <2>1. Book' = Book
    BY <1>11, BookStutters DEF vars, db
  <2> QED
    BY <1>11, <2>1 DEF vars
<1> QED
  BY <1>2, <1>3, <1>4, <1>6, <1>7, <1>8, <1>9, <1>10, <1>11 DEF Next, WorkerStep, AuditStep, Crash

\* A new database is an empty book.
LEMMA InitRefines == Init => Promise!Init
<1> SUFFICES ASSUME Init PROVE Promise!Init
  OBVIOUS
<1>1. reservations = <<>> /\ overdue = 0
  BY DEF Init
<1>2. Len(Book) = 0 /\ Book \in Seq({Book[id] : id \in DOMAIN reservations})
  BY <1>1, TypeInit, BookRows, EmptySeq
<1>3. Book = <<>>
  BY <1>2, EmptySeq
<1> QED
  BY <1>1, <1>3 DEF Promise!Init

\* The invariant of the refinement holds in every state, if no statement of a
\* request fails and the process is not killed.
LEMMA RefineAlways ==
    ASSUME Faults \subseteq {"audit"}
    PROVE  Spec => []RefineInv
<1>1. Init => RefineInv
  BY SeatsInit, MoneyInit
  DEF RefineInv, LedgerInv, Init, FreshPC, OpenHours, PaymentsRecorded, RefundsRecorded,
      Threads
<1>2. RefineInv /\ [Next]_vars => RefineInv'
  BY SeatsStep, MoneyStep, LedgerStep, OpenHoursStep DEF RefineInv, LedgerInv, SeatsInv
<1> QED
  BY <1>1, <1>2, PTL DEF Spec

\* Although each method reads, decides and writes in several statements, and
\* payments and refunds move status and money in two of them, a client cannot
\* tell the service from one in which every operation is a single step, as
\* long as no statement of a request fails and the process is not killed.
THEOREM ServiceKeepsItsPromise ==
    ASSUME Faults \subseteq {"audit"}
    PROVE  Spec => AtomicOperations
<1>1. RefineInv => BookReads
  BY BookIsRead DEF RefineInv, LedgerInv
<1>2. RefineInv /\ RefineInv' /\ BookReads /\ BookReads' /\ [Next]_vars
         => [Promise!Next]_(Promise!vars)
  BY StepRefines
<1> QED
  BY <1>1, <1>2, InitRefines, RefineAlways, PTL DEF Spec, AtomicOperations, Promise!Spec

=============================================================================
