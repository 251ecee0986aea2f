---------------------------- MODULE LedgerProofs ----------------------------
(***************************************************************************)
(* Proofs about WorkshopService that need statements which do not fail:    *)
(* that status and money agree, and that every answer is true.             *)
(***************************************************************************)
EXTENDS ServiceProofs

-----------------------------------------------------------------------------
\* Status and money.

\* MoneyConserved says what a transaction means for the status.  These say what
\* a status means for the transactions: what is not on record is being written.
PaymentsRecorded ==
    \A id \in DOMAIN reservations :
        reservations[id].status \in {"PLATITA", "ANULATA"} =>
            Entries(id, "INCASARE") # {} \/ InFlight(id, "incasare")
RefundsRecorded ==
    \A id \in DOMAIN reservations :
        reservations[id].status = "ANULATA" =>
            Entries(id, "RAMBURS") # {} \/ InFlight(id, "ramburs")

LedgerInv == MoneyInv /\ PaymentsRecorded /\ RefundsRecorded

\* A row on record stays on record.
LEMMA EntriesGrow ==
    ASSUME TypeInv, TypeInv', Kept, NEW id, NEW type
    PROVE  /\ Entries(id, type) \subseteq Entries(id, type)'
           /\ \A t \in Entries(id, type) : transactions'[t] = transactions[t]
<1>1. /\ DOMAIN transactions = 1..Len(transactions)
      /\ DOMAIN transactions' = 1..Len(transactions')
      /\ Len(transactions) \in Nat /\ Len(transactions') \in Nat
  BY LenProperties DEF TypeInv, TypeOK
<1> QED
  BY <1>1 DEF Kept, Entries

\* The rows of one kind for one reservation are at most one, so the row that
\* CHOOSE finds is the one there is.
EntriesSingle ==
    \A id, type : \A t \in Entries(id, type) :
        Entries(id, type) = {t} /\ Recorded(id, type) = transactions[t].amount

\* No reservation is charged or refunded twice, so its entries are single.
LEMMA OneEntry == MoneyConserved => EntriesSingle
<1> SUFFICES ASSUME MoneyConserved, NEW id, NEW type, NEW t \in Entries(id, type)
             PROVE  /\ Entries(id, type) = {t}
                    /\ Recorded(id, type) = transactions[t].amount
  BY DEF EntriesSingle
<1>1. \A u \in Entries(id, type) : u = t
  BY DEF MoneyConserved, Entries
<1>2. Entries(id, type) = {t}
  BY <1>1
<1>3. (CHOOSE u \in Entries(id, type) : TRUE) = t
  BY <1>2
<1> QED
  BY <1>2, <1>3 DEF Recorded

\* No reservation loses its money while the tables stand still and the writers
\* of payments and refunds stay where they are.
LEMMA LedgerQuiet ==
    ASSUME LedgerInv, UNCHANGED db,
           \A w \in Workers : pc[w] \in {"incasare", "ramburs"} =>
              pc'[w] = pc[w] /\ task'[w] = task[w]
    PROVE  PaymentsRecorded' /\ RefundsRecorded'
<1>1. UNCHANGED reservations /\ \A id, type : Entries(id, type)' = Entries(id, type)
  BY DEF db, Entries
<1>2. \A id : /\ InFlight(id, "incasare") => InFlight(id, "incasare")'
              /\ InFlight(id, "ramburs") => InFlight(id, "ramburs")'
  BY DEF InFlight
<1> QED
  BY <1>1, <1>2 DEF LedgerInv, PaymentsRecorded, RefundsRecorded

\* Nor while a thread inside its critical section changes rows, as long as
\* a row that becomes PLATITA or ANULATA has its money on record or in flight.
LEMMA LedgerUpdate ==
    ASSUME LedgerInv, TypeInv', Kept, NEW t \in Threads, pc[t] \in CriticalLabels,
           pc[t] \notin {"incasare", "ramburs"},
           \A id \in DOMAIN reservations' :
              /\ Matches(reservations', id, "PLATITA") =>
                    Matches(reservations, id, "PLATITA") \/ InFlight(id, "incasare")'
              /\ Matches(reservations', id, "ANULATA") =>
                    \/ Matches(reservations, id, "ANULATA")
                    \/ Entries(id, "INCASARE")' # {} /\ InFlight(id, "ramburs")'
    PROVE  PaymentsRecorded' /\ RefundsRecorded'
<1>1. \A w \in Workers : pc[w] \notin {"incasare", "ramburs"}
  BY OneAtATime DEF LedgerInv, MoneyInv, CriticalLabels, Threads
<1>2. \A id, type : Entries(id, type) # {} => Entries(id, type)' # {}
  BY EntriesGrow DEF LedgerInv, MoneyInv
<1>3. \A id : ~InFlight(id, "incasare") /\ ~InFlight(id, "ramburs")
  BY <1>1 DEF InFlight
<1> QED
  BY <1>2, <1>3 DEF LedgerInv, PaymentsRecorded, RefundsRecorded, Matches

\* Nor when the second statement of a payment or a refund writes its row.
LEMMA LedgerEntry ==
    ASSUME LedgerInv, TypeInv', Kept, NEW w \in Workers, UNCHANGED <<reservations, task>>,
           \/ pc[w] = "incasare" /\ Entries(task[w].id, "INCASARE")' # {}
           \/ pc[w] = "ramburs" /\ Entries(task[w].id, "RAMBURS")' # {}
    PROVE  PaymentsRecorded' /\ RefundsRecorded'
<1>1. \A v \in Workers \ {w} : pc[v] \notin {"incasare", "ramburs"}
  BY OneAtATime DEF LedgerInv, MoneyInv, CriticalLabels, Threads
<1>2. \A id, type : Entries(id, type) # {} => Entries(id, type)' # {}
  BY EntriesGrow DEF LedgerInv, MoneyInv
<1>3. ASSUME NEW id
      PROVE  /\ InFlight(id, "incasare") => Entries(id, "INCASARE")' # {}
             /\ InFlight(id, "ramburs") => Entries(id, "RAMBURS")' # {}
  BY <1>1 DEF InFlight
<1> QED
  BY <1>2, <1>3 DEF LedgerInv, PaymentsRecorded, RefundsRecorded

\* The row an INSERT INTO transactions has written is on record.
LEMMA NewEntry ==
    ASSUME TypeInv, NEW x \in Transaction, transactions' = Append(transactions, x)
    PROVE  \E t \in DOMAIN transactions' : transactions'[t] = x
<1>1. /\ DOMAIN transactions' = 1..(Len(transactions) + 1)
      /\ transactions'[Len(transactions) + 1] = x
      /\ Len(transactions) \in Nat
  BY InsertRow, LenProperties DEF TypeInv, TypeOK
<1> QED
  BY <1>1

\* An UPDATE by id changes the status of the row it names and of no other.
LEMMA UpdateTouches ==
    ASSUME TypeInv, NEW id \in DOMAIN reservations, NEW new \in Statuses, NEW other, NEW st,
           reservations' = [reservations EXCEPT ![id].status = new],
           Matches(reservations', other, st)
    PROVE  Matches(reservations, other, st) \/ (other = id /\ st = new)
<1>1. reservations[id] \in Reservation
  BY LenProperties DEF TypeInv, TypeOK
<1>2. /\ DOMAIN reservations' = DOMAIN reservations
      /\ \A i \in DOMAIN reservations : reservations'[i] =
            IF i = id THEN [reservations[i] EXCEPT !.status = new] ELSE reservations[i]
  BY UpdateStatus DEF TypeInv, TypeOK
<1> QED
  BY <1>1, <1>2 DEF Matches, Reservation

\* Every step keeps money and status together, if no statement that writes
\* fails and the process does not die between the two of them.  The audit that
\* ends the process does it with the mutex in hand, so nothing is in between.
LEMMA LedgerStep ==
    ASSUME {"write", "crash"} \cap Faults = {}, LedgerInv, [Next]_vars
    PROVE  PaymentsRecorded' /\ RefundsRecorded'
<1> USE ServiceAssumption DEF LedgerInv, MoneyInv, TypeInv, TypeOK, Threads
<1> DEFINE Writing == {"incasare", "ramburs"}
<1>1. TypeInv' /\ Kept
  BY TypeNext, HistoryStep
<1>2. ASSUME NEW t \in Threads, UNCHANGED db, pc[t] \notin Writing,
             \A w \in Workers \ {t} : pc'[w] = pc[w] /\ task'[w] = task[w]
      PROVE  PaymentsRecorded' /\ RefundsRecorded'
  <2>1. \A w \in Workers : pc[w] \in Writing => pc'[w] = pc[w] /\ task'[w] = task[w]
    BY <1>2
  <2> QED
    BY <1>2, <2>1, LedgerQuiet
<1>3. ASSUME NEW w \in Workers, NewRequest(w)
      PROVE  PaymentsRecorded' /\ RefundsRecorded'
  BY <1>2, <1>3 DEF NewRequest, Answer, Goto
<1>4. ASSUME NEW t \in Threads, Lock(t)
      PROVE  PaymentsRecorded' /\ RefundsRecorded'
  BY <1>2, <1>4 DEF Lock, Goto
<1>5. ASSUME NEW w \in Workers, Return(w)
      PROVE  PaymentsRecorded' /\ RefundsRecorded'
  BY <1>2, <1>5 DEF Return, Released, Goto
<1>6. ASSUME NEW w \in Workers,
             \/ RezervareCapacitate(w) \/ RezervareOcupare(w) \/ RezervarePlin(w)
             \/ AnulareGasita(w) \/ AnulareNegasita(w)
      PROVE  PaymentsRecorded' /\ RefundsRecorded'
  BY <1>2, <1>6 DEF RezervareCapacitate, RezervareOcupare, RezervarePlin, AnulareGasita,
     AnulareNegasita, Answer, Goto
<1>7. ASSUME NEW w \in Workers, RezervareInsert(w)
      PROVE  PaymentsRecorded' /\ RefundsRecorded'
  <2> DEFINE row == [room |-> task[w].room, ora |-> task[w].ora, status |-> "REZERVARE"]
  <2>1. row \in Reservation /\ pc[w] = "insert" /\ reservations' = Append(reservations, row)
    BY <1>7 DEF RezervareInsert, TasksFit, Rezervari, Reservation, Statuses
  <2>2. ASSUME NEW id, NEW st, st # "REZERVARE", Matches(reservations', id, st)
        PROVE  Matches(reservations, id, st)
    BY <2>1, <2>2, InsertRow, LenProperties DEF Matches
  <2> QED
    BY <1>1, <2>1, <2>2, LedgerUpdate DEF CriticalLabels
<1>8. ASSUME NEW w \in Workers, PlataUpdate(w)
      PROVE  PaymentsRecorded' /\ RefundsRecorded'
  <2> DEFINE id == task[w].id
  <2>1. CASE UNCHANGED db /\ Goto(w, "return")
    BY <1>2, <1>8, <2>1 DEF PlataUpdate, Goto
  <2>2. CASE /\ Matches(reservations, id, "REZERVARE")
             /\ reservations' = [reservations EXCEPT ![id].status = "PLATITA"]
             /\ Goto(w, "incasare")
    <3>1. id \in DOMAIN reservations /\ "PLATITA" \in Statuses
      BY <2>2 DEF Matches, Statuses
    <3>2. InFlight(id, "incasare")'
      BY <1>8, <2>2 DEF PlataUpdate, Goto, InFlight
    <3>3. ASSUME NEW other, NEW st, Matches(reservations', other, st)
          PROVE  Matches(reservations, other, st) \/ (other = id /\ st = "PLATITA")
      BY <2>2, <3>1, <3>3, UpdateTouches
    <3> QED
      BY <1>1, <1>8, <3>2, <3>3, LedgerUpdate DEF PlataUpdate, CriticalLabels
  <2> QED
    BY <1>8, <2>1, <2>2 DEF PlataUpdate, Plateste, UpdateById, Answer, db
<1>9. ASSUME NEW w \in Workers, AnulareUpdate(w)
      PROVE  PaymentsRecorded' /\ RefundsRecorded'
  <2> DEFINE id == task[w].id
  <2>1. CASE UNCHANGED db /\ Goto(w, "return")
    BY <1>2, <1>9, <2>1 DEF AnulareUpdate, Goto
  <2>2. CASE /\ Matches(reservations, id, "PLATITA")
             /\ reservations' = [reservations EXCEPT ![id].status = "ANULATA"]
             /\ Goto(w, "ramburs")
    <3>1. id \in DOMAIN reservations /\ "ANULATA" \in Statuses
      BY <2>2 DEF Matches, Statuses
    <3>2. InFlight(id, "ramburs")'
      BY <1>9, <2>2 DEF AnulareUpdate, Goto, InFlight
    <3>3. Entries(id, "INCASARE")' # {}
      BY <1>1, <1>9, EntriesGrow DEF AnulareUpdate, InFlightInv, PaymentFound
    <3>4. ASSUME NEW other, NEW st, Matches(reservations', other, st)
          PROVE  Matches(reservations, other, st) \/ (other = id /\ st = "ANULATA")
      BY <2>2, <3>1, <3>4, UpdateTouches
    <3> QED
      BY <1>1, <1>9, <3>2, <3>3, <3>4, LedgerUpdate DEF AnulareUpdate, CriticalLabels
  <2> QED
    BY <1>9, <2>1, <2>2 DEF AnulareUpdate, UpdateById, Answer, db
<1>10. ASSUME NEW w \in Workers, PlataIncasare(w)
       PROVE  PaymentsRecorded' /\ RefundsRecorded'
  <2> DEFINE x == [reservation_id |-> task[w].id, type |-> "INCASARE", amount |-> task[w].suma]
  <2>1. x \in Transaction
    BY <1>10, SchemaAssumption DEF PlataIncasare, TasksFit, Plati, Transaction
  <2>2. /\ transactions' = Append(transactions, x)
        /\ UNCHANGED <<reservations, task>> /\ pc[w] = "incasare"
    BY <1>10 DEF PlataIncasare, InsertTransaction, Outcomes
  <2>3. \E t \in DOMAIN transactions' : transactions'[t] = x
    BY <2>1, <2>2, NewEntry
  <2>4. Entries(task[w].id, "INCASARE")' # {}
    BY <2>2, <2>3 DEF Entries
  <2> QED
    BY <1>1, <2>2, <2>4, LedgerEntry
<1>11. ASSUME NEW w \in Workers, AnulareRamburs(w)
       PROVE  PaymentsRecorded' /\ RefundsRecorded'
  <2> DEFINE x == [reservation_id |-> task[w].id, type |-> "RAMBURS", amount |-> -frame[w].amountPaid]
  <2>1. task[w].id \in Nat \ {0} /\ frame[w].amountPaid \in Int
    BY <1>11 DEF AnulareRamburs, TasksFit, Anulari, Frames
  <2>2. x \in Transaction
    BY <2>1 DEF Transaction
  <2>3. /\ transactions' = Append(transactions, x)
        /\ UNCHANGED <<reservations, task>> /\ pc[w] = "ramburs"
    BY <1>11 DEF AnulareRamburs, InsertTransaction, Outcomes
  <2>4. \E t \in DOMAIN transactions' : transactions'[t] = x
    BY <2>2, <2>3, NewEntry
  <2>5. Entries(task[w].id, "RAMBURS")' # {}
    BY <2>3, <2>4 DEF Entries
  <2> QED
    BY <1>1, <2>3, <2>5, LedgerEntry
<1>12. CASE AuditExpira
  <2>1. \A id, st : st # "EXPIRAT" /\ Matches(reservations', id, st) => Matches(reservations, id, st)
    <3>1. overdue \in Nat
      BY LenProperties
    <3>2. reservations' = Expired(reservations, overdue)
      BY <1>12 DEF AuditExpira, Outcomes
    <3>3. /\ DOMAIN reservations' = DOMAIN reservations
          /\ \A i \in DOMAIN reservations :
                \/ reservations'[i] = reservations[i]
                \/ reservations'[i] = [reservations[i] EXCEPT !.status = "EXPIRAT"]
      BY <3>1, <3>2, ExpireRows
    <3>4. \A i \in DOMAIN reservations : reservations[i] \in Reservation
      BY LenProperties
    <3> QED
      BY <3>3, <3>4 DEF Matches, Reservation
  <2> QED
    BY <1>1, <1>12, <2>1, LedgerUpdate DEF AuditExpira, CriticalLabels
<1>13. CASE AuditWake \/ AuditOcupari \/ AuditSolduri \/ AuditUnlock
  BY <1>2, <1>13 DEF AuditWake, AuditOcupari, AuditSolduri, AuditUnlock, Goto
<1>14. CASE AuditTermina
  <2>1. \A w \in Workers : pc[w] \notin Writing
    BY <1>14, OneAtATime DEF AuditTermina, CriticalLabels
  <2> QED
    BY <1>14, <2>1, LedgerQuiet DEF AuditTermina, NewProcess
<1>15. CASE UNCHANGED <<db, pc, task>>
  BY <1>15, LedgerQuiet
<1> QED
  BY <1>3, <1>4, <1>5, <1>6, <1>7, <1>8, <1>9, <1>10, <1>11, <1>12, <1>13, <1>14, <1>15
  DEF Next, WorkerStep, Statement, AuditStep, Crash, TimeoutPasses, vars, db

\* The invariant gives the counts: what is on record is on record once.
LEMMA LedgerCounts == LedgerInv => LedgerMatchesStatus
<1> SUFFICES ASSUME LedgerInv, NEW id \in DOMAIN reservations
             PROVE  LET st == reservations[id].status IN
                    /\ Cardinality(Entries(id, "INCASARE")) =
                           IF st \in {"PLATITA", "ANULATA"} /\ ~InFlight(id, "incasare") THEN 1 ELSE 0
                    /\ Cardinality(Entries(id, "RAMBURS")) =
                           IF st = "ANULATA" /\ ~InFlight(id, "ramburs") THEN 1 ELSE 0
  BY DEF LedgerMatchesStatus
<1> USE DEF LedgerInv, MoneyInv
<1>1. ASSUME NEW type
      PROVE  Cardinality(Entries(id, type)) = IF Entries(id, type) # {} THEN 1 ELSE 0
  <2>1. CASE Entries(id, type) = {}
    BY <2>1, FS_EmptySet
  <2>2. ASSUME NEW t \in Entries(id, type)
        PROVE  Cardinality(Entries(id, type)) = 1
    BY <2>2, OneEntry, FS_Singleton DEF EntriesSingle
  <2> QED
    BY <2>1, <2>2
<1>2. Entries(id, "INCASARE") # {} <=>
         reservations[id].status \in {"PLATITA", "ANULATA"} /\ ~InFlight(id, "incasare")
  <2>1. InFlight(id, "incasare") => Entries(id, "INCASARE") = {}
    BY DEF InFlight, InFlightInv, PaymentUnderWay
  <2>2. Entries(id, "INCASARE") # {} => reservations[id].status \in {"PLATITA", "ANULATA"}
    BY DEF MoneyConserved, Entries, Matches
  <2> QED
    BY <2>1, <2>2 DEF PaymentsRecorded
<1>3. Entries(id, "RAMBURS") # {} <=>
         reservations[id].status = "ANULATA" /\ ~InFlight(id, "ramburs")
  <2>1. InFlight(id, "ramburs") => Entries(id, "RAMBURS") = {}
    BY DEF InFlight, InFlightInv, RefundUnderWay
  <2>2. Entries(id, "RAMBURS") # {} => reservations[id].status = "ANULATA"
    BY DEF MoneyConserved, Entries, Matches
  <2> QED
    BY <2>1, <2>2 DEF RefundsRecorded
<1> QED
  BY <1>1, <1>2, <1>3

\* The invariant of the books holds in every state of a service whose writes
\* succeed and which is not killed.
LEMMA LedgerAlways ==
    ASSUME {"write", "crash"} \cap Faults = {}
    PROVE  Spec => []LedgerInv
<1>1. Init => LedgerInv
  BY MoneyInit DEF LedgerInv, Init, PaymentsRecorded, RefundsRecorded
<1>2. LedgerInv /\ [Next]_vars => LedgerInv'
  BY LedgerStep, MoneyStep DEF LedgerInv
<1> QED
  BY <1>1, <1>2, PTL DEF Spec

\* As long as no write fails and the process is not killed, status and money
\* agree at every moment for every reservation except the one whose payment
\* or refund is between its two statements; failing reads, and an audit that
\* ends the process itself, do not change that.
THEOREM LedgerIsBalanced ==
    ASSUME {"write", "crash"} \cap Faults = {}
    PROVE  Spec => []LedgerMatchesStatus
BY LedgerAlways, LedgerCounts, PTL

-----------------------------------------------------------------------------
\* Answers.

\* Whoever is about to return holds the mutex, except a request refused for
\* its hour, which stays refused whatever the others do.
AnswersHeld ==
    \A w \in Workers : pc[w] = "return" =>
        \/ mutex = w
        \/ reply[w] = Fail /\ task[w].op = "rezervare" /\ ~Deschis(task[w].ora)

HonestInv == SeatsInv /\ LedgerInv /\ AnswersHeld /\ RepliesHonest

\* The answer to a reservation is honest: a seat is the client's own row, and
\* a refusal comes from an interval that is full at this moment.
LEMMA ReservationIsHonest ==
    ASSUME Faults \subseteq {"audit"}, HonestInv, NEW w \in Workers,
           RezervareInsert(w) \/ RezervarePlin(w)
    PROVE  AnswerHonest(w)'
<1> USE DEF HonestInv, SeatsInv, TypeInv, TypeOK
<1>1. CASE RezervareInsert(w)
  <2> DEFINE row == [room |-> task[w].room, ora |-> task[w].ora, status |-> "REZERVARE"]
  <2>1. row \in Reservation
    BY <1>1 DEF RezervareInsert, TasksFit, Rezervari, Reservation, Statuses
  <2>2. /\ reservations' = Append(reservations, row)
        /\ reply' = [reply EXCEPT ![w] = Success(Len(reservations) + 1)]
        /\ task' = task
    BY <1>1 DEF RezervareInsert, Answer
  <2>3. reply'[w].status = "success" /\ reply'[w].id = Len(reservations) + 1
    BY <2>2 DEF Success
  <2>4. /\ Len(reservations) + 1 \in DOMAIN reservations'
        /\ reservations'[Len(reservations) + 1] = row
    BY <2>1, <2>2, InsertRow, LenProperties
  <2> QED
    BY <2>2, <2>3, <2>4 DEF AnswerHonest, NoReply, Fail
<1>2. CASE RezervarePlin(w)
  <2>1. /\ pc[w] = "insert" /\ ~(frame[w].load < frame[w].max_cap)
        /\ UNCHANGED <<reservations, task>>
        /\ reply'[w] = Fail
    BY <1>2 DEF RezervarePlin, MaiAreLoc, Answer, db
  <2>2. task[w].op = "rezervare"
    BY <2>1 DEF TasksFit, Rezervari
  <2>3. frame[w].load \in Nat /\ frame[w].max_cap \in Nat
    BY DEF Frames
  <2>4. Load(reservations, task[w].room, OraGrup[task[w].ora]) >= MaxCap(task[w].room)
    BY <2>1, <2>3 DEF CapacityRead, LoadRead
  <2> QED
    BY <2>1, <2>2, <2>4 DEF AnswerHonest, NoReply, Fail
<1> QED
  BY <1>1, <1>2

\* The answer to a payment is honest: either the UPDATE found no unpaid row, or
\* the row is paid and the amount on record is the one that was sent.
LEMMA PaymentIsHonest ==
    ASSUME Faults \subseteq {"audit"}, HonestInv, MoneyConserved', NEW w \in Workers,
           (PlataUpdate(w) /\ pc'[w] = "return") \/ PlataIncasare(w)
    PROVE  AnswerHonest(w)'
<1> USE ServiceAssumption DEF HonestInv, LedgerInv, MoneyInv, TypeInv, TypeOK, Threads
<1>1. CASE PlataUpdate(w) /\ pc'[w] = "return"
  <2>1. /\ ~Matches(reservations, task[w].id, "REZERVARE")
        /\ UNCHANGED <<reservations, task>>
        /\ reply'[w] = Fail /\ pc[w] = "plata"
    BY <1>1 DEF PlataUpdate, Plateste, UpdateById, Answer, Goto
  <2>2. task[w].op = "plata"
    BY <2>1 DEF TasksFit, Plati
  <2> QED
    BY <2>1, <2>2 DEF AnswerHonest, NoReply, Fail
<1>2. CASE PlataIncasare(w)
  <2> DEFINE x == [reservation_id |-> task[w].id, type |-> "INCASARE", amount |-> task[w].suma]
  <2>1. x \in Transaction
    BY <1>2, SchemaAssumption DEF PlataIncasare, TasksFit, Plati, Transaction
  <2>2. /\ Matches(reservations, task[w].id, "PLATITA")
        /\ UNCHANGED <<reservations, task>>
        /\ reply'[w] = Paid
        /\ transactions' = Append(transactions, x)
    BY <1>2 DEF PlataIncasare, InFlightInv, PaymentUnderWay, Answer, InsertTransaction, Outcomes
  <2>3. PICK t \in DOMAIN transactions' : transactions'[t] = x
    BY <2>1, <2>2, NewEntry
  <2>4. t \in Entries(task[w].id, "INCASARE")' /\ transactions'[t].amount = task'[w].suma
    BY <2>2, <2>3 DEF Entries
  <2>5. EntriesSingle'
    BY OneEntry, PTL
  <2>6. AmountPaid(task[w].id)' = task'[w].suma
    BY <2>4, <2>5 DEF EntriesSingle, AmountPaid
  <2>7. reply'[w].status = "paid" /\ Matches(reservations', task'[w].id, "PLATITA")
    BY <2>2 DEF Paid
  <2>8. Entries(task[w].id, "INCASARE")' # {}
    BY <2>4
  <2> QED
    BY ONLY <2>6, <2>7, <2>8 DEF AnswerHonest, NoReply, Fail
<1> QED
  BY <1>1, <1>2

\* The answer to a cancellation is honest: it is refused for a row that is not
\* paid, since the mutex excludes a payment whose INCASARE is still to come, and
\* otherwise the row is cancelled and what was paid is on record as given back.
LEMMA CancellationIsHonest ==
    ASSUME Faults \subseteq {"audit"}, HonestInv, MoneyConserved', NEW w \in Workers,
           AnulareNegasita(w) \/ (AnulareUpdate(w) /\ pc'[w] = "return") \/ AnulareRamburs(w)
    PROVE  AnswerHonest(w)'
<1> USE ServiceAssumption DEF HonestInv, LedgerInv, MoneyInv, TypeInv, TypeOK, Threads
<1>1. ASSUME pc[w] \in {"cauta", "anulare"}, ~Matches(reservations, task[w].id, "PLATITA"),
             UNCHANGED <<reservations, task>>, reply'[w] = Fail
      PROVE  AnswerHonest(w)'
  <2>1. task'[w].op = "anulare" /\ reply'[w].status = "fail"
    BY <1>1 DEF TasksFit, Anulari, Fail
  <2>2. ~Matches(reservations', task'[w].id, "PLATITA")
    BY <1>1
  <2> QED
    BY ONLY <2>1, <2>2 DEF AnswerHonest, NoReply, Fail
<1>2. CASE AnulareNegasita(w)
  <2>1. /\ pc[w] = "cauta" /\ Entries(task[w].id, "INCASARE") = {}
        /\ UNCHANGED <<reservations, task>> /\ reply'[w] = Fail
    BY <1>2 DEF AnulareNegasita, Answer, db
  <2>2. ~InFlight(task[w].id, "incasare")
    BY <2>1, OneAtATime DEF InFlight, CriticalLabels
  <2>3. ~Matches(reservations, task[w].id, "PLATITA")
    BY <2>1, <2>2 DEF PaymentsRecorded, Matches
  <2> QED
    BY <1>1, <2>1, <2>3
<1>3. CASE AnulareUpdate(w) /\ pc'[w] = "return"
  <2>1. /\ pc[w] = "anulare" /\ ~Matches(reservations, task[w].id, "PLATITA")
        /\ UNCHANGED <<reservations, task>> /\ reply'[w] = Fail
    BY <1>3 DEF AnulareUpdate, UpdateById, Answer, Goto
  <2> QED
    BY <1>1, <2>1
<1>4. CASE AnulareRamburs(w)
  <2> DEFINE x == [reservation_id |-> task[w].id, type |-> "RAMBURS", amount |-> -frame[w].amountPaid]
  <2>1. task[w].id \in Nat \ {0} /\ frame[w].amountPaid \in Int
    BY <1>4 DEF AnulareRamburs, TasksFit, Anulari, Frames
  <2>2. x \in Transaction
    BY <2>1 DEF Transaction
  <2>3. /\ Matches(reservations, task[w].id, "ANULATA")
        /\ UNCHANGED <<reservations, task>>
        /\ reply'[w] = Refunded(frame[w].amountPaid)
        /\ transactions' = Append(transactions, x)
    BY <1>4 DEF AnulareRamburs, InFlightInv, RefundUnderWay, Answer, InsertTransaction, Outcomes
  <2>4. PICK t \in DOMAIN transactions' : transactions'[t] = x
    BY <2>2, <2>3, NewEntry
  <2>5. PICK u \in Entries(task[w].id, "INCASARE") : transactions[u].amount = frame[w].amountPaid
    BY <1>4 DEF AnulareRamburs, InFlightInv, PaymentFound
  <2>6. u \in Entries(task[w].id, "INCASARE")' /\ transactions'[u].amount = frame[w].amountPaid
    <3>1. u \in DOMAIN transactions' /\ transactions'[u] = transactions[u]
      BY <2>2, <2>3, <2>5, InsertRow, LenProperties DEF Entries
    <3> QED
      BY <2>3, <2>5, <3>1 DEF Entries
  <2>7. EntriesSingle'
    BY OneEntry, PTL
  <2>8. AmountPaid(task[w].id)' = frame[w].amountPaid
    BY <2>6, <2>7 DEF EntriesSingle, AmountPaid
  <2>9. reply'[w].status = "refunded" /\ reply'[w].amount = frame[w].amountPaid
    BY <2>3 DEF Refunded
  <2>10. t \in Entries(task[w].id, "RAMBURS")' /\ transactions'[t].amount = -frame[w].amountPaid
    BY <2>3, <2>4 DEF Entries
  <2>11. Matches(reservations', task'[w].id, "ANULATA")
    BY <2>3
  <2> QED
    BY ONLY <2>8, <2>9, <2>10, <2>11 DEF AnswerHonest, NoReply, Fail
<1> QED
  BY <1>2, <1>3, <1>4

\* Every step leaves every answer honest until it is returned.
LEMMA HonestStep ==
    ASSUME Faults \subseteq {"audit"}, HonestInv, [Next]_vars
    PROVE  AnswersHeld' /\ RepliesHonest'
<1> USE ServiceAssumption DEF HonestInv, LedgerInv, MoneyInv, TypeInv, TypeOK, Threads
<1>1. MoneyConserved'
  BY MoneyStep
<1>2. ASSUME NEW w \in Workers, pc[w] = "return", UNCHANGED db,
             pc'[w] = pc[w], task'[w] = task[w], reply'[w] = reply[w]
      PROVE  AnswerHonest(w)'
  <2>1. AnswerHonest(w)
    BY <1>2 DEF RepliesHonest
  <2> QED
    BY <1>2, <2>1 DEF AnswerHonest, AmountPaid, Recorded, Entries, db
<1>3. ASSUME NEW w \in Workers, NEW t \in Threads, t # w, pc[w] = "return",
             pc[t] \in CriticalLabels,
             pc'[w] = pc[w], task'[w] = task[w], reply'[w] = reply[w]
      PROVE  /\ reply'[w] = Fail /\ task'[w].op = "rezervare" /\ ~Deschis(task'[w].ora)
             /\ AnswerHonest(w)'
  <2>1. reply[w] = Fail /\ task[w].op = "rezervare" /\ ~Deschis(task[w].ora)
    BY <1>3 DEF AnswersHeld, MutualExclusion
  <2> QED
    BY <1>3, <2>1 DEF AnswerHonest, NoReply, Fail
<1>4. ASSUME NEW t \in Threads, UNCHANGED db, mutex' = mutex \/ mutex \in {t, NoThread},
             t \in Workers /\ pc'[t] = "return" =>
                reply'[t] = Fail /\ task'[t].op = "rezervare" /\ ~Deschis(task'[t].ora),
             \A w \in Workers \ {t} : /\ pc'[w] = pc[w] /\ task'[w] = task[w]
                                      /\ reply'[w] = reply[w]
      PROVE  AnswersHeld' /\ RepliesHonest'
  <2> SUFFICES ASSUME NEW w \in Workers, pc'[w] = "return"
               PROVE  /\ \/ mutex' = w
                         \/ reply'[w] = Fail /\ task'[w].op = "rezervare" /\ ~Deschis(task'[w].ora)
                      /\ AnswerHonest(w)'
    BY DEF AnswersHeld, RepliesHonest
  <2>1. CASE w = t
    BY <1>4, <2>1 DEF AnswerHonest, NoReply, Fail
  <2>2. CASE w # t
    <3>1. AnswerHonest(w)'
      BY <1>2, <1>4, <2>2
    <3> QED
      BY <1>4, <2>2, <3>1 DEF AnswersHeld
  <2> QED
    BY <2>1, <2>2
<1>5. ASSUME NEW t \in Threads, pc[t] \in CriticalLabels,
             t \in Workers /\ pc'[t] = "return" => AnswerHonest(t)' /\ mutex' = t,
             \A w \in Workers \ {t} : /\ pc'[w] = pc[w] /\ task'[w] = task[w]
                                      /\ reply'[w] = reply[w]
      PROVE  AnswersHeld' /\ RepliesHonest'
  <2> SUFFICES ASSUME NEW w \in Workers, pc'[w] = "return"
               PROVE  /\ \/ mutex' = w
                         \/ reply'[w] = Fail /\ task'[w].op = "rezervare" /\ ~Deschis(task'[w].ora)
                      /\ AnswerHonest(w)'
    BY DEF AnswersHeld, RepliesHonest
  <2>1. CASE w = t
    BY <1>5, <2>1
  <2>2. CASE w # t
    BY <1>3, <1>5, <2>2
  <2> QED
    BY <2>1, <2>2
<1>6. ASSUME NEW w \in Workers, NewRequest(w)
      PROVE  AnswersHeld' /\ RepliesHonest'
  <2>1. /\ UNCHANGED db /\ mutex' = mutex
        /\ pc'[w] = "return" =>
              reply'[w] = Fail /\ task'[w].op = "rezervare" /\ ~Deschis(task'[w].ora)
        /\ \A v \in Workers \ {w} : pc'[v] = pc[v] /\ task'[v] = task[v] /\ reply'[v] = reply[v]
    BY <1>6 DEF NewRequest, Answer, Goto
  <2> QED
    BY <1>4, <2>1
<1>7. ASSUME NEW t \in Threads, Lock(t)
      PROVE  AnswersHeld' /\ RepliesHonest'
  <2>1. /\ UNCHANGED db /\ mutex = NoThread /\ pc'[t] # "return"
        /\ \A v \in Workers \ {t} : pc'[v] = pc[v] /\ task'[v] = task[v] /\ reply'[v] = reply[v]
    BY <1>7 DEF Lock, MutexFree, FirstStatement, Goto
  <2> QED
    BY <1>4, <2>1
<1>8. ASSUME NEW w \in Workers, Return(w)
      PROVE  AnswersHeld' /\ RepliesHonest'
  <2>1. /\ UNCHANGED db /\ (mutex' = mutex \/ mutex = w)
        /\ pc'[w] # "return"
        /\ \A v \in Workers \ {w} : pc'[v] = pc[v] /\ task'[v] = task[v] /\ reply'[v] = reply[v]
    BY <1>8 DEF Return, Released, Goto
  <2> QED
    BY <1>4, <2>1
<1>9. ASSUME NEW w \in Workers, Statement(w)
      PROVE  AnswersHeld' /\ RepliesHonest'
  <2>1. pc[w] \in CriticalLabels /\ UNCHANGED <<mutex, task>>
    BY <1>9 DEF Statement, RezervareCapacitate, RezervareOcupare, RezervareInsert, RezervarePlin,
       PlataUpdate, PlataIncasare, AnulareGasita, AnulareNegasita, AnulareUpdate, AnulareRamburs,
       CriticalLabels
  <2>2. mutex' = w
    BY <2>1 DEF MutualExclusion
  <2>3. \A v \in Workers \ {w} : pc'[v] = pc[v] /\ task'[v] = task[v] /\ reply'[v] = reply[v]
    BY <1>9, <2>1 DEF Statement, RezervareCapacitate, RezervareOcupare, RezervareInsert,
       RezervarePlin, PlataUpdate, PlataIncasare, AnulareGasita, AnulareNegasita, AnulareUpdate,
       AnulareRamburs, Plateste, UpdateById, Answer, Goto
  <2>4. pc'[w] = "return" => AnswerHonest(w)'
    <3>1. CASE RezervareCapacitate(w) \/ RezervareOcupare(w) \/ AnulareGasita(w)
      BY <3>1 DEF RezervareCapacitate, RezervareOcupare, AnulareGasita, Goto
    <3> QED
      BY <1>1, <1>9, <3>1, ReservationIsHonest, PaymentIsHonest, CancellationIsHonest DEF Statement
  <2> QED
    BY <1>5, <2>1, <2>2, <2>3, <2>4
<1>10. CASE NewProcess
  BY <1>10 DEF NewProcess, FreshPC, AnswersHeld, RepliesHonest
<1>11. CASE AuditStep
  <2>1. CASE AuditWake \/ AuditOcupari \/ AuditSolduri \/ AuditUnlock
    <3>1. /\ UNCHANGED <<db, task, reply>>
          /\ (mutex' = mutex \/ mutex = Auditor)
          /\ \A w \in Workers : pc'[w] = pc[w]
      BY <2>1 DEF AuditWake, AuditOcupari, AuditSolduri, AuditUnlock, Goto, MutualExclusion,
         CriticalLabels
    <3> QED
      BY <1>4, <3>1
  <2>2. CASE AuditExpira
    <3>1. /\ pc[Auditor] \in CriticalLabels /\ UNCHANGED <<task, reply>>
          /\ \A w \in Workers : pc'[w] = pc[w]
      BY <2>2 DEF AuditExpira, Goto, CriticalLabels
    <3> QED
      BY <1>5, <3>1
  <2> QED
    BY <1>7, <1>10, <1>11, <2>1, <2>2 DEF AuditStep, AuditTermina
<1>12. CASE UNCHANGED <<db, mutex, pc, task, reply>>
  BY <1>4, <1>12
<1> QED
  BY <1>6, <1>7, <1>8, <1>9, <1>10, <1>11, <1>12 DEF Next, WorkerStep, Crash, TimeoutPasses, vars, db

\* The invariant of honest answers holds in every state, if no statement of a
\* request fails and the process is not killed.
LEMMA HonestAlways ==
    ASSUME Faults \subseteq {"audit"}
    PROVE  Spec => []HonestInv
<1>1. Init => HonestInv
  <2> SUFFICES ASSUME Init PROVE HonestInv
    OBVIOUS
  <2>1. AnswersHeld /\ RepliesHonest
    BY ServiceAssumption DEF Init, FreshPC, AnswersHeld, RepliesHonest, Threads
  <2> QED
    BY <2>1, SeatsInit, MoneyInit
    DEF HonestInv, LedgerInv, Init, PaymentsRecorded, RefundsRecorded
<1>2. HonestInv /\ [Next]_vars => HonestInv'
  BY HonestStep, SeatsStep, MoneyStep, LedgerStep DEF HonestInv, LedgerInv
<1> QED
  BY <1>1, <1>2, PTL DEF Spec

\* As long as no statement of a request fails and the process is not killed,
\* an answer is true of the database until it is returned: the seat exists and
\* is the client's own, the money is on record with its amount, and a refusal
\* had its reason.
THEOREM AnswersAreHonest ==
    ASSUME Faults \subseteq {"audit"}
    PROVE  Spec => []RepliesHonest
<1>1. HonestInv => RepliesHonest
  BY DEF HonestInv
<1> QED
  BY <1>1, HonestAlways, PTL

=============================================================================
