---------------------------- MODULE ServiceProofs ----------------------------
(***************************************************************************)
(* Proofs about WorkshopService for every number of workers, every         *)
(* capacity table, every set of requests and every combination of faults.  *)
(***************************************************************************)
EXTENDS ServiceProperties, FiniteSetTheorems, SequenceTheorems, TLAPS

-----------------------------------------------------------------------------
\* What the statements do to the tables.

\* A single row INSERT adds one row behind the others.
LEMMA InsertRow ==
    ASSUME NEW S, NEW table \in Seq(S), NEW row \in S
    PROVE  LET new == Append(table, row) IN
           /\ new \in Seq(S)
           /\ Len(new) = Len(table) + 1
           /\ DOMAIN table = 1..Len(table)
           /\ DOMAIN new = 1..(Len(table) + 1)
           /\ \A i \in 1..Len(table) : new[i] = table[i]
           /\ new[Len(table) + 1] = row
  BY AppendProperties, LenProperties

\* An UPDATE by id rewrites the status of that row and nothing else.
LEMMA UpdateStatus ==
    ASSUME NEW table \in Seq(Reservation), NEW id \in DOMAIN table, NEW st \in Statuses
    PROVE  LET new == [table EXCEPT ![id].status = st] IN
           /\ new \in Seq(Reservation)
           /\ Len(new) = Len(table)
           /\ DOMAIN new = DOMAIN table
           /\ \A i \in DOMAIN table :
                 new[i] = IF i = id THEN [table[i] EXCEPT !.status = st] ELSE table[i]
<1> DEFINE row == [table[id] EXCEPT !.status = st]
<1>1. /\ DOMAIN table = 1..Len(table)
      /\ table[id] \in Reservation
  BY LenProperties
<1>2. row \in Reservation
  BY <1>1 DEF Reservation
<1>3. [table EXCEPT ![id].status = st] = [table EXCEPT ![id] = row]
  OBVIOUS
<1>4. /\ [table EXCEPT ![id] = row] \in Seq(Reservation)
      /\ Len([table EXCEPT ![id] = row]) = Len(table)
      /\ \A j \in 1..Len(table) :
            [table EXCEPT ![id] = row][j] = IF j = id THEN row ELSE table[j]
  BY <1>1, <1>2, ExceptSeq
<1> QED
  BY <1>1, <1>3, <1>4, LenProperties

\* The clean-up rewrites the status of unpaid rows and nothing else.
LEMMA ExpireRows ==
    ASSUME NEW table \in Seq(Reservation), NEW n \in Nat
    PROVE  LET new == Expired(table, n) IN
           /\ new \in Seq(Reservation)
           /\ Len(new) = Len(table)
           /\ DOMAIN new = DOMAIN table
           /\ \A i \in DOMAIN table :
                 \/ new[i] = table[i]
                 \/ /\ table[i].status = "REZERVARE"
                    /\ new[i] = [table[i] EXCEPT !.status = "EXPIRAT"]
<1> DEFINE new == Expired(table, n)
<1>1. /\ Len(table) \in Nat
      /\ DOMAIN table = 1..Len(table)
      /\ \A i \in DOMAIN table : table[i] \in Reservation
  BY LenProperties
<1>2. \A i \in DOMAIN table : new[i] \in Reservation
  BY <1>1 DEF Expired, Expirabil, Reservation, Statuses
<1>3. new \in [1..Len(table) -> Reservation]
  BY <1>1, <1>2 DEF Expired, Expirabil
<1>4. new \in Seq(Reservation)
  BY <1>1, <1>3, SeqDef
<1>5. Len(new) = Len(table)
  BY <1>1, <1>3, <1>4, LenProperties
<1>6. \A i \in DOMAIN table :
                 \/ new[i] = table[i]
                 \/ /\ table[i].status = "REZERVARE"
                    /\ new[i] = [table[i] EXCEPT !.status = "EXPIRAT"]
  BY DEF Expired, Expirabil
<1> QED
  BY <1>3, <1>4, <1>5, <1>6, LenProperties

\* A count of rows is a number.
LEMMA LoadType ==
    ASSUME NEW S, NEW table \in Seq(S), NEW room, NEW slot
    PROVE  /\ IsFiniteSet(Occupied(table, room, slot))
           /\ Load(table, room, slot) \in Nat
<1>1. /\ Len(table) \in Nat
      /\ DOMAIN table = 1..Len(table)
  BY LenProperties
<1>2. IsFiniteSet(DOMAIN table)
  BY <1>1, FS_Interval
<1>3. Occupied(table, room, slot) \in SUBSET DOMAIN table
  BY DEF Occupied
<1> QED
  BY <1>2, <1>3, FS_Subset, FS_CardinalityType DEF Load

-----------------------------------------------------------------------------
\* Type correctness.

\* Reads fill a worker's locals with values of their types.
LEMMA FillLocals ==
    ASSUME NEW f \in [Workers -> Frames], NEW w \in Workers
    PROVE  /\ \A n \in Nat : /\ [f EXCEPT ![w].max_cap = n] \in [Workers -> Frames]
                            /\ [f EXCEPT ![w].load = n] \in [Workers -> Frames]
           /\ \A a \in Int : [f EXCEPT ![w].amountPaid = a] \in [Workers -> Frames]
<1>1. /\ \A n \in Nat : /\ [f[w] EXCEPT !.max_cap = n] \in Frames
                        /\ [f[w] EXCEPT !.load = n] \in Frames
      /\ \A a \in Int : [f[w] EXCEPT !.amountPaid = a] \in Frames
  BY DEF Frames
<1> QED
  BY <1>1

\* A method runs its own statements on its own kind of request.
TasksFit ==
    \A w \in Workers :
        /\ pc[w] \in {"capacitate", "ocupare", "insert"} => task[w] \in Rezervari
        /\ pc[w] \in {"plata", "incasare"} => task[w] \in Plati
        /\ pc[w] \in {"cauta", "anulare", "ramburs"} => task[w] \in Anulari

TypeInv == TypeOK /\ TasksFit

\* The type invariant holds in a new database.
LEMMA TypeInit == Init => TypeInv
  BY SchemaAssumption, ServiceAssumption, EmptySeq
  DEF Init, TypeInv, TypeOK, TasksFit, FreshPC, Threads, WorkerLabels, AuditLabels,
      NoTask, NewFrame, NoReply, Frames, Replies, NoReport

\* Every step preserves the type invariant.
LEMMA TypeNext == TypeInv /\ [Next]_vars => TypeInv'
<1> SUFFICES ASSUME TypeInv, [Next]_vars
             PROVE  TypeInv'
  OBVIOUS
<1> USE SchemaAssumption, ServiceAssumption
    DEF TypeInv, TypeOK, TasksFit, Threads, WorkerLabels, AuditLabels, db
<1>1. ASSUME NEW w \in Workers, NewRequest(w)
      PROVE  TypeInv'
  <2>1. task' \in [Workers -> Tasks \cup {NoTask}]
    BY <1>1 DEF NewRequest
  <2>2. reply' \in [Workers -> Replies]
    BY <1>1 DEF NewRequest, Answer, Fail, Replies
  <2> QED
    BY <1>1, <2>1, <2>2 DEF NewRequest, Answer, Goto
<1>2. ASSUME NEW t \in Threads, Lock(t)
      PROVE  TypeInv'
  BY <1>2 DEF Lock, Goto, FirstStatement, Tasks, Rezervari, Plati, Anulari, NoTask
<1>3. ASSUME NEW w \in Workers, RezervareCapacitate(w)
      PROVE  TypeInv'
  <2>1. MaxCap(task[w].room) \in Nat
    BY <1>3 DEF RezervareCapacitate, MaxCap, Rezervari
  <2>2. PICK n \in Nat : frame' = [frame EXCEPT ![w].max_cap = n]
    BY <1>3, <2>1 DEF RezervareCapacitate
  <2>3. frame' \in [Workers -> Frames]
    BY <2>2, FillLocals
  <2> QED
    BY <1>3, <2>3 DEF RezervareCapacitate, Goto
<1>4. ASSUME NEW w \in Workers, RezervareOcupare(w)
      PROVE  TypeInv'
  <2>1. Load(reservations, task[w].room, OraGrup[task[w].ora]) \in Nat
    BY LoadType
  <2>2. PICK n \in Nat : frame' = [frame EXCEPT ![w].load = n]
    BY <1>4, <2>1 DEF RezervareOcupare
  <2>3. frame' \in [Workers -> Frames]
    BY <2>2, FillLocals
  <2> QED
    BY <1>4, <2>3 DEF RezervareOcupare, Goto
<1>5. ASSUME NEW w \in Workers, RezervareInsert(w)
      PROVE  TypeInv'
  <2> DEFINE row == [room |-> task[w].room, ora |-> task[w].ora, status |-> "REZERVARE"]
  <2>1. row \in Reservation
    BY <1>5 DEF RezervareInsert, Rezervari, Reservation, Statuses
  <2>2. Len(reservations) \in Nat
    BY LenProperties
  <2>3. /\ Append(reservations, row) \in Seq(Reservation)
        /\ Len(Append(reservations, row)) = Len(reservations) + 1
    BY <2>1, InsertRow
  <2>4. /\ reservations' \in Seq(Reservation)
        /\ Len(reservations') \in {Len(reservations), Len(reservations) + 1}
    BY <1>5, <2>3 DEF RezervareInsert
  <2>5. \A id \in Nat : Success(id) \in Replies
    BY DEF Success, Replies
  <2>6. reply' \in [Workers -> Replies]
    <3>1. PICK id \in Nat : reply' = [reply EXCEPT ![w] = Success(id)]
      BY <1>5, <2>2 DEF RezervareInsert, Answer
    <3> QED
      BY <2>5, <3>1
  <2>7. overdue' \in 0..Len(reservations')
    BY <1>5, <2>2, <2>4 DEF RezervareInsert
  <2> QED
    BY <1>5, <2>4, <2>6, <2>7 DEF RezervareInsert, Answer, Goto
<1>6. ASSUME NEW w \in Workers, RezervarePlin(w)
      PROVE  TypeInv'
  BY <1>6 DEF RezervarePlin, Answer, Goto, Fail, Replies
<1>7. ASSUME NEW w \in Workers, PlataUpdate(w)
      PROVE  TypeInv'
  <2>1. reservations' \in Seq(Reservation) /\ Len(reservations') = Len(reservations)
    <3>1. CASE /\ task[w].id \in DOMAIN reservations
               /\ reservations' = [reservations EXCEPT ![task[w].id].status = "PLATITA"]
      <4>1. "PLATITA" \in Statuses /\ reservations \in Seq(Reservation)
        BY DEF Statuses
      <4> QED
        BY ONLY <3>1, <4>1, UpdateStatus
    <3> QED
      BY <1>7, <3>1 DEF PlataUpdate, Plateste, UpdateById, Matches
  <2>2. reply' \in [Workers -> Replies]
    BY <1>7 DEF PlataUpdate, Plateste, UpdateById, Answer, Fail, Replies
  <2> QED
    BY <1>7, <2>1, <2>2 DEF PlataUpdate, Plateste, UpdateById, Answer, Goto
<1>8. ASSUME NEW w \in Workers, PlataIncasare(w)
      PROVE  TypeInv'
  <2> DEFINE row == [reservation_id |-> task[w].id, type |-> "INCASARE", amount |-> task[w].suma]
  <2>1. row \in Transaction
    BY <1>8 DEF PlataIncasare, Plati, Transaction
  <2>2. transactions' \in Seq(Transaction)
    BY <1>8, <2>1, InsertRow DEF PlataIncasare, InsertTransaction
  <2>3. reply' \in [Workers -> Replies]
    BY <1>8 DEF PlataIncasare, Answer, Paid, Replies
  <2> QED
    BY <1>8, <2>2, <2>3 DEF PlataIncasare, Answer, Goto
<1>9. ASSUME NEW w \in Workers, AnulareGasita(w)
      PROVE  TypeInv'
  <2>1. frame' \in [Workers -> Frames]
    <3>1. PICK t \in Entries(task[w].id, "INCASARE") :
             frame' = [frame EXCEPT ![w].amountPaid = transactions[t].amount]
      BY <1>9 DEF AnulareGasita
    <3>2. transactions[t] \in Transaction
      BY LenProperties DEF Entries
    <3> QED
      BY <3>1, <3>2, FillLocals DEF Transaction
  <2> QED
    BY <1>9, <2>1 DEF AnulareGasita, Goto
<1>10. ASSUME NEW w \in Workers, AnulareNegasita(w)
      PROVE  TypeInv'
  BY <1>10 DEF AnulareNegasita, Answer, Goto, Fail, Replies
<1>11. ASSUME NEW w \in Workers, AnulareUpdate(w)
      PROVE  TypeInv'
  <2>1. reservations' \in Seq(Reservation) /\ Len(reservations') = Len(reservations)
    <3>1. CASE /\ task[w].id \in DOMAIN reservations
               /\ reservations' = [reservations EXCEPT ![task[w].id].status = "ANULATA"]
      <4>1. "ANULATA" \in Statuses /\ reservations \in Seq(Reservation)
        BY DEF Statuses
      <4> QED
        BY ONLY <3>1, <4>1, UpdateStatus
    <3> QED
      BY <1>11, <3>1 DEF AnulareUpdate, UpdateById, Matches
  <2>2. reply' \in [Workers -> Replies]
    BY <1>11 DEF AnulareUpdate, UpdateById, Answer, Fail, Replies
  <2> QED
    BY <1>11, <2>1, <2>2 DEF AnulareUpdate, UpdateById, Answer, Goto
<1>12. ASSUME NEW w \in Workers, AnulareRamburs(w)
      PROVE  TypeInv'
  <2> DEFINE row == [reservation_id |-> task[w].id, type |-> "RAMBURS", amount |-> -frame[w].amountPaid]
  <2>1. row \in Transaction
    <3>1. task[w].id \in Nat \ {0} /\ frame[w].amountPaid \in Int
      BY <1>12 DEF AnulareRamburs, Anulari, Frames
    <3> QED
      BY <3>1 DEF Transaction
  <2>2. transactions' \in Seq(Transaction)
    BY <1>12, <2>1, InsertRow DEF AnulareRamburs, InsertTransaction
  <2>3. reply' \in [Workers -> Replies]
    BY <1>12 DEF AnulareRamburs, Answer, Refunded, Frames, Replies
  <2> QED
    BY <1>12, <2>2, <2>3 DEF AnulareRamburs, Answer, Goto
<1>13. ASSUME NEW w \in Workers, Return(w)
      PROVE  TypeInv'
  BY <1>13 DEF Return, Released, Goto, NewFrame, NoReply, Frames, Replies
<1>14. CASE AuditWake
  BY <1>14 DEF AuditWake, Goto
<1>15. CASE AuditExpira
  <2>1. overdue \in Nat
    BY LenProperties
  <2>2. reservations' \in Seq(Reservation) /\ Len(reservations') = Len(reservations)
    BY <1>15, <2>1, ExpireRows DEF AuditExpira
  <2> QED
    BY <1>15, <2>2 DEF AuditExpira, Goto
<1>16. CASE AuditOcupari
  <2>1. ASSUME NEW id \in Reported
        PROVE  <<reservations[id].room, SlotOf(id)>> \in Rooms \X {OraGrup[ora] : ora \in Times}
    <3>1. reservations[id] \in Reservation
      BY LenProperties DEF Reported
    <3> QED
      BY <3>1 DEF Reservation, SlotOf
  <2>2. Suprapuneri \subseteq (Rooms \X {OraGrup[ora] : ora \in Times})
    BY <2>1 DEF Suprapuneri
  <2> QED
    BY <1>16, <2>2 DEF AuditOcupari, Goto
<1>17. CASE AuditSolduri
  BY <1>17 DEF AuditSolduri, Goto
<1>18. CASE AuditUnlock
  BY <1>18 DEF AuditUnlock, Goto, NoReport
<1>19. CASE NewProcess
  BY <1>19 DEF NewProcess, FreshPC, NewFrame, NoReply, Frames, Replies, NoReport
<1>20. CASE TimeoutPasses
  BY <1>20, LenProperties DEF TimeoutPasses
<1>21. CASE UNCHANGED vars
  BY <1>21 DEF vars
<1> QED
  BY <1>1, <1>2, <1>3, <1>4, <1>5, <1>6, <1>7, <1>8, <1>9, <1>10,
     <1>11, <1>12, <1>13, <1>14, <1>15, <1>16, <1>17, <1>18, <1>19, <1>20, <1>21
  DEF Next, WorkerStep, Statement, AuditStep, AuditTermina, Crash

\* TypeOK holds in every reachable state: no interleaving and no fault makes
\* a thread run a statement without its request, fills a local with something
\* else, or lets more rows be overdue than there are.
THEOREM TypeCorrect == Spec => []TypeOK
<1>1. Spec => []TypeInv
  BY TypeInit, TypeNext, PTL DEF Spec
<1>2. TypeInv => TypeOK
  BY DEF TypeInv
<1> QED
  BY <1>1, <1>2, PTL
-----------------------------------------------------------------------------
\* History.

\* The clean-up, on every row.
LEMMA ExpireKeeps ==
    ASSUME reservations \in Seq(Reservation), NEW n \in Nat,
           reservations' = Expired(reservations, n), UNCHANGED transactions
    PROVE  Kept
<1>1. \A i \in DOMAIN reservations : reservations[i] \in Reservation
  BY LenProperties
<1>2. /\ Len(reservations) \in Nat /\ Len(reservations') = Len(reservations)
      /\ \A i \in DOMAIN reservations :
            \/ reservations'[i] = reservations[i]
            \/ /\ reservations[i].status = "REZERVARE"
               /\ reservations'[i] = [reservations[i] EXCEPT !.status = "EXPIRAT"]
  BY ExpireRows, LenProperties
<1>3. \A i \in DOMAIN reservations :
          \/ reservations'[i] = reservations[i]
          \/ /\ reservations[i].status = "REZERVARE" /\ reservations'[i].status = "EXPIRAT"
             /\ reservations'[i].room = reservations[i].room
             /\ reservations'[i].ora = reservations[i].ora
  BY <1>1, <1>2 DEF Reservation
<1> QED
  BY <1>2, <1>3 DEF Kept, Later

\* A status written over the one it was asked for, on one row.
LEMMA UpdateKeeps ==
    ASSUME reservations \in Seq(Reservation), NEW id, NEW st \in Statuses, NEW new \in Statuses,
           Matches(reservations, id, st), <<st, new>> \in Later,
           reservations' = [reservations EXCEPT ![id].status = new], UNCHANGED transactions
    PROVE  Kept
<1>1. /\ id \in DOMAIN reservations /\ reservations[id].status = st
      /\ \A i \in DOMAIN reservations : reservations[i] \in Reservation
  BY LenProperties DEF Matches
<1>2. /\ Len(reservations') = Len(reservations)
      /\ \A i \in DOMAIN reservations :
            reservations'[i] = IF i = id THEN [reservations[i] EXCEPT !.status = new]
                                         ELSE reservations[i]
  BY <1>1, UpdateStatus
<1> QED
  BY <1>1, <1>2, LenProperties DEF Kept, Reservation

\* Every step keeps what the tables say.
LEMMA HistoryStep == TypeInv /\ [Next]_vars => Kept
<1> SUFFICES ASSUME TypeInv, [Next]_vars
             PROVE  Kept
  OBVIOUS
<1> USE DEF TypeInv, TypeOK
<1>1. /\ Len(reservations) \in Nat /\ Len(transactions) \in Nat /\ overdue \in Nat
      /\ DOMAIN reservations = 1..Len(reservations)
      /\ DOMAIN transactions = 1..Len(transactions)
  BY LenProperties
<1>2. CASE UNCHANGED db
  BY <1>1, <1>2 DEF db, Kept
<1>3. CASE AuditExpira
  BY <1>1, <1>3, ExpireKeeps DEF AuditExpira, Kept
<1>4. ASSUME NEW w \in Workers, RezervareInsert(w)
      PROVE  Kept
  <2> DEFINE row == [room |-> task[w].room, ora |-> task[w].ora, status |-> "REZERVARE"]
  <2>1. row \in Reservation
    BY <1>4 DEF RezervareInsert, TasksFit, Rezervari, Reservation, Statuses
  <2>2. CASE reservations' = Append(reservations, row)
    <3>1. /\ Len(reservations') = Len(reservations) + 1
          /\ \A i \in 1..Len(reservations) : reservations'[i] = reservations[i]
      BY <2>1, <2>2, InsertRow
    <3> QED
      BY <1>1, <1>4, <3>1 DEF RezervareInsert, Kept
  <2> QED
    BY <1>2, <1>4, <2>2 DEF RezervareInsert, db
<1>5. ASSUME NEW w \in Workers, PlataUpdate(w)
      PROVE  Kept
  <2>1. \/ UNCHANGED db
        \/ /\ Matches(reservations, task[w].id, "REZERVARE")
           /\ reservations' = [reservations EXCEPT ![task[w].id].status = "PLATITA"]
           /\ UNCHANGED transactions
    BY <1>5 DEF PlataUpdate, Plateste, UpdateById, Answer, db
  <2> QED
    BY <1>2, <2>1, UpdateKeeps DEF Later, Statuses
<1>6. ASSUME NEW w \in Workers, AnulareUpdate(w)
      PROVE  Kept
  <2>1. \/ UNCHANGED db
        \/ /\ Matches(reservations, task[w].id, "PLATITA")
           /\ reservations' = [reservations EXCEPT ![task[w].id].status = "ANULATA"]
           /\ UNCHANGED transactions
    BY <1>6 DEF AnulareUpdate, UpdateById, db
  <2> QED
    BY <1>2, <2>1, UpdateKeeps DEF Later, Statuses
<1>7. ASSUME NEW x \in Transaction, transactions' = Append(transactions, x), UNCHANGED reservations
      PROVE  Kept
  BY <1>1, <1>7, InsertRow DEF Kept
<1>8. ASSUME NEW w \in Workers, PlataIncasare(w)
      PROVE  Kept
  <2> DEFINE x == [reservation_id |-> task[w].id, type |-> "INCASARE", amount |-> task[w].suma]
  <2>1. x \in Transaction
    BY <1>8, SchemaAssumption, ServiceAssumption DEF PlataIncasare, TasksFit, Plati, Transaction
  <2> QED
    BY <1>2, <1>7, <1>8, <2>1 DEF PlataIncasare, InsertTransaction, db
<1>9. ASSUME NEW w \in Workers, AnulareRamburs(w)
      PROVE  Kept
  <2> DEFINE x == [reservation_id |-> task[w].id, type |-> "RAMBURS", amount |-> -frame[w].amountPaid]
  <2>1. task[w].id \in Nat \ {0} /\ frame[w].amountPaid \in Int
    BY <1>9, ServiceAssumption DEF AnulareRamburs, TasksFit, Anulari, Frames
  <2>2. x \in Transaction
    BY <2>1 DEF Transaction
  <2> QED
    BY <1>2, <1>7, <1>9, <2>2 DEF AnulareRamburs, InsertTransaction, db
<1> QED
  BY <1>2, <1>3, <1>4, <1>5, <1>6, <1>8, <1>9
  DEF Next, vars, NewRequest, WorkerStep, Statement, AuditStep, Lock, Return, RezervareCapacitate, RezervareOcupare, RezervarePlin, AnulareGasita, AnulareNegasita, AuditWake, AuditOcupari, AuditSolduri,
      AuditUnlock, AuditTermina, Crash, NewProcess, TimeoutPasses, db

\* No statement, failure or restart rewrites the past: rows and transactions
\* stay, and a status only ever moves from REZERVARE to PLATITA or EXPIRAT
\* and from PLATITA to ANULATA.
THEOREM HistoryIsKept == Spec => HistoryKept
<1>1. Spec => []TypeInv
  BY TypeInit, TypeNext, PTL DEF Spec
<1>2. TypeInv /\ [Next]_vars => [Kept]_db
  BY HistoryStep
<1> QED
  BY <1>1, <1>2, PTL DEF Spec, HistoryKept
-----------------------------------------------------------------------------
\* The mutex.

\* The labels at which a thread has the mutex and still reads or writes.
CriticalLabels == {"capacitate", "ocupare", "insert", "plata", "incasare",
                   "cauta", "anulare", "ramburs", "expira", "ocupari", "solduri", "unlock"}

MutualExclusion == \A t \in Threads : pc[t] \in CriticalLabels => mutex = t

\* Every step preserves mutual exclusion.
LEMMA MutexStep == TypeInv /\ MutualExclusion /\ [Next]_vars => MutualExclusion'
<1> SUFFICES ASSUME TypeInv, MutualExclusion, [Next]_vars
             PROVE  MutualExclusion'
  OBVIOUS
<1> USE ServiceAssumption DEF TypeInv, TypeOK, MutualExclusion, CriticalLabels, Threads
<1>1. ASSUME NEW w \in Workers, NewRequest(w)
      PROVE  MutualExclusion'
  BY <1>1 DEF NewRequest, Answer, Goto
<1>2. ASSUME NEW t \in Threads, Lock(t)
      PROVE  MutualExclusion'
  BY <1>2 DEF Lock, MutexFree, Goto
<1>3. ASSUME NEW w \in Workers, Statement(w)
      PROVE  MutualExclusion'
  <2>1. pc[w] \in CriticalLabels /\ UNCHANGED mutex
    BY <1>3 DEF Statement, RezervareCapacitate, RezervareOcupare, RezervareInsert, RezervarePlin,
       PlataUpdate, PlataIncasare, AnulareGasita, AnulareNegasita, AnulareUpdate, AnulareRamburs
  <2>2. \E label : Goto(w, label)
    BY <1>3 DEF Statement, RezervareCapacitate, RezervareOcupare, RezervareInsert, RezervarePlin,
       PlataUpdate, PlataIncasare, AnulareGasita, AnulareNegasita, AnulareUpdate, AnulareRamburs, Answer, Plateste, UpdateById
  <2> QED
    BY <2>1, <2>2 DEF Goto
<1>4. ASSUME NEW w \in Workers, Return(w)
      PROVE  MutualExclusion'
  BY <1>4 DEF Return, Released, Goto
<1>5. CASE AuditStep
  BY <1>2, <1>5 DEF AuditStep, AuditWake, AuditExpira, AuditOcupari, AuditSolduri, AuditUnlock,
     AuditTermina, NewProcess, FreshPC, Goto
<1>6. CASE NewProcess
  BY <1>6 DEF NewProcess, FreshPC
<1>7. CASE UNCHANGED <<mutex, pc>>
  BY <1>7
<1> QED
  BY <1>1, <1>2, <1>3, <1>4, <1>5, <1>6, <1>7 DEF Next, WorkerStep, Crash, TimeoutPasses, vars

\* While one thread is at a statement no other one is.
LEMMA OneAtATime ==
    ASSUME MutualExclusion, NEW t \in Threads, NEW u \in Threads,
           pc[t] \in CriticalLabels, pc[u] \in CriticalLabels
    PROVE  t = u
  BY DEF MutualExclusion
-----------------------------------------------------------------------------
\* Seats.

\* Rows that keep their room and text and do not come back to life do not
\* raise any count.
LEMMA KeptLoad ==
    ASSUME reservations \in Seq(Reservation), reservations' \in Seq(Reservation),
           Kept, Len(reservations') = Len(reservations), NEW room, NEW slot
    PROVE  Load(reservations', room, slot) <= Load(reservations, room, slot)
<1>1. DOMAIN reservations' = DOMAIN reservations
  BY LenProperties
<1>2. Occupied(reservations', room, slot) \subseteq Occupied(reservations, room, slot)
  BY <1>1 DEF Kept, Later, Occupied, Active
<1> QED
  BY <1>2, LoadType, FS_Subset DEF Load

\* A new row raises the count of its own room and interval by at most one.
LEMMA InsertLoad ==
    ASSUME NEW table \in Seq(Reservation), NEW row \in Reservation, NEW room, NEW slot
    PROVE  LET new == Append(table, row) IN
           /\ Load(new, room, slot) <= Load(table, room, slot) + 1
           /\ ~(row.room = room /\ SameInterval(OraGrup[row.ora], slot)) =>
                 Load(new, room, slot) = Load(table, room, slot)
<1> DEFINE new == Append(table, row)
           last == Len(table) + 1
<1>1. /\ Len(table) \in Nat
      /\ DOMAIN new = DOMAIN table \cup {last}
      /\ last \notin DOMAIN table
      /\ \A i \in DOMAIN table : new[i] = table[i]
      /\ new[last] = row
  BY InsertRow, LenProperties
<1>2. Occupied(new, room, slot) \subseteq Occupied(table, room, slot) \cup {last}
  BY <1>1 DEF Occupied
<1>3. /\ IsFiniteSet(Occupied(table, room, slot) \cup {last})
      /\ Cardinality(Occupied(table, room, slot) \cup {last}) <= Load(table, room, slot) + 1
  <2>1. IsFiniteSet(Occupied(table, room, slot)) /\ Cardinality(Occupied(table, room, slot)) \in Nat
    BY LoadType DEF Load
  <2>2. /\ IsFiniteSet(Occupied(table, room, slot) \cup {last})
        /\ Cardinality(Occupied(table, room, slot) \cup {last}) =
              IF last \in Occupied(table, room, slot)
              THEN Cardinality(Occupied(table, room, slot))
              ELSE Cardinality(Occupied(table, room, slot)) + 1
    BY <2>1, FS_AddElement
  <2> QED
    BY <2>1, <2>2 DEF Load
<1>4. Load(new, room, slot) <= Cardinality(Occupied(table, room, slot) \cup {last})
  BY <1>2, <1>3, FS_Subset DEF Load
<1>5. new \in Seq(Reservation)
  BY InsertRow
<1>6. Load(new, room, slot) \in Nat /\ Load(table, room, slot) \in Nat
  BY <1>5, LoadType
<1>7. Cardinality(Occupied(table, room, slot) \cup {last}) \in Nat
  BY <1>3, FS_CardinalityType
<1>8. Load(new, room, slot) <= Load(table, room, slot) + 1
  BY <1>3, <1>4, <1>6, <1>7
<1>9. ASSUME ~(row.room = room /\ SameInterval(OraGrup[row.ora], slot))
      PROVE  Load(new, room, slot) = Load(table, room, slot)
  <2>1. Occupied(new, room, slot) = Occupied(table, room, slot)
    BY <1>1, <1>9 DEF Occupied
  <2> QED
    BY <2>1 DEF Load
<1> QED
  BY <1>8, <1>9

\* What a reservation has read is still true when it decides: its locals hold
\* the seats of its room and the load of its interval.
CapacityRead ==
    \A w \in Workers : pc[w] \in {"ocupare", "insert"} => frame[w].max_cap = MaxCap(task[w].room)
LoadRead ==
    \A w \in Workers : pc[w] = "insert" =>
        frame[w].load = Load(reservations, task[w].room, OraGrup[task[w].ora])

SeatsInv == TypeInv /\ MutualExclusion /\ CapacityRead /\ LoadRead /\ SeatsWithinCapacity
\* Every step keeps what a worker about to insert has read true.
LEMMA ReadsStep ==
    ASSUME "read" \notin Faults, TypeInv, MutualExclusion, CapacityRead, LoadRead, [Next]_vars
    PROVE  CapacityRead' /\ LoadRead'
<1> USE ServiceAssumption DEF TypeInv, TypeOK, Threads, CapacityRead, LoadRead
<1>1. ASSUME NEW t \in Threads, pc'[t] \notin {"ocupare", "insert"},
             UNCHANGED reservations,
             \A w \in Workers \ {t} : /\ pc'[w] = pc[w] /\ task'[w] = task[w]
                                      /\ frame'[w] = frame[w]
      PROVE  CapacityRead' /\ LoadRead'
  BY <1>1
<1>2. ASSUME NEW t \in Threads, pc[t] \in CriticalLabels,
             pc'[t] \notin {"ocupare", "insert"},
             \A w \in Workers \ {t} : pc'[w] = pc[w]
      PROVE  CapacityRead' /\ LoadRead'
  <2>1. \A w \in Workers : pc'[w] \notin {"ocupare", "insert"}
    BY <1>2, OneAtATime DEF CriticalLabels
  <2> QED
    BY <2>1
<1>3. ASSUME NEW w \in Workers, NewRequest(w)
      PROVE  CapacityRead' /\ LoadRead'
  BY <1>1, <1>3 DEF NewRequest, Answer, Goto, db
<1>4. ASSUME NEW t \in Threads, Lock(t)
      PROVE  CapacityRead' /\ LoadRead'
  BY <1>1, <1>4 DEF Lock, FirstStatement, Goto, db
<1>5. ASSUME NEW w \in Workers, Return(w)
      PROVE  CapacityRead' /\ LoadRead'
  BY <1>1, <1>5 DEF Return, Released, Goto, db
<1>6. ASSUME NEW w \in Workers, RezervareCapacitate(w)
      PROVE  CapacityRead' /\ LoadRead'
  <2>1. frame' = [frame EXCEPT ![w].max_cap = MaxCap(task[w].room)]
    BY <1>6 DEF RezervareCapacitate, Outcomes
  <2>2. frame'[w].max_cap = MaxCap(task[w].room)
    BY <2>1 DEF Frames
  <2>3. \A v \in Workers \ {w} : pc[v] \notin {"ocupare", "insert"}
    BY <1>6, OneAtATime DEF RezervareCapacitate, CriticalLabels
  <2> QED
    BY <1>6, <2>2, <2>3 DEF RezervareCapacitate, Goto
<1>7. ASSUME NEW w \in Workers, RezervareOcupare(w)
      PROVE  CapacityRead' /\ LoadRead'
  <2>1. frame' = [frame EXCEPT ![w].load =
                     Load(reservations, task[w].room, OraGrup[task[w].ora])]
    BY <1>7 DEF RezervareOcupare, Outcomes
  <2>2. /\ frame'[w].load = Load(reservations, task[w].room, OraGrup[task[w].ora])
        /\ frame'[w].max_cap = frame[w].max_cap
    BY <2>1 DEF Frames
  <2>3. \A v \in Workers \ {w} : pc[v] \notin {"ocupare", "insert"}
    BY <1>7, OneAtATime DEF RezervareOcupare, CriticalLabels
  <2> QED
    BY <1>7, <2>2, <2>3 DEF RezervareOcupare, Goto, db
<1>8. ASSUME NEW w \in Workers, Statement(w)
      PROVE  CapacityRead' /\ LoadRead'
  <2>1. CASE RezervareCapacitate(w) \/ RezervareOcupare(w)
    BY <1>6, <1>7, <2>1
  <2>2. CASE ~(RezervareCapacitate(w) \/ RezervareOcupare(w))
    <3>1. pc[w] \in CriticalLabels
      BY <1>8, <2>2 DEF Statement, RezervareInsert, RezervarePlin, PlataUpdate, PlataIncasare,
         AnulareGasita, AnulareNegasita, AnulareUpdate, AnulareRamburs, CriticalLabels
    <3>2. \E label \in {"return", "incasare", "anulare", "ramburs"} : Goto(w, label)
      BY <1>8, <2>2 DEF Statement, RezervareInsert, RezervarePlin, PlataUpdate, PlataIncasare,
         AnulareGasita, AnulareNegasita, AnulareUpdate, AnulareRamburs, Answer, Plateste, UpdateById
    <3> QED
      BY <1>2, <3>1, <3>2 DEF Goto
  <2> QED
    BY <2>1, <2>2
<1>9. CASE NewProcess
  BY <1>9 DEF NewProcess, FreshPC
<1>10. CASE AuditStep
  <2>1. CASE AuditWake \/ AuditOcupari \/ AuditSolduri \/ AuditUnlock
    BY <1>1, <2>1 DEF AuditWake, AuditOcupari, AuditSolduri, AuditUnlock, Goto, db
  <2>2. CASE AuditExpira
    BY <1>2, <2>2 DEF AuditExpira, Goto, CriticalLabels
  <2> QED
    BY <1>4, <1>9, <1>10, <2>1, <2>2 DEF AuditStep, AuditTermina
<1>11. CASE UNCHANGED <<reservations, pc, task, frame>>
  BY <1>11
<1> QED
  BY <1>3, <1>4, <1>5, <1>8, <1>9, <1>10, <1>11
  DEF Next, WorkerStep, Crash, TimeoutPasses, vars, db
\* Only a reservation adds a row.
LEMMA OnlyInsertAdds ==
    ASSUME TypeInv, [Next]_vars, \A w \in Workers : ~RezervareInsert(w)
    PROVE  Len(reservations') = Len(reservations)
<1> USE DEF TypeInv, TypeOK
<1>1. CASE AuditExpira
  BY <1>1, ExpireRows, LenProperties DEF AuditExpira
<1>2. ASSUME NEW id \in DOMAIN reservations, NEW st \in Statuses,
             reservations' = [reservations EXCEPT ![id].status = st]
      PROVE  Len(reservations') = Len(reservations)
  BY <1>2, UpdateStatus
<1>3. "PLATITA" \in Statuses /\ "ANULATA" \in Statuses
  BY DEF Statuses
<1>4. ASSUME NEW w \in Workers, PlataUpdate(w)
      PROVE  Len(reservations') = Len(reservations)
  BY <1>2, <1>3, <1>4 DEF PlataUpdate, Plateste, UpdateById, Matches
<1>5. ASSUME NEW w \in Workers, AnulareUpdate(w)
      PROVE  Len(reservations') = Len(reservations)
  BY <1>2, <1>3, <1>5 DEF AnulareUpdate, UpdateById, Matches
<1> QED
  BY <1>1, <1>4, <1>5
  DEF Next, vars, NewRequest, WorkerStep, Statement, AuditStep, Lock, Return, RezervareCapacitate, RezervareOcupare, RezervarePlin, PlataIncasare, AnulareGasita, AnulareNegasita, AnulareRamburs, AuditWake,
      AuditOcupari, AuditSolduri, AuditUnlock, AuditTermina, Crash, NewProcess, TimeoutPasses, db

\* Every step preserves the capacity of every interval.
LEMMA SeatsStep ==
    ASSUME "read" \notin Faults, SeatsInv, [Next]_vars
    PROVE  SeatsInv'
<1> USE DEF SeatsInv
<1>1. TypeInv'
  BY TypeNext
<1>2. MutualExclusion' /\ CapacityRead' /\ LoadRead'
  BY MutexStep, ReadsStep
<1>3. ASSUME NEW room \in Rooms, NEW ora \in Times
      PROVE  Load(reservations', room, OraGrup[ora]) <= MaxCap(room)
  <2>1. /\ MaxCap(room) \in Nat
        /\ Load(reservations, room, OraGrup[ora]) \in Nat
        /\ Load(reservations', room, OraGrup[ora]) \in Nat
        /\ Load(reservations, room, OraGrup[ora]) <= MaxCap(room)
    BY <1>1, SchemaAssumption, LoadType DEF MaxCap, SeatsWithinCapacity, TypeInv, TypeOK
  <2>2. CASE \A w \in Workers : ~RezervareInsert(w)
    <3>1. Load(reservations', room, OraGrup[ora]) <= Load(reservations, room, OraGrup[ora])
      BY <1>1, <2>2, OnlyInsertAdds, HistoryStep, KeptLoad DEF TypeInv, TypeOK
    <3> QED
      BY <2>1, <3>1
  <2>3. ASSUME NEW w \in Workers, RezervareInsert(w)
        PROVE  Load(reservations', room, OraGrup[ora]) <= MaxCap(room)
    <3> DEFINE row == [room |-> task[w].room, ora |-> task[w].ora, status |-> "REZERVARE"]
    <3>1. row \in Reservation
      BY <2>3 DEF RezervareInsert, TypeInv, TasksFit, Rezervari, Reservation, Statuses
    <3>2. /\ pc[w] = "insert" /\ frame[w].load < frame[w].max_cap
          /\ reservations' \in {reservations, Append(reservations, row)}
      BY <2>3 DEF RezervareInsert, MaiAreLoc
    <3>3. Load(reservations, row.room, OraGrup[row.ora]) < MaxCap(row.room)
      BY <3>2 DEF CapacityRead, LoadRead
    <3>4. CASE row.room = room /\ SameInterval(OraGrup[row.ora], OraGrup[ora])
      <4>1. /\ Load(reservations, room, OraGrup[ora]) < MaxCap(room)
            /\ Load(Append(reservations, row), room, OraGrup[ora])
                   <= Load(reservations, room, OraGrup[ora]) + 1
        BY <3>1, <3>3, <3>4, InsertLoad DEF SameInterval, TypeInv, TypeOK
      <4>2. CASE reservations' = reservations
        BY <2>1, <4>2
      <4>3. CASE reservations' = Append(reservations, row)
        <5>1. Load(reservations', room, OraGrup[ora]) <= Load(reservations, room, OraGrup[ora]) + 1
          BY <4>1, <4>3
        <5> HIDE DEF row
        <5> QED
          BY <2>1, <4>1, <5>1
      <4> QED
        BY <3>2, <4>2, <4>3
    <3>5. CASE ~(row.room = room /\ SameInterval(OraGrup[row.ora], OraGrup[ora]))
      <4>1. Load(Append(reservations, row), room, OraGrup[ora]) =
               Load(reservations, room, OraGrup[ora])
        BY <3>1, <3>5, InsertLoad DEF TypeInv, TypeOK
      <4> QED
        BY <2>1, <3>2, <4>1
    <3> QED
      BY <3>4, <3>5
  <2> QED
    BY <2>2, <2>3
<1>4. SeatsWithinCapacity'
  BY <1>3 DEF SeatsWithinCapacity
<1> QED
  BY <1>1, <1>2, <1>4

\* An empty table fits every capacity.
LEMMA SeatsInit == Init => SeatsInv
<1> SUFFICES ASSUME Init PROVE SeatsInv
  OBVIOUS
<1>1. TypeInv
  BY TypeInit
<1>2. MutualExclusion /\ CapacityRead /\ LoadRead
  BY DEF Init, FreshPC, MutualExclusion, CriticalLabels, CapacityRead, LoadRead, Threads
<1>3. ASSUME NEW room \in Rooms, NEW ora \in Times
      PROVE  Load(reservations, room, OraGrup[ora]) <= MaxCap(room)
  <2>1. Occupied(reservations, room, OraGrup[ora]) = {}
    BY DEF Init, Occupied
  <2>2. Load(reservations, room, OraGrup[ora]) = 0
    BY <2>1, FS_EmptySet DEF Load
  <2> QED
    BY <2>2, SchemaAssumption DEF MaxCap
<1> QED
  BY <1>1, <1>2, <1>3 DEF SeatsInv, SeatsWithinCapacity

\* As long as every SELECT succeeds, no interleaving of reservations, payments,
\* cancellations, clean-ups, failing writes and restarts puts more people in
\* an interval than it has seats.
THEOREM NoOverbooking ==
    ASSUME "read" \notin Faults
    PROVE  Spec => []SeatsWithinCapacity
<1>1. SeatsInv /\ [Next]_vars => SeatsInv'
  BY SeatsStep
<1>2. Spec => []SeatsInv
  BY SeatsInit, <1>1, PTL DEF Spec
<1>3. SeatsInv => SeatsWithinCapacity
  BY DEF SeatsInv
<1> QED
  BY <1>2, <1>3, PTL
-----------------------------------------------------------------------------
\* Opening hours.

\* A reservation under way was found within the opening hours when it was
\* taken up, and so was every row.
OpenHours ==
    \A w \in Workers :
        pc[w] \in {"lock", "capacitate", "ocupare", "insert"} /\ task[w].op = "rezervare"
            => Deschis(task[w].ora)

RowsOpen == \A id \in DOMAIN reservations : Deschis(reservations[id].ora)

\* Every step preserves it: the test of the hour is the only way in.
LEMMA OpenHoursStep ==
    ASSUME TypeInv, OpenHours, [Next]_vars
    PROVE  OpenHours'
<1> USE ServiceAssumption DEF TypeInv, TypeOK, Threads, OpenHours
<1> DEFINE Inside == {"lock", "capacitate", "ocupare", "insert"}
<1>1. ASSUME NEW t \in Threads,
             t \in Workers => pc'[t] \notin Inside \/ (pc[t] \in Inside /\ task'[t] = task[t]),
             \A w \in Workers \ {t} : pc'[w] = pc[w] /\ task'[w] = task[w]
      PROVE  OpenHours'
  BY <1>1
<1>2. ASSUME NEW w \in Workers, NewRequest(w)
      PROVE  OpenHours'
  BY <1>2 DEF NewRequest, Answer, Goto
<1>3. ASSUME NEW t \in Threads, Lock(t)
      PROVE  OpenHours'
  BY <1>1, <1>3 DEF Lock, Goto
<1>4. ASSUME NEW w \in Workers, Return(w)
      PROVE  OpenHours'
  BY <1>1, <1>4 DEF Return, Goto
<1>5. ASSUME NEW w \in Workers, Statement(w)
      PROVE  OpenHours'
  <2>1. /\ pc'[w] \notin Inside \/ pc[w] \in Inside
        /\ UNCHANGED task
        /\ \A v \in Workers \ {w} : pc'[v] = pc[v]
    BY <1>5 DEF Statement, RezervareCapacitate, RezervareOcupare, RezervareInsert, RezervarePlin,
       PlataUpdate, PlataIncasare, AnulareGasita, AnulareNegasita, AnulareUpdate, AnulareRamburs,
       Plateste, UpdateById, Answer, Goto
  <2> QED
    BY <1>1, <2>1
<1>6. CASE NewProcess
  BY <1>6 DEF NewProcess, FreshPC
<1>7. CASE AuditStep
  <2>1. CASE AuditWake \/ AuditExpira \/ AuditOcupari \/ AuditSolduri \/ AuditUnlock
    BY <1>1, <2>1 DEF AuditWake, AuditExpira, AuditOcupari, AuditSolduri, AuditUnlock, Goto
  <2> QED
    BY <1>3, <1>6, <1>7, <2>1 DEF AuditStep, AuditTermina
<1>8. CASE UNCHANGED <<pc, task>>
  BY <1>8
<1> QED
  BY <1>2, <1>3, <1>4, <1>5, <1>6, <1>7, <1>8 DEF Next, WorkerStep, Crash, TimeoutPasses, vars

\* A row is only added by a reservation, and its text is never rewritten.
LEMMA RowsOpenStep ==
    ASSUME TypeInv, OpenHours, RowsOpen, [Next]_vars
    PROVE  RowsOpen'
<1> USE DEF TypeInv, TypeOK
<1>1. TypeInv' /\ Kept
  BY TypeNext, HistoryStep
<1>2. \A id \in DOMAIN reservations : reservations'[id].ora = reservations[id].ora
  BY <1>1 DEF Kept
<1>3. CASE \A w \in Workers : ~RezervareInsert(w)
  <2>1. DOMAIN reservations' = DOMAIN reservations
    BY <1>1, <1>3, OnlyInsertAdds, LenProperties
  <2> QED
    BY <1>2, <2>1 DEF RowsOpen
<1>4. ASSUME NEW w \in Workers, RezervareInsert(w)
      PROVE  RowsOpen'
  <2> DEFINE row == [room |-> task[w].room, ora |-> task[w].ora, status |-> "REZERVARE"]
  <2>1. task[w] \in Rezervari /\ Deschis(row.ora)
    BY <1>4 DEF RezervareInsert, TasksFit, OpenHours, Rezervari
  <2>2. row \in Reservation
    BY <2>1 DEF Rezervari, Reservation, Statuses
  <2>3. CASE reservations' = Append(reservations, row)
    <3>1. /\ DOMAIN reservations' = DOMAIN reservations \cup {Len(reservations) + 1}
          /\ reservations'[Len(reservations) + 1] = row
      BY <2>2, <2>3, InsertRow, LenProperties
    <3> QED
      BY <1>2, <2>1, <3>1 DEF RowsOpen
  <2> QED
    BY <1>4, <2>3 DEF RezervareInsert, RowsOpen
<1> QED
  BY <1>3, <1>4

\* Only texts within the opening hours are ever on record.
LEMMA OpenAlways == Spec => [](TypeInv /\ OpenHours /\ RowsOpen)
<1>1. Init => TypeInv /\ OpenHours /\ RowsOpen
  BY TypeInit, ServiceAssumption DEF Init, FreshPC, OpenHours, RowsOpen, Threads
<1>2. TypeInv /\ OpenHours /\ RowsOpen /\ [Next]_vars => (TypeInv /\ OpenHours /\ RowsOpen)'
  BY TypeNext, OpenHoursStep, RowsOpenStep
<1> QED
  BY <1>1, <1>2, PTL DEF Spec

\* Readable texts hold seats: equal texts then compete for the same interval.
LEMMA TextsCompete ==
    ASSUME \A ora \in Times : Deschis(ora) => OraGrup[ora] # NullSlot,
           TypeInv, RowsOpen, SeatsWithinCapacity
    PROVE  SameTextWithinCapacity
<1> SUFFICES ASSUME NEW room \in Rooms, NEW ora \in Times
             PROVE  Cardinality({id \in DOMAIN reservations :
                       /\ reservations[id].room = room /\ reservations[id].ora = ora
                       /\ reservations[id].status \in Active}) <= MaxCap(room)
  BY DEF SameTextWithinCapacity
<1> DEFINE Same == {id \in DOMAIN reservations :
                       /\ reservations[id].room = room /\ reservations[id].ora = ora
                       /\ reservations[id].status \in Active}
           Held == Occupied(reservations, room, OraGrup[ora])
<1>1. Same \in SUBSET Held
  BY DEF RowsOpen, Occupied, SameInterval
<1>2. /\ IsFiniteSet(Held) /\ Cardinality(Held) \in Nat
      /\ Cardinality(Held) <= MaxCap(room) /\ MaxCap(room) \in Nat
  BY LoadType, SchemaAssumption DEF TypeInv, TypeOK, SeatsWithinCapacity, Load, MaxCap
<1>3. Cardinality(Same) \in Nat /\ Cardinality(Same) <= Cardinality(Held)
  BY <1>1, <1>2, FS_Subset, FS_CardinalityType
<1> HIDE DEF Same, Held
<1>4. Cardinality(Same) <= MaxCap(room)
  BY <1>2, <1>3
<1> QED
  BY <1>4 DEF Same

\* If the database reads every text whose hour the service accepts as a time,
\* then the clients who send one text get no more seats than there are: this
\* reading is all that is missing where the promise is broken.
THEOREM ReadableTextsFit ==
    ASSUME "read" \notin Faults,
           \A ora \in Times : Deschis(ora) => OraGrup[ora] # NullSlot
    PROVE  Spec => []SameTextWithinCapacity
<1>1. TypeInv /\ OpenHours /\ RowsOpen /\ SeatsWithinCapacity => SameTextWithinCapacity
  BY TextsCompete
<1> QED
  BY <1>1, OpenAlways, NoOverbooking, PTL

\* If the database reads every such text, no audit ends the process: the text
\* of every group of the report is a time, whatever fails around it.
THEOREM ReadableTextsAreReported ==
    ASSUME \A ora \in Times : Deschis(ora) => OraGrup[ora] # NullSlot
    PROVE  Spec => [][~AuditTermina]_vars
<1>1. TypeInv /\ RowsOpen => ~AuditTermina
  <2> SUFFICES ASSUME TypeInv, RowsOpen, NEW id \in Reported PROVE SlotOf(id) # NullSlot
    BY DEF AuditTermina
  <2>1. id \in DOMAIN reservations /\ reservations[id] \in Reservation
    BY LenProperties DEF Reported, TypeInv, TypeOK
  <2> QED
    BY <2>1 DEF RowsOpen, SlotOf, Reservation
<1> QED
  BY <1>1, OpenAlways, PTL
-----------------------------------------------------------------------------
\* Money.

\* The tables cannot tell an unpaid reservation from a paid one whose
\* INCASARE is still to be written; the thread that will write it can.
PaymentUnderWay ==
    \A w \in Workers : pc[w] = "incasare" =>
        /\ Matches(reservations, task[w].id, "PLATITA")
        /\ Entries(task[w].id, "INCASARE") = {}
PaymentFound ==
    \A w \in Workers : pc[w] \in {"anulare", "ramburs"} =>
        \E t \in Entries(task[w].id, "INCASARE") : transactions[t].amount = frame[w].amountPaid
RefundUnderWay ==
    \A w \in Workers : pc[w] = "ramburs" =>
        /\ Matches(reservations, task[w].id, "ANULATA")
        /\ Entries(task[w].id, "RAMBURS") = {}

InFlightInv == PaymentUnderWay /\ PaymentFound /\ RefundUnderWay

MoneyInv == TypeInv /\ MutualExclusion /\ InFlightInv /\ MoneyConserved

\* A paid reservation stays paid or becomes cancelled, a cancelled one stays.
LEMMA KeptMatches ==
    ASSUME TypeInv, TypeInv', Kept, NEW id
    PROVE  /\ Matches(reservations, id, "ANULATA") => Matches(reservations', id, "ANULATA")
           /\ Matches(reservations, id, "PLATITA") =>
                 Matches(reservations', id, "PLATITA") \/ Matches(reservations', id, "ANULATA")
<1>1. /\ DOMAIN reservations = 1..Len(reservations)
      /\ DOMAIN reservations' = 1..Len(reservations')
      /\ Len(reservations) \in Nat /\ Len(reservations') \in Nat
  BY LenProperties DEF TypeInv, TypeOK
<1> QED
  BY <1>1 DEF Kept, Later, Matches

\* Money stays conserved while nothing is written in transactions.
LEMMA NoTransaction ==
    ASSUME TypeInv, TypeInv', Kept, MoneyConserved, UNCHANGED transactions
    PROVE  MoneyConserved'
<1>1. ASSUME NEW t \in DOMAIN transactions
      PROVE  LET x == transactions[t] IN
             \/ Matches(reservations', x.reservation_id, "ANULATA")
             \/ x.type = "INCASARE" /\ Matches(reservations', x.reservation_id, "PLATITA")
  <2> DEFINE x == transactions[t]
  <2>1. x \in Transaction
    BY LenProperties DEF TypeInv, TypeOK
  <2>2. \/ Matches(reservations, x.reservation_id, "ANULATA")
        \/ x.type = "INCASARE" /\ Matches(reservations, x.reservation_id, "PLATITA")
    BY DEF MoneyConserved
  <2>3. x.type = "RAMBURS" => Matches(reservations, x.reservation_id, "ANULATA")
    BY <2>2
  <2>4. /\ Matches(reservations, x.reservation_id, "ANULATA") =>
              Matches(reservations', x.reservation_id, "ANULATA")
        /\ Matches(reservations, x.reservation_id, "PLATITA") =>
              \/ Matches(reservations', x.reservation_id, "PLATITA")
              \/ Matches(reservations', x.reservation_id, "ANULATA")
    BY KeptMatches
  <2> QED
    BY <2>2, <2>4
<1> QED
  BY <1>1 DEF MoneyConserved

\* Writing a payment or a refund that is not on record yet conserves money,
\* when the reservation has the status and the payment that go with it.
LEMMA NewTransaction ==
    ASSUME TypeInv, TypeInv', MoneyConserved, UNCHANGED reservations,
           NEW x \in Transaction,
           transactions' = Append(transactions, x),
           Entries(x.reservation_id, x.type) = {},
           \/ Matches(reservations, x.reservation_id, "ANULATA")
           \/ x.type = "INCASARE" /\ Matches(reservations, x.reservation_id, "PLATITA"),
           x.type = "RAMBURS" =>
              \E u \in Entries(x.reservation_id, "INCASARE") : transactions[u].amount = -x.amount
    PROVE  MoneyConserved'
<1> DEFINE n == Len(transactions)
<1>1. /\ n \in Nat
      /\ DOMAIN transactions = 1..n /\ DOMAIN transactions' = 1..(n + 1)
      /\ \A t \in 1..n : transactions'[t] = transactions[t]
      /\ transactions'[n + 1] = x
  BY InsertRow, LenProperties DEF TypeInv, TypeOK
<1>2. ASSUME NEW t \in DOMAIN transactions'
      PROVE  LET y == transactions'[t] IN
             /\ \/ Matches(reservations', y.reservation_id, "ANULATA")
                \/ y.type = "INCASARE" /\ Matches(reservations', y.reservation_id, "PLATITA")
             /\ y.type = "RAMBURS" =>
                   \E u \in 1..(t - 1) : transactions'[u] =
                       [reservation_id |-> y.reservation_id, type |-> "INCASARE", amount |-> -y.amount]
  <2>1. CASE t \in 1..n
    BY <1>1, <2>1 DEF MoneyConserved
  <2>2. CASE t = n + 1
    <3>1. x.type = "RAMBURS" =>
             \E u \in 1..n : transactions[u] =
                 [reservation_id |-> x.reservation_id, type |-> "INCASARE", amount |-> -x.amount]
      <4>1. \A u \in 1..n : transactions[u] \in Transaction
        BY <1>1 DEF TypeInv, TypeOK
      <4> QED
        BY <1>1, <4>1 DEF Entries, Transaction
    <3> QED
      BY <1>1, <2>2, <3>1
  <2> QED
    BY <1>1, <2>1, <2>2
<1>3. ASSUME NEW t \in DOMAIN transactions', NEW u \in DOMAIN transactions',
             transactions'[t].reservation_id = transactions'[u].reservation_id,
             transactions'[t].type = transactions'[u].type
      PROVE  t = u
  BY <1>1, <1>3 DEF MoneyConserved, Entries
<1> QED
  BY <1>2, <1>3 DEF MoneyConserved
\* A status the books have not reached yet has no entries that go with it.
LEMMA NoEntryYet ==
    ASSUME MoneyConserved, NEW id
    PROVE  /\ Matches(reservations, id, "REZERVARE") => Entries(id, "INCASARE") = {}
           /\ Matches(reservations, id, "PLATITA") => Entries(id, "RAMBURS") = {}
  BY DEF MoneyConserved, Entries, Matches

\* The row an UPDATE by id has changed.
LEMMA UpdatedMatches ==
    ASSUME TypeInv, NEW id \in DOMAIN reservations, NEW st \in Statuses,
           reservations' = [reservations EXCEPT ![id].status = st]
    PROVE  Matches(reservations', id, st)
<1>1. reservations[id] \in Reservation
  BY LenProperties DEF TypeInv, TypeOK
<1>2. /\ DOMAIN reservations' = DOMAIN reservations
      /\ reservations'[id] = [reservations[id] EXCEPT !.status = st]
  BY UpdateStatus DEF TypeInv, TypeOK
<1> QED
  BY <1>1, <1>2 DEF Matches, Reservation

\* Every step preserves what is known between two statements.
LEMMA InFlightStep ==
    ASSUME MoneyInv, [Next]_vars
    PROVE  InFlightInv'
<1> DEFINE Flying == {"incasare", "anulare", "ramburs"}
<1> USE ServiceAssumption DEF MoneyInv, TypeInv, TypeOK, Threads
<1>1. ASSUME NEW t \in Threads, pc'[t] \notin Flying,
             UNCHANGED db,
             \A w \in Workers \ {t} : /\ pc'[w] = pc[w] /\ task'[w] = task[w]
                                      /\ frame'[w] = frame[w]
      PROVE  InFlightInv'
  <2>1. \A id, type : Entries(id, type)' = Entries(id, type)
    BY <1>1 DEF Entries, db
  <2> QED
    <3>1. ASSUME NEW w \in Workers, pc'[w] \in Flying
          PROVE  /\ pc'[w] = pc[w] /\ task'[w] = task[w] /\ frame'[w] = frame[w]
                 /\ UNCHANGED reservations /\ UNCHANGED transactions
                 /\ Entries(task[w].id, "INCASARE")' = Entries(task[w].id, "INCASARE")
                 /\ Entries(task[w].id, "RAMBURS")' = Entries(task[w].id, "RAMBURS")
      BY <1>1, <2>1, <3>1 DEF db
    <3>2. PaymentUnderWay'
      BY <3>1 DEF InFlightInv, PaymentUnderWay
    <3>3. PaymentFound'
      BY <3>1 DEF InFlightInv, PaymentFound
    <3>4. RefundUnderWay'
      BY <3>1 DEF InFlightInv, RefundUnderWay
    <3> QED
      BY <3>2, <3>3, <3>4 DEF InFlightInv
<1>2. ASSUME NEW t \in Threads, pc[t] \in CriticalLabels
      PROVE  \A w \in Workers \ {t} : pc[w] \notin Flying
  BY <1>2, OneAtATime DEF CriticalLabels
<1>3. ASSUME \A w \in Workers : pc'[w] \notin Flying
      PROVE  InFlightInv'
  BY <1>3 DEF InFlightInv, PaymentUnderWay, PaymentFound, RefundUnderWay
<1>4. ASSUME NEW w \in Workers, NewRequest(w)
      PROVE  InFlightInv'
  <2>1. /\ \E label \in {"lock", "return"} : Goto(w, label)
        /\ UNCHANGED db /\ UNCHANGED frame
        /\ \E request : task' = [task EXCEPT ![w] = request]
    BY <1>4 DEF NewRequest, Answer, db
  <2> QED
    BY <1>1, <2>1 DEF Goto
<1>5. ASSUME NEW t \in Threads, Lock(t)
      PROVE  InFlightInv'
  BY <1>1, <1>5 DEF Lock, FirstStatement, Goto
<1>6. ASSUME NEW w \in Workers, Return(w)
      PROVE  InFlightInv'
  BY <1>1, <1>6 DEF Return, Released, Goto
<1>7. ASSUME NEW w \in Workers, PlataUpdate(w)
      PROVE  InFlightInv'
  <2> DEFINE id == task[w].id
  <2>1. /\ pc[w] = "plata"
        /\ \A v \in Workers \ {w} : pc'[v] \notin Flying
    BY <1>2, <1>7 DEF PlataUpdate, Plateste, UpdateById, Answer, Goto, CriticalLabels
  <2>2. CASE Goto(w, "return")
    BY <1>3, <2>1, <2>2 DEF Goto
  <2>3. CASE /\ Matches(reservations, id, "REZERVARE")
             /\ reservations' = [reservations EXCEPT ![id].status = "PLATITA"]
             /\ Goto(w, "incasare")
             /\ UNCHANGED <<transactions, task, frame>>
    <3>1. Matches(reservations', id, "PLATITA")
      BY <2>3, UpdatedMatches DEF Matches, Statuses
    <3>2. Entries(id, "INCASARE")' = {}
      BY <2>3, NoEntryYet DEF Entries
    <3> QED
      BY <2>1, <2>3, <3>1, <3>2 DEF Goto, InFlightInv, PaymentUnderWay, PaymentFound, RefundUnderWay
  <2> QED
    BY <1>7, <2>2, <2>3 DEF PlataUpdate, Plateste, UpdateById, Answer
<1>8. ASSUME NEW w \in Workers, AnulareGasita(w)
      PROVE  InFlightInv'
  <2>1. \A v \in Workers \ {w} : pc'[v] \notin Flying
    BY <1>2, <1>8 DEF AnulareGasita, Goto, CriticalLabels
  <2>2. PICK t \in Entries(task[w].id, "INCASARE") :
           frame' = [frame EXCEPT ![w].amountPaid = transactions[t].amount]
    BY <1>8 DEF AnulareGasita
  <2>3. frame'[w].amountPaid = transactions[t].amount
    BY <2>2 DEF Frames
  <2>4. t \in Entries(task[w].id, "INCASARE")' /\ transactions'[t].amount = frame'[w].amountPaid
    BY <1>8, <2>2, <2>3 DEF AnulareGasita, Entries, db
  <2> QED
    BY <1>8, <2>1, <2>4
    DEF AnulareGasita, Goto, InFlightInv, PaymentUnderWay, PaymentFound, RefundUnderWay
<1>9. ASSUME NEW w \in Workers, AnulareUpdate(w)
      PROVE  InFlightInv'
  <2> DEFINE id == task[w].id
  <2>1. /\ pc[w] = "anulare"
        /\ \A v \in Workers \ {w} : pc'[v] \notin Flying
    BY <1>2, <1>9 DEF AnulareUpdate, UpdateById, Answer, Goto, CriticalLabels
  <2>2. CASE Goto(w, "return")
    BY <1>3, <2>1, <2>2 DEF Goto
  <2>3. CASE /\ Matches(reservations, id, "PLATITA")
             /\ reservations' = [reservations EXCEPT ![id].status = "ANULATA"]
             /\ Goto(w, "ramburs")
             /\ UNCHANGED <<transactions, task, frame>>
    <3>1. Matches(reservations', id, "ANULATA")
      BY <2>3, UpdatedMatches DEF Matches, Statuses
    <3>2. Entries(id, "RAMBURS")' = {}
      BY <2>3, NoEntryYet DEF Entries
    <3>3. \E t \in Entries(id, "INCASARE")' : transactions'[t].amount = frame'[w].amountPaid
      BY <2>1, <2>3 DEF InFlightInv, PaymentFound, Entries
    <3> QED
      BY <2>1, <2>3, <3>1, <3>2, <3>3
      DEF Goto, InFlightInv, PaymentUnderWay, PaymentFound, RefundUnderWay
  <2> QED
    BY <1>9, <2>2, <2>3 DEF AnulareUpdate, UpdateById, Answer
<1>10. ASSUME NEW w \in Workers, Statement(w)
       PROVE  InFlightInv'
  <2>1. CASE PlataUpdate(w) \/ AnulareGasita(w) \/ AnulareUpdate(w)
    BY <1>7, <1>8, <1>9, <2>1
  <2>2. CASE ~(PlataUpdate(w) \/ AnulareGasita(w) \/ AnulareUpdate(w))
    <3>1. pc[w] \in CriticalLabels
      BY <1>10, <2>2 DEF Statement, RezervareCapacitate, RezervareOcupare, RezervareInsert,
         RezervarePlin, PlataIncasare, AnulareNegasita, AnulareRamburs, CriticalLabels
    <3>2. \E label \in {"return", "ocupare", "insert"} : Goto(w, label)
      BY <1>10, <2>2 DEF Statement, RezervareCapacitate, RezervareOcupare, RezervareInsert,
         RezervarePlin, PlataIncasare, AnulareNegasita, AnulareRamburs, Answer
    <3> QED
      BY <1>2, <1>3, <3>1, <3>2 DEF Goto
  <2> QED
    BY <2>1, <2>2
<1>11. CASE NewProcess
  BY <1>3, <1>11 DEF NewProcess, FreshPC
<1>12. CASE AuditStep
  <2>1. CASE AuditWake \/ AuditOcupari \/ AuditSolduri \/ AuditUnlock
    BY <1>1, <2>1 DEF AuditWake, AuditOcupari, AuditSolduri, AuditUnlock, Goto
  <2>2. CASE AuditExpira
    BY <1>2, <1>3, <2>2 DEF AuditExpira, Goto, CriticalLabels
  <2> QED
    BY <1>5, <1>11, <1>12, <2>1, <2>2 DEF AuditStep, AuditTermina
<1>13. CASE UNCHANGED <<db, pc, task, frame>>
  BY <1>13 DEF InFlightInv, PaymentUnderWay, PaymentFound, RefundUnderWay, Entries, db
<1> QED
  BY <1>4, <1>5, <1>6, <1>10, <1>11, <1>12, <1>13 DEF Next, WorkerStep, Crash, TimeoutPasses, vars, db
\* Every step conserves money.
LEMMA MoneyStep ==
    ASSUME MoneyInv, [Next]_vars
    PROVE  MoneyInv'
<1> USE DEF MoneyInv
<1>1. TypeInv' /\ MutualExclusion' /\ InFlightInv' /\ Kept
  BY TypeNext, MutexStep, InFlightStep, HistoryStep
<1>2. CASE UNCHANGED transactions
  BY <1>1, <1>2, NoTransaction
<1>3. ASSUME NEW w \in Workers, PlataIncasare(w)
      PROVE  MoneyConserved'
  <2> DEFINE x == [reservation_id |-> task[w].id, type |-> "INCASARE", amount |-> task[w].suma]
  <2>1. x \in Transaction
    BY <1>3, SchemaAssumption, ServiceAssumption
    DEF PlataIncasare, TypeInv, TasksFit, Plati, Transaction
  <2>2. /\ Matches(reservations, x.reservation_id, "PLATITA")
        /\ Entries(x.reservation_id, x.type) = {}
    BY <1>3 DEF PlataIncasare, InFlightInv, PaymentUnderWay
  <2>3. CASE transactions' = Append(transactions, x)
    BY <1>1, <1>3, <2>1, <2>2, <2>3, NewTransaction DEF PlataIncasare
  <2> QED
    BY <1>2, <1>1, <1>3, <2>3 DEF PlataIncasare, InsertTransaction
<1>4. ASSUME NEW w \in Workers, AnulareRamburs(w)
      PROVE  MoneyConserved'
  <2> DEFINE x == [reservation_id |-> task[w].id, type |-> "RAMBURS", amount |-> -frame[w].amountPaid]
  <2>1. task[w].id \in Nat \ {0} /\ frame[w].amountPaid \in Int
    BY <1>4, ServiceAssumption DEF AnulareRamburs, TypeInv, TypeOK, TasksFit, Anulari, Frames
  <2>2. x \in Transaction
    BY <2>1 DEF Transaction
  <2>3. /\ Matches(reservations, x.reservation_id, "ANULATA")
        /\ Entries(x.reservation_id, x.type) = {}
        /\ \E u \in Entries(x.reservation_id, "INCASARE") : transactions[u].amount = frame[w].amountPaid
    BY <1>4 DEF AnulareRamburs, InFlightInv, PaymentFound, RefundUnderWay
  <2>4. -x.amount = frame[w].amountPaid
    BY <2>1
  <2>5. CASE transactions' = Append(transactions, x)
    BY <1>1, <1>4, <2>2, <2>3, <2>4, <2>5, NewTransaction DEF AnulareRamburs
  <2> QED
    BY <1>2, <1>1, <1>4, <2>5 DEF AnulareRamburs, InsertTransaction
<1> QED
  BY <1>1, <1>2, <1>3, <1>4
  DEF Next, vars, NewRequest, WorkerStep, Statement, AuditStep, Lock, Return, RezervareCapacitate, RezervareOcupare, RezervareInsert, RezervarePlin,
      PlataUpdate, AnulareGasita, AnulareNegasita, AnulareUpdate,
      AuditWake, AuditExpira, AuditOcupari, AuditSolduri, AuditUnlock, AuditTermina, Crash,
      NewProcess, TimeoutPasses, db

\* A new database owes nothing.
LEMMA MoneyInit == Init => MoneyInv
<1> SUFFICES ASSUME Init PROVE MoneyInv
  OBVIOUS
<1>1. TypeInv
  BY TypeInit
<1>2. MutualExclusion /\ InFlightInv
  BY DEF Init, FreshPC, MutualExclusion, CriticalLabels, InFlightInv, PaymentUnderWay,
     PaymentFound, RefundUnderWay, Threads
<1>3. MoneyConserved
  BY DEF Init, MoneyConserved
<1> QED
  BY <1>1, <1>2, <1>3 DEF MoneyInv

\* Whatever statement fails and wherever the process dies, nobody is charged
\* or refunded twice, and a refund is the exact reverse of an earlier payment
\* of a reservation that is now cancelled.
THEOREM MoneyIsConserved == Spec => []MoneyConserved
<1>1. Init => MoneyInv
  BY MoneyInit
<1>2. MoneyInv /\ [Next]_vars => MoneyInv'
  BY MoneyStep
<1>3. MoneyInv => MoneyConserved
  BY DEF MoneyInv
<1> QED
  BY <1>1, <1>2, <1>3, PTL DEF Spec

-----------------------------------------------------------------------------
\* Answers.

\* Whoever is about to return more than a refusal still has the mutex: only a
\* request refused for its hour answers without it.
AnswersLocked ==
    \A w \in Workers : pc[w] = "return" /\ reply[w] # Fail => mutex = w

RepliesInv == MoneyInv /\ AnswersLocked /\ RepliesMatchStatus

\* A refusal claims nothing.
LEMMA RefusalIsTrue == ASSUME NEW w, reply[w] = Fail PROVE AnswerTrue(w)
  BY DEF AnswerTrue, Fail

\* While a thread is at a statement every other answer is a refusal.
LEMMA OthersRefuse ==
    ASSUME MutualExclusion, AnswersLocked, NEW t \in Threads, pc[t] \in CriticalLabels,
           NEW w \in Workers, w # t, pc[w] = "return"
    PROVE  reply[w] = Fail
  BY DEF MutualExclusion, AnswersLocked

\* A statement that composes an answer composes a true one.
LEMMA AnswerIsTrue ==
    ASSUME RepliesInv, NEW w \in Workers, Statement(w), pc'[w] = "return"
    PROVE  AnswerTrue(w)'
<1> USE ServiceAssumption DEF RepliesInv, MoneyInv, TypeInv, TypeOK, Threads
<1>1. CASE RezervareInsert(w)
  <2>1. CASE /\ reservations' = Append(reservations,
                   [room |-> task[w].room, ora |-> task[w].ora, status |-> "REZERVARE"])
             /\ Answer(w, Success(Len(reservations) + 1))
    <3>1. /\ Len(reservations) + 1 \in DOMAIN reservations'
          /\ reservations'[Len(reservations) + 1] =
                [room |-> task[w].room, ora |-> task[w].ora, status |-> "REZERVARE"]
      BY <2>1, InsertRow, LenProperties
    <3>2. reply'[w] = Success(Len(reservations) + 1) /\ task'[w] = task[w]
      BY <1>1, <2>1 DEF RezervareInsert, Answer
    <3> QED
      BY <3>1, <3>2 DEF AnswerTrue, Success
  <2>2. CASE Answer(w, Success(0))
    <3>1. reply'[w] = Success(0)
      BY <2>2 DEF Answer
    <3> QED
      BY <3>1 DEF AnswerTrue, Success
  <2> QED
    BY <1>1, <2>1, <2>2 DEF RezervareInsert
<1>2. CASE PlataIncasare(w)
  <2>1. Matches(reservations, task[w].id, "PLATITA")
    BY <1>2 DEF PlataIncasare, InFlightInv, PaymentUnderWay
  <2>2. reply'[w] = Paid /\ task'[w] = task[w] /\ UNCHANGED reservations
    BY <1>2 DEF PlataIncasare, Answer
  <2> QED
    BY <2>1, <2>2 DEF AnswerTrue, Paid
<1>3. CASE AnulareRamburs(w)
  <2>1. /\ Matches(reservations, task[w].id, "ANULATA")
        /\ \E t \in Entries(task[w].id, "INCASARE") : transactions[t].amount = frame[w].amountPaid
    BY <1>3 DEF AnulareRamburs, InFlightInv, RefundUnderWay, PaymentFound
  <2>2. /\ reply'[w] = Refunded(frame[w].amountPaid)
        /\ task'[w] = task[w] /\ UNCHANGED reservations
    BY <1>3 DEF AnulareRamburs, Answer
  <2>3. \A t \in DOMAIN transactions : t \in DOMAIN transactions' /\ transactions'[t] = transactions[t]
    <3>1. CASE UNCHANGED transactions
      BY <3>1
    <3>2. CASE \E x : transactions' = Append(transactions, x)
      BY <3>2, InsertRow, LenProperties
    <3> QED
      BY <1>3, <3>1, <3>2 DEF AnulareRamburs, InsertTransaction
  <2> QED
    BY <2>1, <2>2, <2>3 DEF AnswerTrue, Refunded, Entries
<1>4. CASE ~(RezervareInsert(w) \/ PlataIncasare(w) \/ AnulareRamburs(w))
  <2>1. reply'[w] = Fail
    BY <1>4 DEF Statement, RezervareCapacitate, RezervareOcupare, RezervarePlin, PlataUpdate,
       Plateste, UpdateById, AnulareGasita, AnulareNegasita, AnulareUpdate, Answer, Goto
  <2> QED
    BY <2>1 DEF AnswerTrue, Fail
<1> QED
  BY <1>1, <1>2, <1>3, <1>4

\* Every step keeps answers true until they are returned.
LEMMA AnswersStep ==
    ASSUME RepliesInv, [Next]_vars
    PROVE  AnswersLocked' /\ RepliesMatchStatus'
<1> USE ServiceAssumption DEF RepliesInv, MoneyInv, TypeInv, TypeOK, Threads
<1>1. ASSUME NEW t \in Threads, UNCHANGED db, mutex' = mutex \/ mutex \in {t, NoThread},
             t \in Workers /\ pc'[t] = "return" => reply'[t] = Fail,
             \A w \in Workers \ {t} : /\ pc'[w] = pc[w] /\ task'[w] = task[w]
                                      /\ reply'[w] = reply[w]
      PROVE  AnswersLocked' /\ RepliesMatchStatus'
  <2> SUFFICES ASSUME NEW w \in Workers, pc'[w] = "return"
               PROVE  (reply'[w] # Fail => mutex' = w) /\ AnswerTrue(w)'
    BY DEF AnswersLocked, RepliesMatchStatus
  <2>1. CASE w = t
    BY <1>1, <2>1 DEF AnswerTrue, Fail
  <2>2. CASE w # t
    <3>1. pc[w] = "return" /\ AnswerTrue(w) /\ (reply[w] # Fail => mutex = w)
      BY <1>1, <2>2 DEF AnswersLocked, RepliesMatchStatus
    <3>2. AnswerTrue(w)'
      BY <1>1, <2>2, <3>1 DEF AnswerTrue, Entries, db
    <3> QED
      BY <1>1, <2>2, <3>1, <3>2
  <2> QED
    BY <2>1, <2>2
<1>2. ASSUME NEW t \in Threads, pc[t] \in CriticalLabels,
             t \in Workers /\ pc'[t] = "return" => AnswerTrue(t)' /\ mutex' = t,
             \A w \in Workers \ {t} : pc'[w] = pc[w] /\ reply'[w] = reply[w]
      PROVE  AnswersLocked' /\ RepliesMatchStatus'
  <2> SUFFICES ASSUME NEW w \in Workers, pc'[w] = "return"
               PROVE  (reply'[w] # Fail => mutex' = w) /\ AnswerTrue(w)'
    BY DEF AnswersLocked, RepliesMatchStatus
  <2>1. CASE w = t
    BY <1>2, <2>1
  <2>2. CASE w # t
    <3>1. reply'[w] = Fail
      BY <1>2, <2>2, OthersRefuse
    <3> QED
      BY <3>1 DEF AnswerTrue, Fail
  <2> QED
    BY <2>1, <2>2
<1>3. ASSUME NEW w \in Workers, NewRequest(w)
      PROVE  AnswersLocked' /\ RepliesMatchStatus'
  <2>1. /\ UNCHANGED db /\ mutex' = mutex
        /\ pc'[w] = "return" => reply'[w] = Fail
        /\ \A v \in Workers \ {w} : pc'[v] = pc[v] /\ task'[v] = task[v] /\ reply'[v] = reply[v]
    BY <1>3 DEF NewRequest, Answer, Goto
  <2> QED
    BY <1>1, <2>1
<1>4. ASSUME NEW t \in Threads, Lock(t)
      PROVE  AnswersLocked' /\ RepliesMatchStatus'
  <2>1. /\ UNCHANGED db /\ mutex = NoThread /\ pc'[t] # "return"
        /\ \A v \in Workers \ {t} : pc'[v] = pc[v] /\ task'[v] = task[v] /\ reply'[v] = reply[v]
    BY <1>4 DEF Lock, MutexFree, FirstStatement, Goto
  <2> QED
    BY <1>1, <2>1
<1>5. ASSUME NEW w \in Workers, Return(w)
      PROVE  AnswersLocked' /\ RepliesMatchStatus'
  <2>1. /\ UNCHANGED db /\ (mutex' = mutex \/ mutex = w)
        /\ pc'[w] # "return"
        /\ \A v \in Workers \ {w} : pc'[v] = pc[v] /\ task'[v] = task[v] /\ reply'[v] = reply[v]
    BY <1>5 DEF Return, Released, Goto
  <2> QED
    BY <1>1, <2>1
<1>6. ASSUME NEW w \in Workers, Statement(w)
      PROVE  AnswersLocked' /\ RepliesMatchStatus'
  <2>1. pc[w] \in CriticalLabels /\ UNCHANGED mutex
    BY <1>6 DEF Statement, RezervareCapacitate, RezervareOcupare, RezervareInsert, RezervarePlin,
       PlataUpdate, PlataIncasare, AnulareGasita, AnulareNegasita, AnulareUpdate, AnulareRamburs,
       CriticalLabels
  <2>2. mutex' = w
    BY <2>1 DEF MutualExclusion
  <2>3. \A v \in Workers \ {w} : pc'[v] = pc[v] /\ reply'[v] = reply[v]
    BY <1>6 DEF Statement, RezervareCapacitate, RezervareOcupare, RezervareInsert, RezervarePlin,
       PlataUpdate, PlataIncasare, AnulareGasita, AnulareNegasita, AnulareUpdate, AnulareRamburs,
       Plateste, UpdateById, Answer, Goto
  <2> QED
    BY <1>2, <1>6, <2>1, <2>2, <2>3, AnswerIsTrue
<1>7. CASE NewProcess
  BY <1>7 DEF NewProcess, FreshPC, AnswersLocked, RepliesMatchStatus
<1>8. CASE AuditStep
  <2>1. CASE AuditWake \/ AuditOcupari \/ AuditSolduri \/ AuditUnlock
    <3>1. /\ UNCHANGED <<db, task, reply>>
          /\ (mutex' = mutex \/ mutex = Auditor)
          /\ \A w \in Workers : pc'[w] = pc[w]
      BY <2>1 DEF AuditWake, AuditOcupari, AuditSolduri, AuditUnlock, Goto, MutualExclusion,
         CriticalLabels
    <3> QED
      BY <1>1, <3>1
  <2>2. CASE AuditExpira
    <3>1. /\ pc[Auditor] \in CriticalLabels /\ UNCHANGED reply
          /\ \A w \in Workers : pc'[w] = pc[w]
      BY <2>2 DEF AuditExpira, Goto, CriticalLabels
    <3> QED
      BY <1>2, <3>1
  <2> QED
    BY <1>4, <1>7, <1>8, <2>1, <2>2 DEF AuditStep, AuditTermina
<1>9. CASE UNCHANGED <<db, mutex, pc, task, reply>>
  BY <1>1, <1>9
<1> QED
  BY <1>3, <1>4, <1>5, <1>6, <1>7, <1>8, <1>9 DEF Next, WorkerStep, Crash, TimeoutPasses, vars, db

\* Under every fault of the model an answer, until it is returned, agrees with
\* the status of the row it names, and a refund with a payment on record.
THEOREM AnswersMatchStatus == Spec => []RepliesMatchStatus
<1>1. Init => RepliesInv
  <2> SUFFICES ASSUME Init PROVE RepliesInv
    OBVIOUS
  <2>1. AnswersLocked /\ RepliesMatchStatus
    BY ServiceAssumption DEF Init, FreshPC, AnswersLocked, RepliesMatchStatus, Threads
  <2> QED
    BY <2>1, MoneyInit DEF RepliesInv
<1>2. RepliesInv /\ [Next]_vars => RepliesInv'
  BY AnswersStep, MoneyStep DEF RepliesInv
<1>3. RepliesInv => RepliesMatchStatus
  BY DEF RepliesInv
<1> QED
  BY <1>1, <1>2, <1>3, PTL DEF Spec

=============================================================================
