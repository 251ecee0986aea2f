-------------------------- MODULE WorkshopService --------------------------
(***************************************************************************)
(* WorkshopService of server/service.cpp: the pool's workers and the       *)
(* detached audit thread run reservations, payments, cancellations and     *)
(* clean-ups against one SQLite file, serialised by Database::db_mutex.    *)
(* Every SQL statement autocommits, so it is one step; a process that dies *)
(* keeps the statements it completed and loses everything else.            *)
(* Time is kept only as the number of reservations past the timeout.       *)
(***************************************************************************)
EXTENDS Schema, FiniteSetsExt

CONSTANTS
    Workers,    \* the threads of the pool, each running one task at a time
    Auditor,    \* the thread of runPeriodicChecks
    NoThread,   \* the holder of a free mutex
    ReqIds,     \* the ids a payment or a cancellation can name
    MaxId,      \* bound: a reservation is asked for only below this many rows
    Faults      \* what may go wrong: "read" (a SELECT of a worker), "audit" (one
                \* of the audit), "write" (an INSERT or UPDATE), "crash"

ASSUME ServiceAssumption ==
    /\ Auditor \notin Workers
    /\ NoThread \notin Workers \cup {Auditor}
    /\ ReqIds \subseteq Nat \ {0}
    /\ MaxId \in Nat
    /\ Faults \subseteq {"read", "audit", "write", "crash"}

VARIABLES
    reservations,  \* table reservations
    transactions,  \* table transactions
    overdue,       \* rows 1..overdue have created_at older than the timeout
    mutex,         \* the thread holding db_mutex, or NoThread
    pc,            \* the statement each thread runs next
    task,          \* the request each worker runs
    frame,         \* the locals each worker has filled from its reads
    reply,         \* the answer each worker is about to return
    report         \* what the audit has written in the current report

vars == <<reservations, transactions, overdue, mutex, pc, task, frame, reply, report>>
db == <<reservations, transactions>>

Threads == Workers \cup {Auditor}
Centers == {room[1] : room \in Rooms}

NoTask == [op |-> "none"]
Rezervari == [op : {"rezervare"}, room : Rooms, ora : Times]
Plati == [op : {"plata"}, id : ReqIds, suma : Sume]
Anulari == [op : {"anulare"}, id : ReqIds]
Tasks == Rezervari \cup Plati \cup Anulari

\* The locals as declared: max_cap, load, amountPaid.
NewFrame == [max_cap |-> DefaultCapacity, load |-> 0, amountPaid |-> 0]

NoReply == [status |-> "none"]
Fail == [status |-> "fail"]
Success(id) == [status |-> "success", id |-> id]
Paid == [status |-> "paid"]
Refunded(suma) == [status |-> "refunded", amount |-> suma]

NoReport == [critic |-> {}, solduri |-> [c \in Centers |-> 0]]

\* A started process: no method runs, the audit sleeps.
FreshPC == [t \in Threads |-> IF t = Auditor THEN "sleep" ELSE "idle"]

Init ==
    /\ reservations = <<>>
    /\ transactions = <<>>
    /\ overdue = 0
    /\ mutex = NoThread
    /\ pc = FreshPC
    /\ task = [w \in Workers |-> NoTask]
    /\ frame = [w \in Workers |-> NewFrame]
    /\ reply = [w \in Workers |-> NoReply]
    /\ report = NoReport

-----------------------------------------------------------------------------
\* Steps of threads.

Goto(t, label) == pc' = [pc EXCEPT ![t] = label]

\* The method's result is composed; it is returned by Return.
Answer(w, r) == reply' = [reply EXCEPT ![w] = r] /\ Goto(w, "return")

\* A statement of this kind completes (TRUE) or returns an error (FALSE).
Outcomes(kind) == {ok \in BOOLEAN : ok \/ kind \in Faults}

\* sqlite3_exec of an UPDATE by id: a new status for a row that has the old
\* one.  sqlite3_changes of the fresh connection is 0 if the statement failed.
UpdateById(w, old, new, next) ==
    LET id == task[w].id IN
    \/ /\ Matches(reservations, id, old)
       /\ reservations' = [reservations EXCEPT ![id].status = new]
       /\ Goto(w, next)
       /\ UNCHANGED reply
    \/ /\ ~Matches(reservations, id, old) \/ "write" \in Faults
       /\ Answer(w, Fail)
       /\ UNCHANGED reservations

\* sqlite3_step of an INSERT whose result no caller looks at.
InsertTransaction(id, type, amount) ==
    \E ok \in Outcomes("write") :
        transactions' =
            IF ok THEN Append(transactions, [reservation_id |-> id, type |-> type, amount |-> amount])
                  ELSE transactions

\* The rows of transactions of one type for one reservation.
Entries(id, type) ==
    {t \in DOMAIN transactions :
        transactions[t].reservation_id = id /\ transactions[t].type = type}

\* The mutex is taken by the lock_guard of every method and of every audit;
\* the variant forgets the lock_guard.
MutexIgnored == TRUE
MutexFree == mutex = NoThread

FirstStatement(t) ==
    IF t = Auditor THEN "expira"
    ELSE CASE task[t].op = "rezervare" -> "capacitate"
           [] task[t].op = "plata"     -> "plata"
           [] task[t].op = "anulare"   -> "cauta"
           [] OTHER                    -> "idle"

Lock(t) ==
    /\ pc[t] = "lock"
    /\ MutexFree
    /\ mutex' = t
    /\ Goto(t, FirstStatement(t))
    /\ UNCHANGED <<db, overdue, task, frame, reply, report>>

\* The lock_guard, if the method got as far as taking it, releases the mutex;
\* the variant is a method that leaves without unlocking.
RamaneLuat(w) == mutex
Released(w) == IF mutex = w THEN NoThread ELSE mutex

\* The end of a method: its locals die.
Return(w) ==
    /\ pc[w] = "return"
    /\ mutex' = Released(w)
    /\ task' = [task EXCEPT ![w] = NoTask]
    /\ frame' = [frame EXCEPT ![w] = NewFrame]
    /\ reply' = [reply EXCEPT ![w] = NoReply]
    /\ Goto(w, "idle")
    /\ UNCHANGED <<db, overdue, report>>

\* A worker takes a request up.  A reservation out of hours, or with a text
\* without an hour, is answered before the mutex is asked for.
NewRequest(w) ==
    \E r \in Tasks :
        /\ pc[w] = "idle"
        /\ task' = [task EXCEPT ![w] = r]
        /\ \/ /\ r.op = "rezervare" => Deschis(r.ora) /\ Len(reservations) < MaxId
              /\ Goto(w, "lock")
              /\ UNCHANGED reply
           \/ /\ r.op = "rezervare" /\ ~Deschis(r.ora)
              /\ Answer(w, Fail)
        /\ UNCHANGED <<db, overdue, mutex, frame, report>>

-----------------------------------------------------------------------------
\* proceseazaRezervare

\* A failed SELECT looks like a pair without a row: the default stays.
RezervareCapacitate(w) ==
    /\ pc[w] = "capacitate"
    /\ \E ok \in Outcomes("read") :
          frame' = [frame EXCEPT ![w].max_cap = IF ok THEN MaxCap(task[w].room) ELSE DefaultCapacity]
    /\ Goto(w, "ocupare")
    /\ UNCHANGED <<db, overdue, mutex, task, reply, report>>

\* A failed SELECT count(*) leaves load at 0.
RezervareOcupare(w) ==
    /\ pc[w] = "ocupare"
    /\ \E ok \in Outcomes("read") :
          frame' = [frame EXCEPT ![w].load =
                       IF ok THEN Load(reservations, task[w].room, OraGrup[task[w].ora]) ELSE 0]
    /\ Goto(w, "insert")
    /\ UNCHANGED <<db, overdue, mutex, task, reply, report>>

\* load < max_cap, and the off-by-one variant.
MaiAreLocSauPlin(w) == frame[w].load <= frame[w].max_cap
MaiAreLoc(w) == frame[w].load < frame[w].max_cap

\* The INSERT is not checked: when it fails, last_insert_rowid of the fresh
\* connection is 0 and the answer is still a success.
RezervareInsert(w) ==
    /\ pc[w] = "insert"
    /\ MaiAreLoc(w)
    /\ \/ /\ reservations' = Append(reservations,
                 [room |-> task[w].room, ora |-> task[w].ora, status |-> "REZERVARE"])
          /\ Answer(w, Success(Len(reservations) + 1))
       \/ /\ "write" \in Faults
          /\ UNCHANGED reservations
          /\ Answer(w, Success(0))
    /\ UNCHANGED <<transactions, overdue, mutex, task, frame, report>>

RezervarePlin(w) ==
    /\ pc[w] = "insert"
    /\ ~MaiAreLoc(w)
    /\ Answer(w, Fail)
    /\ UNCHANGED <<db, overdue, mutex, task, frame, report>>
-----------------------------------------------------------------------------
\* proceseazaPlata

\* The UPDATE of a payment asks for an unpaid row; the variant forgets to ask.
PlatesteOricand(w) ==
    \E old \in {"REZERVARE", "PLATITA"} : UpdateById(w, old, "PLATITA", "incasare")
Plateste(w) == UpdateById(w, "REZERVARE", "PLATITA", "incasare")

PlataUpdate(w) ==
    /\ pc[w] = "plata"
    /\ Plateste(w)
    /\ UNCHANGED <<transactions, overdue, mutex, task, frame, report>>

PlataIncasare(w) ==
    /\ pc[w] = "incasare"
    /\ InsertTransaction(task[w].id, "INCASARE", task[w].suma)
    /\ Answer(w, Paid)
    /\ UNCHANGED <<reservations, overdue, mutex, task, frame, report>>

-----------------------------------------------------------------------------
\* proceseazaAnulare

\* A row of the SELECT: without ORDER BY it may be any payment on record.
AnulareGasita(w) ==
    /\ pc[w] = "cauta"
    /\ \E t \in Entries(task[w].id, "INCASARE") :
          frame' = [frame EXCEPT ![w].amountPaid = transactions[t].amount]
    /\ Goto(w, "anulare")
    /\ UNCHANGED <<db, overdue, mutex, task, reply, report>>

\* No payment on record, or the SELECT failed.
AnulareNegasita(w) ==
    /\ pc[w] = "cauta"
    /\ Entries(task[w].id, "INCASARE") = {} \/ "read" \in Faults
    /\ Answer(w, Fail)
    /\ UNCHANGED <<db, overdue, mutex, task, frame, report>>

AnulareUpdate(w) ==
    /\ pc[w] = "anulare"
    /\ UpdateById(w, "PLATITA", "ANULATA", "ramburs")
    /\ UNCHANGED <<transactions, overdue, mutex, task, frame, report>>

AnulareRamburs(w) ==
    /\ pc[w] = "ramburs"
    /\ InsertTransaction(task[w].id, "RAMBURS", -frame[w].amountPaid)
    /\ Answer(w, Refunded(frame[w].amountPaid))
    /\ UNCHANGED <<reservations, overdue, mutex, task, frame, report>>

-----------------------------------------------------------------------------
\* runPeriodicChecks

\* sleep_for returns.
AuditWake ==
    /\ pc[Auditor] = "sleep"
    /\ Goto(Auditor, "lock")
    /\ UNCHANGED <<db, overdue, mutex, task, frame, reply, report>>

AuditExpira ==
    /\ pc[Auditor] = "expira"
    /\ \E ok \in Outcomes("write") :
          reservations' = IF ok THEN Expired(reservations, overdue) ELSE reservations
    /\ Goto(Auditor, "ocupari")
    /\ UNCHANGED <<transactions, overdue, mutex, task, frame, reply, report>>

\* The JOIN drops the rows of pairs without a capacity row.
Reported == {id \in DOMAIN reservations :
                /\ reservations[id].status \in Active
                /\ Capacity[reservations[id].room] # NoRow}
SlotOf(id) == OraGrup[reservations[id].ora]

\* The [CRITIC] lines: groups of the report with more rows than seats.
Suprapuneri ==
    {g \in {<<reservations[id].room, SlotOf(id)>> : id \in Reported} :
        Load(reservations, g[1], g[2]) > Capacity[g[1]]}

\* A failed SELECT reports no group.
AuditOcupari ==
    /\ pc[Auditor] = "ocupari"
    /\ \/ /\ \A id \in Reported : SlotOf(id) # NullSlot
          /\ report' = [report EXCEPT !.critic = Suprapuneri]
       \/ /\ "audit" \in Faults
          /\ UNCHANGED report
    /\ Goto(Auditor, "solduri")
    /\ UNCHANGED <<db, overdue, mutex, task, frame, reply>>

\* SUM(t.amount) over the transactions of a center's reservations.
Sold(c) ==
    MapThenSumSet(LAMBDA t : transactions[t].amount,
        {t \in DOMAIN transactions : reservations[transactions[t].reservation_id].room[1] = c})

AuditSolduri ==
    /\ pc[Auditor] = "solduri"
    /\ \E ok \in Outcomes("audit") :
          report' = IF ok THEN [report EXCEPT !.solduri = [c \in Centers |-> Sold(c)]] ELSE report
    /\ Goto(Auditor, "unlock")
    /\ UNCHANGED <<db, overdue, mutex, task, frame, reply>>

\* The report is closed and the loop body ends: lock_guard releases.
AuditUnlock ==
    /\ pc[Auditor] = "unlock"
    /\ mutex' = NoThread
    /\ report' = NoReport
    /\ Goto(Auditor, "sleep")
    /\ UNCHANGED <<db, overdue, task, frame, reply>>

-----------------------------------------------------------------------------
\* The process and the clock.

\* The process is gone and started again: init() finds its tables and its
\* capacity rows in place, and every thread starts afresh.
NewProcess ==
    /\ mutex' = NoThread
    /\ pc' = FreshPC
    /\ task' = [w \in Workers |-> NoTask]
    /\ frame' = [w \in Workers |-> NewFrame]
    /\ reply' = [w \in Workers |-> NoReply]
    /\ report' = NoReport
    /\ UNCHANGED <<db, overdue>>

Crash == "crash" \in Faults /\ NewProcess

\* std::string of the NULL column throws in a thread without a handler.
AuditTermina ==
    /\ pc[Auditor] = "ocupari"
    /\ \E id \in Reported : SlotOf(id) = NullSlot
    /\ NewProcess

\* created_at is set in id order, so rows pass the timeout in id order.
TimeoutPasses ==
    /\ overdue < Len(reservations)
    /\ overdue' = overdue + 1
    /\ UNCHANGED <<db, mutex, pc, task, frame, reply, report>>

Statement(w) ==
    \/ RezervareCapacitate(w) \/ RezervareOcupare(w) \/ RezervareInsert(w) \/ RezervarePlin(w)
    \/ PlataUpdate(w) \/ PlataIncasare(w)
    \/ AnulareGasita(w) \/ AnulareNegasita(w) \/ AnulareUpdate(w) \/ AnulareRamburs(w)

WorkerStep(w) == Lock(w) \/ Statement(w) \/ Return(w)

AuditStep ==
    AuditWake \/ Lock(Auditor) \/ AuditExpira \/ AuditOcupari \/ AuditSolduri
        \/ AuditUnlock \/ AuditTermina

Next ==
    \/ \E w \in Workers : NewRequest(w) \/ WorkerStep(w)
    \/ AuditStep
    \/ TimeoutPasses
    \/ Crash

Spec == Init /\ [][Next]_vars

\* Clients need not send requests.  A thread that can run does, and the clock
\* goes on.  The audit does not keep the workers out that wait for the mutex,
\* since it sleeps whole seconds with the mutex free; which of them gets it is
\* left open, for std::mutex promises no order.
Fairness ==
    /\ \A w \in Workers : WF_vars(WorkerStep(w))
    /\ SF_vars(\E w \in Workers : Lock(w))
    /\ WF_vars(AuditStep)
    /\ WF_vars(TimeoutPasses)

FairSpec == Spec /\ Fairness
=============================================================================
