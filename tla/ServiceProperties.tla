------------------------- MODULE ServiceProperties -------------------------
(***************************************************************************)
(* The properties of WorkshopService, and the refinement of Bookings.      *)
(***************************************************************************)
EXTENDS WorkshopService

WorkerLabels == {"idle", "lock", "return", "capacitate", "ocupare", "insert",
                 "plata", "incasare", "cauta", "anulare", "ramburs"}
AuditLabels == {"sleep", "lock", "expira", "ocupari", "solduri", "unlock"}

Frames == [max_cap : Nat, load : Nat, amountPaid : Int]
Replies == {NoReply, Fail, Paid} \cup [status : {"success"}, id : Nat]
             \cup [status : {"refunded"}, amount : Int]

TypeOK ==
    /\ reservations \in Seq(Reservation)
    /\ transactions \in Seq(Transaction)
    /\ overdue \in 0..Len(reservations)
    /\ mutex \in Threads \cup {NoThread}
    /\ pc \in [Threads -> WorkerLabels \cup AuditLabels]
    /\ pc[Auditor] \in AuditLabels
    /\ \A w \in Workers : pc[w] \in WorkerLabels
    /\ task \in [Workers -> Tasks \cup {NoTask}]
    /\ frame \in [Workers -> Frames]
    /\ reply \in [Workers -> Replies]
    /\ DOMAIN report = {"critic", "solduri"}
    /\ report.critic \subseteq (Rooms \X {OraGrup[ora] : ora \in Times})
    /\ DOMAIN report.solduri = Centers

\* Some worker is between the two statements of a payment or a refund.
InFlight(id, label) == \E w \in Workers : pc[w] = label /\ task[w].id = id

\* The amount on record of type for id.
Recorded(id, type) == transactions[CHOOSE t \in Entries(id, type) : TRUE].amount
AmountPaid(id) == Recorded(id, "INCASARE")

-----------------------------------------------------------------------------
\* Two clients after the last seat: whatever the interleaving of the count
\* and the INSERT of concurrent proceseazaRezervare calls, payments,
\* cancellations and clean-ups, no interval ever holds more than its seats.
SeatsWithinCapacity ==
    \A room \in Rooms, ora \in Times :
        Load(reservations, room, OraGrup[ora]) <= MaxCap(room)

\* Status and money agree for every reservation except the one whose
\* two-statement payment or refund is running: paid and cancelled ones have
\* one INCASARE, cancelled ones have one RAMBURS, the others have none.
LedgerMatchesStatus ==
    \A id \in DOMAIN reservations :
        LET st == reservations[id].status IN
        /\ Cardinality(Entries(id, "INCASARE")) =
               IF st \in {"PLATITA", "ANULATA"} /\ ~InFlight(id, "incasare") THEN 1 ELSE 0
        /\ Cardinality(Entries(id, "RAMBURS")) =
               IF st = "ANULATA" /\ ~InFlight(id, "ramburs") THEN 1 ELSE 0

\* Whatever fails and wherever the process dies, no reservation is charged
\* or refunded twice, and money is only given back for a cancelled
\* reservation, after its payment and in the same amount.
MoneyConserved ==
    /\ \A t \in DOMAIN transactions :
          LET x == transactions[t] IN
          /\ \/ Matches(reservations, x.reservation_id, "ANULATA")
             \/ x.type = "INCASARE" /\ Matches(reservations, x.reservation_id, "PLATITA")
          /\ x.type = "RAMBURS" =>
                \E u \in 1..(t - 1) : transactions[u] =
                    [reservation_id |-> x.reservation_id, type |-> "INCASARE", amount |-> -x.amount]
    /\ \A t, u \in DOMAIN transactions :
          (/\ transactions[t].reservation_id = transactions[u].reservation_id
           /\ transactions[t].type = transactions[u].type) => t = u

\* An answer about to be returned is true of the database: the id it gives
\* is the client's own seat, "paid" and "refunded" are on record with their
\* amounts, and a refusal had its reason.
AnswerHonest(w) ==
    LET r == reply[w]  req == task[w] IN
    /\ r # NoReply
    /\ r.status = "success" =>
          /\ r.id \in DOMAIN reservations
          /\ reservations[r.id] = [room |-> req.room, ora |-> req.ora, status |-> "REZERVARE"]
    /\ r.status = "paid" =>
          /\ Matches(reservations, req.id, "PLATITA")
          /\ Entries(req.id, "INCASARE") # {} /\ AmountPaid(req.id) = req.suma
    /\ r.status = "refunded" =>
          /\ Matches(reservations, req.id, "ANULATA")
          /\ \E t \in Entries(req.id, "RAMBURS") : transactions[t].amount = -r.amount
          /\ r.amount = AmountPaid(req.id)
    /\ r = Fail =>
          /\ req.op = "rezervare" =>
                \/ ~Deschis(req.ora)
                \/ Load(reservations, req.room, OraGrup[req.ora]) >= MaxCap(req.room)
          /\ req.op = "plata" => ~Matches(reservations, req.id, "REZERVARE")
          /\ req.op = "anulare" => ~Matches(reservations, req.id, "PLATITA")
RepliesHonest == \A w \in Workers : pc[w] = "return" => AnswerHonest(w)

\* What is left of that promise when statements fail: an answer is still true
\* of the status of the very reservation it names, and a refund is of a payment
\* on record; but the answer may name no row (id 0), and money may be missing.
AnswerTrue(w) ==
    LET r == reply[w]  req == task[w] IN
    /\ r.status = "success" =>
          \/ r.id = 0
          \/ /\ r.id \in DOMAIN reservations
             /\ reservations[r.id] = [room |-> req.room, ora |-> req.ora, status |-> "REZERVARE"]
    /\ r.status = "paid" => Matches(reservations, req.id, "PLATITA")
    /\ r.status = "refunded" =>
          /\ Matches(reservations, req.id, "ANULATA")
          /\ \E t \in Entries(req.id, "INCASARE") : transactions[t].amount = r.amount
RepliesMatchStatus == \A w \in Workers : pc[w] = "return" => AnswerTrue(w)

\* The same promise for clients who send the very same text: they compete for
\* the same seats, whether or not the database can read the text as a time.
SameTextWithinCapacity ==
    \A room \in Rooms, ora \in Times :
        Cardinality({id \in DOMAIN reservations :
            /\ reservations[id].room = room /\ reservations[id].ora = ora
            /\ reservations[id].status \in Active}) <= MaxCap(room)

\* The report is a consistent view although it is made of three statements:
\* when it is closed it has found no overlap, and a center's balance is what
\* was taken for its reservations that are paid at that moment.
AuditReportsTheBooks ==
    pc[Auditor] = "unlock" =>
        /\ report.critic = {}
        /\ \A c \in Centers : report.solduri[c] =
              MapThenSumSet(LAMBDA t : transactions[t].amount,
                  {t \in DOMAIN transactions :
                      LET id == transactions[t].reservation_id IN
                      /\ transactions[t].type = "INCASARE"
                      /\ Matches(reservations, id, "PLATITA") /\ reservations[id].room[1] = c})

\* Even when failing reads have let a room be overbooked, the audit that
\* closes its report has named every overbooked interval.
OverlapsReported ==
    pc[Auditor] = "unlock" =>
        \A room \in Rooms, ora \in Times :
            Load(reservations, room, OraGrup[ora]) > MaxCap(room)
                => <<room, OraGrup[ora]>> \in report.critic

\* Across failures and restarts a row is never lost, renumbered or rewritten,
\* a transaction is never withdrawn, and a status only moves forward: a paid
\* reservation cannot expire, a closed one cannot be reopened.
Later == {<<"REZERVARE", "PLATITA">>, <<"REZERVARE", "EXPIRAT">>, <<"PLATITA", "ANULATA">>}
Kept ==
    /\ Len(reservations) <= Len(reservations')
    /\ \A id \in DOMAIN reservations :
          LET old == reservations[id]  new == reservations'[id] IN
          \/ new = old
          \/ /\ new.room = old.room /\ new.ora = old.ora
             /\ <<old.status, new.status>> \in Later
    /\ Len(transactions) <= Len(transactions')
    /\ \A t \in DOMAIN transactions : transactions'[t] = transactions[t]
HistoryKept == [][Kept]_db

-----------------------------------------------------------------------------
\* From some moment on no client sends anything.  std::mutex promises no
\* order to its waiters, so nothing is claimed under an endless load.
RequestsStop == <>[][\A w \in Workers : ~NewRequest(w)]_vars

\* A reservation nobody pays does not keep its seat: the audit, which shares
\* the mutex with the workers, gets to it after the timeout.
UnpaidSeatReleased ==
    RequestsStop =>
        \A id \in 1..(MaxId + 1) :
            Matches(reservations, id, "REZERVARE") ~> ~Matches(reservations, id, "REZERVARE")

\* Every request a worker has taken up is answered and the worker is free
\* again, so the future its client waits on becomes ready.
RequestsAnswered ==
    RequestsStop => \A w \in Workers : pc[w] # "idle" ~> pc[w] = "idle"

\* The audit keeps closing its reports: no state of the tables stops it.
AuditCompletes == RequestsStop => []<>(pc[Auditor] = "unlock")

-----------------------------------------------------------------------------
\* The abstract book: a reservation with its recorded money, and with the
\* money of the payment or refund whose second statement is still to run.
Incasat(id) ==
    IF Entries(id, "INCASARE") # {} THEN AmountPaid(id)
    ELSE IF InFlight(id, "incasare")
         THEN task[CHOOSE w \in Workers : pc[w] = "incasare" /\ task[w].id = id].suma
         ELSE 0

Rambursat(id) ==
    IF Entries(id, "RAMBURS") # {} THEN -Recorded(id, "RAMBURS")
    ELSE IF InFlight(id, "ramburs")
         THEN frame[CHOOSE w \in Workers : pc[w] = "ramburs" /\ task[w].id = id].amountPaid
         ELSE 0

Book == [id \in DOMAIN reservations |->
            [room |-> reservations[id].room, ora |-> reservations[id].ora,
             status |-> reservations[id].status,
             incasat |-> Incasat(id), rambursat |-> Rambursat(id)]]

Promise == INSTANCE Bookings WITH book <- Book

\* Seen through the book, each operation is one atomic step.
AtomicOperations == Promise!Spec
=============================================================================
