# Workshops-Reservations in TLA+

A TLA+ model of the reservation server in `server/` (C++, Crow, SQLite) and of
its React client in `client/`: what is modelled, what TLC checks, what TLAPS
proves, and what is left. Paths below are relative to the
repository; `:n` is a line.

## 1. The system

A client reserves a seat in a workshop (`atelier`) of a cultural centre
(`centru`) for an hour interval, has some seconds to pay for it, and may cancel
a paid reservation for a refund. A detached thread expires unpaid reservations
and writes an audit report.

```
 browser            Crow threads            pool workers            SQLite file
 App.jsx --HTTP-->  route handler --task--> proceseaza*  --SQL-->   workshops.db
   ^                  | enqueue               | db_mutex               ^
   |                  | future.get()          |                        |
   +----- JSON -------+<----- future ---------+     verifier thread ---+
                                                    runPeriodicChecks, db_mutex
```

| Component | State | Operations | Talks to |
|---|---|---|---|
| Schema (`server/database.cpp:26-48`) | `center_capacities`, `reservations`, `transactions` | create if missing, INSERT OR IGNORE two capacities | SQLite |
| `Database` (`server/database.h`) | the file name, `db_mutex` | `getMutex`, `execute`, `init` | every method of the service |
| `WorkshopService` (`server/service.cpp:11-147`) | none of its own: locals and the tables | `proceseazaRezervare`, `proceseazaPlata`, `proceseazaAnulare` | tables, `db_mutex` |
| Audit thread (`server/service.cpp:149-237`) | locals, `raport_audit.txt` | sleep, clean-up, capacity report, balances | tables, `db_mutex` |
| `ThreadPool` (`server/thread_pool.h`) | `tasks`, `stop`, `queue_mutex`, `condition`, `workers` | worker loop, `enqueue`, destructor | handlers (futures), the service |
| Routes and `main` (`server/main.cpp`) | the objects of `main`, their life times | `/rezerva`, `/plateste`, `/anuleaza`, start, Ctrl+C | Crow, pool, service |
| React client (`client/src/App.jsx`) | `step`, `timeLeft`, `rezervareId`, `loading`, `error`, `refundAmount` | `submitRezervare`, `submitPlata`, `submitAnulare`, the countdown, `resetFlow` | the three routes |
| Stress test (`server/stress_test.py`), data setup (`server/setup_data.sql`) | counters; rows | load; run by hand while the server is stopped | the routes; the file |
| Crow, Asio, SQLite | | vendored, seen only from outside | |

### What is hard here, and what makes each component correct

* **Interleaving.** Each method reads, decides and writes in separate
  statements; only `db_mutex` keeps two of them, or one and the audit, apart.
  Correct: no interval above its capacity; no reservation charged or refunded
  twice; the report describes one moment.
* **Failure.** Every statement autocommits, there is no transaction, and most
  results are not looked at. A payment is two statements and so is a refund.
  Correct: whatever fails, money is not created and history is not rewritten.
  That status and money agree and that answers are true does *not* survive
  failures: see section 6.
* **Time.** The timeout of a reservation, the period of the audit and the
  client's countdown are three clocks. Correct: an unpaid reservation gives its
  seat back within a known time and never early, a payment and the clean-up do
  not both win, the seat is held while the page counts.
* **The network.** A connection may fail before or after the server has run the
  request, the countdown goes on while a call is awaited, and the user may start
  over or reload. Correct: a page acts only on its own reservation, and what it
  says of payments and refunds is true.
* **Data edges.** The hour is read from the text by C++ and by SQLite in two
  ways; a pair without a capacity row takes a default.
* **The pool.** `notify_one` is called after the lock is released; the
  destructor runs while workers sleep, run or look at the queue. Correct: every
  future gets its value exactly once, no wake-up is lost, shutdown completes.
* **Life times.** Tasks, handlers and the detached audit hold references to the
  objects of `main`. Correct: no task and no handler uses what is destroyed (the
  detached audit may: `ServerVerifier`).

`PROJECT.json` lists the hazards one by one, at their lines, with the
properties that watch them.

## 2. The modules

| Module | What it is |
|---|---|
| `Schema` | The tables' constants and the predicates of the SQL: the hour interval, the rows that hold a seat, the WHERE clauses. |
| `Bookings` | The abstract specification: one book of reservations, one atomic step per operation, money and status moving together. |
| `WorkshopService` | The three methods and the audit loop, statement by statement, on the two tables, the mutex, the locals, the clock and the faults. |
| `ServiceProperties` | Invariants, action and liveness properties of `WorkshopService`, and the mapping of its state to a book. |
| `ServiceProofs` | The theorems about `WorkshopService`: types, history, seats, money, opening hours. |
| `LedgerProofs` | Status against money, and answers against the tables, while no statement of a method fails. |
| `RefinementProofs` | `WorkshopService` implements `Bookings`. |
| `AuditProofs` | The report: overlaps are named, balances are right. |
| `ThreadPool` | The pool with the handlers that block on its futures and the shutdown in `main`'s order, with its properties. |
| `ThreadPoolProofs` | The theorems about `ThreadPool`. |
| `Server` | The whole process: `ThreadPool` with tasks that take `db_mutex`, the detached audit, and `main`'s objects and their destruction. |
| `ServerProofs` | The theorems about `Server`, among them that it implements `ThreadPool`. |
| `Client` | `App.jsx` in several browsers, over connections that fail, against the atomic service of `Bookings`. |
| `ClientProofs` | The theorems about `Client`. |
| `Timing` | One reservation in real time: `created_at`, the audit's period, the page's countdown. |
| `TimingProofs` | The theorems about `Timing`. |
| `MCService`, `MCServer`, `MCClient` | Values of the constants for TLC (`Timing` needs none). |

`Server` extends `ThreadPool` and implements it; `WorkshopService` implements
`Bookings`; `Client` takes `Bookings` as its server. So the client is checked
against what the service was shown to promise, and the pool's properties are
checked, and proved, in the process that uses it.

### `WorkshopService` and the code

| Variable | In the code |
|---|---|
| `reservations`, `transactions` | the two tables; the index of a row is its `id`, since both are AUTOINCREMENT and no statement deletes |
| `overdue` | how many rows have a `created_at` older than the timeout; `created_at` grows with `id` (unless the wall clock is set back, which is left out), so they are the first ones |
| `mutex` | the holder of `Database::db_mutex` |
| `pc` | the statement each thread runs next |
| `task`, `frame`, `reply` | the request of a worker, the locals it has filled (`max_cap`, `load`, `amountPaid`), the JSON it will return |
| `report` | the `[CRITIC]` groups and the balances of the report being written |

| Method | Actions, in order |
|---|---|
| `proceseazaRezervare` | `NewRequest` (with the test of the hour, which precedes the lock), `Lock`, `RezervareCapacitate`, `RezervareOcupare`, `RezervareInsert` or `RezervarePlin`, `Return` |
| `proceseazaPlata` | `NewRequest`, `Lock`, `PlataUpdate`, `PlataIncasare`, `Return` |
| `proceseazaAnulare` | `NewRequest`, `Lock`, `AnulareGasita` or `AnulareNegasita`, `AnulareUpdate`, `AnulareRamburs`, `Return` |
| `runPeriodicChecks` | `AuditWake`, `Lock`, `AuditExpira`, `AuditOcupari` or `AuditTermina`, `AuditSolduri`, `AuditUnlock` |
| the process, the clock | `Crash`, `TimeoutPasses` |

A statement is one step: SQLite commits it atomically. `Faults` says what may go
wrong. `"read"` lets a SELECT fail, which the code takes for "no row"; `"write"`
lets an INSERT or an UPDATE fail, of which the code only notices an UPDATE's
zero changes; `"crash"` ends the process anywhere. A process that ends keeps the
tables and starts afresh.

Data is reduced to what is told apart. A text `ora` is a model value with the
hour `std::stoi` reads in it (`OraStart`, or `Malformed`) and the interval
`strftime` gives it (`OraGrup`, or `NullSlot`): the two readings are independent
in the code and a text can have one without the other. Names, CNPs, wording and
the layout of the report are left out.

### `ThreadPool` and the code

`tasks` and `stop` are the members; `asleep` and `left` are the workers in
`condition.wait` and past the `return` at `:35`; `job` is the local `task`;
`handler`, `ready` and `main` are where the routes and `main` are and which
futures have a value. A critical section of `queue_mutex` never blocks inside
and is one step, and the notification at `:56`, after the lock, is another.
Spurious wake-ups are steps. A handler waits for its own future, so a task is
named by its handler. Ctrl+C makes `run()` return when Crow's threads are done,
then the pool's destructor runs. The methods the tasks call are those of
`WorkshopService`; here they are one step, and two in `Server`.

### `Server` and the code

`mutex` is the holder of `db_mutex`, `verifier` where the detached thread is,
`alive` the objects of `main` that tasks and audits refer to. A task locks
(`LockTask`) and then runs to its end (`RunTask`), or is refused before the lock
because the centre is closed (`RefuseTask`, `service.cpp:13-22`; what a task asks
for is not kept, so each may turn out to be such a reservation); what it does
under the mutex is `WorkshopService`'s. The verifier sleeps, locks, audits.
Destructors run in the reverse order of the declarations at `main.cpp:35-47`:
the pool's (`Stop`, `NotifyAll`, `Join`), then `DestroyService`, `DestroyDb`,
and then the process ends and takes the verifier with it.

### `Client` and the code

| Variable | In the code |
|---|---|
| `app` | `step`, `loading`, `timeLeft`, `rezervareId`, `refundAmount` of each browser (`error` and the form's fields decide nothing) |
| `calls` | the `await axios.post` of a page, with its answer once the server has sent it |
| `abandoned` | requests on their way whose page no longer waits |
| `owner` | `client_name` of each reservation |
| `book`, `overdue` | the service, as `Bookings` |

`submitRezervare`, `submitPlata` and `submitAnulare` are each an action that
posts (`Post` with the test of the disabled button) and a continuation
(`Continue`, or `ConnectionFails` for the `catch`), with the `finally` in both.
React applies what a continuation sets in one render, so it is one step. The
page may have moved on meanwhile: `Shown` sets what the code sets, whatever the
page shows. `Tick` and `Expires` are the effect, `ResetFlow` is `resetFlow`,
`Reload` loses the page and keeps its requests on their way. A server that has
been sent a request may run it after the connection failed, or never.

### `Timing` and the code

Time is counted in ticks, `TPS` to a second. `offset` is the part of its second
that `CURRENT_TIMESTAMP` drops, so the row is `(offset + age) \div TPS` seconds
old for SQLite (`Overdue`, `service.cpp:159`). The audit runs `Interval` seconds
after its last clean-up, up to `Delay` ticks late. The page counts whole seconds
(`Counts`), up to `Lag` ticks late in one countdown, since the effect starts a
new interval for every second (`App.jsx:24-34`); answers and requests take up to
`Latency` ticks. The wall clock of the server is not set while it runs.

## 3. What TLC checks

| Run | Instance | Shows |
|---|---|---|
| `ServiceCore` | 2 workers and the audit, 1 room of 1 seat, 2 texts of one interval, 2 amounts, reservations started below 2 rows, no faults | `SeatsWithinCapacity`, `LedgerMatchesStatus`, `RepliesHonest`, `AuditReportsTheBooks`, and `AtomicOperations`: the service implements `Bookings` |
| `ServiceFaults` | 1 room of 1 seat, up to 4 rows, a good text and a malformed one, failing reads of the workers, failing writes, crashes | `OverlapsReported`, `RepliesMatchStatus`, `MoneyConserved`, `HistoryKept` |
| `ServiceSeats` | 2 rooms (2 seats; no row and default 1), a good text and one `strftime` cannot read, failing writes, failing reads of the audit, crashes | `TypeOK`, `SeatsWithinCapacity` |
| `ServiceLiveness` | 1 room, 1 text, fairness | `UnpaidSeatReleased`, `RequestsAnswered`, `AuditCompletes` |
| `Server` | 3 workers, 3 handlers, the audit, shutdown at any moment, fairness | `OneSourcePerFuture`, `NoLostWakeup`, `StopComesLast`, `ReferencesLive`, `RequestsAnswered`, `AnswersKeepComing`, `ShutdownCompletes` |
| `Client` | 2 browsers, a room of 2 seats and one of none, 2 reservations, failing connections and reloads, fairness | `OwnReservation`, `ConfirmedIsPaid`, `CancelledIsRefunded`, `PaymentPageEnds`, `ButtonsComeBack` |
| `Timing` | the README's `5 15` with the page's 12 s, in half seconds | `HeldWhileCounting`, `PaidInTime`, `ReleasedInTime`, `NotExpiredEarly` |
| `ServiceTorn`, `ServiceUnparsed`, `ServiceAbort`, `ClientCharged`, `TimingDefault` | the smallest instance that shows it | counterexamples: section 6 |

Further instances, kept for the counterexample TLC stops at:

| Config (module) | Property | What it shows |
|---|---|---|
| `ServicePhantom` (`MCService`) | `RepliesHonest` | a failed INSERT is answered with success and id 0, or as a payment nobody recorded (`service.cpp:74`, `:104`) |
| `ServiceUnreported` (`MCService`) | `OverlapsReported` | an overbooked pair without a capacity row is not in the report: the JOIN drops it (`:180`) |
| `ClientExpired` (`MCClient`) | `ExpiredIsFree` | the page says "Locul a fost eliberat." (`App.jsx:230`) before any clean-up |
| `ClientNoCancel` (`MCClient`) | `ConfirmedCanCancel` | the answer to a payment arrives after a reset: a confirmation without an id, whose cancel button does nothing (`:101`) |
| `TimingReport` (`Timing`) | `ReleasedAsReported` | a seat is held longer than "maxim 5 secunde după expirarea timpului de 12s" (report, section 4C): whole seconds cost up to one more |
| `ServerVerifier` (`MCServer`) | `VerifierReferencesLive` | the detached audit may lock the mutex of a `db` that is destroyed (`main.cpp:45`) |

**Bounds, and why they are enough.** `MaxId` lets a reservation be asked for
only while the table has fewer rows; two workers may both ask just below it, so
the table holds up to `MaxId + 1` rows: with one seat, a row more than the seats
is always within reach, and a refusal too. Two workers and the audit are the
smallest number at which a decision can be overtaken twice. Each row can be
paid, cancelled and expired, `ReqIds` names rows that exist and rows that do
not, and payments repeat without bound. Two texts of one interval are needed
for seats shared by different texts; `ServiceSeats` adds the pair without a
capacity row. `ServiceFaults` lets the table grow to four rows in a room of one
seat, so failed counts overbook it and the report has something to name; its
only pair has a capacity row, since for the others `OverlapsReported` fails
(`ServiceUnreported`). Amounts differ in `ServiceCore` so that a refund of the wrong
amount would show. In the pool, three of each give the case where all workers
sleep and, since tasks wait for one mutex, the case where all are blocked and
the queue grows. In `Client`, two browsers and two rows are enough for a page to
meet another's reservation, a second one of its own and, with the room of no
seats, a refusal; the countdown of 1 leaves every call time to be overtaken by
its end. In `Timing` half seconds are enough for every offset of `created_at` to
matter, a latency of one second and half a second of lateness fit in the three
seconds between 12 and 15. `SYMMETRY` permutes workers and is used in runs
without liveness properties.

`CHECK_DEADLOCK` is on everywhere. The end of the process is the only place where
`Server` stops, and `ProcessEnds` stays there.

**Fairness, and why the code justifies it.** Clients, Ctrl+C, spurious wake-ups
and crashes have none. A thread that can run does (weak fairness, the operating
system's scheduler). The clock goes on. For `db_mutex` strong fairness says
that some waiting worker gets it again and again, and not which: the audit sleeps
whole seconds with the mutex free (`service.cpp:151`), so it does not keep the
workers out, but `std::mutex` promises no order among them. Under an endless load
nothing can therefore be claimed of one request, and the liveness properties
about one request, one seat or the audit assume `RequestsStop`: from some moment
on no worker takes up a request (`ServiceProperties`), or Crow starts no handler
(`ThreadPool`). Without that premise TLC finds `RequestsAnswered` of the server
violated, by a worker that is passed over forever. What holds under any load is
`AnswersKeepComing`: while a handler is blocked, some future gets its value.
`ShutdownCompletes` needs no premise, since after Ctrl+C no handler starts. The
critical sections of `queue_mutex` have weak fairness: a handler takes it once
for each answer it gets, so the threads that compete while nothing is answered
are few and come to rest. The runs' processes do not crash, because a crash at
every step answers nobody. In `Client` users need not click
and connections need not fail; the service answers and the browser's timer runs
(`Runs`, `Timer`). `Timing` has no fairness: its tick waits for whatever is due,
and its properties are about safety.

Every property of a passing run has been confronted with at least one variant of
the code that breaks it (`PROJECT.json`, `mutants`): a missing `lock_guard`, `<=`
for `<`, an UPDATE without its status, a clean-up one row short, a queue that is
not popped, a missing notification, objects destroyed too early, a `lock_guard`
around the loop, a reset that forgets the awaited call, a missing `finally`, a
timeout one second off. The variants are the operators with the
comment "the variant ..." next to the operator they replace.

## 4. The abstract specification

`Bookings` says what clients are promised: a seat is given while the interval
has one, paying and cancelling move the money in the step that changes the
status, a clean-up takes all overdue unpaid reservations. `ServiceProperties`
maps the tables to a book (`Book`); where a payment or refund is between its two
statements, the money of the second one, known from the worker's request or
locals, is already in the book. `AtomicOperations` is `Bookings` under that
mapping, as a property: the UPDATE, or the INSERT of a reservation, is the point
at which an operation takes effect, and every other step stutters. It holds
while no statement of a method fails and the process lives, and only because the
mutex keeps the locals fresh; `ServiceKeepsItsPromise` proves it for every
instance, with an audit that may fail. The audit only reads besides its
clean-up, so its failures cost the report, not the promise. `Client` is proved to
keep to `Bookings` on its side (`ClientKeepsToPromise`): its browsers ask nothing
of the service that the promise does not cover.

## 5. What is proved

All for every set of workers, rooms, texts, amounts and every bound, from the
assumptions `SchemaAssumption`, `ServiceAssumption`, `PoolAssumption`,
`ServerAssumption`, `ClientAssumption` and `TimingAssumption`, which say of what
kind the constants are and that a pool has a worker.

| Theorem | States | Argument |
|---|---|---|
| `ServiceProofs!TypeCorrect` | `Spec => []TypeOK` | `TypeOK` with `TasksFit`: a worker inside a method has a request of that method. Needed because a label alone does not say that the request has an `id`. |
| `ServiceProofs!HistoryIsKept` | `Spec => HistoryKept` | from the type invariant: each UPDATE asks for the status it leaves. |
| `ServiceProofs!NoOverbooking` | `"read" \notin Faults => (Spec => []SeatsWithinCapacity)` | `MutualExclusion` (inside a method means holding the mutex) makes the reads stable: `CapacityRead` and `LoadRead` say that a worker about to insert still has the true capacity and count. The insert adds one to a count below the capacity; every other step only takes seats away. |
| `ServiceProofs!MoneyIsConserved` | `Spec => []MoneyConserved` | `MutualExclusion` and `InFlightInv`: between the two statements of a payment the row is PLATITA and has no money yet; a cancellation holds the amount of a recorded payment; before a refund the row is ANULATA and has no RAMBURS. Holds under all faults. |
| `ServiceProofs!AnswersMatchStatus` | `Spec => []RepliesMatchStatus` | `AnswersLocked`: a worker about to return more than a refusal still holds the mutex, so no other statement runs between the answer and its return; what it says is `InFlightInv`. Holds under all faults. |
| `ServiceProofs!ReadableTextsFit` | `"read" \notin Faults`, every text with an open hour has an interval => `Spec => []SameTextWithinCapacity` | `OpenHours` and `RowsOpen`: a worker past the test of the hour, and so every row, has a text whose hour was open. Rows of one text are then among the rows of its interval, which `NoOverbooking` bounds. |
| `ServiceProofs!ReadableTextsAreReported` | every text with an open hour has an interval => `Spec => [][~AuditTermina]_vars` | by `RowsOpen` no row has a NULL interval. Holds under all faults. |
| `LedgerProofs!LedgerIsBalanced` | `{"write", "crash"} \cap Faults = {}` => `Spec => []LedgerMatchesStatus` | `LedgerInv`: `MoneyInv` gives at most one entry of a kind, `PaymentsRecorded` and `RefundsRecorded` at least one unless its worker is at the second statement. |
| `LedgerProofs!AnswersAreHonest` | `Faults \subseteq {"audit"}` => `Spec => []RepliesHonest` | `HonestInv`: a worker that is to return more than a refusal of the hour still holds the mutex, its reads are those of the tables (`SeatsInv`, `MoneyInv`), and `LedgerInv` finds the entries it speaks of. |
| `RefinementProofs!ServiceKeepsItsPromise` | `Faults \subseteq {"audit"}` => `Spec => AtomicOperations` | `RefineInv` is `SeatsInv`, `LedgerInv` and `OpenHours`. `BookIsRead`: under it `Book` is a function of the rows, the entries and the one pending statement. Then action by action: a step of `Bookings` or a stutter. |
| `AuditProofs!AuditNamesOverlaps` | `"audit" \notin Faults`, every pair has a capacity row => `Spec => []OverlapsReported` | `OverlapsNamed`: from the SELECT of the groups to the end of the report the audit holds the mutex, so an interval above its capacity was a group of that SELECT. Holds under all faults of the workers, and across crashes. |
| `AuditProofs!AuditReportIsExact` | `Faults = {}` => `Spec => []AuditReportsTheBooks` | no overlap by `SeatsInv`; at the SELECT of the balances no worker is between two statements (`AuditAlone`), so the entries of a cancelled row are a payment and its reverse, the others are the payments of the paid rows, and the sums agree. |
| `ThreadPoolProofs!TypeCorrect`, `WakeupsAreNotLost` | `Spec => []TypeOK`, `Spec => []NoLostWakeup` | the invariant is inductive over `TypeOK`: a worker can fall asleep only with an empty queue, and the handler that fills it is in front of its notification. |
| `ThreadPoolProofs!FuturesHaveOneSource` | `Spec => []OneSourcePerFuture` | `SourcesInv` says without cardinalities that the queue and the jobs have no task twice and that a task is in one place, exactly while its handler waits; `SourcesAreCounted` turns that into the count. |
| `ThreadPoolProofs!PoolStopsIdle` | `Spec => []StopComesLast` | by `SourcesInv` a pool whose handlers are all idle has no task anywhere, which is when the destructor runs; after it no handler can start. |
| `ServerProofs!ServerImplementsPool` | `ServerSpec => Spec` of `ThreadPool` | every step is a step of the pool or leaves it alone; `ServerWakeups` and `ServerFutures` follow from the pool's theorems. |
| `ServerProofs!ReferencesStayLive` | `ServerSpec => []ReferencesLive` | objects are only destroyed after the workers have been joined (`MainEndsInOrder`), and by `SourcesInv` of the pool no job is left then. |
| `ServerProofs!HolderAlwaysWorks` | `ServerSpec => []HolderWorks` | inductive: a worker gives the mutex back with its job, the audit with its loop body. |
| `ClientProofs!OnlyOwnReservations`, `ConfirmationsAreTrue`, `RefundsAreTrue` | `Spec => []OwnReservation`, `[]ConfirmedIsPaid`, `[]CancelledIsRefunded` | `ClientInv`: a page has at most one call and only while `loading`; every request in flight asks for its own client's reservation; every answer on its way is true of the book, and a page that waits for one to a payment still holds the reservation it asked for, or none. The book only grows and settled rows stay settled (`Grows`), which keeps late answers true. |
| `ClientProofs!RefusalsAreTrue` | `"connection" \notin Faults` => `Spec => []RefusedIsNotCharged` | `UnchargedInv`: a page without a call that has failed or expired, and one whose payment was refused, shows a row that is not paid; the one way out is its own paid answer still in flight. A payment given up by a reload is never for a row a page shows or will show (`Apart`), and `ClientInv` keeps the pages' rows apart. |
| `ClientProofs!ClientKeepsToPromise` | `Spec => Service!Spec` | step by step: only `Serve` and the clean-up touch the book, and each is a step of `Bookings`. |
| `TimingProofs!SeatIsHeld`, `PaymentInTime` | `Punctual` implies `Spec => []HeldWhileCounting`, `[]PaidInTime` | `PunctualInv` adds up the age of the row and the seconds still to count: the sum stays within one latency, the countdown and what the timers were late, so the row is younger than the timeout while the page counts and while its payment is on its way. |
| `TimingProofs!AlwaysReleasedInTime`, `NeverExpiredEarly` | `Spec => []ReleasedInTime`, `Spec => NotExpiredEarly` | after a clean-up that left it, a row is at most `Timeout + 1` seconds old, and the next one comes within `Interval` and `Delay`. |

`Punctual` says that two latencies, the countdown and its lateness fit in the
timeout: with the README's `8 5 15` they may take three seconds in all, with the
default timeout of 12 nothing is left for them (section 6). `ReferencesLive` is
protected twice in the code: Crow joins its threads, each of which waits for its
future, before `run()` returns, and the pool, declared after `service` and `db`,
is destroyed before them.

**The hypotheses on `Faults`** are the ones the code needs, no more. Each fault
a theorem excludes has a run in which TLC breaks the property with it, or a line
that shows it at once:

| Theorem | Excludes | Because |
|---|---|---|
| `NoOverbooking`, `ReadableTextsFit` | a failing SELECT of a worker | a failed count is read as an empty interval (`service.cpp:54-57`), a failed capacity as the default (`:28-40`) |
| `ReadableTextsFit`, `ReadableTextsAreReported` | a text with an hour and no interval | `ServiceUnparsed`, `ServiceAbort`: so these texts are the only way around the count, and the only way in which the audit ends the process |
| `LedgerIsBalanced` | a failing write, a crash | `ServiceTorn`; a failed INSERT of the money is not noticed (`:104`, `:141`) |
| `AnswersAreHonest`, `ServiceKeepsItsPromise` | any failing statement of a method, a crash | `ServicePhantom`, `ServiceTorn`; a failed SELECT refuses what should be granted |
| `AuditNamesOverlaps` | a failing SELECT of the audit, a pair without a capacity row | the report is then left empty (`:187`); `ServiceUnreported` |
| `AuditReportIsExact` | all of them | it describes an undisturbed server: any lost statement changes the sums |
| `RefusalsAreTrue` | a lost answer | `ClientCharged`; so the lost answer is the only cause |

**Sums.** The balances are sums over sets of any size (`MapThenSumSet` of the
community modules), and the induction theorems of the library cannot be
used here, since they take an operator. `AuditProofs` proves what it needs by a smallest
counterexample instead: were there a finite set for which the fold does not
exist, or two that disagree on it, there would be one of the least cardinality
(`LeastNumber`, `MinimalMember`, from the well-foundedness of the order on
`Nat`), and removing one element from it gives a smaller one. `SumUnfolds` and
`SumSplits` (a sum over two disjoint sets is the sum of the two sums) follow,
and `CancelledAddNothing` and `BalanceIsPaid` rest on them.

**Only model-checked.** The liveness properties (`UnpaidSeatReleased`,
`RequestsAnswered`, `AnswersKeepComing`, `AuditCompletes`, `ShutdownCompletes`, `PaymentPageEnds`,
`ButtonsComeBack`): fairness and ENABLED are out of the prover's reach. Every
safety property of a passing run is a theorem, under the hypotheses above. What
the counterexample runs violate is no theorem of the code; for four of them
(`LedgerIsBalanced`, `ReadableTextsFit`, `ReadableTextsAreReported`,
`RefusalsAreTrue`) the theorem says what exactly has to be excluded.

## 6. Where the code and its documents disagree

Each is a run in which TLC finds the stated property violated.

1. `ServiceTorn` (`service.cpp:94-105`, `132-141`). A process that ends between
   the two statements of a payment leaves a paid reservation without money,
   which can then be neither paid (`REZERVARE` is asked for) nor cancelled (no
   `INCASARE` is found). The report of the project says its strategy
   "garantează 100% consistența tranzacțională, ceea ce este critic pentru un
   sistem de rezervări" (`documentatie/raport/Documentatie PPD.pdf`, section 2).
2. `ServiceUnparsed` (`service.cpp:14`, `:46`). A text such as
   `2026-02-xx 10:00` has an hour for `std::stoi` but is NULL for `strftime`;
   its reservations are never counted. `:21` says such a text is refused with
   "Format data invalid.".
3. `ServiceAbort` (`service.cpp:194`). The audit makes a `std::string` of that
   NULL; the exception ends the process. Once the reservation is paid, it does so
   at every audit after every restart.
4. `ClientCharged` (`App.jsx:93-94`). The answer to a payment is lost; the page
   stays, the countdown ends, and `:230` says "Nu ai plătit în 12 secunde. Locul
   a fost eliberat." of a paid reservation that holds its seat. A second attempt
   is refused and shows "Plata a eșuat sau timpul a expirat." (`:90`).
5. `TimingDefault` (`main.cpp:22`, `App.jsx:66`). The server's 12 s start at the
   INSERT, the page's 12 s when the answer arrives: the clean-up can take a seat
   of which the page says "Locul este blocat pentru tine." (`:185`).

A cancellation has the same gap as a payment: when its answer is lost the page
still shows a confirmed reservation that is ANULATA, and a second attempt is an
error. `ConfirmedIsPaid` therefore lets the row be cancelled.

## 7. Not modelled

* Crow, Asio and SQLite are vendored and make up all but some thousand lines of
  the repository; each is modelled from outside, as `server/*.cpp` and
  `thread_pool.h` use it. Of Crow, `run()` and `stop()` were read for the order
  in which handlers end. The load of several processes on one file, and of
  `sqlite3` by hand, is left out: the README stops the server before it loads
  `setup_data.sql`.
* `stress_test.py` only sends requests the models already enumerate and counts
  under one lock; `setup_data.sql` is a value of `Capacity`.
* CORS and OPTIONS change no state. The parsing of JSON is a request that is
  accepted or refused (`BadRequest`).
* `Client` takes the service without its faults, as `Bookings`: what a failed
  write does to an answer is `ServicePhantom`'s, not the page's. A server that
  crashes looks to the page like a connection that fails.
* A wall clock that is set back, which would let rows pass the timeout out of
  order.
* The money is an integer; the code's `double` only carries what the request
  sends and adds it up.

## 8. Plan

Done: the service with its promise, the process with its pool, the client, and
the clocks, each with properties, runs and theorems. Left:

1. `Timing` with several reservations, so that a queue of payments on the pool's
   workers is what the latency is made of.
2. Theorems about `Bookings` itself, from which those about the book in the
   service and the client would follow.
