------------------------------- MODULE Timing -------------------------------
(***************************************************************************)
(* The three clocks a reservation meets: created_at, which SQLite keeps in *)
(* whole seconds, the period of the audit, and the countdown of the page.  *)
(* One reservation at a time, in ticks of a part of a second; clocks are   *)
(* kept relative to now, so the model is finite.                           *)
(***************************************************************************)
EXTENDS Integers

CONSTANTS
    TPS,        \* ticks per second
    Timeout,    \* plata_timeout, in seconds
    Interval,   \* audit_interval, in seconds
    Countdown,  \* the seconds the page gives
    Latency,    \* bound: ticks an answer or a request is on its way
    Lag,        \* bound: ticks the page's timers are late during one countdown
    Delay       \* bound: ticks an audit waits for the mutex and works

ASSUME TimingAssumption ==
    /\ TPS \in Nat \ {0}
    /\ Interval \in Nat \ {0}
    /\ Timeout \in Nat /\ Countdown \in Nat /\ Latency \in Nat
    /\ Lag \in Nat /\ Delay \in Nat

VARIABLES
    status,    \* of the reservation, or "none"
    offset,    \* the part of its second that created_at dropped
    age,       \* ticks since the INSERT
    round,     \* ticks since the last clean-up
    step,      \* what the page shows
    timeLeft,  \* the seconds it shows
    timer,     \* ticks since it last counted
    lag,       \* ticks it has been late in this countdown
    posted     \* ticks since the payment was posted, or Unposted

vars == <<status, offset, age, round, step, timeLeft, timer, lag, posted>>
page == <<step, timeLeft, timer, lag, posted>>

Unposted == -1

Init ==
    /\ status = "none" /\ offset = 0 /\ age = 0
    /\ round \in 0..(Interval * TPS)
    /\ step = "FORM" /\ timeLeft = Countdown /\ timer = 0 /\ lag = 0 /\ posted = Unposted

-----------------------------------------------------------------------------
\* The server.

\* The INSERT: created_at is CURRENT_TIMESTAMP.
Insert ==
    /\ status = "none" /\ step = "FORM"
    /\ status' = "REZERVARE"
    /\ offset' \in 0..(TPS - 1)
    /\ age' = 0
    /\ UNCHANGED <<round, page>>

\* created_at < datetime('now', '-Timeout seconds'), both in whole seconds,
\* and the variants with <=, with one second more and with the default of
\* plata_timeout whatever the argument.
Seconds == (offset + age) \div TPS
SauEgal == Seconds >= Timeout
CuOSecundaMaiTarziu == Seconds > Timeout + 1
DoarImplicit == Seconds > 12
Overdue == Seconds > Timeout

\* The audit has slept, has the mutex and cleans up.
CleanUp ==
    /\ round >= Interval * TPS
    /\ round' = 0
    /\ status' = IF status = "REZERVARE" /\ Overdue THEN "EXPIRAT" ELSE status
    /\ UNCHANGED <<offset, age, page>>

\* The posted payment is processed and answered, whatever the page shows.
Plata ==
    /\ posted # Unposted
    /\ posted' = Unposted
    /\ \/ status = "REZERVARE" /\ status' = "PLATITA" /\ step' = "SUCCESS"
       \/ status # "REZERVARE" /\ step' = "FAIL" /\ UNCHANGED status
    /\ UNCHANGED <<offset, age, round, timeLeft, timer, lag>>

-----------------------------------------------------------------------------
\* The page.

\* The id arrives, and the countdown starts.
Shows ==
    /\ status # "none" /\ step = "FORM"
    /\ step' = "PAYMENT" /\ timeLeft' = Countdown /\ timer' = 0 /\ lag' = 0
    /\ UNCHANGED <<status, offset, age, round, posted>>

Counts ==
    /\ step = "PAYMENT" /\ timer >= TPS /\ timeLeft > 0
    /\ timeLeft' = timeLeft - 1 /\ timer' = 0
    /\ UNCHANGED <<status, offset, age, round, step, lag, posted>>

Ends ==
    /\ step = "PAYMENT" /\ timeLeft = 0
    /\ step' = "EXPIRED"
    /\ UNCHANGED <<status, offset, age, round, timeLeft, timer, lag, posted>>

\* The user pays while the page counts.
Pays ==
    /\ step = "PAYMENT" /\ timeLeft > 0 /\ posted = Unposted
    /\ posted' = 0
    /\ UNCHANGED <<status, offset, age, round, step, timeLeft, timer, lag>>

\* The user starts over once the reservation is settled.
Again ==
    /\ status # "REZERVARE" /\ step \in {"SUCCESS", "FAIL", "EXPIRED"} /\ posted = Unposted
    /\ status' = "none" /\ step' = "FORM"
    /\ UNCHANGED <<offset, age, round, timeLeft, timer, lag, posted>>

-----------------------------------------------------------------------------
\* A tick passes when nothing is due.

Counting == step = "PAYMENT" /\ timeLeft > 0
Ageing == status = "REZERVARE" \/ (status # "none" /\ step = "FORM")

Tick ==
    /\ round < Interval * TPS + Delay
    /\ (status # "none" /\ step = "FORM") => age < Latency
    /\ step = "PAYMENT" => (timeLeft > 0 /\ (timer < TPS \/ lag < Lag))
    /\ posted < Latency
    /\ round' = round + 1
    /\ age' = IF Ageing THEN age + 1 ELSE age
    /\ timer' = IF Counting THEN timer + 1 ELSE timer
    /\ lag' = IF Counting /\ timer >= TPS THEN lag + 1 ELSE lag
    /\ posted' = IF posted = Unposted THEN Unposted ELSE posted + 1
    /\ UNCHANGED <<status, offset, step, timeLeft>>

Next == Insert \/ CleanUp \/ Plata \/ Shows \/ Counts \/ Ends \/ Pays \/ Again \/ Tick

Spec == Init /\ [][Next]_vars

-----------------------------------------------------------------------------
TypeOK ==
    /\ status \in {"none", "REZERVARE", "PLATITA", "EXPIRAT"}
    /\ step \in {"FORM", "PAYMENT", "SUCCESS", "FAIL", "EXPIRED"}
    /\ offset \in 0..(TPS - 1) /\ age \in Nat /\ round \in Nat
    /\ timeLeft \in 0..Countdown /\ timer \in Nat /\ lag \in 0..Lag
    /\ posted \in Nat \cup {Unposted}

\* The two ways of an answer and a request, the countdown and its lateness
\* fit in the timeout.
Punctual == 2 * Latency + Countdown * TPS + Lag <= Timeout * TPS

\* While the page counts down the seat it calls blocked is not given away.
HeldWhileCounting == step = "PAYMENT" => status # "EXPIRAT"

\* Who pays while the page counts has paid in time, although the payment
\* needs its time to arrive.
PaidInTime == step # "FAIL"

\* An unpaid seat is held no longer than the timeout, the second that whole
\* seconds lose, one period of the audit and its delay.
ReleasedInTime ==
    status = "REZERVARE" => age < (Timeout + 1 + Interval) * TPS + Delay

\* No reservation is expired before its timeout, to the tick.
NotExpiredEarly ==
    [][status = "REZERVARE" /\ status' = "EXPIRAT" => age > Timeout * TPS]_vars

\* What the report of the project says: at most one period of the audit
\* after the timeout.
ReleasedAsReported == status = "REZERVARE" => age <= (Timeout + Interval) * TPS
=============================================================================
