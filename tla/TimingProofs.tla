---------------------------- MODULE TimingProofs ----------------------------
(***************************************************************************)
(* Proofs about Timing for every resolution of the clocks, every timeout,  *)
(* audit interval and countdown, and every bound on what is late.          *)
(***************************************************************************)
EXTENDS Timing, TLAPS

\* Whole seconds and ticks.
LEMMA DivUp ==
    ASSUME NEW a \in Nat, NEW n \in Nat \ {0}, NEW t \in Nat
    PROVE  a \div n <= t <=> a < (t + 1) * n
<1> DEFINE q == a \div n
<1>1. /\ q \in Nat
      /\ q * n <= a /\ a < (q + 1) * n
  OBVIOUS
<1> HIDE DEF q
<1>2. CASE q <= t
  <2>1. (q + 1) * n <= (t + 1) * n
    BY <1>1, <1>2
  <2> QED
    BY <1>1, <1>2, <2>1 DEF q
<1>3. CASE t + 1 <= q
  <2>1. (t + 1) * n <= q * n
    BY <1>1, <1>3
  <2> QED
    BY <1>1, <1>3, <2>1 DEF q
<1> QED
  BY <1>1, <1>2, <1>3

\* The type invariant holds at the start.
LEMMA TypeInit == Init => TypeOK
  BY TimingAssumption DEF Init, TypeOK, Unposted

\* TypeOK holds in every reachable state.
THEOREM TypeCorrect == Spec => []TypeOK
<1>1. TypeOK /\ [Next]_vars => TypeOK'
  BY TimingAssumption
  DEF TypeOK, Unposted, Next, Insert, CleanUp, Plata, Shows, Counts, Ends, Pays, Again, Tick, Counting, Ageing,
      page, vars
<1> QED
  BY TypeInit, <1>1, PTL DEF Spec

-----------------------------------------------------------------------------
\* The clean-up.

\* Overdue, in ticks.
LEMMA OverdueInTicks == TypeOK => (Overdue <=> (Timeout + 1) * TPS <= offset + age)
<1> SUFFICES ASSUME TypeOK PROVE Overdue <=> (Timeout + 1) * TPS <= offset + age
  OBVIOUS
<1>1. /\ offset + age \in Nat /\ TPS \in Nat \ {0} /\ Timeout \in Nat
      /\ (Timeout + 1) * TPS \in Nat
  BY TimingAssumption DEF TypeOK
<1>2. (offset + age) \div TPS <= Timeout <=> offset + age < (Timeout + 1) * TPS
  BY <1>1, DivUp
<1>3. (offset + age) \div TPS \in Nat
  BY <1>1
<1> QED
  BY <1>1, <1>2, <1>3 DEF Overdue, Seconds

\* Dropping the parts of seconds on both sides never expires a reservation
\* before it is older than the timeout.
THEOREM NeverExpiredEarly == Spec => NotExpiredEarly
<1>1. TypeOK /\ [Next]_vars =>
        [status = "REZERVARE" /\ status' = "EXPIRAT" => age > Timeout * TPS]_vars
  <2> SUFFICES ASSUME TypeOK, Next, status = "REZERVARE", status' = "EXPIRAT"
               PROVE  age > Timeout * TPS
    BY DEF vars
  <2>1. Overdue
    BY DEF Next, Insert, CleanUp, Plata, Shows, Counts, Ends, Pays, Again, Tick, page
  <2>2. (Timeout + 1) * TPS = Timeout * TPS + TPS /\ Timeout * TPS \in Nat
    BY TimingAssumption
  <2> QED
    BY <2>1, <2>2, OverdueInTicks, TimingAssumption DEF TypeOK
<1> QED
  BY <1>1, TypeCorrect, PTL DEF Spec, NotExpiredEarly

\* An unpaid reservation was not overdue at the last clean-up after its
\* INSERT, and has aged with the round since.
ReleaseInv ==
    /\ round <= Interval * TPS + Delay
    /\ status = "REZERVARE" => age < (Timeout + 1) * TPS + round

\* The seat of an unpaid reservation is given back after the timeout, the
\* second that whole seconds lose, and one round of the audit.
THEOREM AlwaysReleasedInTime == Spec => []ReleasedInTime
<1> DEFINE D == (Timeout + 1) * TPS
           R == Interval * TPS
<1>0. /\ D \in Nat \ {0} /\ R \in Nat
      /\ (Timeout + 1 + Interval) * TPS = D + R
  BY TimingAssumption
<1>1. Init => ReleaseInv
  BY <1>0, TimingAssumption DEF Init, ReleaseInv
<1>2. TypeOK /\ ReleaseInv /\ [Next]_vars => ReleaseInv'
  <2> SUFFICES ASSUME TypeOK, ReleaseInv, [Next]_vars PROVE ReleaseInv'
    OBVIOUS
  <2>1. /\ round \in Nat /\ age \in Nat /\ offset \in Nat /\ Delay \in Nat
        /\ Overdue <=> D <= offset + age
        /\ round <= R + Delay
        /\ status = "REZERVARE" => age < D + round
    BY OverdueInTicks, TimingAssumption DEF TypeOK, ReleaseInv
  <2> HIDE DEF D, R
  <2> SUFFICES round' <= R + Delay /\ (status' = "REZERVARE" => age' < D + round')
    BY DEF ReleaseInv, D, R
  <2>2. CASE Insert
    BY <1>0, <2>1, <2>2 DEF Insert
  <2>3. CASE CleanUp
    BY <1>0, <2>1, <2>3 DEF CleanUp
  <2>4. CASE Plata \/ Shows \/ Counts \/ Ends \/ Pays \/ Again
    BY <2>1, <2>4 DEF Plata, Shows, Counts, Ends, Pays, Again
  <2>5. CASE Tick
    <3>1. round < R + Delay /\ round' = round + 1 /\ UNCHANGED status
      BY <2>5 DEF Tick, R
    <3>2. status = "REZERVARE" => age' = age + 1
      BY <2>5 DEF Tick, Ageing
    <3> QED
      BY <1>0, <2>1, <3>1, <3>2
  <2>6. CASE UNCHANGED vars
    BY <2>1, <2>6 DEF vars
  <2> QED
    BY <2>2, <2>3, <2>4, <2>5, <2>6 DEF Next
<1>3. TypeOK /\ ReleaseInv => ReleasedInTime
  <2> SUFFICES ASSUME TypeOK, ReleaseInv, status = "REZERVARE"
               PROVE  age < (Timeout + 1 + Interval) * TPS + Delay
    BY DEF ReleasedInTime
  <2>1. age < D + round /\ round <= R + Delay /\ age \in Nat /\ round \in Nat /\ Delay \in Nat
    BY TimingAssumption DEF ReleaseInv, TypeOK
  <2> HIDE DEF D, R
  <2> QED
    BY <1>0, <2>1
<1> QED
  BY <1>1, <1>2, <1>3, TypeCorrect, PTL DEF Spec

-----------------------------------------------------------------------------
\* The countdown of the page against the clock of the service.

\* A row no older than the timeout is never taken for overdue.
LEMMA NotOverdue == TypeOK /\ age <= Timeout * TPS => ~Overdue
<1> SUFFICES ASSUME TypeOK, age <= Timeout * TPS PROVE ~Overdue
  OBVIOUS
<1>1. (Timeout + 1) * TPS = Timeout * TPS + TPS /\ Timeout * TPS \in Nat
  BY TimingAssumption
<1> QED
  BY <1>1, OverdueInTicks, TimingAssumption DEF TypeOK

\* The ticks of the running second that are not lateness.
Counted == IF timer < TPS THEN timer ELSE TPS

\* While the page counts, the age of its reservation is what the answer
\* took, what has been counted and what the timer was late; a payment that
\* is on its way has added its own delay.
PunctualInv ==
    /\ status # "none" /\ step = "FORM" => status = "REZERVARE" /\ age <= Latency
    /\ step = "PAYMENT" =>
          /\ status = "REZERVARE"
          /\ timeLeft = 0 => timer = 0
          /\ age + timeLeft * TPS <= Latency + Countdown * TPS + lag + Counted
    /\ posted # Unposted =>
          /\ status = "REZERVARE"
          /\ posted <= Latency
          /\ age <= Latency + Countdown * TPS + Lag + posted
    /\ step # "FAIL"

\* Under PunctualInv no reservation that counts, waits or is being paid is
\* overdue.
LEMMA PunctualAge ==
    ASSUME Punctual, TypeOK, PunctualInv
    PROVE  /\ status # "none" /\ step = "FORM" => ~Overdue
           /\ step = "PAYMENT" => ~Overdue
           /\ posted # Unposted => ~Overdue
<1> DEFINE C == Countdown * TPS
           T == Timeout * TPS
           L == timeLeft * TPS
<1>1. /\ C \in Nat /\ T \in Nat /\ L \in Nat
      /\ timeLeft = 0 \/ L >= TPS
      /\ TPS \in Nat \ {0} /\ Latency \in Nat /\ Lag \in Nat
  BY TimingAssumption DEF TypeOK
<1>2. 2 * Latency + C + Lag <= T
  BY DEF Punctual
<1>3. age <= T => ~Overdue
  BY NotOverdue
<1>4. step = "PAYMENT" => age + L <= Latency + C + lag + Counted /\ (timeLeft = 0 => timer = 0)
  BY DEF PunctualInv
<1>5. posted # Unposted => age <= Latency + C + Lag + posted /\ posted <= Latency
  BY DEF PunctualInv
<1>6. status # "none" /\ step = "FORM" => age <= Latency
  BY DEF PunctualInv
<1> HIDE DEF C, T, L
<1> QED
  BY <1>1, <1>2, <1>3, <1>4, <1>5, <1>6 DEF TypeOK, Counted, Unposted

\* Every step keeps the page ahead of the timeout.
LEMMA PunctualNext ==
    ASSUME Punctual, TypeOK, PunctualInv, [Next]_vars
    PROVE  PunctualInv'
<1> DEFINE C == Countdown * TPS
<1>1. /\ C \in Nat /\ TPS \in Nat \ {0} /\ Latency \in Nat /\ Lag \in Nat /\ Countdown \in Nat
      /\ timeLeft * TPS \in Nat
      /\ timeLeft > 0 => (timeLeft - 1) * TPS = timeLeft * TPS - TPS
  BY TimingAssumption DEF TypeOK
<1>2. CASE Insert
  BY <1>1, <1>2 DEF Insert, PunctualInv, page, TypeOK, Unposted, Counted
<1>3. CASE CleanUp
  BY <1>3, PunctualAge DEF CleanUp, PunctualInv, page, Counted
<1>4. CASE Plata
  BY <1>4 DEF Plata, PunctualInv, Counted
<1>5. CASE Shows
  BY <1>1, <1>5 DEF Shows, PunctualInv, TypeOK, Counted
<1>6. CASE Counts
  <2>1. timer' = 0 /\ timeLeft' = timeLeft - 1 /\ timer >= TPS /\ timeLeft > 0 /\ step = "PAYMENT"
        /\ UNCHANGED <<status, age, step, lag, posted>>
    BY <1>6 DEF Counts
  <2>2. age + timeLeft * TPS <= Latency + C + lag + TPS
    BY <1>1, <2>1 DEF PunctualInv, Counted, TypeOK
  <2>3. timeLeft' * TPS = timeLeft * TPS - TPS
    BY <1>1, <2>1
  <2> HIDE DEF C
  <2>4. age + timeLeft' * TPS <= Latency + C + lag + Counted'
    BY <1>1, <2>1, <2>2, <2>3 DEF Counted, TypeOK
  <2> QED
    BY <2>1, <2>4 DEF PunctualInv, C
<1>7. CASE Ends
  BY <1>7 DEF Ends, PunctualInv
<1>8. CASE Pays
  <2>1. step = "PAYMENT" /\ timeLeft > 0 /\ posted' = 0
        /\ UNCHANGED <<status, age, step, timeLeft, timer, lag>>
    BY <1>8 DEF Pays
  <2>2. age + timeLeft * TPS <= Latency + C + lag + Counted /\ timeLeft * TPS >= TPS
    BY <1>1, <2>1 DEF PunctualInv, TypeOK
  <2> HIDE DEF C
  <2>3. age <= Latency + C + Lag
    BY <1>1, <2>2 DEF Counted, TypeOK
  <2> QED
    BY <1>1, <2>1, <2>3 DEF PunctualInv, Counted, C, TypeOK
<1>9. CASE Again
  BY <1>9 DEF Again, PunctualInv
<1>10. CASE Tick
  <2>1. /\ UNCHANGED <<status, step, timeLeft>>
        /\ status = "REZERVARE" \/ (status # "none" /\ step = "FORM") => age' = age + 1
        /\ status # "none" /\ step = "FORM" => age < Latency
        /\ posted' = IF posted = Unposted THEN Unposted ELSE posted + 1
        /\ posted < Latency
    BY <1>10 DEF Tick, Ageing
  <2>2. step = "PAYMENT" =>
          /\ timeLeft > 0
          /\ timer' = timer + 1
          /\ IF timer >= TPS THEN lag' = lag + 1 ELSE lag' = lag
    BY <1>10 DEF Tick, Counting
  <2>3. step = "PAYMENT" => age' + timeLeft' * TPS <= Latency + C + lag' + Counted'
    <3>1. step = "PAYMENT" => age + timeLeft * TPS <= Latency + C + lag + Counted /\ age' = age + 1
      BY <2>1 DEF PunctualInv
    <3> HIDE DEF C
    <3> QED
      BY <1>1, <2>1, <2>2, <3>1 DEF Counted, TypeOK
  <2>4. posted' # Unposted => age' <= Latency + C + Lag + posted' /\ posted' <= Latency
    <3>1. posted # Unposted => age <= Latency + C + Lag + posted /\ age' = age + 1
      BY <2>1 DEF PunctualInv
    <3> HIDE DEF C
    <3> QED
      BY <1>1, <2>1, <3>1 DEF TypeOK, Unposted
  <2> QED
    BY <1>1, <2>1, <2>2, <2>3, <2>4 DEF PunctualInv, TypeOK, C
<1>11. CASE UNCHANGED vars
  BY <1>11 DEF vars, PunctualInv, Counted
<1> QED
  BY <1>2, <1>3, <1>4, <1>5, <1>6, <1>7, <1>8, <1>9, <1>10, <1>11 DEF Next

\* The page is ahead of the timeout in every reachable state.
LEMMA PunctualAlways == ASSUME Punctual PROVE Spec => []PunctualInv
<1>1. Init => PunctualInv
  BY DEF Init, PunctualInv
<1>2. TypeOK /\ PunctualInv /\ [Next]_vars => PunctualInv'
  BY PunctualNext
<1> QED
  BY <1>1, <1>2, TypeCorrect, PTL DEF Spec

\* If the timeout leaves room for the answer, the countdown, its lateness and
\* the request that pays, no seat is given away while its page counts ...
THEOREM SeatIsHeld == ASSUME Punctual PROVE Spec => []HeldWhileCounting
<1>1. PunctualInv => HeldWhileCounting
  BY DEF PunctualInv, HeldWhileCounting
<1> QED
  BY <1>1, PunctualAlways, PTL

\* ... and a payment made while the page counts is never refused.
THEOREM PaymentInTime == ASSUME Punctual PROVE Spec => []PaidInTime
<1>1. PunctualInv => PaidInTime
  BY DEF PunctualInv, PaidInTime
<1> QED
  BY <1>1, PunctualAlways, PTL
=============================================================================
