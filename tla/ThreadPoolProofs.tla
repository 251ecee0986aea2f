-------------------------- MODULE ThreadPoolProofs --------------------------
(***************************************************************************)
(* Proofs about ThreadPool for every number of workers and handlers.       *)
(***************************************************************************)
EXTENDS ThreadPool, FiniteSetTheorems, SequenceTheorems, TLAPS

\* TypeOK holds in every reachable state.
THEOREM TypeCorrect == Spec => []TypeOK
<1>1. Init => TypeOK
  BY PoolAssumption, EmptySeq DEF Init, TypeOK
<1>2. TypeOK /\ [Next]_vars => TypeOK'
  <2> SUFFICES ASSUME TypeOK, [Next]_vars PROVE TypeOK'
    OBVIOUS
  <2> USE DEF TypeOK
  <2>1. tasks # <<>> => Head(tasks) \in Handlers /\ Tail(tasks) \in Seq(Handlers)
    BY HeadTailProperties
  <2>2. ASSUME NEW w \in Workers, WorkerStep(w) \/ WakesUp(w)
        PROVE  TypeOK'
    BY <2>1, <2>2 DEF WorkerStep, Waits, Takes, Scos, Leaves, Runs, WakesUp, Checks
  <2>3. ASSUME NEW h \in Handlers, Request(h) \/ BadRequest(h) \/ Notify(h) \/ Get(h)
        PROVE  TypeOK'
    BY <2>3 DEF Request, BadRequest, Notify, Anunta, NotifyOne, Get
  <2>4. ASSUME NEW h \in Handlers, Enqueue(h)
        PROVE  TypeOK'
    BY <2>4, AppendProperties DEF Enqueue
  <2>5. CASE CtrlC \/ Stop \/ NotifyAll \/ Join \/ Exited \/ UNCHANGED vars
    BY <2>5 DEF CtrlC, Stop, NotifyAll, AnuntaToti, Join, Exited, vars
  <2> QED
    BY <2>2, <2>3, <2>4, <2>5 DEF Next, HandlerStep
<1> QED
  BY <1>1, <1>2, PTL DEF Spec

\* notify_one is called without the mutex, and still no task waits in the
\* queue while every worker sleeps and nobody is about to wake one.
THEOREM WakeupsAreNotLost == Spec => []NoLostWakeup
<1>1. Init => NoLostWakeup
  BY DEF Init, NoLostWakeup
<1>2. TypeOK /\ NoLostWakeup /\ [Next]_vars => NoLostWakeup'
  <2> SUFFICES ASSUME TypeOK, NoLostWakeup, [Next]_vars PROVE NoLostWakeup'
    OBVIOUS
  <2> USE DEF TypeOK, NoLostWakeup
  <2>1. ASSUME NEW w \in Workers, Waits(w) \/ Leaves(w) \/ Runs(w) \/ WakesUp(w)
        PROVE  NoLostWakeup'
    BY <2>1 DEF Waits, Leaves, Runs, WakesUp
  <2>2. ASSUME NEW w \in Workers, Takes(w)
        PROVE  NoLostWakeup'
    BY <2>2 DEF Takes, Checks
  <2>3. ASSUME NEW h \in Handlers, Request(h) \/ BadRequest(h) \/ Get(h)
        PROVE  NoLostWakeup'
    BY <2>3 DEF Request, BadRequest, Get
  <2>4. ASSUME NEW h \in Handlers, Enqueue(h)
        PROVE  NoLostWakeup'
    BY <2>4 DEF Enqueue
  <2>5. ASSUME NEW h \in Handlers, Notify(h)
        PROVE  NoLostWakeup'
    <3>1. asleep' # Workers
      BY <2>5, PoolAssumption DEF Notify, Anunta, NotifyOne
    <3> QED
      BY <3>1
  <2>6. CASE NotifyAll
    BY <2>6, PoolAssumption DEF NotifyAll, AnuntaToti
  <2>7. CASE CtrlC \/ Stop \/ Join \/ Exited \/ UNCHANGED vars
    BY <2>7 DEF CtrlC, Stop, Join, Exited, vars
  <2> QED
    BY <2>1, <2>2, <2>3, <2>4, <2>5, <2>6, <2>7 DEF Next, WorkerStep, HandlerStep
<1> QED
  BY <1>1, <1>2, TypeCorrect, PTL DEF Spec

-----------------------------------------------------------------------------
\* Where the value of a future comes from, without counting: a handler that
\* waits has a task in the queue, at one place, or at one worker, or a value,
\* and never two of these; a handler that does not wait has none.
Queued(h) == \E i \in DOMAIN tasks : tasks[i] = h
Running(h) == \E w \in Workers : job[w] = h
QueuedOnce == \A i, j \in DOMAIN tasks : tasks[i] = tasks[j] => i = j
RunningOnce == \A v, w \in Workers : job[v] = job[w] /\ job[v] # NoTask => v = w
OnePlace ==
    \A h \in Handlers :
        /\ Queued(h) => ~Running(h) /\ h \notin ready
        /\ Running(h) => h \notin ready
Awaited ==
    \A h \in Handlers :
        handler[h] \in {"notify", "get"} <=> Queued(h) \/ Running(h) \/ h \in ready
SourcesInv == QueuedOnce /\ RunningOnce /\ OnePlace /\ Awaited

\* SourcesInv says what OneSourcePerFuture counts.
LEMMA SourcesAreCounted == TypeOK /\ SourcesInv => OneSourcePerFuture
<1> SUFFICES ASSUME TypeOK, SourcesInv, NEW h \in Handlers
             PROVE  Cardinality({i \in DOMAIN tasks : tasks[i] = h})
                        + Cardinality({w \in Workers : job[w] = h})
                        + Cardinality(ready \cap {h})
                    = IF handler[h] \in {"notify", "get"} THEN 1 ELSE 0
  BY DEF OneSourcePerFuture
<1> DEFINE Q == {i \in DOMAIN tasks : tasks[i] = h}
           J == {w \in Workers : job[w] = h}
           V == ready \cap {h}
<1>1. Cardinality(Q) = IF Queued(h) THEN 1 ELSE 0
  <2>1. CASE Queued(h)
    <3>1. PICK i \in DOMAIN tasks : tasks[i] = h
      BY <2>1 DEF Queued
    <3>2. Q = {i}
      BY <3>1 DEF SourcesInv, QueuedOnce
    <3> HIDE DEF Q
    <3> QED
      BY <2>1, <3>2, FS_Singleton
  <2>2. CASE ~Queued(h)
    <3>1. Q = {}
      BY <2>2 DEF Queued
    <3> HIDE DEF Q
    <3> QED
      BY <2>2, <3>1, FS_EmptySet
  <2> QED
    BY <2>1, <2>2
<1>2. Cardinality(J) = IF Running(h) THEN 1 ELSE 0
  <2>1. CASE Running(h)
    <3>1. PICK w \in Workers : job[w] = h
      BY <2>1 DEF Running
    <3>2. J = {w}
      BY <3>1, PoolAssumption DEF SourcesInv, RunningOnce
    <3> HIDE DEF J
    <3> QED
      BY <2>1, <3>2, FS_Singleton
  <2>2. CASE ~Running(h)
    <3>1. J = {}
      BY <2>2 DEF Running
    <3> HIDE DEF J
    <3> QED
      BY <2>2, <3>1, FS_EmptySet
  <2> QED
    BY <2>1, <2>2
<1>3. Cardinality(V) = IF h \in ready THEN 1 ELSE 0
  <2>1. V = IF h \in ready THEN {h} ELSE {}
    OBVIOUS
  <2> HIDE DEF V
  <2> QED
    BY <2>1, FS_Singleton, FS_EmptySet
<1> HIDE DEF Q, J, V
<1>4. Cardinality(Q) + Cardinality(J) + Cardinality(V)
        = IF handler[h] \in {"notify", "get"} THEN 1 ELSE 0
  BY <1>1, <1>2, <1>3 DEF SourcesInv, OnePlace, Awaited
<1> QED
  BY <1>4 DEF Q, J, V

\* A task moves from the queue to a worker and from there into its future;
\* only enqueue creates one, for a handler that has none.
LEMMA SourcesNext == TypeOK /\ SourcesInv /\ [Next]_vars => SourcesInv'
<1> SUFFICES ASSUME TypeOK, SourcesInv, [Next]_vars PROVE SourcesInv'
  OBVIOUS
<1> USE DEF TypeOK, SourcesInv, QueuedOnce, RunningOnce, OnePlace, Awaited, Queued, Running
<1>1. ASSUME NEW w \in Workers, Takes(w) PROVE SourcesInv'
  <2>1. /\ job' = [job EXCEPT ![w] = tasks[1]]
        /\ DOMAIN tasks' = 1..(Len(tasks) - 1)
        /\ \A i \in DOMAIN tasks' : tasks'[i] = tasks[i + 1]
        /\ DOMAIN tasks = 1..Len(tasks) /\ Len(tasks) \in Nat \ {0}
        /\ tasks[1] \in Handlers
        /\ job[w] = NoTask /\ UNCHANGED <<handler, ready>>
    BY <1>1, EmptySeq, HeadTailProperties DEF Takes, Scos, Checks
  <2>2. \A i \in DOMAIN tasks : i # 1 => i - 1 \in DOMAIN tasks' /\ tasks'[i - 1] = tasks[i]
    <3>1. TAKE i \in DOMAIN tasks
    <3>2. HAVE i # 1
    <3>3. i \in Nat /\ i - 1 \in DOMAIN tasks' /\ (i - 1) + 1 = i
      BY <2>1, <3>2
    <3> QED
      BY <2>1, <3>3
  <2>3. \A i \in DOMAIN tasks' : i + 1 \in DOMAIN tasks /\ tasks'[i] = tasks[i + 1] /\ i \in Nat
    BY <2>1
  <2>4. 1 \in DOMAIN tasks /\ Queued(tasks[1])
    BY <2>1
  <2>5. QueuedOnce'
    BY <2>3
  <2>6. RunningOnce'
    BY <2>1, <2>4
  <2>7. \A h \in Handlers : Queued(h)' <=> Queued(h) /\ h # tasks[1]
    BY <2>1, <2>2, <2>3, <2>4
  <2>8. \A h \in Handlers : Running(h)' <=> Running(h) \/ h = tasks[1]
    BY <2>1, PoolAssumption
  <2> QED
    BY <2>1, <2>4, <2>5, <2>6, <2>7, <2>8
<1>2. ASSUME NEW w \in Workers, Runs(w) PROVE SourcesInv'
  <2>1. /\ job' = [job EXCEPT ![w] = NoTask] /\ ready' = ready \cup {job[w]}
        /\ job[w] \in Handlers /\ UNCHANGED <<tasks, handler>>
    BY <1>2 DEF Runs
  <2>2. RunningOnce'
    BY <2>1
  <2>3. \A h \in Handlers : Running(h)' <=> Running(h) /\ h # job[w]
    BY <2>1, PoolAssumption
  <2>4. \A h \in Handlers : (Queued(h)' <=> Queued(h)) /\ (h \in ready' <=> h \in ready \/ h = job[w])
    BY <2>1
  <2>5. Running(job[w])
    OBVIOUS
  <2> QED
    BY <2>1, <2>2, <2>3, <2>4, <2>5
<1>3. ASSUME NEW g \in Handlers, Enqueue(g) PROVE SourcesInv'
  <2>1. CASE stop
    BY <1>3, <2>1 DEF Enqueue
  <2>2. CASE ~stop
    <3>1. /\ tasks' = Append(tasks, g) /\ handler' = [handler EXCEPT ![g] = "notify"]
          /\ handler[g] = "enqueue" /\ UNCHANGED <<job, ready>>
      BY <1>3, <2>2 DEF Enqueue
    <3>2. /\ DOMAIN tasks = 1..Len(tasks) /\ DOMAIN tasks' = 1..(Len(tasks) + 1)
          /\ Len(tasks) \in Nat /\ tasks'[Len(tasks) + 1] = g
          /\ \A i \in DOMAIN tasks : tasks'[i] = tasks[i]
      BY <3>1, AppendProperties
    <3>3. ~Queued(g) /\ ~Running(g) /\ g \notin ready
      BY <3>1
    <3>4. QueuedOnce'
      BY <3>2, <3>3
    <3>5. \A h \in Handlers : Queued(h)' <=> Queued(h) \/ h = g
      BY <3>2
    <3>6. \A h \in Handlers : handler'[h] = IF h = g THEN "notify" ELSE handler[h]
      BY <3>1
    <3> QED
      BY <3>1, <3>3, <3>4, <3>5, <3>6
  <2> QED
    BY <2>1, <2>2
<1>4. ASSUME NEW g \in Handlers, Get(g) PROVE SourcesInv'
  BY <1>4 DEF Get
<1>5. ASSUME NEW g \in Handlers, Request(g) \/ BadRequest(g) \/ Notify(g) PROVE SourcesInv'
  BY <1>5 DEF Request, BadRequest, Notify
<1>6. ASSUME NEW w \in Workers, Waits(w) \/ Leaves(w) \/ WakesUp(w) PROVE SourcesInv'
  BY <1>6 DEF Waits, Leaves, WakesUp
<1>7. CASE CtrlC \/ Stop \/ NotifyAll \/ Join \/ Exited \/ UNCHANGED vars
  BY <1>7 DEF CtrlC, Stop, NotifyAll, Join, Exited, vars
<1> QED
  BY <1>1, <1>2, <1>3, <1>4, <1>5, <1>6, <1>7 DEF Next, WorkerStep, HandlerStep

\* Every task is in one place in every reachable state.
LEMMA SourcesInvariant == Spec => []SourcesInv
<1>1. Init => SourcesInv
  BY PoolAssumption DEF Init, SourcesInv, QueuedOnce, RunningOnce, OnePlace, Awaited, Queued, Running
<1> QED
  BY <1>1, SourcesNext, TypeCorrect, PTL DEF Spec

\* Every blocked handler has one source for its value: no task is lost, run
\* twice or left over from an earlier request, for any size of the pool.
THEOREM FuturesHaveOneSource == Spec => []OneSourcePerFuture
BY SourcesAreCounted, SourcesInvariant, TypeCorrect, PTL

\* After the stop nothing is queued or running and no handler is inside a
\* request, so the throw of enqueue at thread_pool.h:53 is never reached.
THEOREM PoolStopsIdle == Spec => []StopComesLast
<1> DEFINE Closing == stop => main \in {"notify", "join", "exit"}
           IInv == Closing /\ StopComesLast
<1>1. Init => IInv
  BY DEF Init, StopComesLast
<1>2. TypeOK /\ SourcesInv /\ IInv /\ [Next]_vars => IInv'
  <2> SUFFICES ASSUME TypeOK, SourcesInv, IInv, [Next]_vars PROVE IInv'
    OBVIOUS
  <2> USE DEF TypeOK, StopComesLast
  <2>1. ASSUME NEW w \in Workers, WorkerStep(w) \/ WakesUp(w) PROVE IInv'
    BY <2>1 DEF WorkerStep, Waits, Takes, Leaves, Runs, WakesUp
  <2>2. ASSUME NEW h \in Handlers, Request(h) \/ BadRequest(h) \/ HandlerStep(h) PROVE IInv'
    BY <2>2 DEF Request, BadRequest, HandlerStep, Enqueue, Notify, Get
  <2>3. CASE Stop
    <3>1. \A h \in Handlers : handler[h] = "idle"
      BY <2>3 DEF Stop, HandlersDone
    <3>2. \A h \in Handlers : ~Queued(h) /\ ~Running(h)
      BY <3>1 DEF SourcesInv, Awaited
    <3>3. tasks = <<>>
      BY <3>2, EmptySeq DEF Queued
    <3>4. \A w \in Workers : job[w] = NoTask
      BY <3>2 DEF Running
    <3> QED
      BY <2>3, <3>1, <3>3, <3>4 DEF Stop
  <2>4. CASE CtrlC \/ NotifyAll \/ Join \/ Exited \/ UNCHANGED vars
    BY <2>4 DEF CtrlC, NotifyAll, Join, Exited, vars
  <2> QED
    BY <2>1, <2>2, <2>3, <2>4 DEF Next
<1> QED
  BY <1>1, <1>2, SourcesInvariant, TypeCorrect, PTL DEF Spec
=============================================================================
