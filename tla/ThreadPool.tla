----------------------------- MODULE ThreadPool -----------------------------
(***************************************************************************)
(* The ThreadPool of server/thread_pool.h as server/main.cpp uses it: the  *)
(* HTTP threads of Crow enqueue one task each and block on its future, the *)
(* pool's workers wait on a condition variable, and Ctrl+C takes the whole *)
(* down in the order of main.  A critical section of queue_mutex never     *)
(* blocks inside and is one step; the notifications happen outside it.     *)
(* A handler waits for its own future, so a task is named by its handler.  *)
(***************************************************************************)
EXTENDS Integers, Sequences, FiniteSets

CONSTANTS
    Workers,   \* the threads the pool was constructed with
    Handlers,  \* Crow's threads; each runs one route handler at a time
    NoTask     \* what a worker between two tasks runs

ASSUME PoolAssumption == Workers # {} /\ NoTask \notin Handlers

VARIABLES
    tasks,     \* the queue of tasks
    stop,      \* set by the destructor
    asleep,    \* the workers blocked in condition.wait
    job,       \* the task each worker runs
    left,      \* the workers whose loop has returned
    handler,   \* where each handler is
    ready,     \* the handlers whose future has its value
    main       \* where main is

vars == <<tasks, stop, asleep, job, left, handler, ready, main>>

Init ==
    /\ tasks = <<>>
    /\ stop = FALSE
    /\ asleep = {}
    /\ job = [w \in Workers |-> NoTask]
    /\ left = {}
    /\ handler = [h \in Handlers |-> "idle"]
    /\ ready = {}
    /\ main = "serving"

-----------------------------------------------------------------------------
\* The loop of a worker.

\* The worker has the lock and evaluates the predicate: it has just been
\* started, has finished a task, has been notified or woke up by itself.
Checks(w) == w \notin asleep \cup left /\ job[w] = NoTask

Waits(w) ==
    /\ Checks(w)
    /\ ~stop /\ tasks = <<>>
    /\ asleep' = asleep \cup {w}
    /\ UNCHANGED <<tasks, stop, job, left, handler, ready, main>>

\* The variant copies the front task and does not pop it.
Nescos(queue) == queue
Scos(queue) == Tail(queue)

Takes(w) ==
    /\ Checks(w)
    /\ tasks # <<>>
    /\ job' = [job EXCEPT ![w] = Head(tasks)]
    /\ tasks' = Scos(tasks)
    /\ UNCHANGED <<stop, asleep, left, handler, ready, main>>

Leaves(w) ==
    /\ Checks(w)
    /\ stop /\ tasks = <<>>
    /\ left' = left \cup {w}
    /\ UNCHANGED <<tasks, stop, asleep, job, handler, ready, main>>

\* task() sets the value of the future, or the exception the method threw.
Runs(w) ==
    /\ job[w] # NoTask
    /\ ready' = ready \cup {job[w]}
    /\ job' = [job EXCEPT ![w] = NoTask]
    /\ UNCHANGED <<tasks, stop, asleep, left, handler, main>>

\* A condition variable may wake a waiter without a notification.
WakesUp(w) ==
    /\ w \in asleep
    /\ asleep' = asleep \ {w}
    /\ UNCHANGED <<tasks, stop, job, left, handler, ready, main>>

\* notify_one wakes one of the waiters, if there is any.
NotifyOne ==
    \/ asleep = {} /\ UNCHANGED asleep
    \/ \E w \in asleep : asleep' = asleep \ {w}

-----------------------------------------------------------------------------
\* A route handler.

\* Crow calls the handler; a bad body is answered 400 or 500 at once.
Request(h) ==
    /\ main = "serving"
    /\ handler[h] = "idle"
    /\ handler' = [handler EXCEPT ![h] = "enqueue"]
    /\ UNCHANGED <<tasks, stop, asleep, job, left, ready, main>>

BadRequest(h) ==
    /\ handler[h] = "enqueue"
    /\ handler' = [handler EXCEPT ![h] = "idle"]
    /\ UNCHANGED <<tasks, stop, asleep, job, left, ready, main>>

\* On a stopped pool enqueue throws and the request is answered 500.
Enqueue(h) ==
    /\ handler[h] = "enqueue"
    /\ tasks' = IF stop THEN tasks ELSE Append(tasks, h)
    /\ handler' = [handler EXCEPT ![h] = IF stop THEN "idle" ELSE "notify"]
    /\ UNCHANGED <<stop, asleep, job, left, ready, main>>

\* The variant does not notify.
Nimeni == UNCHANGED asleep
Anunta == NotifyOne

Notify(h) ==
    /\ handler[h] = "notify"
    /\ Anunta
    /\ handler' = [handler EXCEPT ![h] = "get"]
    /\ UNCHANGED <<tasks, stop, job, left, ready, main>>

\* future.get() returns and the response is composed.
Get(h) ==
    /\ handler[h] = "get"
    /\ h \in ready
    /\ ready' = ready \ {h}
    /\ handler' = [handler EXCEPT ![h] = "idle"]
    /\ UNCHANGED <<tasks, stop, asleep, job, left, main>>

-----------------------------------------------------------------------------
\* main.

CtrlC ==
    /\ main = "serving"
    /\ main' = "stopping"
    /\ UNCHANGED <<tasks, stop, asleep, job, left, handler, ready>>

\* run() returns when Crow's threads have; the variant does not wait.
NuAsteapta == TRUE
HandlersDone == \A h \in Handlers : handler[h] = "idle"

\* The destructor of the pool: under the lock, then notify_all, then joins.
Stop ==
    /\ main = "stopping"
    /\ HandlersDone
    /\ stop' = TRUE
    /\ main' = "notify"
    /\ UNCHANGED <<tasks, asleep, job, left, handler, ready>>

\* The variant calls notify_one.
AnuntaUnul == NotifyOne
AnuntaToti == asleep' = {}

NotifyAll ==
    /\ main = "notify"
    /\ AnuntaToti
    /\ main' = "join"
    /\ UNCHANGED <<tasks, stop, job, left, handler, ready>>

Join ==
    /\ main = "join"
    /\ left = Workers
    /\ main' = "exit"
    /\ UNCHANGED <<tasks, stop, asleep, job, left, handler, ready>>

\* The process is gone.
Exited == main = "exit" /\ UNCHANGED vars

WorkerStep(w) == Waits(w) \/ Takes(w) \/ Leaves(w) \/ Runs(w)
HandlerStep(h) == Enqueue(h) \/ Notify(h) \/ Get(h)

Next ==
    \/ \E w \in Workers : WorkerStep(w) \/ WakesUp(w)
    \/ \E h \in Handlers : Request(h) \/ BadRequest(h) \/ HandlerStep(h)
    \/ CtrlC \/ Stop \/ NotifyAll \/ Join \/ Exited

Spec == Init /\ [][Next]_vars

\* A thread that can run does; nobody need send a request or press Ctrl+C,
\* and nothing is claimed of spurious wake-ups.
Fairness ==
    /\ \A w \in Workers : WF_vars(WorkerStep(w))
    /\ \A h \in Handlers : WF_vars(HandlerStep(h))
    /\ WF_vars(Stop \/ NotifyAll \/ Join)

FairSpec == Spec /\ Fairness

-----------------------------------------------------------------------------
TypeOK ==
    /\ tasks \in Seq(Handlers)
    /\ stop \in BOOLEAN
    /\ asleep \subseteq Workers
    /\ job \in [Workers -> Handlers \cup {NoTask}]
    /\ left \subseteq Workers
    /\ handler \in [Handlers -> {"idle", "enqueue", "notify", "get"}]
    /\ ready \subseteq Handlers
    /\ main \in {"serving", "stopping", "notify", "join", "exit"}

\* The value a blocked handler waits for has exactly one source: its task is
\* in the queue once, or one worker runs it, or the value is there.  A task
\* is never lost, run twice, or left over from an earlier request.
OneSourcePerFuture ==
    \A h \in Handlers :
        Cardinality({i \in DOMAIN tasks : tasks[i] = h})
            + Cardinality({w \in Workers : job[w] = h})
            + Cardinality(ready \cap {h})
        = IF handler[h] \in {"notify", "get"} THEN 1 ELSE 0

\* No wake-up is lost although notify_one is called after the mutex has been
\* released: with work in the queue, some worker is awake or a handler is
\* about to wake one.
NoLostWakeup ==
    tasks # <<>> => asleep # Workers \/ \E h \in Handlers : handler[h] = "notify"

\* Crow's threads are joined before the pool is destroyed, so the pool stops
\* without work, and no handler ever runs into the throw of enqueue.
StopComesLast ==
    stop => /\ tasks = <<>>
            /\ \A w \in Workers : job[w] = NoTask
            /\ \A h \in Handlers : handler[h] = "idle"

\* From some moment on Crow starts no handler.  A mutex owes its waiters no
\* order, so under an endless load nothing can be said of one request.
RequestsStop == <>[][\A h \in Handlers : ~Request(h)]_vars

\* Once no further requests come, every request is answered, also one that
\* Ctrl+C overtakes: each future gets its value.
RequestsAnswered ==
    RequestsStop => \A h \in Handlers : handler[h] = "enqueue" ~> handler[h] = "idle"

\* Under any load, and whoever is passed over, answers keep coming: while a
\* handler is blocked, some future gets its value.
AnswersKeepComing == (\E h \in Handlers : handler[h] = "get") ~> ready # {}

\* The destructor joins every worker: none sleeps through the shutdown.
ShutdownCompletes == main = "stopping" ~> main = "exit"
=============================================================================
