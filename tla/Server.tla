------------------------------- MODULE Server -------------------------------
(***************************************************************************)
(* The whole process of server/main.cpp: ThreadPool, whose tasks are calls *)
(* of the service and take the mutex of the database, the detached thread  *)
(* that takes the same mutex for every audit, and the objects main owns,   *)
(* in the order their destructors run.  What a call does under the mutex   *)
(* is WorkshopService's; here it only holds it.                            *)
(***************************************************************************)
EXTENDS ThreadPool

CONSTANTS
    Verifier,  \* the detached thread
    NoThread   \* the holder of a free mutex

ASSUME ServerAssumption ==
    Verifier \notin Workers /\ NoThread \notin Workers \cup {Verifier}

VARIABLES
    mutex,     \* the thread that holds the mutex of db
    verifier,  \* where runPeriodicChecks is
    alive      \* the objects of main that tasks and audits refer to

server == <<mutex, verifier, alive>>
pool == vars

ServerInit ==
    /\ Init
    /\ mutex = NoThread
    /\ verifier = "sleep"
    /\ alive = {"db", "service"}

-----------------------------------------------------------------------------
\* A task: one call of the service.

LockTask(w) ==
    /\ job[w] # NoTask
    /\ mutex = NoThread
    /\ mutex' = w
    /\ UNCHANGED <<pool, verifier, alive>>

\* The method returns, its lock_guard unlocks, and the future has its value.
RunTask(w) ==
    /\ mutex = w
    /\ Runs(w)
    /\ mutex' = NoThread
    /\ UNCHANGED <<verifier, alive>>

\* A reservation out of hours returns before the lock_guard.  What a task asks
\* for is not kept here, so any task may turn out to be one, as long as it has
\* not locked.
RefuseTask(w) == mutex # w /\ Runs(w) /\ UNCHANGED server

-----------------------------------------------------------------------------
\* runPeriodicChecks.

Wakes ==
    /\ verifier = "sleep"
    /\ verifier' = "lock"
    /\ UNCHANGED <<pool, mutex, alive>>

LockAudit ==
    /\ verifier = "lock"
    /\ mutex = NoThread
    /\ mutex' = Verifier
    /\ verifier' = "audit"
    /\ UNCHANGED <<pool, alive>>

\* The lock_guard of the loop's body ends with it; the variant has it around
\* the loop.
InAfaraBuclei == UNCHANGED mutex
InBucla == mutex' = NoThread

AuditEnds ==
    /\ verifier = "audit"
    /\ InBucla
    /\ verifier' = "sleep"
    /\ UNCHANGED <<pool, alive>>

-----------------------------------------------------------------------------
\* The end of main: the pool is destroyed first, then service, then db, and
\* the process takes the detached thread with it.  The variant destroys them
\* on Ctrl+C.

LaCtrlC == main # "serving"
DupaPool == main = "exit"

DestroyService ==
    /\ DupaPool
    /\ "service" \in alive
    /\ alive' = alive \ {"service"}
    /\ UNCHANGED <<pool, mutex, verifier>>

DestroyDb ==
    /\ DupaPool
    /\ alive = {"db"}
    /\ alive' = {}
    /\ UNCHANGED <<pool, mutex, verifier>>

ProcessEnds ==
    /\ main = "exit" /\ alive = {}
    /\ verifier' = "gone"
    /\ UNCHANGED <<pool, mutex, alive>>

PoolStep(w) == (Waits(w) \/ Takes(w) \/ Leaves(w)) /\ UNCHANGED server
TaskStep(w) == RunTask(w) \/ RefuseTask(w)
VerifierStep == Wakes \/ LockAudit \/ AuditEnds
MainStep == (Stop \/ NotifyAll \/ Join) /\ UNCHANGED server
Destroy == DestroyService \/ DestroyDb \/ ProcessEnds

ServerNext ==
    \/ \E w \in Workers : PoolStep(w) \/ LockTask(w) \/ TaskStep(w)
    \/ \E w \in Workers : WakesUp(w) /\ UNCHANGED server
    \/ \E h \in Handlers :
          (Request(h) \/ BadRequest(h) \/ HandlerStep(h)) /\ UNCHANGED server
    \/ CtrlC /\ UNCHANGED server
    \/ MainStep \/ VerifierStep \/ Destroy

ServerVars == <<pool, server>>

ServerSpec == ServerInit /\ [][ServerNext]_ServerVars

\* Every thread that can run does.  The audit sleeps whole seconds with the
\* mutex free, so it does not keep the workers that wait for it out; which of
\* them gets it is left open, for std::mutex promises no order.  Nothing is
\* assumed of calls that are refused early, or of spurious wake-ups.
ServerFairness ==
    /\ \A w \in Workers :
          /\ WF_ServerVars(PoolStep(w))
          /\ WF_ServerVars(RunTask(w))
    /\ SF_ServerVars(\E w \in Workers : LockTask(w))
    /\ \A h \in Handlers : WF_ServerVars(HandlerStep(h) /\ UNCHANGED server)
    /\ WF_ServerVars(MainStep)
    /\ WF_ServerVars(VerifierStep)
    /\ WF_ServerVars(Destroy)

ServerFairSpec == ServerSpec /\ ServerFairness

-----------------------------------------------------------------------------
ServerTypeOK ==
    /\ TypeOK
    /\ mutex \in Workers \cup {Verifier, NoThread}
    /\ verifier \in {"sleep", "lock", "audit", "gone"}
    /\ alive \subseteq {"db", "service"}

\* The references the route handlers and their tasks captured are good while
\* they are used: a task runs while service and db live, and a handler that
\* is not idle finds the pool, although Ctrl+C may come at any moment.
ReferencesLive ==
    /\ \A w \in Workers : job[w] # NoTask => alive = {"db", "service"}
    /\ \A h \in Handlers : handler[h] # "idle" => main \in {"serving", "stopping"}

\* The mutex is held by a task that runs or by the audit that works, and a
\* worker that waits or has left holds nothing.
HolderWorks ==
    /\ \A w \in Workers : mutex = w => job[w] # NoTask
    /\ main # "exit" => (mutex = Verifier <=> verifier = "audit")

\* What the detached thread would need: its objects live while it locks and
\* works.
VerifierReferencesLive == verifier \in {"lock", "audit"} => alive = {"db", "service"}
=============================================================================
