---------------------------- MODULE ServerProofs ----------------------------
(***************************************************************************)
(* Proofs about Server for every number of workers and handlers: it runs   *)
(* the pool as ThreadPool does, so what ThreadPoolProofs proves carries    *)
(* over to it, and nothing it refers to is destroyed too early.            *)
(***************************************************************************)
EXTENDS Server, ThreadPoolProofs

\* A step that leaves the pool alone is a stutter of ThreadPool.
LEMMA PoolStutters == ASSUME UNCHANGED pool PROVE [Next]_vars
  BY DEF pool

\* Sharing the mutex with the audit and with each other, the workers take
\* steps of ThreadPool only; the audit and the destructors take none.
THEOREM ServerImplementsPool == ServerSpec => Spec
<1>1. ServerInit => Init
  BY DEF ServerInit
<1>2. [ServerNext]_ServerVars => [Next]_vars
  <2> SUFFICES ASSUME ServerNext \/ UNCHANGED ServerVars PROVE [Next]_vars
    BY DEF ServerVars
  <2>1. ASSUME NEW w \in Workers, PoolStep(w) \/ TaskStep(w) \/ WakesUp(w)
        PROVE  Next
    BY <2>1 DEF PoolStep, TaskStep, RunTask, RefuseTask, Next, WorkerStep
  <2>2. ASSUME NEW w \in Workers, LockTask(w)
        PROVE  UNCHANGED pool
    BY <2>2 DEF LockTask
  <2>3. ASSUME NEW h \in Handlers, Request(h) \/ BadRequest(h) \/ HandlerStep(h)
        PROVE  Next
    BY <2>3 DEF Next
  <2>4. CtrlC \/ MainStep => Next
    BY DEF MainStep, Next
  <2>5. VerifierStep \/ Destroy \/ UNCHANGED ServerVars => UNCHANGED pool
    BY DEF VerifierStep, Wakes, LockAudit, AuditEnds, Destroy, DestroyService, DestroyDb,
           ProcessEnds, ServerVars
  <2> QED
    BY <2>1, <2>2, <2>3, <2>4, <2>5, PoolStutters DEF ServerNext
<1> QED
  BY <1>1, <1>2, PTL DEF ServerSpec, Spec

-----------------------------------------------------------------------------
\* main sets stop before it notifies and joins, and destroys after that.
EndOfMain ==
    /\ stop <=> main \in {"notify", "join", "exit"}
    /\ alive # {"db", "service"} => main = "exit"

\* Nothing is destroyed before the workers have been joined.
LEMMA MainEndsInOrder == ServerSpec => []EndOfMain
<1>1. ServerInit => EndOfMain
  BY DEF ServerInit, Init, EndOfMain
<1>2. EndOfMain /\ [ServerNext]_ServerVars => EndOfMain'
  <2> SUFFICES ASSUME EndOfMain, ServerNext \/ UNCHANGED ServerVars PROVE EndOfMain'
    BY DEF ServerVars
  <2> USE DEF EndOfMain
  <2>1. ASSUME NEW w \in Workers, PoolStep(w) \/ TaskStep(w) \/ (WakesUp(w) /\ UNCHANGED server)
        PROVE  EndOfMain'
    BY <2>1 DEF PoolStep, Waits, Takes, Leaves, TaskStep, RunTask, RefuseTask, Runs, WakesUp, server
  <2>2. ASSUME NEW w \in Workers, LockTask(w)
        PROVE  EndOfMain'
    BY <2>2 DEF LockTask, pool, vars
  <2>3. ASSUME NEW h \in Handlers,
               Request(h) \/ BadRequest(h) \/ HandlerStep(h), UNCHANGED server
        PROVE  EndOfMain'
    BY <2>3 DEF Request, BadRequest, HandlerStep, Enqueue, Notify, Get, server
  <2>4. CASE (CtrlC /\ UNCHANGED server) \/ MainStep
    BY <2>4 DEF CtrlC, MainStep, Stop, NotifyAll, Join, server
  <2>5. CASE VerifierStep \/ UNCHANGED ServerVars
    BY <2>5 DEF VerifierStep, Wakes, LockAudit, AuditEnds, ServerVars, server, pool, vars
  <2>6. CASE Destroy
    BY <2>6 DEF Destroy, DestroyService, DestroyDb, ProcessEnds, DupaPool, pool, vars
  <2> QED
    BY <2>1, <2>2, <2>3, <2>4, <2>5, <2>6 DEF ServerNext
<1> QED
  BY <1>1, <1>2, PTL DEF ServerSpec

\* The route handlers and the tasks capture pool and service by reference;
\* neither is destroyed while a handler or a task is left to use it.
THEOREM ReferencesStayLive == ServerSpec => []ReferencesLive
<1>1. TypeOK /\ StopComesLast /\ EndOfMain => ReferencesLive
  BY DEF TypeOK, StopComesLast, EndOfMain, ReferencesLive
<1> QED
  BY <1>1, ServerImplementsPool, TypeCorrect, PoolStopsIdle, MainEndsInOrder, PTL

\* No wake-up is lost in the whole process either.
THEOREM ServerWakeups == ServerSpec => []NoLostWakeup
  BY ServerImplementsPool, WakeupsAreNotLost, PTL

\* A task is answered once in the whole process too, whoever has the mutex.
THEOREM ServerFutures == ServerSpec => []OneSourcePerFuture
  BY ServerImplementsPool, FuturesHaveOneSource, PTL

-----------------------------------------------------------------------------
\* The mutex and its holder are always in the right places.
HolderInv ==
    /\ mutex \in Workers \cup {Verifier, NoThread}
    /\ job \in [Workers -> Handlers \cup {NoTask}]
    /\ HolderWorks

\* Whoever holds the mutex is about to release it: a worker that holds it is
\* inside a task, and the audit holds it only while it works, so no thread
\* sleeps, waits for the queue or leaves with it.
THEOREM HolderAlwaysWorks == ServerSpec => []HolderWorks
<1>1. ServerInit => HolderInv
  BY ServerAssumption DEF ServerInit, Init, HolderInv, HolderWorks
<1>2. TypeOK /\ TypeOK' /\ HolderInv /\ [ServerNext]_ServerVars => HolderInv'
  <2> SUFFICES ASSUME TypeOK, TypeOK', HolderInv, ServerNext \/ UNCHANGED ServerVars
               PROVE  HolderInv'
    BY DEF ServerVars
  <2> USE ServerAssumption, PoolAssumption DEF HolderInv, HolderWorks
  <2>0. job' \in [Workers -> Handlers \cup {NoTask}]
    BY DEF TypeOK
  <2>1. ASSUME NEW w \in Workers, PoolStep(w) \/ (WakesUp(w) /\ UNCHANGED server)
        PROVE  HolderInv'
    <3>1. tasks # <<>> => Head(tasks) # NoTask
      BY HeadTailProperties DEF TypeOK
    <3> QED
      BY <2>0, <2>1, <3>1 DEF PoolStep, Waits, Takes, Leaves, WakesUp, server
  <2>2. ASSUME NEW w \in Workers, LockTask(w) \/ TaskStep(w)
        PROVE  HolderInv'
    BY <2>0, <2>2 DEF LockTask, TaskStep, RunTask, RefuseTask, Runs, server, pool, vars
  <2>3. ASSUME NEW h \in Handlers,
               Request(h) \/ BadRequest(h) \/ HandlerStep(h), UNCHANGED server
        PROVE  HolderInv'
    BY <2>3 DEF Request, BadRequest, HandlerStep, Enqueue, Notify, Get, server
  <2>4. CASE (CtrlC /\ UNCHANGED server) \/ MainStep
    BY <2>4 DEF CtrlC, MainStep, Stop, NotifyAll, Join, server
  <2>5. CASE VerifierStep \/ UNCHANGED ServerVars
    BY <2>5 DEF VerifierStep, Wakes, LockAudit, AuditEnds, InBucla, ServerVars, server, pool, vars
  <2>6. CASE Destroy
    BY <2>6 DEF Destroy, DestroyService, DestroyDb, ProcessEnds, DupaPool, pool, vars
  <2> QED
    BY <2>1, <2>2, <2>3, <2>4, <2>5, <2>6 DEF ServerNext
<1>3. HolderInv => HolderWorks
  BY DEF HolderInv
<1> QED
  BY <1>1, <1>2, <1>3, ServerImplementsPool, TypeCorrect, PTL DEF ServerSpec
=============================================================================
