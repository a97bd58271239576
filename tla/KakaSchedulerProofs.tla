------------------------ MODULE KakaSchedulerProofs ------------------------
(***************************************************************************)
(* Machine-checked proofs about KakaScheduler, for every value of the      *)
(* bounds.                                                                 *)
(***************************************************************************)
EXTENDS KakaScheduler, ListLemmas

(***************************************************************************)
(* Lemmas on the data.                                                     *)
(***************************************************************************)

\* FulfillRequest changes nothing but the answer of one task: it keeps the
\* type, the ids, the flags of suspension and the times.
LEMMA FulfillKeeps ==
    ASSUME TypeOK, NEW r, NEW a \in Args
    PROVE  /\ FulfillRequest(r, a) \in [Task -> KakaTask]
           /\ \A t \in Task :
                /\ FulfillRequest(r, a)[t].requestId = task[t].requestId
                /\ FulfillRequest(r, a)[t].co = task[t].co
                /\ FulfillRequest(r, a)[t].waitingForRequest = task[t].waitingForRequest
                /\ FulfillRequest(r, a)[t].resumeAt = task[t].resumeAt
                /\ task[t].responseReady => FulfillRequest(r, a)[t].responseReady
<1> DEFINE hits == {i \in 1..Len(Lists) : Awaits(Lists[i], r)}
           hit  == Lists[CHOOSE i \in hits : \A j \in hits : i <= j]
           new  == [task EXCEPT ![hit] = [@ EXCEPT !.pendingResponseArgs = a,
                                                   !.responseReady = TRUE]]
<1>1. FulfillRequest(r, a) = IF hits = {} THEN task ELSE new
  BY DEF FulfillRequest
<1> HIDE DEF hits, hit
<1>2. task \in [Task -> KakaTask]
  BY DEF TypeOK
<1>3. new \in [Task -> KakaTask]
  BY <1>2 DEF KakaTask
<1>4. \A t \in Task :
        /\ new[t].requestId = task[t].requestId
        /\ new[t].co = task[t].co
        /\ new[t].waitingForRequest = task[t].waitingForRequest
        /\ new[t].resumeAt = task[t].resumeAt
        /\ task[t].responseReady => new[t].responseReady
  BY <1>2 DEF KakaTask
<1>5. QED BY <1>1, <1>2, <1>3, <1>4

(***************************************************************************)
(* Type correctness.                                                       *)
(***************************************************************************)

LEMMA InitType == Init => TypeOK
  BY SchedulerBounds DEF Init, TypeOK, Task, NoTask, Time, Phases, KakaTask,
     Unborn, Blank, CallStatus, Args, NoArgs, SomeArg, Timer

\* A new task record has its type.
LEMMA FreshType ==
    ASSUME TypeOK, NEW d \in Time, now + d <= MaxNow
    PROVE  Fresh(d) \in KakaTask
  BY SchedulerBounds DEF TypeOK, Fresh, Unborn, Blank, KakaTask, CallStatus, Time, Args, NoArgs

LEMMA PreFulfilledType ==
    ASSUME TypeOK, NEW b \in BOOLEAN
    PROVE  PreFulfilled(b) \in KakaTask
  BY SchedulerBounds DEF TypeOK, PreFulfilled, Fresh, Unborn, Blank, KakaTask, CallStatus,
     Time, Args, NoArgs, SomeArg

LEMMA EnqueueType ==
    ASSUME TypeOK, NEW rec \in KakaTask, Enqueue(rec)
    PROVE  /\ task' \in [Task -> KakaTask]
           /\ tasks' \in Seq(Task) /\ pending' \in Seq(Task)
           /\ nextTask' \in 1..MaxTasks + 1
<1>1. nextTask \in Task
  BY SchedulerBounds DEF TypeOK, Enqueue, Task
<1>2. task' \in [Task -> KakaTask]
  BY DEF TypeOK, Enqueue
<1>3. tasks' \in Seq(Task) /\ pending' \in Seq(Task)
  <2>1. \A s \in Seq(Task) : Append(s, nextTask) \in Seq(Task)
    BY <1>1, AppendProperties
  <2>2. QED BY <2>1 DEF TypeOK, Enqueue
<1>4. nextTask' \in 1..MaxTasks + 1
  BY SchedulerBounds DEF TypeOK, Enqueue
<1>5. QED BY <1>2, <1>3, <1>4

LEMMA DestroyedType ==
    ASSUME TypeOK, NEW S
    PROVE  Destroyed(S) \in [Task -> KakaTask]
  BY SchedulerBounds DEF TypeOK, Destroyed, Gone, Unborn, Blank, KakaTask, CallStatus,
     Time, Args, NoArgs

LEMMA SuspendType ==
    ASSUME TypeOK, Running, Suspend
    PROVE  /\ task' \in [Task -> KakaTask]
           /\ nextReq' \in 1..MaxRequests + 1
           /\ waiters' \subseteq 1..MaxRequests
           /\ nextReq \in 1..MaxRequests
<1>1. nextReq \in 1..MaxRequests /\ nextReq \in 0..MaxRequests
  BY SchedulerBounds DEF TypeOK, Suspend
<1>2. task' \in [Task -> KakaTask]
  <2>1. \A k \in KakaTask :
          [k EXCEPT !.waitingForRequest = TRUE, !.requestId = nextReq] \in KakaTask
    BY <1>1 DEF KakaTask
  <2>2. QED BY <2>1 DEF TypeOK, Suspend
<1>3. nextReq' \in 1..MaxRequests + 1 /\ waiters' \subseteq 1..MaxRequests
  BY <1>1, SchedulerBounds DEF TypeOK, Suspend
<1>4. QED BY <1>1, <1>2, <1>3

LEMMA NextType == TypeOK /\ [Next]_vars => TypeOK'
<1> SUFFICES ASSUME TypeOK, [Next]_vars PROVE TypeOK'
  OBVIOUS
<1> USE SchedulerBounds
<1>1. ASSUME NEW d \in Time, Spawn(d) PROVE TypeOK'
  <2>1. Fresh(d) \in KakaTask
    BY <1>1, FreshType DEF Spawn
  <2>2. QED BY <1>1, <2>1, EnqueueType DEF Spawn, TypeOK
<1>2. CASE SpawnWithArgs
  BY <1>2, PreFulfilledType, EnqueueType DEF SpawnWithArgs, TypeOK
<1>3. CASE SpawnWithCallback
  BY <1>3, PreFulfilledType, EnqueueType DEF SpawnWithCallback, TypeOK
<1>4. ASSUME NEW r \in 1..MaxRequests, FulfillByEvent(r) PROVE TypeOK'
  <2>1. FulfillRequest(r, SomeArg) \in [Task -> KakaTask]
    BY FulfillKeeps DEF Args
  <2>2. QED BY <1>4, <2>1 DEF FulfillByEvent, TypeOK, listVars
<1>5. CASE Clear
  <2>1. task' \in [Task -> KakaTask]
    BY <1>5, DestroyedType DEF Clear
  <2>2. QED BY <1>5, <2>1 DEF Clear, TypeOK
<1>6. CASE ScriptSuspend
  BY <1>6, SuspendType DEF ScriptSuspend, TypeOK, listVars
<1>7. ASSUME NEW d \in 1..MaxNow, ScriptWaitForChild(d) PROVE TypeOK'
  <2>1. /\ task' \in [Task -> KakaTask]
        /\ nextReq' \in 1..MaxRequests + 1
        /\ waiters' \subseteq 1..MaxRequests
        /\ nextReq \in 1..MaxRequests
    BY <1>7, SuspendType DEF ScriptWaitForChild
  <2>2. [fireAt |-> now + d, req |-> nextReq] \in Timer
    BY <1>7, <2>1 DEF ScriptWaitForChild, Timer, Time, TypeOK
  <2>3. timers' \in Seq(Timer)
    BY <1>7, <2>2 DEF ScriptWaitForChild, TypeOK
  <2>4. QED BY <1>7, <2>1, <2>3 DEF ScriptWaitForChild, TypeOK, listVars
<1>8. ASSUME Return, task' \in [Task -> KakaTask], answers' \in [Task -> Nat]
      PROVE  TypeOK'
  BY <1>8 DEF Return, TypeOK, listVars
<1>9. ASSUME NEW d \in Time, Yield(d) PROVE TypeOK'
  <2>a. now + d \in Time
    BY <1>9 DEF Yield, TypeOK, Time
  <2>1. task' \in [Task -> KakaTask]
    <3>1. CASE task[current].waitingForRequest
      BY <1>9, <3>1 DEF Yield, TypeOK
    <3>2. CASE ~task[current].waitingForRequest
      BY <1>9, <2>a, <3>2 DEF Yield, TypeOK, KakaTask
    <3>3. QED BY <3>1, <3>2
  <2>2. QED BY <1>8, <1>9, <2>1 DEF Yield, TypeOK
<1>10. CASE Finish
  <2>1. task' \in [Task -> KakaTask]
    BY <1>10 DEF Finish, TypeOK, KakaTask, CallStatus
  <2>2. answers' \in [Task -> Nat]
    BY <1>10 DEF Finish, TypeOK, Running
  <2>3. QED BY <1>8, <1>10, <2>1, <2>2 DEF Finish
<1>11. CASE Fail
  <2>1. task' \in [Task -> KakaTask]
    BY <1>11 DEF Fail, TypeOK, KakaTask, CallStatus
  <2>2. QED BY <1>8, <1>11, <2>1 DEF Fail, TypeOK
<1>12. ASSUME NEW t \in now..MaxNow, BeginTick(t) PROVE TypeOK'
  BY <1>12 DEF BeginTick, TypeOK, listVars, Time, Phases
<1>13. CASE Skip
  BY <1>13 DEF Skip, TypeOK, listVars
<1>14. CASE Resume
  <2>1. tasks[pos] \in Task
    BY <1>14 DEF Resume, AtTask, TypeOK
  <2>2. task' \in [Task -> KakaTask]
    BY <1>14, <2>1 DEF Resume, TypeOK, KakaTask, Args
  <2>3. QED BY <1>14, <2>1, <2>2 DEF Resume, TypeOK, listVars
<1>15. CASE EndTasks
  BY <1>15 DEF EndTasks, NextLoop, TypeOK, listVars, Phases
<1>16. CASE EndSweep
  BY <1>16 DEF EndSweep, NextLoop, TypeOK, listVars, Phases
<1>17. CASE SweepKeep
  BY <1>17 DEF SweepKeep, TypeOK, listVars
<1>18. CASE SweepRemove
  <2>1. pos \in 1..Len(tasks)
    BY <1>18 DEF SweepRemove, AtSweep, TypeOK
  <2>2. tasks' \in Seq(Task)
    BY <1>18, <2>1, RemoveAtProperties DEF SweepRemove, TypeOK
  <2>3. QED BY <1>18, <2>2, DestroyedType DEF SweepRemove, TypeOK
<1>19. CASE FireTimer
  <2>1. pos \in 1..Len(timers)
    BY <1>19 DEF FireTimer, AtTimer, TypeOK
  <2>2. timers' \in Seq(Timer)
    BY <1>19, <2>1, RemoveAtProperties DEF FireTimer, TypeOK
  <2>3. task' \in [Task -> KakaTask]
    BY <1>19, FulfillKeeps DEF FireTimer, Args
  <2>4. QED BY <1>19, <2>2, <2>3 DEF FireTimer, TypeOK, listVars
<1>20. CASE SkipTimer
  BY <1>20 DEF SkipTimer, TypeOK, listVars
<1>21. CASE EndTick
  BY <1>21, ConcatProperties DEF EndTick, TypeOK, Phases
<1>22. CASE UNCHANGED vars
  BY <1>22 DEF vars, listVars, TypeOK
<1>23. QED
  BY <1>1, <1>2, <1>3, <1>4, <1>5, <1>6, <1>7, <1>9, <1>10, <1>11, <1>12,
     <1>13, <1>14, <1>15, <1>16, <1>17, <1>18, <1>19, <1>20, <1>21, <1>22
     DEF Next, Calls, Outcome, Tick

\* Every reachable state of the scheduler has the declared types.
THEOREM TypeCorrect == Spec => []TypeOK
<1>1. QED BY InitType, NextType, PTL DEF Spec

(***************************************************************************)
(* More lemmas on the data.                                                *)
(***************************************************************************)

(***************************************************************************)
(* The inductive invariant.                                                *)
(*                                                                         *)
(* RequestIdsUnique needs that ids come from a counter that only grows     *)
(* (IdsIssued).  NoLostWakeup needs uniqueness: FulfillRequest must hit    *)
(* the very task whose id leaves the waiters.                              *)
(***************************************************************************)

IdsIssued == \A t \in Task : task[t].requestId < nextReq

\* The part of IInv that only speaks of ids.
IdInv == IdsIssued /\ RequestIdsUnique

LEMMA IdsNat ==
    ASSUME TypeOK
    PROVE  \A t \in Task : task[t].requestId \in Nat /\ nextReq \in Nat \ {0}
<1>1. \A t \in Task : task[t] \in KakaTask
  BY DEF TypeOK
<1>2. \A t \in Task : task[t].requestId \in 0..MaxRequests
  BY <1>1 DEF KakaTask
<1>3. QED BY <1>2, SchedulerBounds DEF TypeOK

\* A step that gives no task a new nonzero id keeps the ids unique.
LEMMA IdsKept ==
    ASSUME TypeOK, TypeOK', IdInv,
           nextReq' = nextReq,
           \A t \in Task : task'[t].requestId \in {task[t].requestId, 0}
    PROVE  IdInv'
<1>1. \A t \in Task : task[t].requestId \in Nat /\ nextReq \in Nat \ {0}
  BY IdsNat
<1>2. IdsIssued'
  BY <1>1 DEF IdInv, IdsIssued
<1>3. RequestIdsUnique'
  BY <1>1 DEF IdInv, RequestIdsUnique
<1>4. QED BY <1>2, <1>3 DEF IdInv

LEMMA SuspendIds ==
    ASSUME TypeOK, TypeOK', IdInv, Running, Suspend
    PROVE  IdInv'
<1>1. \A t \in Task : task[t].requestId \in Nat /\ nextReq \in Nat \ {0}
  BY IdsNat
<1>2. \A t \in Task :
        task'[t].requestId = IF t = current THEN nextReq ELSE task[t].requestId
  BY DEF TypeOK, Suspend, KakaTask
<1>3. nextReq' = nextReq + 1
  BY DEF Suspend
<1>4. IdsIssued'
  BY <1>1, <1>2, <1>3 DEF IdInv, IdsIssued
<1>5. RequestIdsUnique'
  BY <1>1, <1>2, <1>3 DEF IdInv, IdsIssued, RequestIdsUnique
<1>6. QED BY <1>4, <1>5 DEF IdInv

LEMMA NextIds == TypeOK /\ IdInv /\ [Next]_vars => IdInv'
<1> SUFFICES ASSUME TypeOK, IdInv, [Next]_vars PROVE IdInv'
  OBVIOUS
<1>0. TypeOK'
  BY NextType
<1> USE SchedulerBounds
<1>1. ASSUME NEW rec, rec.requestId = 0, Enqueue(rec), nextReq' = nextReq PROVE IdInv'
  <2>1. \A t \in Task : task'[t].requestId \in {task[t].requestId, 0}
    BY <1>1 DEF Enqueue, TypeOK
  <2>2. QED BY <1>0, <1>1, <2>1, IdsKept
<1>2. ASSUME NEW d \in Time, Spawn(d) PROVE IdInv'
  BY <1>1, <1>2 DEF Spawn, Fresh, Blank
<1>3. CASE SpawnWithArgs
  BY <1>1, <1>3 DEF SpawnWithArgs, PreFulfilled
<1>4. CASE SpawnWithCallback
  BY <1>1, <1>4 DEF SpawnWithCallback, PreFulfilled
<1>5. ASSUME NEW r \in 1..MaxRequests, NEW a \in Args, task' = FulfillRequest(r, a),
             nextReq' = nextReq
      PROVE  IdInv'
  BY <1>0, <1>5, FulfillKeeps, IdsKept
<1>6. ASSUME NEW r \in 1..MaxRequests, FulfillByEvent(r) PROVE IdInv'
  BY <1>5, <1>6 DEF FulfillByEvent, Args
<1>7. ASSUME NEW S, task' = Destroyed(S), nextReq' = nextReq PROVE IdInv'
  <2>1. \A t \in Task : task'[t].requestId \in {task[t].requestId, 0}
    BY <1>7 DEF Destroyed, Gone, Blank
  <2>2. QED BY <1>0, <1>7, <2>1, IdsKept
<1>8. CASE Clear
  BY <1>7, <1>8 DEF Clear
<1>9. CASE ScriptSuspend
  BY <1>0, <1>9, SuspendIds DEF ScriptSuspend
<1>10. ASSUME NEW d \in 1..MaxNow, ScriptWaitForChild(d) PROVE IdInv'
  BY <1>0, <1>10, SuspendIds DEF ScriptWaitForChild
<1>11. ASSUME NEW d \in Time, Yield(d) PROVE IdInv'
  <2>1. \A t \in Task : task'[t].requestId = task[t].requestId
    BY <1>11 DEF Yield, TypeOK, KakaTask
  <2>2. QED BY <1>0, <1>11, <2>1, IdsKept DEF Yield, Return
<1>12. CASE Finish
  <2>1. \A t \in Task : task'[t].requestId = task[t].requestId
    BY <1>12 DEF Finish, TypeOK, KakaTask
  <2>2. QED BY <1>0, <1>12, <2>1, IdsKept DEF Finish, Return
<1>13. CASE Fail
  <2>1. \A t \in Task : task'[t].requestId = task[t].requestId
    BY <1>13 DEF Fail, TypeOK, KakaTask
  <2>2. QED BY <1>0, <1>13, <2>1, IdsKept DEF Fail, Return
<1>14. CASE Resume
  <2>1. \A t \in Task : task'[t].requestId = task[t].requestId
    BY <1>14 DEF Resume, TypeOK, KakaTask
  <2>2. QED BY <1>0, <1>14, <2>1, IdsKept DEF Resume
<1>15. CASE SweepRemove
  BY <1>7, <1>15 DEF SweepRemove
<1>16. CASE FireTimer
  <2>0. timers[pos] \in Timer
    BY <1>16 DEF FireTimer, AtTimer, TypeOK
  <2>1. timers[pos].req \in 1..MaxRequests
    BY <2>0 DEF Timer
  <2>2. QED BY <1>5, <1>16, <2>1 DEF FireTimer, Args
<1>17. ASSUME task' = task, nextReq' = nextReq PROVE IdInv'
  BY <1>0, <1>17, IdsKept
<1>18. ASSUME NEW t \in now..MaxNow, BeginTick(t) PROVE IdInv'
  BY <1>17, <1>18 DEF BeginTick
<1>19. CASE Skip \/ SkipTimer \/ SweepKeep \/ EndTick
  BY <1>17, <1>19 DEF Skip, SkipTimer, SweepKeep, EndTick
<1>20. CASE EndTasks \/ EndSweep
  BY <1>17, <1>20 DEF EndTasks, EndSweep, NextLoop
<1>21. CASE UNCHANGED vars
  BY <1>17, <1>21 DEF vars
<1>22. QED
  BY <1>2, <1>3, <1>4, <1>6, <1>8, <1>9, <1>10, <1>11, <1>12, <1>13, <1>14,
     <1>15, <1>16, <1>18, <1>19, <1>20, <1>21 DEF Next, Calls, Outcome, Tick

\* No two coroutines ever hold the same request id, so that an answer can
\* only reach the coroutine that asked for it.
THEOREM RequestIdsAreUnique == Spec => []RequestIdsUnique
<1>1. Init => IdInv
  BY SchedulerBounds DEF Init, IdInv, IdsIssued, RequestIdsUnique, Unborn, Blank
<1>2. IdInv => RequestIdsUnique
  BY DEF IdInv
<1>3. QED BY <1>1, <1>2, NextIds, TypeCorrect, PTL DEF Spec

(***************************************************************************)
(* No lost wakeup.                                                         *)
(***************************************************************************)

LEMMA ListsType ==
    ASSUME TypeOK
    PROVE  /\ Lists \in Seq(Task)
           /\ ToSet(Lists) = ToSet(tasks) \cup ToSet(pending)
           /\ ToSet(Lists) \subseteq Task
<1>1. tasks \in Seq(Task) /\ pending \in Seq(Task)
  BY DEF TypeOK
<1>2. Lists \in Seq(Task)
  BY <1>1, ConcatProperties DEF Lists
<1>3. ToSet(Lists) = ToSet(tasks) \cup ToSet(pending)
  BY <1>1, ToSetConcat DEF Lists
<1>4. ToSet(Lists) \subseteq Task
  BY <1>2 DEF ToSet
<1>5. QED BY <1>2, <1>3, <1>4

\* FulfillRequest reaches the listed task that waits for the request.
LEMMA FulfillHits ==
    ASSUME TypeOK, RequestIdsUnique, NEW r \in 1..MaxRequests, NEW a \in Args,
           NEW t \in ToSet(Lists), Awaits(t, r)
    PROVE  FulfillRequest(r, a)[t].responseReady
<1> DEFINE hits  == {i \in 1..Len(Lists) : Awaits(Lists[i], r)}
           first == CHOOSE i \in hits : \A j \in hits : i <= j
           hit   == Lists[first]
           new   == [task EXCEPT ![hit] = [@ EXCEPT !.pendingResponseArgs = a,
                                                    !.responseReady = TRUE]]
<1>1. Lists \in Seq(Task) /\ t \in Task
  BY ListsType
<1>2. PICK i \in 1..Len(Lists) : Lists[i] = t
  BY <1>1 DEF ToSet
<1>3. i \in hits
  BY <1>2
<1>4. hits \subseteq Nat
  BY <1>1
<1>5. \E x \in hits : \A y \in hits : x <= y
  BY <1>3, <1>4, NatMin
<1>6. first \in hits
  BY <1>5
<1>7. hit \in Task /\ Awaits(hit, r)
  BY <1>1, <1>6
<1>8. hit = t
  <2>1. task[hit].requestId = r /\ task[t].requestId = r /\ r # 0
    BY <1>7 DEF Awaits
  <2>2. QED BY <1>1, <1>7, <2>1 DEF RequestIdsUnique
<1>9. FulfillRequest(r, a) = new
  BY <1>3 DEF FulfillRequest
<1>10. new[t].responseReady
  <2> HIDE DEF hit
  <2>1. task \in [Task -> KakaTask] /\ t \in Task
    BY <1>1 DEF TypeOK
  <2>2. QED BY <1>8, <2>1 DEF KakaTask
<1>11. QED BY <1>9, <1>10

\* A step that suspends no task anew and forgets no id keeps every suspended
\* task answerable.
LEMMA WakeupKept ==
    ASSUME NoLostWakeup,
           \A t \in ToSet(Lists)' : Suspended(t)' =>
                /\ t \in ToSet(Lists) /\ Suspended(t)
                /\ task'[t].requestId = task[t].requestId,
           waiters \subseteq waiters', \A r : Timed(r) => Timed(r)'
    PROVE  NoLostWakeup'
  BY DEF NoLostWakeup, Answerable

\* The same for a step that answers r and forgets who held it.
LEMMA WakeupAnswered ==
    ASSUME TypeOK, RequestIdsUnique, NoLostWakeup,
           NEW r \in 1..MaxRequests, NEW a \in Args, task' = FulfillRequest(r, a),
           UNCHANGED listVars,
           waiters \ {r} \subseteq waiters',
           \A q : q # r /\ Timed(q) => Timed(q)'
    PROVE  NoLostWakeup'
<1> SUFFICES ASSUME NEW t \in ToSet(Lists), Suspended(t)'
             PROVE  Answerable(task[t].requestId)'
  BY DEF NoLostWakeup, listVars, Lists
<1>1. t \in Task
  BY ListsType
<1>2. /\ task'[t].requestId = task[t].requestId
      /\ task'[t].co = task[t].co
      /\ task'[t].waitingForRequest = task[t].waitingForRequest
      /\ task[t].responseReady => task'[t].responseReady
  BY <1>1, FulfillKeeps
<1>3. Suspended(t)
  BY <1>2 DEF Suspended, Runnable
<1>4. task[t].requestId # r
  BY <1>3, FulfillHits DEF Awaits, Suspended
<1>5. Answerable(task[t].requestId)
  BY <1>3 DEF NoLostWakeup
<1>6. QED BY <1>2, <1>4, <1>5 DEF Answerable

LEMMA TimedAppend ==
    ASSUME TypeOK, NEW e \in Timer, timers' = Append(timers, e)
    PROVE  \A r : Timed(r) => Timed(r)'
<1>1. /\ timers \in Seq(Timer) /\ Len(timers') = Len(timers) + 1
      /\ \A i \in 1..Len(timers) : timers'[i] = timers[i]
  BY AppendProperties DEF TypeOK
<1>2. \A i \in 1..Len(timers) : i \in 1..Len(timers')
  BY <1>1
<1>3. QED BY <1>1, <1>2 DEF Timed

LEMMA NextWakeup == TypeOK /\ RequestIdsUnique /\ NoLostWakeup /\ [Next]_vars
                        => NoLostWakeup'
<1> SUFFICES ASSUME TypeOK, RequestIdsUnique, NoLostWakeup, [Next]_vars
             PROVE  NoLostWakeup'
  OBVIOUS
<1>0. TypeOK' /\ task \in [Task -> KakaTask] /\ ToSet(Lists) \subseteq Task
  BY NextType, ListsType DEF TypeOK
<1> USE SchedulerBounds
<1>a. ASSUME UNCHANGED timers PROVE \A r : Timed(r) => Timed(r)'
  BY <1>a DEF Timed
<1>1. ASSUME NEW rec, rec.waitingForRequest => rec.responseReady, Enqueue(rec),
             UNCHANGED <<timers, waiters>>
      PROVE  NoLostWakeup'
  <2>1. ToSet(Lists)' \subseteq ToSet(Lists) \cup {nextTask}
    <3>0. nextTask \in Task /\ tasks \in Seq(Task) /\ pending \in Seq(Task)
      BY <1>1 DEF Enqueue, TypeOK, Task
    <3>1. /\ ToSet(Append(tasks, nextTask)) = ToSet(tasks) \cup {nextTask}
          /\ ToSet(Append(pending, nextTask)) = ToSet(pending) \cup {nextTask}
      BY <3>0, ToSetAppend
    <3>2. /\ ToSet(Lists) = ToSet(tasks) \cup ToSet(pending)
          /\ ToSet(Lists)' = ToSet(tasks') \cup ToSet(pending')
      BY <3>0, <1>0, ToSetConcat DEF Lists, TypeOK
    <3>3. QED BY <1>1, <3>1, <3>2 DEF Enqueue
  <2>2. \A t \in Task : task'[t] = IF t = nextTask THEN rec ELSE task[t]
    BY <1>0, <1>1 DEF Enqueue
  <2>3. ToSet(Lists)' \subseteq Task
    <3>1. nextTask \in Task
      BY <1>1 DEF Enqueue, TypeOK, Task
    <3>2. QED BY <1>0, <2>1, <3>1
  <2>4. QED BY <1>1, <1>a, <2>1, <2>2, <2>3, WakeupKept DEF Suspended, Runnable
<1>2. ASSUME NEW d \in Time, Spawn(d) PROVE NoLostWakeup'
  BY <1>1, <1>2 DEF Spawn, Fresh, Blank
<1>3. CASE SpawnWithArgs
  BY <1>1, <1>3 DEF SpawnWithArgs, PreFulfilled
<1>4. CASE SpawnWithCallback
  BY <1>1, <1>4 DEF SpawnWithCallback, PreFulfilled
<1>5. ASSUME NEW r \in 1..MaxRequests, FulfillByEvent(r) PROVE NoLostWakeup'
  <2>1. \A q : Timed(q) => Timed(q)'
    BY <1>5, <1>a DEF FulfillByEvent
  <2>2. QED BY <1>5, <2>1, WakeupAnswered DEF FulfillByEvent, Args
<1>6. CASE Clear
  <2>1. ToSet(Lists)' = {}
    BY <1>6 DEF Clear, Lists, ToSet
  <2>2. QED BY <2>1 DEF NoLostWakeup
<1>7. ASSUME Running, Suspend, UNCHANGED listVars, \A r : Timed(r) => Timed(r)'
      PROVE  NoLostWakeup'
  <2> SUFFICES ASSUME NEW t \in ToSet(Lists), Suspended(t)'
               PROVE  Answerable(task[t].requestId)'
    BY <1>7 DEF NoLostWakeup, listVars, Lists
  <2>1. CASE t = current
    <3>1. task'[t].requestId = nextReq /\ nextReq \in waiters'
      BY <1>0, <1>7, <2>1 DEF Suspend, KakaTask
    <3>2. QED BY <3>1 DEF Answerable
  <2>2. CASE t # current
    <3>1. task'[t] = task[t] /\ waiters \subseteq waiters'
      BY <1>0, <1>7, <2>2 DEF Suspend
    <3>2. Answerable(task[t].requestId)
      BY <3>1 DEF NoLostWakeup, Suspended, Runnable
    <3>3. QED BY <1>7, <3>1, <3>2 DEF Answerable
  <2>3. QED BY <2>1, <2>2
<1>8. CASE ScriptSuspend
  BY <1>7, <1>8, <1>a DEF ScriptSuspend
<1>9. ASSUME NEW d \in 1..MaxNow, ScriptWaitForChild(d) PROVE NoLostWakeup'
  <2>1. nextReq \in 1..MaxRequests /\ now + d \in Time
    BY <1>9 DEF ScriptWaitForChild, Suspend, TypeOK, Time
  <2>2. [fireAt |-> now + d, req |-> nextReq] \in Timer
    BY <2>1 DEF Timer
  <2>3. \A r : Timed(r) => Timed(r)'
    BY <1>9, <2>2, TimedAppend DEF ScriptWaitForChild
  <2>4. QED BY <1>7, <1>9, <2>3 DEF ScriptWaitForChild
\* A step that touches one task without suspending it, or none.
<1>10. ASSUME UNCHANGED <<listVars, timers, waiters>>,
              \A t \in Task : Suspended(t)' =>
                    Suspended(t) /\ task'[t].requestId = task[t].requestId
       PROVE  NoLostWakeup'
  <2>1. ToSet(Lists)' = ToSet(Lists)
    BY <1>10 DEF listVars, Lists
  <2>2. QED BY <1>0, <1>10, <1>a, <2>1, WakeupKept
<1>11. ASSUME NEW d \in Time, Yield(d) PROVE NoLostWakeup'
  <2>1. \A t \in Task : /\ task'[t].requestId = task[t].requestId
                        /\ task'[t].co = task[t].co
                        /\ task'[t].waitingForRequest = task[t].waitingForRequest
                        /\ task'[t].responseReady = task[t].responseReady
    BY <1>0, <1>11 DEF Yield, KakaTask
  <2>2. QED BY <1>10, <1>11, <2>1 DEF Yield, Return, Suspended, Runnable
<1>12. CASE Finish
  <2>1. \A t \in Task : task'[t] = task[t] \/ task'[t].co = "ok"
    BY <1>0, <1>12 DEF Finish, KakaTask
  <2>2. QED BY <1>10, <1>12, <2>1 DEF Finish, Return, Suspended, Runnable
<1>13. CASE Fail
  <2>1. \A t \in Task : task'[t] = task[t] \/ task'[t].co = "error"
    BY <1>0, <1>13 DEF Fail, KakaTask
  <2>2. QED BY <1>10, <1>13, <2>1 DEF Fail, Return, Suspended, Runnable
<1>14. CASE Resume
  <2>1. \A t \in Task : task'[t] = task[t] \/ ~task'[t].waitingForRequest
    BY <1>0, <1>14 DEF Resume, KakaTask
  <2>2. QED BY <1>10, <1>14, <2>1 DEF Resume, Suspended, Runnable
<1>15. CASE SweepRemove
  <2>1. pos \in 1..Len(tasks) /\ tasks \in Seq(Task) /\ pending \in Seq(Task)
    BY <1>15 DEF SweepRemove, AtSweep, TypeOK
  <2>2. ToSet(Lists)' \subseteq ToSet(Lists)
    <3>1. ToSet(tasks') \subseteq ToSet(tasks) /\ tasks' \in Seq(Task)
      BY <1>15, <2>1, ToSetRemoveAt, RemoveAtProperties DEF SweepRemove
    <3>2. ToSet(Lists)' = ToSet(tasks') \cup ToSet(pending)
      BY <1>15, <2>1, <3>1, ToSetConcat DEF Lists, SweepRemove
    <3>3. QED BY <3>1, <3>2, ListsType
  <2>3. \A t \in Task : task'[t] = task[t] \/ task'[t].co = "gone"
    BY <1>15 DEF SweepRemove, Destroyed, Gone, Blank
  <2>4. QED
    BY <1>0, <1>15, <1>a, <2>2, <2>3, WakeupKept DEF SweepRemove, Suspended, Runnable
<1>16. CASE FireTimer
  <2>1. pos \in 1..Len(timers) /\ timers \in Seq(Timer) /\ timers[pos] \in Timer
    BY <1>16 DEF FireTimer, AtTimer, TypeOK
  <2>2. timers[pos].req \in 1..MaxRequests
    BY <2>1 DEF Timer
  <2>3. ASSUME NEW q, q # timers[pos].req, Timed(q) PROVE Timed(q)'
    <3>1. PICK i \in 1..Len(timers) : timers[i].req = q
      BY <2>3 DEF Timed
    <3>2. timers[i] \in ToSet(timers) /\ timers[i] # timers[pos]
      BY <2>1, <2>3, <3>1 DEF ToSet
    <3>3. timers[i] \in ToSet(timers') /\ timers' \in Seq(Timer)
      BY <1>16, <2>1, <3>2, ToSetRemoveAt, RemoveAtProperties DEF FireTimer
    <3>4. QED BY <3>1, <3>3 DEF Timed, ToSet
  <2>4. QED BY <1>16, <2>2, <2>3, WakeupAnswered DEF FireTimer, Args
<1>17. CASE EndTick
  <2>1. ToSet(Lists)' = ToSet(Lists)
    <3>1. tasks \in Seq(Task) /\ pending \in Seq(Task) /\ tasks' \in Seq(Task)
      BY <1>0 DEF TypeOK
    <3>2. ToSet(tasks') = ToSet(Lists)
      BY <1>17 DEF EndTick, Lists
    <3>3. ToSet(Lists)' = ToSet(tasks')
      BY <1>17, <3>1, ConcatEmptySeq DEF EndTick, Lists
    <3>4. QED BY <3>2, <3>3
  <2>2. QED BY <1>17, <1>a, <2>1, WakeupKept DEF EndTick, Suspended, Runnable
<1>18. ASSUME UNCHANGED <<task, listVars, timers, waiters>> PROVE NoLostWakeup'
  BY <1>10, <1>18 DEF Suspended, Runnable
<1>19. ASSUME NEW t \in now..MaxNow, BeginTick(t) PROVE NoLostWakeup'
  BY <1>18, <1>19 DEF BeginTick
<1>20. CASE Skip \/ SkipTimer \/ SweepKeep
  BY <1>18, <1>20 DEF Skip, SkipTimer, SweepKeep
<1>21. CASE EndTasks \/ EndSweep
  BY <1>18, <1>21 DEF EndTasks, EndSweep, NextLoop
<1>22. CASE UNCHANGED vars
  BY <1>18, <1>22 DEF vars, listVars
<1>23. QED
  BY <1>2, <1>3, <1>4, <1>5, <1>6, <1>8, <1>9, <1>11, <1>12, <1>13, <1>14,
     <1>15, <1>16, <1>17, <1>19, <1>20, <1>21, <1>22
     DEF Next, Calls, Outcome, Tick

\* A suspended coroutine can always still be answered: no operation of the
\* scheduler loses the request it waits for.
THEOREM NoWakeupIsLost == Spec => []NoLostWakeup
<1>1. Init => NoLostWakeup
  <2> SUFFICES ASSUME Init PROVE NoLostWakeup
    OBVIOUS
  <2>1. Lists = <<>>
    BY ConcatEmptySeq DEF Init, Lists
  <2>2. ToSet(<<>>) = {}
    BY DEF ToSet
  <2>3. QED BY <2>1, <2>2 DEF NoLostWakeup
<1>2. QED BY <1>1, NextWakeup, TypeCorrect, RequestIdsAreUnique, PTL DEF Spec

(***************************************************************************)
(* Action properties.                                                      *)
(***************************************************************************)

\* While Tick walks m_tasks, nothing a resumed script calls changes the list.
THEOREM IterationIsStable == Spec => IterationStable
<1>1. ASSUME [Next]_vars, phase = "tasks", phase' = "tasks"
      PROVE  tasks' = tasks
  <2>1. CASE Calls
    BY <1>1, <2>1 DEF Calls, Spawn, SpawnWithArgs, SpawnWithCallback, Enqueue,
       m_ticking, FulfillByEvent, Clear, ScriptSuspend, ScriptWaitForChild, listVars
  <2>2. CASE Outcome
    BY <1>1, <2>2 DEF Outcome, Yield, Finish, Fail, Return, listVars
  <2>3. CASE Tick
    BY <1>1, <2>3 DEF Tick, BeginTick, Skip, Resume, EndTasks, EndSweep, NextLoop,
       SweepKeep, SweepRemove, AtSweep, FireTimer, SkipTimer, AtTimer, EndTick, listVars
  <2>4. CASE UNCHANGED vars
    BY <2>4 DEF vars
  <2>5. QED BY <1>1, <2>1, <2>2, <2>3, <2>4 DEF Next
<1>2. QED BY <1>1, PTL DEF Spec, IterationStable

(***************************************************************************)
(* The order of the lists.                                                 *)
(*                                                                         *)
(* CreationOrder is inductive with two facts: the scheduler holds only tasks  *)
(* that have been created, so that a new one belongs at the end; and       *)
(* m_pending is empty outside a Tick, where Enqueue appends to m_tasks.    *)
(***************************************************************************)

\* Sequence s lists tasks created before task n, in the order of creation.
InOrder(s, n) ==
    /\ \A i \in 1..Len(s) : s[i] < n
    /\ \A i, j \in 1..Len(s) : i < j => s[i] < s[j]

OrderInv ==
    /\ InOrder(Lists, nextTask)
    /\ phase = "poll" => pending = <<>>

LEMMA AppendInOrder ==
    ASSUME NEW s \in Seq(Task), NEW n \in Task, InOrder(s, n)
    PROVE  InOrder(Append(s, n), n + 1)
<1>1. /\ Append(s, n) \in Seq(Task) /\ Len(Append(s, n)) = Len(s) + 1
      /\ \A i \in 1..Len(s) : Append(s, n)[i] = s[i]
      /\ Append(s, n)[Len(s) + 1] = n
  BY AppendProperties
<1>2. Len(s) \in Nat /\ \A i \in 1..Len(s) : s[i] \in Nat
  BY SchedulerBounds DEF Task
<1> DEFINE a == Append(s, n)
<1> HIDE DEF a
<1>3. \A i \in 1..Len(s) + 1 : i \in 1..Len(s) \/ i = Len(s) + 1
  BY <1>2
<1>4. \A i \in 1..Len(a) : a[i] < n + 1
  BY <1>1, <1>2, <1>3, SchedulerBounds DEF InOrder, Task, a
<1>5. ASSUME NEW i \in 1..Len(a), NEW j \in 1..Len(a), i < j PROVE a[i] < a[j]
  <2>1. i \in 1..Len(s)
    BY <1>1, <1>2, <1>5 DEF a
  <2>2. QED BY <1>1, <1>2, <1>3, <1>5, <2>1 DEF InOrder, a
<1>6. QED BY <1>4, <1>5 DEF InOrder, a

LEMMA RemoveInOrder ==
    ASSUME NEW s \in Seq(Task), NEW n \in Nat, NEW k \in 1..Len(s), InOrder(s, n)
    PROVE  InOrder(RemoveAt(s, k), n)
<1> DEFINE r == RemoveAt(s, k)
<1>1. /\ r \in Seq(Task) /\ Len(r) = Len(s) - 1
      /\ \A j \in 1..Len(s) - 1 : r[j] = IF j < k THEN s[j] ELSE s[j + 1]
  BY RemoveAtProperties
<1> HIDE DEF r
<1>2. Len(s) \in Nat /\ \A i \in 1..Len(s) : s[i] \in Nat
  BY SchedulerBounds DEF Task
<1>3. \A i \in 1..Len(r) : r[i] < n
  BY <1>1, <1>2 DEF InOrder
<1>4. ASSUME NEW i \in 1..Len(r), NEW j \in 1..Len(r), i < j PROVE r[i] < r[j]
  <2> DEFINE at(x) == IF x < k THEN x ELSE x + 1
  <2>1. /\ at(i) \in 1..Len(s) /\ at(j) \in 1..Len(s) /\ at(i) < at(j)
        /\ r[i] = s[at(i)] /\ r[j] = s[at(j)]
    BY <1>1, <1>2, <1>4
  <2> HIDE DEF at
  <2>2. QED BY <2>1 DEF InOrder
<1>5. QED BY <1>3, <1>4 DEF InOrder, r

\* What Enqueue does to Lists.
LEMMA EnqueueLists ==
    ASSUME TypeOK, OrderInv, NEW rec, Enqueue(rec)
    PROVE  nextTask \in Task /\ Lists' = Append(Lists, nextTask)
<1>1. nextTask \in Task /\ tasks \in Seq(Task) /\ pending \in Seq(Task)
  BY SchedulerBounds DEF TypeOK, Enqueue, Task
<1>2. CASE m_ticking
  <2>1. tasks' = tasks /\ pending' = Append(pending, nextTask)
    BY <1>2 DEF Enqueue
  <2>2. /\ tasks \o pending \in Seq(Task) /\ <<nextTask>> \in Seq(Task)
        /\ Append(pending, nextTask) = pending \o <<nextTask>>
        /\ Append(tasks \o pending, nextTask) = (tasks \o pending) \o <<nextTask>>
    BY <1>1, ConcatProperties, AppendIsConcat
  <2>3. tasks \o (pending \o <<nextTask>>) = (tasks \o pending) \o <<nextTask>>
    BY <1>1, <2>2, ConcatAssociative
  <2>4. QED BY <1>1, <2>1, <2>2, <2>3 DEF Lists
<1>3. CASE ~m_ticking
  <2>1. pending = <<>> /\ pending' = <<>> /\ tasks' = Append(tasks, nextTask)
    BY <1>3 DEF OrderInv, m_ticking, Enqueue
  <2>2. tasks \o <<>> = tasks /\ tasks' \o <<>> = tasks'
    BY <1>1, <2>1, AppendProperties, ConcatEmptySeq
  <2>3. QED BY <1>1, <2>1, <2>2 DEF Lists
<1>4. QED BY <1>2, <1>3

LEMMA NextOrder == TypeOK /\ OrderInv /\ [Next]_vars => OrderInv'
<1> SUFFICES ASSUME TypeOK, OrderInv, [Next]_vars PROVE OrderInv'
  OBVIOUS
<1>0. Lists \in Seq(Task) /\ nextTask \in Nat
  BY ListsType, SchedulerBounds DEF TypeOK
<1>1. ASSUME NEW rec, Enqueue(rec), UNCHANGED phase PROVE OrderInv'
  <2>1. nextTask \in Task /\ Lists' = Append(Lists, nextTask)
    BY <1>1, EnqueueLists
  <2>2. InOrder(Lists', nextTask')
    BY <1>0, <1>1, <2>1, AppendInOrder DEF OrderInv, Enqueue
  <2>3. QED BY <1>1, <2>2 DEF OrderInv, Enqueue, m_ticking
<1>2. ASSUME NEW d \in Time, Spawn(d) PROVE OrderInv'
  BY <1>1, <1>2 DEF Spawn
<1>3. CASE SpawnWithArgs \/ SpawnWithCallback
  BY <1>1, <1>3 DEF SpawnWithArgs, SpawnWithCallback
<1>4. CASE Clear
  <2>1. Lists' = <<>> /\ pending' = <<>>
    BY <1>4, ConcatEmptySeq DEF Clear, Lists
  <2>2. QED BY <1>4, <2>1 DEF OrderInv, InOrder
<1>5. CASE SweepRemove
  <2>1. pos \in 1..Len(tasks) /\ tasks \in Seq(Task) /\ pending \in Seq(Task)
    BY <1>5 DEF SweepRemove, AtSweep, TypeOK
  <2>2. Lists' = RemoveAt(Lists, pos)
    BY <1>5, <2>1, RemoveFromFirst DEF SweepRemove, Lists
  <2>3. pos \in 1..Len(Lists)
    BY <2>1, ConcatProperties DEF Lists
  <2>4. QED BY <1>0, <1>5, <2>2, <2>3, RemoveInOrder DEF OrderInv, SweepRemove, AtSweep
<1>6. CASE EndTick
  <2>1. Lists' = Lists /\ pending' = <<>>
    BY <1>0, <1>6, ConcatEmptySeq DEF EndTick, Lists
  <2>2. QED BY <1>6, <2>1 DEF OrderInv, EndTick
\* A step that leaves the lists alone and starts no poll.
<1>7. ASSUME UNCHANGED <<tasks, pending, nextTask>>, phase' = "poll" => phase = "poll"
      PROVE  OrderInv'
  BY <1>7 DEF OrderInv, Lists
<1>8. ASSUME NEW r \in 1..MaxRequests, FulfillByEvent(r) PROVE OrderInv'
  BY <1>7, <1>8 DEF FulfillByEvent, listVars
<1>9. CASE ScriptSuspend \/ \E d \in 1..MaxNow : ScriptWaitForChild(d)
  BY <1>7, <1>9 DEF ScriptSuspend, ScriptWaitForChild, listVars
<1>10. CASE Outcome
  BY <1>7, <1>10 DEF Outcome, Yield, Finish, Fail, Return, listVars
<1>11. CASE Skip \/ Resume \/ SweepKeep \/ FireTimer \/ SkipTimer
  BY <1>7, <1>11 DEF Skip, Resume, SweepKeep, FireTimer, SkipTimer, listVars
<1>12. CASE EndTasks \/ EndSweep \/ \E t \in now..MaxNow : BeginTick(t)
  BY <1>7, <1>12 DEF EndTasks, EndSweep, NextLoop, BeginTick, listVars
<1>13. CASE UNCHANGED vars
  BY <1>7, <1>13 DEF vars, listVars
<1>14. QED
  BY <1>2, <1>3, <1>4, <1>5, <1>6, <1>8, <1>9, <1>10, <1>11, <1>12, <1>13
     DEF Next, Calls, Tick

LEMMA InitOrder == Init => OrderInv
<1>1. <<>> \o <<>> = <<>>
  BY ConcatEmptySeq, EmptySeq
<1>2. QED BY <1>1 DEF Init, OrderInv, InOrder, Lists

\* A step that is not Clear loses no task that can still be resumed.
LEMMA NextLosesNone ==
    ASSUME TypeOK, OrderInv, [Next]_vars
    PROVE  NoneLost
<1>0. /\ Lists \in Seq(Task) /\ tasks \in Seq(Task) /\ pending \in Seq(Task)
  BY ListsType DEF TypeOK
<1>1. ASSUME NEW rec, Enqueue(rec) PROVE NoneLost
  <2>1. Lists' = Append(Lists, nextTask) /\ nextTask \in Task
    BY <1>1, EnqueueLists
  <2>2. ToSet(Lists)' = ToSet(Lists) \cup {nextTask}
    BY <1>0, <2>1, ToSetAppend
  <2>3. QED BY <2>2 DEF NoneLost
<1>2. CASE SpawnWithArgs \/ SpawnWithCallback \/ \E d \in Time : Spawn(d)
  BY <1>1, <1>2 DEF SpawnWithArgs, SpawnWithCallback, Spawn
<1>3. CASE Clear
  BY <1>3 DEF NoneLost
<1>4. CASE SweepRemove
  <2>1. pos \in 1..Len(tasks)
    BY <1>4 DEF SweepRemove, AtSweep, TypeOK
  <2>2. Lists' = RemoveAt(Lists, pos)
    BY <1>0, <1>4, <2>1, RemoveFromFirst DEF SweepRemove, Lists
  <2>3. pos \in 1..Len(Lists) /\ Lists[pos] = tasks[pos]
    BY <1>0, <2>1, ConcatProperties DEF Lists
  <2>4. \A t \in ToSet(Lists) : t = tasks[pos] \/ t \in ToSet(Lists)'
    BY <1>0, <2>2, <2>3, ToSetRemoveAt
  <2>5. QED BY <1>4, <2>4 DEF NoneLost, SweepRemove
<1>5. CASE EndTick
  <2>1. Lists' = Lists
    BY <1>0, <1>5, ConcatEmptySeq DEF EndTick, Lists
  <2>2. QED BY <2>1 DEF NoneLost
\* A step that leaves the lists alone.
<1>6. ASSUME UNCHANGED <<tasks, pending>> PROVE NoneLost
  BY <1>6 DEF NoneLost, Lists
<1>7. CASE \/ ScriptSuspend \/ \E d \in 1..MaxNow : ScriptWaitForChild(d)
           \/ \E r \in 1..MaxRequests : FulfillByEvent(r)
  BY <1>6, <1>7 DEF ScriptSuspend, ScriptWaitForChild, FulfillByEvent, listVars
<1>8. CASE Outcome
  BY <1>6, <1>8 DEF Outcome, Yield, Finish, Fail, Return, listVars
<1>9. CASE Skip \/ Resume \/ SweepKeep \/ FireTimer \/ SkipTimer
  BY <1>6, <1>9 DEF Skip, Resume, SweepKeep, FireTimer, SkipTimer, listVars
<1>10. CASE EndTasks \/ EndSweep \/ \E t \in now..MaxNow : BeginTick(t)
  BY <1>6, <1>10 DEF EndTasks, EndSweep, NextLoop, BeginTick, listVars
<1>11. CASE UNCHANGED vars
  BY <1>6, <1>11 DEF vars, listVars
<1>12. QED
  BY <1>2, <1>3, <1>4, <1>5, <1>7, <1>8, <1>9, <1>10, <1>11 DEF Next, Calls, Tick

\* The queue of tasks is kept, whatever scripts call during a Tick and Tick
\* erases after it: m_tasks followed by m_pending stays in the order of
\* creation, and only Clear takes away a task that can still be resumed.
THEOREM SpawnOrderHolds == Spec => SpawnOrder
<1>1. OrderInv => CreationOrder
  BY DEF OrderInv, InOrder, CreationOrder
<1>2. TypeOK /\ OrderInv /\ [Next]_vars => [NoneLost]_vars
  BY NextLosesNone
<1>3. QED BY <1>1, <1>2, InitOrder, NextOrder, TypeCorrect, PTL DEF Spec, SpawnOrder

(***************************************************************************)
(* The tasks of the scheduler.                                             *)
(*                                                                         *)
(* What the refinement needs beyond the ids: a coroutine that may still    *)
(* run is in the lists, where FulfillRequest finds it; the coroutine that  *)
(* runs is one of these; an answer belongs to an open request.             *)
(***************************************************************************)

TaskInv ==
    /\ \A t \in Task :
         /\ t >= nextTask => task[t] = Unborn /\ answers[t] = 0
         /\ task[t].co = "unborn" => t >= nextTask
         /\ task[t].co = "yielded" => t \in ToSet(Lists)
         /\ task[t].responseReady => task[t].waitingForRequest
         /\ ~task[t].responseReady => task[t].pendingResponseArgs = NoArgs
         /\ task[t].onComplete => answers[t] = 0
    /\ Running => phase = "tasks" /\ task[current].co = "yielded"

\* FulfillRequest answers one listed task that waits for r, or does nothing.
LEMMA FulfillOne ==
    ASSUME TypeOK, NEW r, NEW a
    PROVE  \/ FulfillRequest(r, a) = task
           \/ \E h \in ToSet(Lists) :
                /\ Awaits(h, r)
                /\ FulfillRequest(r, a) =
                     [task EXCEPT ![h] = [@ EXCEPT !.pendingResponseArgs = a,
                                                   !.responseReady = TRUE]]
<1> DEFINE hits  == {i \in 1..Len(Lists) : Awaits(Lists[i], r)}
           first == CHOOSE i \in hits : \A j \in hits : i <= j
<1>1. CASE hits = {}
  BY <1>1 DEF FulfillRequest
<1>2. CASE hits # {}
  <2>1. Lists \in Seq(Task) /\ hits \subseteq Nat
    BY ListsType
  <2>2. \E x \in hits : \A y \in hits : x <= y
    BY <1>2, <2>1, NatMin
  <2>3. first \in hits
    BY <2>2
  <2>4. Lists[first] \in ToSet(Lists) /\ Awaits(Lists[first], r)
    <3>1. first \in 1..Len(Lists) /\ Awaits(Lists[first], r)
      BY <2>3
    <3> HIDE DEF first
    <3>2. QED BY <3>1 DEF ToSet
  <2>5. FulfillRequest(r, a) =
          [task EXCEPT ![Lists[first]] = [@ EXCEPT !.pendingResponseArgs = a,
                                                   !.responseReady = TRUE]]
    BY <1>2 DEF FulfillRequest
  <2>6. QED BY <2>4, <2>5
<1>3. QED BY <1>1, <1>2

\* A step that leaves the lists and answers alone and rewrites records of
\* created tasks only, without reviving one.
LEMMA TaskInvKept ==
    ASSUME TypeOK, TaskInv, NEW S \in SUBSET Task,
           \A t \in S : t < nextTask,
           \A t \in Task \ S : task'[t] = task[t],
           \A t \in S :
             /\ task'[t].co \in {task[t].co, "ok", "error", "gone"}
             /\ task'[t].responseReady => task'[t].waitingForRequest
             /\ ~task'[t].responseReady => task'[t].pendingResponseArgs = NoArgs
             /\ task'[t].onComplete => answers'[t] = 0,
           \A t \in Task \ S : answers'[t] = answers[t],
           \A t \in ToSet(Lists) : task'[t].co = "yielded" => t \in ToSet(Lists)',
           nextTask' = nextTask,
           Running' => phase' = "tasks" /\ task'[current'].co = "yielded"
    PROVE  TaskInv'
<1> SUFFICES ASSUME NEW t \in Task
             PROVE  /\ t >= nextTask => task'[t] = Unborn /\ answers'[t] = 0
                    /\ task'[t].co = "unborn" => t >= nextTask
                    /\ task'[t].co = "yielded" => t \in ToSet(Lists)'
                    /\ task'[t].responseReady => task'[t].waitingForRequest
                    /\ ~task'[t].responseReady => task'[t].pendingResponseArgs = NoArgs
                    /\ task'[t].onComplete => answers'[t] = 0
  BY DEF TaskInv
<1>1. CASE t \in S
  <2>1. ~(t >= nextTask)
    BY <1>1, SchedulerBounds DEF Task, TypeOK
  <2>2. task[t].co # "unborn" /\ task'[t].co # "unborn"
    BY <1>1, <2>1 DEF TaskInv
  <2>3. task'[t].co = "yielded" => t \in ToSet(Lists)'
    BY <1>1 DEF TaskInv
  <2>4. QED BY <1>1, <2>1, <2>2, <2>3
<1>2. CASE t \notin S
  BY <1>2 DEF TaskInv
<1>3. QED BY <1>1, <1>2

LEMMA NextTaskInv == TypeOK /\ OrderInv /\ TaskInv /\ [Next]_vars => TaskInv'
<1> SUFFICES ASSUME TypeOK, OrderInv, TaskInv, [Next]_vars PROVE TaskInv'
  OBVIOUS
<1>0. TypeOK' /\ task \in [Task -> KakaTask] /\ ToSet(Lists) \subseteq Task
  BY NextType, ListsType DEF TypeOK
<1>L. \A t \in ToSet(Lists) : t < nextTask
  BY DEF OrderInv, InOrder, ToSet
<1>C. Running => current \in Task /\ current < nextTask
  BY SchedulerBounds DEF TaskInv, Running, TypeOK, Task, Unborn, Blank
<1> USE SchedulerBounds
<1>1. ASSUME NEW rec \in KakaTask, Enqueue(rec), rec.co = "yielded",
             rec.responseReady => rec.waitingForRequest,
             ~rec.responseReady => rec.pendingResponseArgs = NoArgs,
             UNCHANGED <<answers, current, phase>>
      PROVE  TaskInv'
  <2>1. nextTask \in Task /\ Lists' = Append(Lists, nextTask)
    BY <1>1, EnqueueLists
  <2>2. ToSet(Lists)' = ToSet(Lists) \cup {nextTask}
    BY <2>1, ListsType, ToSetAppend
  <2>3. \A t \in Task : task'[t] = IF t = nextTask THEN rec ELSE task[t]
    BY <1>0, <1>1 DEF Enqueue
  <2>4. nextTask' = nextTask + 1 /\ nextTask \in Nat
    BY <1>1, <2>1 DEF Enqueue, Task
  <2>5. ASSUME NEW t \in Task
        PROVE  /\ t >= nextTask' => task'[t] = Unborn /\ answers'[t] = 0
               /\ task'[t].co = "unborn" => t >= nextTask'
               /\ task'[t].co = "yielded" => t \in ToSet(Lists)'
               /\ task'[t].responseReady => task'[t].waitingForRequest
               /\ ~task'[t].responseReady => task'[t].pendingResponseArgs = NoArgs
               /\ task'[t].onComplete => answers'[t] = 0
    <3>1. CASE t = nextTask
      BY <1>1, <2>2, <2>3, <2>4, <3>1 DEF TaskInv
    <3>2. CASE t # nextTask
      BY <1>1, <2>2, <2>3, <2>4, <3>2 DEF TaskInv, Task
    <3>3. QED BY <3>1, <3>2
  <2>6. Running' => phase' = "tasks" /\ task'[current'].co = "yielded"
    BY <1>1, <1>C, <2>3, <2>4 DEF TaskInv, Running
  <2>7. QED BY <2>5, <2>6 DEF TaskInv
<1>2. ASSUME NEW d \in Time, Spawn(d) PROVE TaskInv'
  <2>1. Fresh(d) \in KakaTask
    BY <1>2, FreshType DEF Spawn
  <2>2. QED BY <1>1, <1>2, <2>1 DEF Spawn, Fresh, Blank
<1>3. CASE SpawnWithArgs \/ SpawnWithCallback
  BY <1>1, <1>3, PreFulfilledType DEF SpawnWithArgs, SpawnWithCallback, PreFulfilled
<1>4. ASSUME NEW r \in 1..MaxRequests, NEW a \in Args, task' = FulfillRequest(r, a),
             UNCHANGED <<listVars, answers, current, phase, nextTask>>
      PROVE  TaskInv'
  <2>1. ToSet(Lists)' = ToSet(Lists)
    BY <1>4 DEF listVars, Lists
  <2>2. CASE task' = task
    BY <1>4, <2>1, <2>2 DEF TaskInv, Running
  <2>3. CASE task' # task
    <3>1. PICK h \in ToSet(Lists) :
            /\ Awaits(h, r)
            /\ task' = [task EXCEPT ![h] = [@ EXCEPT !.pendingResponseArgs = a,
                                                     !.responseReady = TRUE]]
      <4> DEFINE f == FulfillRequest(r, a)
      <4>1. \/ f = task
            \/ \E h \in ToSet(Lists) :
                 /\ Awaits(h, r)
                 /\ f = [task EXCEPT ![h] = [@ EXCEPT !.pendingResponseArgs = a,
                                                     !.responseReady = TRUE]]
        BY FulfillOne
      <4>2. task' = f
        BY <1>4
      <4> HIDE DEF f
      <4>3. QED BY <2>3, <4>1, <4>2
    <3>2. h \in Task /\ h < nextTask
      BY <1>0, <1>L
    <3>3. /\ \A t \in Task \ {h} : task'[t] = task[t]
          /\ task'[h].co = task[h].co /\ task'[h].responseReady
          /\ task'[h].waitingForRequest /\ task'[h].onComplete = task[h].onComplete
      BY <1>0, <3>1, <3>2 DEF KakaTask, Awaits
    <3>4. Running' => phase' = "tasks" /\ task'[current'].co = "yielded"
      BY <1>4, <1>C, <3>3 DEF TaskInv, Running
    <3>5. task'[h].onComplete => answers'[h] = 0
      BY <1>4, <3>2, <3>3 DEF TaskInv
    <3>6. QED BY <1>4, <2>1, <3>2, <3>3, <3>4, <3>5, TaskInvKept, {h} \in SUBSET Task
  <2>4. QED BY <2>2, <2>3
<1>5. ASSUME NEW r \in 1..MaxRequests, FulfillByEvent(r) PROVE TaskInv'
  BY <1>4, <1>5 DEF FulfillByEvent, Args
<1>6. CASE FireTimer
  <2>1. timers[pos] \in Timer
    BY <1>6 DEF FireTimer, AtTimer, TypeOK
  <2>2. timers[pos].req \in 1..MaxRequests
    BY <2>1 DEF Timer
  <2>3. QED BY <1>4, <1>6, <2>2 DEF FireTimer, Args
<1>7. ASSUME NEW S \in SUBSET ToSet(Lists), task' = Destroyed(S),
             \A t \in ToSet(Lists) : t \in S \/ t \in ToSet(Lists)',
             ~Running, UNCHANGED <<answers, current, nextTask>>
      PROVE  TaskInv'
  <2>1. /\ \A t \in Task \ S : task'[t] = task[t]
        /\ \A t \in S : task'[t] = Gone
    BY <1>0, <1>7 DEF Destroyed
  <2>2. ~Running'
    BY <1>7 DEF Running
  <2>3. S \in SUBSET Task /\ \A t \in S : t < nextTask
    BY <1>0, <1>7, <1>L
  <2>4. \A t \in S : /\ task'[t].co = "gone" /\ ~task'[t].responseReady
                     /\ task'[t].pendingResponseArgs = NoArgs /\ ~task'[t].onComplete
    BY <2>1 DEF Gone, Blank
  <2>5. \A t \in ToSet(Lists) : task'[t].co = "yielded" => t \in ToSet(Lists)'
    BY <1>7, <2>4
  <2>6. QED BY <1>7, <2>1, <2>2, <2>3, <2>4, <2>5, TaskInvKept
<1>8. CASE Clear
  <2>1. ~Running
    BY <1>8 DEF Clear, TaskInv
  <2>2. QED BY <1>7, <1>8, <2>1 DEF Clear
<1>9. CASE SweepRemove
  <2>1. pos \in 1..Len(tasks) /\ tasks \in Seq(Task) /\ pending \in Seq(Task)
    BY <1>9 DEF SweepRemove, AtSweep, TypeOK
  <2>2. Lists' = RemoveAt(Lists, pos)
    BY <1>9, <2>1, RemoveFromFirst DEF SweepRemove, Lists
  <2>3. pos \in 1..Len(Lists) /\ Lists[pos] = tasks[pos]
    BY <2>1, ConcatProperties DEF Lists
  <2>4. {tasks[pos]} \in SUBSET ToSet(Lists)
    BY <2>3 DEF ToSet
  <2>5. \A t \in ToSet(Lists) : t \in {tasks[pos]} \/ t \in ToSet(Lists)'
    BY <2>2, <2>3, ListsType, ToSetRemoveAt
  <2>6. ~Running
    BY <1>9 DEF SweepRemove, AtSweep, TaskInv
  <2>7. QED BY <1>7, <1>9, <2>4, <2>5, <2>6 DEF SweepRemove
\* A step that rewrites one record.
<1>10. ASSUME NEW c \in Task, c < nextTask, UNCHANGED <<listVars, nextTask>>,
              \A t \in Task \ {c} : task'[t] = task[t] /\ answers'[t] = answers[t],
              task'[c].co \in {task[c].co, "ok", "error"},
              task'[c].responseReady => task'[c].waitingForRequest,
              ~task'[c].responseReady => task'[c].pendingResponseArgs = NoArgs,
              task'[c].onComplete => answers'[c] = 0,
              Running' => phase' = "tasks" /\ task'[current'].co = "yielded"
       PROVE  TaskInv'
  <2>1. \A t \in ToSet(Lists) : t \in ToSet(Lists)'
    BY <1>10 DEF listVars, Lists
  <2>2. QED BY <1>10, <2>1, TaskInvKept, {c} \in SUBSET Task
<1>11. ASSUME Running, Suspend, UNCHANGED <<listVars, nextTask, current, phase, answers>>
       PROVE  TaskInv'
  <2>1. /\ \A t \in Task \ {current} : task'[t] = task[t]
        /\ task'[current].co = task[current].co
        /\ task'[current].waitingForRequest
        /\ task'[current].responseReady = task[current].responseReady
        /\ task'[current].pendingResponseArgs = task[current].pendingResponseArgs
        /\ task'[current].onComplete = task[current].onComplete
    BY <1>0, <1>11, <1>C DEF Suspend, KakaTask
  <2>2. QED BY <1>10, <1>11, <1>C, <2>1 DEF TaskInv
<1>12. CASE ScriptSuspend \/ \E d \in 1..MaxNow : ScriptWaitForChild(d)
  BY <1>11, <1>12 DEF ScriptSuspend, ScriptWaitForChild
<1>13. ASSUME NEW d \in Time, Yield(d) PROVE TaskInv'
  <2>1. /\ \A t \in Task \ {current} : task'[t] = task[t]
        /\ task'[current].co = task[current].co
        /\ task'[current].waitingForRequest = task[current].waitingForRequest
        /\ task'[current].responseReady = task[current].responseReady
        /\ task'[current].pendingResponseArgs = task[current].pendingResponseArgs
        /\ task'[current].onComplete = task[current].onComplete
    BY <1>0, <1>13, <1>C DEF Yield, KakaTask
  <2>2. Running /\ ~Running' /\ UNCHANGED <<listVars, nextTask, answers>>
    BY <1>13 DEF Yield, Return, Running
  <2>3. QED BY <1>10, <1>C, <2>1, <2>2 DEF TaskInv
<1>14. CASE Finish
  <2>1. /\ \A t \in Task \ {current} : task'[t] = task[t] /\ answers'[t] = answers[t]
        /\ task'[current].co = "ok" /\ ~task'[current].onComplete
        /\ task'[current].waitingForRequest = task[current].waitingForRequest
        /\ task'[current].responseReady = task[current].responseReady
        /\ task'[current].pendingResponseArgs = task[current].pendingResponseArgs
    BY <1>0, <1>14, <1>C DEF Finish, KakaTask, TypeOK
  <2>2. Running /\ ~Running' /\ UNCHANGED <<listVars, nextTask>>
    BY <1>14 DEF Finish, Return, Running
  <2>3. QED BY <1>10, <1>C, <2>1, <2>2 DEF TaskInv
<1>15. CASE Fail
  <2>1. /\ \A t \in Task \ {current} : task'[t] = task[t]
        /\ task'[current].co = "error"
        /\ task'[current].waitingForRequest = task[current].waitingForRequest
        /\ task'[current].responseReady = task[current].responseReady
        /\ task'[current].pendingResponseArgs = task[current].pendingResponseArgs
        /\ task'[current].onComplete = task[current].onComplete
    BY <1>0, <1>15, <1>C DEF Fail, KakaTask
  <2>2. Running /\ ~Running' /\ UNCHANGED <<listVars, nextTask, answers>>
    BY <1>15 DEF Fail, Return, Running
  <2>3. QED BY <1>10, <1>C, <2>1, <2>2 DEF TaskInv
<1>16. CASE Resume
  <2>0. tasks[pos] \in Task /\ tasks[pos] \in ToSet(Lists)
    <3>1. pos \in 1..Len(tasks) /\ tasks \in Seq(Task)
      BY <1>16 DEF Resume, AtTask, TypeOK
    <3>2. tasks[pos] \in ToSet(tasks)
      BY <3>1 DEF ToSet
    <3>3. QED BY <1>0, <3>2, ListsType
  <2>1. /\ \A t \in Task \ {tasks[pos]} : task'[t] = task[t]
        /\ task'[tasks[pos]].co = task[tasks[pos]].co
        /\ ~task'[tasks[pos]].responseReady
        /\ task'[tasks[pos]].pendingResponseArgs = NoArgs
        /\ task'[tasks[pos]].onComplete = task[tasks[pos]].onComplete
    BY <1>0, <1>16, <2>0 DEF Resume, KakaTask
  <2>2. phase' = "tasks" /\ current' = tasks[pos] /\ task'[current'].co = "yielded"
    BY <1>16, <2>1 DEF Resume, AtTask, Runnable
  <2>3. UNCHANGED <<listVars, nextTask, answers>>
    BY <1>16 DEF Resume
  <2>4. QED BY <1>10, <1>L, <2>0, <2>1, <2>2, <2>3 DEF TaskInv
\* A step that leaves the tasks alone.
<1>17. ASSUME UNCHANGED <<task, nextTask, current, answers>>, ToSet(Lists)' = ToSet(Lists),
              Running => phase' = "tasks"
       PROVE  TaskInv'
  BY <1>17 DEF TaskInv, Running
<1>18. CASE Skip \/ SweepKeep \/ SkipTimer
  <2>1. Lists' = Lists
    BY <1>18 DEF Skip, SweepKeep, SkipTimer, listVars, Lists
  <2>2. QED BY <1>17, <1>18, <2>1 DEF Skip, SweepKeep, SkipTimer, TaskInv
<1>19. CASE EndTasks \/ EndSweep \/ \E t \in now..MaxNow : BeginTick(t)
  <2>1. Lists' = Lists
    BY <1>19 DEF EndTasks, EndSweep, BeginTick, NextLoop, listVars, Lists
  <2>2. QED BY <1>17, <1>19, <2>1 DEF EndTasks, EndSweep, NextLoop, BeginTick, TaskInv
<1>20. CASE EndTick
  <2>1. Lists' = Lists
    BY <1>20, ListsType, ConcatEmptySeq DEF EndTick, Lists
  <2>2. QED BY <1>17, <1>20, <2>1 DEF EndTick, TaskInv
<1>21. CASE UNCHANGED vars
  <2>1. Lists' = Lists
    BY <1>21 DEF vars, listVars, Lists
  <2>2. QED BY <1>17, <1>21, <2>1 DEF vars, TaskInv
<1>22. QED
  BY <1>2, <1>3, <1>5, <1>6, <1>8, <1>9, <1>12, <1>13, <1>14, <1>15, <1>16,
     <1>18, <1>19, <1>20, <1>21 DEF Next, Calls, Outcome, Tick

LEMMA InitTaskInv == Init => TaskInv
  BY SchedulerBounds DEF Init, TaskInv, Unborn, Blank, Running, Task

\* The invariant of the scheduler on which the theorems below rest.
SchedulerInv == TypeOK /\ RequestIdsUnique /\ IdsIssued /\ OrderInv /\ TaskInv

LEMMA SchedulerInvHolds == Spec => []SchedulerInv
<1>1. Init => TypeOK /\ IdInv /\ OrderInv /\ TaskInv
  <2>1. Init => IdInv
    BY SchedulerBounds DEF Init, IdInv, IdsIssued, RequestIdsUnique, Unborn, Blank
  <2>2. QED BY <2>1, InitType, InitOrder, InitTaskInv
<1>2. TypeOK /\ IdInv /\ OrderInv /\ TaskInv => SchedulerInv
  BY DEF SchedulerInv, IdInv
<1>3. QED
  BY <1>1, <1>2, NextType, NextIds, NextOrder, NextTaskInv, PTL DEF Spec

(***************************************************************************)
(* The answers of the Invoke handlers.                                     *)
(***************************************************************************)

\* An Invoke handler that returns is answered, once; one that raised never.
THEOREM HandlersAnswerOnce == Spec => AnsweredOnce
<1> DEFINE Rule(t) ==
        /\ answers'[t] # answers[t] => answers'[t] = 1 /\ task'[t].co = "ok"
        /\ (task[t].onComplete /\ task[t].co # "ok" /\ task'[t].co = "ok")
            => answers'[t] = 1
<1>1. ASSUME SchedulerInv, [Next]_vars, NEW t \in Task
      PROVE  Rule(t)
  <2>0. /\ task \in [Task -> KakaTask] /\ answers \in [Task -> Nat]
        /\ task[t].onComplete => answers[t] = 0
        /\ current \in Task \cup {NoTask} /\ TypeOK
    BY <1>1 DEF SchedulerInv, TypeOK, TaskInv
  <2>1. CASE Finish
    <3>1. current \in Task
      BY <2>0, <2>1 DEF Finish, Running
    <3>2. /\ t # current => task'[t] = task[t] /\ answers'[t] = answers[t]
          /\ t = current => /\ task'[t].co = "ok"
                            /\ answers'[t] = IF task[t].onComplete THEN answers[t] + 1
                                             ELSE answers[t]
      BY <2>0, <2>1, <3>1 DEF Finish, KakaTask
    <3>3. QED BY <2>0, <3>2
  \* No other step lets a coroutine return.
  <2>2. ASSUME answers' = answers, task'[t].co \in {task[t].co, "yielded", "error", "gone"}
        PROVE  Rule(t)
    BY <2>2
  <2>3. ASSUME NEW rec, rec.co = "yielded", Enqueue(rec), answers' = answers
        PROVE  Rule(t)
    BY <2>0, <2>2, <2>3 DEF Enqueue
  <2>4. CASE Calls
    <3>1. CASE \/ SpawnWithArgs \/ SpawnWithCallback
               \/ \E d \in Time : Spawn(d)
      BY <2>3, <3>1 DEF Spawn, SpawnWithArgs, SpawnWithCallback, Fresh, PreFulfilled, Blank
    <3>2. ASSUME NEW r \in 1..MaxRequests, FulfillByEvent(r) PROVE Rule(t)
      BY <2>0, <2>2, <3>2, FulfillKeeps DEF FulfillByEvent, Args
    <3>3. CASE Clear
      BY <2>2, <3>3 DEF Clear, Destroyed, Gone, Blank
    <3>4. CASE ScriptSuspend \/ \E d \in 1..MaxNow : ScriptWaitForChild(d)
      <4>1. task'[t].co = task[t].co /\ answers' = answers
        <5>1. Suspend /\ answers' = answers
          BY <3>4 DEF ScriptSuspend, ScriptWaitForChild
        <5>2. QED BY <2>0, <5>1 DEF Suspend, KakaTask
      <4>2. QED BY <2>2, <4>1
    <3>5. QED BY <2>4, <3>1, <3>2, <3>3, <3>4 DEF Calls
  <2>5. ASSUME NEW d \in Time, Yield(d) PROVE Rule(t)
    <3>1. task'[t].co = task[t].co /\ answers' = answers
      BY <2>0, <2>5 DEF Yield, KakaTask
    <3>2. QED BY <2>2, <3>1
  <2>6. CASE Fail
    <3>1. task'[t].co \in {task[t].co, "error"} /\ answers' = answers
      BY <2>0, <2>6 DEF Fail, KakaTask
    <3>2. QED BY <2>2, <3>1
  <2>7. CASE Resume
    <3>1. task'[t].co = task[t].co /\ answers' = answers
      BY <2>0, <2>7 DEF Resume, KakaTask
    <3>2. QED BY <2>2, <3>1
  <2>8. CASE SweepRemove
    BY <2>2, <2>8 DEF SweepRemove, Destroyed, Gone, Blank
  <2>9. CASE FireTimer
    <3>1. task'[t].co = task[t].co /\ answers' = answers
      BY <2>0, <2>9, FulfillKeeps DEF FireTimer, Args
    <3>2. QED BY <2>2, <3>1
  <2>10. CASE \/ Skip \/ SweepKeep \/ SkipTimer \/ EndTick
              \/ \E u \in now..MaxNow : BeginTick(u)
    BY <2>2, <2>10 DEF Skip, SweepKeep, SkipTimer, EndTick, BeginTick
  <2>11. CASE EndTasks \/ EndSweep \/ UNCHANGED vars
    BY <2>2, <2>11 DEF EndTasks, EndSweep, NextLoop, vars
  <2>12. QED
    BY <1>1, <2>1, <2>4, <2>5, <2>6, <2>7, <2>8, <2>9, <2>10, <2>11
       DEF Next, Outcome, Tick
<1>2. SchedulerInv /\ [Next]_vars => [\A t \in Task : Rule(t)]_vars
  BY <1>1
<1>3. QED BY <1>2, SchedulerInvHolds, PTL DEF Spec, AnsweredOnce

(***************************************************************************)
(* The refinement.  The open request of a coroutine is computed from its   *)
(* record (OpenRequest); the steps of the scheduler that matter to those   *)
(* who wait on it are steps of Requests, all the others leave every open   *)
(* request as it is.                                                       *)
(***************************************************************************)

LEMMA ContractInit == Init => Contract!RequestsInit
  BY SchedulerBounds
     DEF Init, Contract!RequestsInit, Contract!None, OpenRequest, Unborn, Blank

\* What the records of the contract are, seen from the scheduler.
LEMMA OpenRequestCases ==
    ASSUME SchedulerInv, NEW t \in Task
    PROVE  /\ task[t].co \in {"ok", "error", "gone"} => OpenRequest(t) = Contract!Over
           /\ task[t].co \notin {"ok", "error", "gone"} /\ ~task[t].waitingForRequest
                => OpenRequest(t) = Contract!None
           /\ task[t].co \notin {"ok", "error", "gone"} /\ task[t].waitingForRequest
                => OpenRequest(t) =
                     [state |-> IF task[t].responseReady THEN "answered" ELSE "waiting",
                      id    |-> task[t].requestId,
                      args  |-> task[t].pendingResponseArgs]
  BY DEF OpenRequest, Contract!Over, Contract!None

\* A step no one who waits can see.
LEMMA ContractStutter ==
    ASSUME \A t \in Task : OpenRequest(t)' = OpenRequest(t), UNCHANGED nextReq
    PROVE  UNCHANGED Contract!requests
  BY DEF Contract!requests

\* SuspendCurrentTask is Ask, or AskAgain when an answer is already there.
LEMMA ContractAsk ==
    ASSUME SchedulerInv, Running, Suspend, NEW t \in Task, t = current
    PROVE  Contract!RequestsNext
<1> DEFINE call == [u \in Task |-> OpenRequest(u)]
<1>1. /\ task \in [Task -> KakaTask] /\ nextReq \in Nat
      /\ task[t].co = "yielded"
      /\ task[t].responseReady => task[t].waitingForRequest
      /\ ~task[t].responseReady => task[t].pendingResponseArgs = NoArgs
  BY DEF SchedulerInv, TypeOK, TaskInv, Running
<1>2. /\ \A u \in Task \ {t} : task'[u] = task[u]
      /\ task'[t].co = "yielded"
      /\ task'[t].waitingForRequest
      /\ task'[t].requestId = nextReq
      /\ task'[t].responseReady = task[t].responseReady
      /\ task'[t].pendingResponseArgs = task[t].pendingResponseArgs
  BY <1>1 DEF Suspend, KakaTask
<1>3. \A u \in Task \ {t} : OpenRequest(u)' = OpenRequest(u)
  BY <1>2 DEF OpenRequest
<1>4. OpenRequest(t)' =
        [state |-> IF task[t].responseReady THEN "answered" ELSE "waiting",
         id    |-> nextReq,
         args  |-> task[t].pendingResponseArgs]
  BY <1>2 DEF OpenRequest
<1>5. nextReq' - 1 = (nextReq - 1) + 1 /\ (nextReq - 1) + 1 = nextReq
  BY <1>1 DEF Suspend
<1>6. CASE task[t].responseReady
  <2> DEFINE c == [state |-> "answered", id |-> task[t].requestId,
                   args |-> task[t].pendingResponseArgs]
  <2>1. call[t] = c
    BY <1>1, <1>6 DEF OpenRequest
  <2>2. [c EXCEPT !.id = nextReq] = OpenRequest(t)'
    BY <1>4, <1>6
  <2>3. call' = [call EXCEPT ![t] = [c EXCEPT !.id = nextReq]]
    BY <1>3, <2>2
  <2>4. c.state = "answered"
    OBVIOUS
  <2> HIDE DEF c
  <2>5. call' = [call EXCEPT ![t].id = nextReq]
    BY <2>1, <2>3
  <2>6. Contract!AskAgain(t)
    BY <1>5, <2>1, <2>4, <2>5 DEF Contract!AskAgain
  <2>7. QED BY <2>6 DEF Contract!Suspend, Contract!RequestsNext
<1>7. CASE ~task[t].responseReady
  <2>1. call[t].state \in {"none", "waiting"}
    BY <1>1, <1>7 DEF OpenRequest
  <2>2. call' = [call EXCEPT ![t] =
                    [state |-> "waiting", id |-> nextReq, args |-> NoArgs]]
    BY <1>1, <1>3, <1>4, <1>7
  <2>3. Contract!Ask(t)
    BY <1>5, <2>1, <2>2 DEF Contract!Ask, Contract!Asked
  <2>4. QED BY <2>3 DEF Contract!Suspend, Contract!RequestsNext
<1>8. QED BY <1>6, <1>7

\* FulfillRequest is Answer, or is not seen.
LEMMA ContractAnswer ==
    ASSUME SchedulerInv, NEW r \in 1..MaxRequests, NEW a \in Args,
           task' = FulfillRequest(r, a), UNCHANGED nextReq
    PROVE  Contract!RequestsNext \/ UNCHANGED Contract!requests
<1> DEFINE call == [u \in Task |-> OpenRequest(u)]
           f == FulfillRequest(r, a)
<1>0. /\ task \in [Task -> KakaTask] /\ ToSet(Lists) \subseteq Task /\ nextReq \in Nat
      /\ TypeOK
  BY ListsType DEF SchedulerInv, TypeOK
<1>1. \/ f = task
      \/ \E h \in ToSet(Lists) :
           /\ Awaits(h, r)
           /\ f = [task EXCEPT ![h] = [@ EXCEPT !.pendingResponseArgs = a,
                                               !.responseReady = TRUE]]
  BY <1>0, FulfillOne
<1>2. task' = f
  OBVIOUS
<1> HIDE DEF f
<1>3. CASE f = task
  BY <1>2, <1>3, ContractStutter DEF OpenRequest
<1>4. CASE f # task
  <2>1. PICK h \in ToSet(Lists) :
           /\ Awaits(h, r)
           /\ f = [task EXCEPT ![h] = [@ EXCEPT !.pendingResponseArgs = a,
                                               !.responseReady = TRUE]]
    BY <1>1, <1>4
  <2>2. h \in Task
    BY <1>0
  <2>3. /\ \A u \in Task \ {h} : task'[u] = task[u]
        /\ task'[h].co = task[h].co
        /\ task'[h].waitingForRequest /\ task[h].waitingForRequest
        /\ task'[h].requestId = r /\ task[h].requestId = r
        /\ task'[h].responseReady
        /\ task'[h].pendingResponseArgs = a
    BY <1>0, <1>2, <2>1, <2>2 DEF KakaTask, Awaits
  <2>4. r \in 1..nextReq - 1
    BY <1>0, <2>2, <2>3 DEF SchedulerInv, IdsIssued
  <2>5. \A u \in Task \ {h} : task[u].requestId # r
    BY <2>2, <2>3 DEF SchedulerInv, RequestIdsUnique
  <2>6. ASSUME NEW u \in Task
        PROVE  OpenRequest(u)' = IF Contract!Open(call[u]) /\ call[u].id \in {r}
                                 THEN [call[u] EXCEPT !.state = "answered", !.args = a]
                                 ELSE call[u]
    <3>1. CASE u # h
      <4>1. OpenRequest(u)' = OpenRequest(u)
        BY <2>3, <3>1 DEF OpenRequest
      <4>2. ~(Contract!Open(call[u]) /\ call[u].id \in {r})
        BY <2>5, <3>1 DEF OpenRequest, Contract!Open
      <4>3. QED BY <4>1, <4>2
    <3>2. CASE u = h /\ task[h].co \in {"ok", "error", "gone"}
      <4>1. call[u] = OpenRequest(u) /\ OpenRequest(u)' = OpenRequest(u)
        BY <2>3, <3>2 DEF OpenRequest
      <4>2. ~Contract!Open(call[u])
        BY <3>2 DEF OpenRequest, Contract!Open
      <4>3. QED BY <4>1, <4>2
    <3>3. CASE u = h /\ ~(task[h].co \in {"ok", "error", "gone"})
      <4>1. OpenRequest(u)' = [state |-> "answered", id |-> r, args |-> a]
        BY <2>3, <3>3 DEF OpenRequest
      <4>2. call[u] = [state |-> IF task[h].responseReady THEN "answered" ELSE "waiting",
                       id |-> r, args |-> task[h].pendingResponseArgs]
        BY <2>3, <3>3 DEF OpenRequest
      <4>3. /\ Contract!Open(call[u]) /\ call[u].id = r
            /\ call[u] \in [state : {"answered", "waiting"}, id : {r},
                            args : {task[h].pendingResponseArgs}]
        BY <4>2 DEF Contract!Open
      <4> HIDE DEF call
      <4>4. [call[u] EXCEPT !.state = "answered", !.args = a] =
              [state |-> "answered", id |-> r, args |-> a]
        <5> DEFINE R == [state : {"answered", "waiting"}, id : {r},
                         args : {task[h].pendingResponseArgs}]
        <5>1. \A c \in R : /\ [c EXCEPT !.state = "answered"] \in R
                           /\ [c EXCEPT !.state = "answered"].state = "answered"
                           /\ [c EXCEPT !.state = "answered", !.args = a] =
                                [[c EXCEPT !.state = "answered"] EXCEPT !.args = a]
          OBVIOUS
        <5>2. \A c \in R : c.state = "answered" =>
                [c EXCEPT !.args = a] = [state |-> "answered", id |-> r, args |-> a]
          OBVIOUS
        <5> HIDE DEF R
        <5>3. \A c \in R : [c EXCEPT !.state = "answered", !.args = a] =
                              [state |-> "answered", id |-> r, args |-> a]
          BY <5>1, <5>2
        <5>4. QED BY <4>3, <5>3 DEF R
      <4>5. QED BY <4>1, <4>3, <4>4
    <3>4. QED BY <3>1, <3>2, <3>3
  <2>7. call' = Contract!Answered(call, {r}, a)
    BY <2>6 DEF Contract!Answered
  <2>8. Contract!Answer(r, a)
    BY <2>4, <2>7 DEF Contract!Answer
  <2>9. QED BY <2>4, <2>8 DEF Contract!RequestsNext
<1>5. QED BY <1>3, <1>4

\* Coroutines of S end.
LEMMA ContractEnd ==
    ASSUME NEW S \in SUBSET Task, UNCHANGED nextReq,
           \A t \in S : task'[t].co \in {"ok", "error", "gone"},
           \A t \in Task \ S : task'[t] = task[t]
    PROVE  Contract!RequestsNext
<1>1. \A t \in S : OpenRequest(t)' = Contract!Over
  BY DEF OpenRequest, Contract!Over, Contract!None
<1>2. \A t \in Task \ S : OpenRequest(t)' = OpenRequest(t)
  BY DEF OpenRequest
<1>3. Contract!End(S)
  BY <1>1, <1>2 DEF Contract!End
<1>4. QED BY <1>3 DEF Contract!RequestsNext

\* A new coroutine: asleep, or with arguments for its first run.
LEMMA ContractStart ==
    ASSUME SchedulerInv, NEW rec, Enqueue(rec), UNCHANGED nextReq,
           rec.co = "yielded", rec.requestId = 0,
           \/ ~rec.waitingForRequest
           \/ rec.waitingForRequest /\ rec.responseReady /\ rec.pendingResponseArgs = SomeArg
    PROVE  Contract!RequestsNext \/ UNCHANGED Contract!requests
<1>1. /\ task \in [Task -> KakaTask] /\ nextTask \in Task
      /\ \A u \in Task : task'[u] = IF u = nextTask THEN rec ELSE task[u]
  BY SchedulerBounds DEF SchedulerInv, TypeOK, Enqueue, Task
<1>2. OpenRequest(nextTask) = Contract!None
  BY <1>1, SchedulerBounds
     DEF SchedulerInv, TaskInv, Task, OpenRequest, Contract!None, Unborn, Blank
<1>3. \A u \in Task \ {nextTask} : OpenRequest(u)' = OpenRequest(u)
  BY <1>1 DEF OpenRequest
<1>a. \A u \in Task : u = nextTask => task'[u] = rec
  BY <1>1
<1>4. CASE ~rec.waitingForRequest
  <2>1. \A u \in Task : u = nextTask => OpenRequest(u)' = Contract!None
    BY <1>4, <1>a DEF OpenRequest, Contract!None
  <2>2. \A u \in Task : OpenRequest(u)' = OpenRequest(u)
    BY <1>2, <1>3, <2>1
  <2>3. QED BY <2>2, ContractStutter
<1>5. CASE rec.waitingForRequest
  <2> DEFINE k == [state |-> "answered", id |-> 0, args |-> SomeArg]
             call == [u \in Task |-> OpenRequest(u)]
  <2>1. \A u \in Task : u = nextTask => OpenRequest(u)' = k
    BY <1>5, <1>a DEF OpenRequest
  <2>2. call' = [call EXCEPT ![nextTask] = k]
    BY <1>1, <1>3, <2>1
  <2>3. Contract!Start(nextTask, SomeArg)
    BY <1>1, <1>2, <2>2 DEF Contract!Start
  <2>4. QED BY <1>1, <2>3 DEF Contract!RequestsNext, Args
<1>6. QED BY <1>4, <1>5

\* Tick resumes a coroutine: it gets its answer, or it was only asleep.
LEMMA ContractResume ==
    ASSUME SchedulerInv, Resume
    PROVE  Contract!RequestsNext \/ UNCHANGED Contract!requests
<1> DEFINE t == tasks[pos]
           call == [u \in Task |-> OpenRequest(u)]
<1>1. t \in Task /\ task \in [Task -> KakaTask]
  BY DEF SchedulerInv, TypeOK, Resume, AtTask
<1>2. /\ task[t].co = "yielded" /\ UNCHANGED nextReq
      /\ task[t].waitingForRequest => task[t].responseReady
  BY DEF Resume, Due, Runnable
<1>3. /\ \A u \in Task \ {t} : task'[u] = task[u]
      /\ task'[t].co = "yielded" /\ ~task'[t].waitingForRequest
  <2>1. task' = [task EXCEPT ![t] =
                    [@ EXCEPT !.waitingForRequest = FALSE, !.responseReady = FALSE,
                              !.pendingResponseArgs = NoArgs]]
    BY DEF Resume
  <2> HIDE DEF t
  <2>2. QED BY <1>1, <1>2, <2>1 DEF KakaTask
<1> HIDE DEF t
<1>4. \A u \in Task \ {t} : OpenRequest(u)' = OpenRequest(u)
  BY <1>3 DEF OpenRequest
<1>5. \A u \in Task : u = t => OpenRequest(u)' = Contract!None
  BY <1>3 DEF OpenRequest, Contract!None
<1>6. CASE task[t].waitingForRequest
  <2>1. call[t].state = "answered"
    BY <1>1, <1>2, <1>6 DEF OpenRequest
  <2>2. call' = [call EXCEPT ![t] = Contract!None]
    BY <1>1, <1>4, <1>5
  <2>3. Contract!Resume(t)
    BY <1>2, <2>1, <2>2 DEF Contract!Resume
  <2>4. QED BY <1>1, <2>3 DEF Contract!Suspend, Contract!RequestsNext
<1>7. CASE ~task[t].waitingForRequest
  <2>1. OpenRequest(t) = Contract!None
    BY <1>2, <1>7 DEF OpenRequest, Contract!None
  <2>2. \A u \in Task : OpenRequest(u)' = OpenRequest(u)
    BY <1>4, <1>5, <2>1
  <2>3. QED BY <1>2, <2>2, ContractStutter
<1>8. QED BY <1>6, <1>7

LEMMA ContractStep ==
    ASSUME SchedulerInv, [Next]_vars
    PROVE  Contract!RequestsNext \/ UNCHANGED Contract!requests
<1>0. /\ TypeOK /\ TaskInv /\ task \in [Task -> KakaTask] /\ ToSet(Lists) \subseteq Task
      /\ Running => current \in Task /\ task[current].co = "yielded"
  BY ListsType DEF SchedulerInv, TypeOK, TaskInv, Running
<1>1. ASSUME NEW d \in Time, Spawn(d)
      PROVE  Contract!RequestsNext \/ UNCHANGED Contract!requests
  <2>1. Enqueue(Fresh(d)) /\ UNCHANGED nextReq
    BY <1>1 DEF Spawn
  <2>2. /\ Fresh(d).co = "yielded" /\ Fresh(d).requestId = 0
        /\ ~Fresh(d).waitingForRequest
    BY DEF Fresh, Blank
  <2>3. QED BY <2>1, <2>2, ContractStart
<1>2. CASE SpawnWithArgs \/ SpawnWithCallback
  <2>1. PICK b \in BOOLEAN : Enqueue(PreFulfilled(b)) /\ UNCHANGED nextReq
    BY <1>2 DEF SpawnWithArgs, SpawnWithCallback
  <2>2. /\ PreFulfilled(b).co = "yielded" /\ PreFulfilled(b).requestId = 0
        /\ PreFulfilled(b).waitingForRequest /\ PreFulfilled(b).responseReady
        /\ PreFulfilled(b).pendingResponseArgs = SomeArg
    BY DEF PreFulfilled
  <2>3. QED BY <2>1, <2>2, ContractStart
<1>3. ASSUME NEW r \in 1..MaxRequests, FulfillByEvent(r)
      PROVE  Contract!RequestsNext \/ UNCHANGED Contract!requests
  BY <1>3, ContractAnswer DEF FulfillByEvent, Args
<1>4. CASE FireTimer
  <2>1. timers[pos] \in Timer
    BY <1>0, <1>4 DEF FireTimer, AtTimer, TypeOK
  <2>2. timers[pos].req \in 1..MaxRequests
    BY <2>1 DEF Timer
  <2>3. QED BY <1>4, <2>2, ContractAnswer DEF FireTimer, Args
<1>5. CASE Clear
  <2>1. /\ \A t \in ToSet(Lists) : task'[t].co = "gone"
        /\ \A t \in Task \ ToSet(Lists) : task'[t] = task[t]
    BY <1>0, <1>5 DEF Clear, Destroyed, Gone, Blank
  <2>2. QED BY <1>0, <1>5, <2>1, ContractEnd DEF Clear
<1>6. CASE SweepRemove
  <2>1. tasks[pos] \in Task
    BY <1>0, <1>6 DEF SweepRemove, AtSweep, TypeOK
  <2>2. PICK t \in Task : t = tasks[pos]
    BY <2>1
  <2>3. task'[t].co = "gone" /\ \A u \in Task \ {t} : task'[u] = task[u]
    BY <1>6, <2>2 DEF SweepRemove, Destroyed, Gone, Blank
  <2>4. {t} \in SUBSET Task /\ UNCHANGED nextReq
    BY <1>6 DEF SweepRemove
  <2>5. QED BY <2>3, <2>4, ContractEnd
<1>7. CASE ScriptSuspend \/ \E d \in 1..MaxNow : ScriptWaitForChild(d)
  <2>1. Running /\ Suspend
    BY <1>7 DEF ScriptSuspend, ScriptWaitForChild
  <2>2. PICK t \in Task : t = current
    BY <1>0, <2>1
  <2>3. QED BY <2>1, <2>2, ContractAsk
<1>8. CASE Finish \/ Fail
  <2>1. PICK t \in Task : t = current
    BY <1>0, <1>8 DEF Finish, Fail
  <2>2. /\ task'[t].co \in {"ok", "error"}
        /\ \A u \in Task \ {t} : task'[u] = task[u]
    <3>1. CASE Finish
      BY <1>0, <2>1, <3>1 DEF Finish, KakaTask
    <3>2. CASE Fail
      BY <1>0, <2>1, <3>2 DEF Fail, KakaTask
    <3>3. QED BY <1>8, <3>1, <3>2
  <2>3. {t} \in SUBSET Task /\ UNCHANGED nextReq
    BY <1>8 DEF Finish, Fail, Return
  <2>4. QED BY <2>2, <2>3, ContractEnd
<1>9. ASSUME NEW d \in Time, Yield(d)
      PROVE  Contract!RequestsNext \/ UNCHANGED Contract!requests
  <2>1. \A u \in Task :
          /\ task'[u].co = task[u].co
          /\ task'[u].waitingForRequest = task[u].waitingForRequest
          /\ task'[u].responseReady = task[u].responseReady
          /\ task'[u].requestId = task[u].requestId
          /\ task'[u].pendingResponseArgs = task[u].pendingResponseArgs
    BY <1>0, <1>9 DEF Yield, KakaTask
  <2>2. \A u \in Task : OpenRequest(u)' = OpenRequest(u)
    BY <2>1 DEF OpenRequest
  <2>3. QED BY <1>9, <2>2, ContractStutter DEF Yield, Return
<1>10. CASE Resume
  BY <1>10, ContractResume
<1>11. ASSUME UNCHANGED <<task, nextReq>>
       PROVE  UNCHANGED Contract!requests
  <2>1. \A u \in Task : OpenRequest(u)' = OpenRequest(u)
    BY <1>11 DEF OpenRequest
  <2>2. QED BY <1>11, <2>1, ContractStutter
<1>12. CASE \/ Skip \/ SweepKeep \/ SkipTimer \/ EndTick
            \/ \E t \in now..MaxNow : BeginTick(t)
  BY <1>11, <1>12 DEF Skip, SweepKeep, SkipTimer, EndTick, BeginTick
<1>13. CASE EndTasks \/ EndSweep \/ UNCHANGED vars
  BY <1>11, <1>13 DEF EndTasks, EndSweep, NextLoop, vars
<1>14. QED
  BY <1>1, <1>2, <1>3, <1>4, <1>5, <1>6, <1>7, <1>8, <1>9, <1>10, <1>12, <1>13
     DEF Next, Calls, Outcome, Tick

\* The scheduler keeps the contract of module Requests: every answer goes to
\* the coroutine that asked, and nothing else resumes a coroutine that waits.
THEOREM SchedulerKeepsContract == Spec => RefinesRequests
<1>1. SchedulerInv /\ [Next]_vars => [Contract!RequestsNext]_(Contract!requests)
  BY ContractStep
<1>2. QED
  BY <1>1, ContractInit, SchedulerInvHolds, PTL
     DEF Spec, RefinesRequests, Contract!RequestsSpec
=============================================================================
