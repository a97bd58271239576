--------------------------- MODULE KakaScheduler ---------------------------
(***************************************************************************)
(* The coroutine scheduler of the engine: Engine/Scripting/KakaScheduler.  *)
(*                                                                         *)
(* One thread runs everything.  The main loop alternates Engine::Poll and  *)
(* KakaScheduler::Tick; a Tick walks m_tasks and resumes, one after the    *)
(* other, every coroutine that is due; between two yields a script runs    *)
(* without interruption and may call back into the scheduler (Spawn*,      *)
(* SuspendCurrentTask, FulfillRequest, CallLater).  A step of this module  *)
(* is one such call, so a Tick is a sequence of steps.                     *)
(*                                                                         *)
(* The text of a script is abstracted to the calls it makes: while a       *)
(* coroutine runs, any call may come next, and it may yield, return or     *)
(* raise at any point.  In particular it may go on after                   *)
(* SuspendCurrentTask, which is what happens when the suspending call was  *)
(* made inside a nested coroutine (the sandbox exposes `coroutine').       *)
(***************************************************************************)
EXTENDS Integers, SequencesExt

CONSTANTS
    MaxTasks,     \* bound: coroutines ever spawned
    MaxRequests,  \* bound: request ids ever issued
    MaxNow        \* bound: the clock, in abstract units

ASSUME SchedulerBounds ==
    /\ MaxTasks \in Nat \ {0}
    /\ MaxRequests \in Nat
    /\ MaxNow \in Nat

Task   == 1..MaxTasks
NoTask == 0
Time   == 0..MaxNow

\* What a resume delivers: nothing (an empty argument vector) or a value.
NoArgs  == "none"
SomeArg == "value"
Args    == {NoArgs, SomeArg}

\* sol::call_status of the coroutine; "unborn" before the task exists, "gone"
\* once it is destroyed.
CallStatus == {"unborn", "yielded", "ok", "error", "gone"}

\* struct KakaTask
KakaTask == [co : CallStatus, resumeAt : Time, waitingForRequest : BOOLEAN,
             responseReady : BOOLEAN, requestId : 0..MaxRequests,
             pendingResponseArgs : Args, onComplete : BOOLEAN]

\* An entry of m_timers: the WaitForChild timeout of request `req'.
Timer == [fireAt : Time, req : 1..MaxRequests]

Phases == {"poll", "tasks", "sweep", "timers"}

VARIABLES
    now,         \* m_now
    phase,       \* where the main loop is; m_ticking is phase # "poll"
    task,        \* the KakaTask objects, by order of creation
    tasks,       \* m_tasks
    pending,     \* m_pending
    pos,         \* the iterator of the loops over m_tasks and over m_timers
    current,     \* m_currentTask
    nextTask,    \* the next element of Task to be created
    nextReq,     \* m_nextRequestId
    timers,      \* m_timers
    waiters,     \* ids held outside: Signal::m_waiters, Instance::m_childWaiters,
                 \* the peer of a RemoteFunction request
    answers      \* how often the task's onComplete has been called

listVars == <<tasks, pending>>
vars == <<now, phase, task, tasks, pending, pos, current, nextTask, nextReq,
          timers, waiters, answers>>

Blank(status, at) ==
    [co |-> status, resumeAt |-> at, waitingForRequest |-> FALSE,
     responseReady |-> FALSE, requestId |-> 0,
     pendingResponseArgs |-> NoArgs, onComplete |-> FALSE]

Unborn == Blank("unborn", 0)
Gone   == Blank("gone", 0)

m_ticking == phase # "poll"
Running   == current # NoTask
Runnable(t) == task[t].co = "yielded"

\* Tasks the scheduler holds, in the order FulfillRequest searches them.
Lists == tasks \o pending

-----------------------------------------------------------------------------
(* The helpers behind the operations. *)

\* Mutant of Enqueue: m_ticking is not looked at.
EnqueueIgnoringTick(record) ==
    /\ nextTask <= MaxTasks
    /\ task' = [task EXCEPT ![nextTask] = record]
    /\ nextTask' = nextTask + 1
    /\ tasks' = Append(tasks, nextTask)
    /\ UNCHANGED pending

\* Common part of Spawn, SpawnWithArgs and SpawnWithCallback: a new task goes
\* to m_pending during a Tick and straight to m_tasks outside one.
Enqueue(record) ==
    /\ nextTask <= MaxTasks
    /\ task' = [task EXCEPT ![nextTask] = record]
    /\ nextTask' = nextTask + 1
    /\ IF m_ticking
       THEN /\ pending' = Append(pending, nextTask)
            /\ UNCHANGED tasks
       ELSE /\ tasks' = Append(tasks, nextTask)
            /\ UNCHANGED pending

\* Mutant of Fresh: off by one.
FreshLate(delay) == Blank("yielded", now + delay + 1)

Fresh(delay) == Blank("yielded", now + delay)

\* A task whose first resume delivers its arguments: a request that is
\* already answered.
PreFulfilled(callback) ==
    [co |-> "yielded", resumeAt |-> now, waitingForRequest |-> TRUE,
     responseReady |-> TRUE, requestId |-> 0,
     pendingResponseArgs |-> SomeArg, onComplete |-> callback]

Awaits(t, r) == task[t].waitingForRequest /\ task[t].requestId = r

\* Mutant of FulfillRequest: m_tasks is not searched.
FulfillPendingOnly(r, args) ==
    LET hits == {i \in 1..Len(pending) : Awaits(pending[i], r)}
        hit  == pending[CHOOSE i \in hits : \A j \in hits : i <= j]
    IN  IF hits = {} THEN task
        ELSE [task EXCEPT ![hit] = [@ EXCEPT !.pendingResponseArgs = args,
                                             !.responseReady = TRUE]]

\* FulfillRequest: the first task of m_tasks, then of m_pending, that waits
\* for r gets the arguments; whether it is answered already is not tested.
FulfillRequest(r, args) ==
    LET hits == {i \in 1..Len(Lists) : Awaits(Lists[i], r)}
        hit  == Lists[CHOOSE i \in hits : \A j \in hits : i <= j]
    IN  IF hits = {} THEN task
        ELSE [task EXCEPT ![hit] = [@ EXCEPT !.pendingResponseArgs = args,
                                             !.responseReady = TRUE]]

\* Mutants of Due: an answer is not looked at; the clock is not looked at.
DueUnasked(t)  == ~task[t].waitingForRequest /\ task[t].resumeAt <= now
DueAnswered(t) == task[t].responseReady

\* Tick resumes a suspended task only when its request is answered, and any
\* other task only when its time has come.
Due(t) == IF task[t].waitingForRequest THEN task[t].responseReady
          ELSE task[t].resumeAt <= now

-----------------------------------------------------------------------------
(* Operations of the C++ side and of a running script. *)

\* Spawn, called by the main program, by spawn() or by delay().
Spawn(delay) ==
    /\ phase = "poll" \/ Running
    /\ now + delay <= MaxNow
    /\ Enqueue(Fresh(delay))
    /\ UNCHANGED <<now, phase, pos, current, nextReq, timers, waiters, answers>>

\* SpawnWithArgs, called by Signal::Fire for every connection.
SpawnWithArgs ==
    /\ phase = "poll" \/ Running
    /\ Enqueue(PreFulfilled(FALSE))
    /\ UNCHANGED <<now, phase, pos, current, nextReq, timers, waiters, answers>>

\* SpawnWithCallback, called by NetworkEvent::DispatchInvokeRequest in Poll.
SpawnWithCallback ==
    /\ phase = "poll"
    /\ Enqueue(PreFulfilled(TRUE))
    /\ UNCHANGED <<now, phase, pos, current, nextReq, timers, waiters, answers>>

\* A Signal fires, a child appears or a response packet arrives: the holder
\* of id r forgets it and calls FulfillRequest.
FulfillByEvent(r) ==
    /\ phase = "poll" \/ Running
    /\ r \in waiters
    /\ waiters' = waiters \ {r}
    /\ task' = FulfillRequest(r, SomeArg)
    /\ UNCHANGED <<now, phase, listVars, pos, current, nextTask, nextReq,
                   timers, answers>>

\* The tasks of S are destroyed.
Destroyed(S) == [t \in Task |-> IF t \in S THEN Gone ELSE task[t]]

\* Clear: both lists are emptied, the timers and the waiters are not.
Clear ==
    /\ phase = "poll"
    /\ tasks' = <<>> /\ pending' = <<>>
    /\ task' = Destroyed(ToSet(Lists))
    /\ UNCHANGED <<now, phase, pos, current, nextTask, nextReq, timers,
                   waiters, answers>>

\* Mutant of Suspend: m_nextRequestId is not incremented.
SuspendSameId ==
    /\ waiters' = waiters \cup {nextReq}
    /\ nextReq <= MaxRequests
    /\ UNCHANGED nextReq
    /\ task' = [task EXCEPT ![current] = [@ EXCEPT !.waitingForRequest = TRUE,
                                                  !.requestId = nextReq]]

\* SuspendCurrentTask, from Signal:Wait, Invoke* or WaitForChild; the id is
\* registered with whoever will fulfil it.
Suspend ==
    /\ waiters' = waiters \cup {nextReq}
    /\ nextReq <= MaxRequests
    /\ nextReq' = nextReq + 1
    /\ task' = [task EXCEPT ![current] = [@ EXCEPT !.waitingForRequest = TRUE,
                                                  !.requestId = nextReq]]

ScriptSuspend ==
    /\ Running
    /\ Suspend
    /\ UNCHANGED <<now, phase, listVars, pos, current, nextTask, timers, answers>>

\* WaitForChild(name, timeout): the same, and CallLater races the child.
ScriptWaitForChild(timeout) ==
    /\ Running
    /\ now + timeout <= MaxNow
    /\ Suspend
    /\ timers' = Append(timers, [fireAt |-> now + timeout, req |-> nextReq])
    /\ UNCHANGED <<now, phase, listVars, pos, current, nextTask, answers>>

-----------------------------------------------------------------------------
(* The outcomes of a resume. *)

\* task.co() returned to Tick: go on with the next element.
Return == /\ current' = NoTask
          /\ pos' = pos + 1
          /\ UNCHANGED <<now, phase, listVars, nextTask, nextReq, timers, waiters>>

\* The coroutine yielded.  If it suspended itself its time is left alone,
\* otherwise the yielded number of seconds, 0 without one, is added to now.
Yield(delay) ==
    /\ Running
    /\ now + delay <= MaxNow
    /\ task' = IF task[current].waitingForRequest THEN task
               ELSE [task EXCEPT ![current] = [@ EXCEPT !.resumeAt = now + delay]]
    /\ Return
    /\ UNCHANGED answers

\* The coroutine returned: onComplete gets the results, once.
Finish ==
    /\ Running
    /\ task' = [task EXCEPT ![current] = [@ EXCEPT !.co = "ok",
                                                  !.onComplete = FALSE]]
    /\ answers' = IF task[current].onComplete
                  THEN [answers EXCEPT ![current] = @ + 1] ELSE answers
    /\ Return

\* Mutant of Fail: an error is answered like a return.
FailAnswered ==
    /\ Running
    /\ task' = [task EXCEPT ![current] = [@ EXCEPT !.co = "error",
                                                  !.onComplete = FALSE]]
    /\ answers' = IF task[current].onComplete
                  THEN [answers EXCEPT ![current] = @ + 1] ELSE answers
    /\ Return

\* The coroutine raised an error: it is logged, onComplete is not called.
Fail ==
    /\ Running
    /\ task' = [task EXCEPT ![current] = [@ EXCEPT !.co = "error"]]
    /\ Return
    /\ UNCHANGED answers

-----------------------------------------------------------------------------
(* Tick. *)

BeginTick(t) ==
    /\ phase = "poll"
    /\ now' = t
    /\ phase' = "tasks"
    /\ pos' = 1
    /\ UNCHANGED <<task, listVars, current, nextTask, nextReq, timers, waiters,
                   answers>>

AtTask == phase = "tasks" /\ ~Running /\ pos <= Len(tasks)

Skip ==
    /\ AtTask
    /\ ~(Due(tasks[pos]) /\ Runnable(tasks[pos]))
    /\ pos' = pos + 1
    /\ UNCHANGED <<now, phase, task, listVars, current, nextTask, nextReq,
                   timers, waiters, answers>>

\* The flags are cleared and the arguments moved out before the coroutine
\* runs, so that a suspension made by the resumed code is a new one.
Resume ==
    /\ AtTask
    /\ Due(tasks[pos]) /\ Runnable(tasks[pos])
    /\ current' = tasks[pos]
    /\ task' = [task EXCEPT ![tasks[pos]] =
                    [@ EXCEPT !.waitingForRequest = FALSE, !.responseReady = FALSE,
                              !.pendingResponseArgs = NoArgs]]
    /\ UNCHANGED <<now, phase, listVars, pos, nextTask, nextReq, timers,
                   waiters, answers>>

\* The end of one loop of Tick starts the next.
NextLoop(from, to, length) ==
    /\ phase = from /\ ~Running /\ pos > length
    /\ phase' = to
    /\ pos' = 1
    /\ UNCHANGED <<now, task, listVars, current, nextTask, nextReq, timers,
                   waiters, answers>>

EndTasks == NextLoop("tasks", "sweep", Len(tasks))
EndSweep == NextLoop("sweep", "timers", Len(tasks))

\* m_tasks.remove_if(not runnable), one element at a time.
AtSweep == phase = "sweep" /\ pos <= Len(tasks)

SweepKeep ==
    /\ AtSweep
    /\ Runnable(tasks[pos])
    /\ pos' = pos + 1
    /\ UNCHANGED <<now, phase, task, listVars, current, nextTask, nextReq,
                   timers, waiters, answers>>

SweepRemove ==
    /\ AtSweep
    /\ ~Runnable(tasks[pos])
    /\ tasks' = RemoveAt(tasks, pos)
    /\ task' = Destroyed({tasks[pos]})
    /\ UNCHANGED <<now, phase, pending, pos, current, nextTask, nextReq,
                   timers, waiters, answers>>

AtTimer == phase = "timers" /\ pos <= Len(timers)

\* A due timer is erased, then its callback runs FulfillRequest(Id, {}).
FireTimer ==
    /\ AtTimer
    /\ now >= timers[pos].fireAt
    /\ timers' = RemoveAt(timers, pos)
    /\ task' = FulfillRequest(timers[pos].req, NoArgs)
    /\ UNCHANGED <<now, phase, listVars, pos, current, nextTask, nextReq,
                   waiters, answers>>

SkipTimer ==
    /\ AtTimer
    /\ now < timers[pos].fireAt
    /\ pos' = pos + 1
    /\ UNCHANGED <<now, phase, task, listVars, current, nextTask, nextReq,
                   timers, waiters, answers>>

\* Mutant of EndTick: m_pending is emptied before it is moved.
EndTickDrops ==
    /\ phase = "timers" /\ pos > Len(timers)
    /\ phase' = "poll"
    /\ pending' = <<>>
    /\ pos' = 1
    /\ UNCHANGED <<now, task, tasks, current, nextTask, nextReq, timers, waiters,
                   answers>>

\* m_ticking = false; FlushPending().
EndTick ==
    /\ phase = "timers" /\ pos > Len(timers)
    /\ phase' = "poll"
    /\ tasks' = tasks \o pending
    /\ pending' = <<>>
    /\ pos' = 1
    /\ UNCHANGED <<now, task, current, nextTask, nextReq, timers, waiters,
                   answers>>

-----------------------------------------------------------------------------
Init ==
    /\ now = 0 /\ phase = "poll"
    /\ task = [t \in Task |-> Unborn]
    /\ tasks = <<>> /\ pending = <<>>
    /\ pos = 1 /\ current = NoTask
    /\ nextTask = 1 /\ nextReq = 1
    /\ timers = <<>> /\ waiters = {}
    /\ answers = [t \in Task |-> 0]

Calls ==
    \/ \E d \in Time : Spawn(d)
    \/ SpawnWithArgs
    \/ SpawnWithCallback
    \/ \E r \in 1..MaxRequests : FulfillByEvent(r)
    \/ Clear
    \/ ScriptSuspend
    \/ \E d \in 1..MaxNow : ScriptWaitForChild(d)

Outcome == (\E d \in Time : Yield(d)) \/ Finish \/ Fail

Tick ==
    \/ \E t \in now..MaxNow : BeginTick(t)
    \/ Skip \/ Resume \/ EndTasks
    \/ SweepKeep \/ SweepRemove \/ EndSweep
    \/ FireTimer \/ SkipTimer \/ EndTick

Next == Calls \/ Outcome \/ Tick

Spec == Init /\ [][Next]_vars

(* The main loop never stops calling Tick, its steady clock advances (strong *)
(* fairness, as a Tick in progress disables it), and a script that runs      *)
(* comes back: the loop has no preemption and no other exit.                 *)
Fairness ==
    /\ WF_vars(Tick)
    /\ SF_vars(\E t \in now + 1..MaxNow : BeginTick(t))
    /\ WF_vars(Outcome)

FairSpec == Spec /\ Fairness

-----------------------------------------------------------------------------
(* Properties. *)

\* Every variable keeps its type.
TypeOK ==
    /\ now \in Time /\ phase \in Phases
    /\ task \in [Task -> KakaTask]
    /\ tasks \in Seq(Task) /\ pending \in Seq(Task)
    /\ pos \in Nat \ {0}
    /\ current \in Task \cup {NoTask}
    /\ nextTask \in 1..MaxTasks + 1
    /\ nextReq \in 1..MaxRequests + 1
    /\ timers \in Seq(Timer)
    /\ waiters \subseteq 1..MaxRequests
    /\ answers \in [Task -> Nat]

\* No task is duplicated or overtaken: m_tasks followed by m_pending is always
\* in the order of creation, so resumes are first come, first served and a
\* suspended coroutine is in at most one list.
CreationOrder == \A i, j \in 1..Len(Lists) : i < j => Lists[i] < Lists[j]

\* No task is lost: one that can still be resumed stays in the lists through
\* sweeps, flushes and spawns, and leaves them only by Clear.
NoneLost ==
    \A t \in ToSet(Lists) : t \in ToSet(Lists)' \/ ~Runnable(t) \/ Clear

\* What Tick erases, flushes and diverts keeps the queue: no task that can be
\* resumed is lost, duplicated or overtaken.
SpawnOrder == []CreationOrder /\ [][NoneLost]_vars

\* Two suspended coroutines never wait for the same request, so that
\* FulfillRequest's "first match" is the only match.  Requests that are born
\* answered (SpawnWithArgs) have id 0 and are excluded.
RequestIdsUnique ==
    \A t, u \in Task :
        /\ task[t].requestId # 0 /\ task[t].requestId = task[u].requestId
        => t = u

Suspended(t) == Runnable(t) /\ task[t].waitingForRequest /\ ~task[t].responseReady
Timed(r)      == \E i \in 1..Len(timers) : timers[i].req = r
Answerable(r) == r \in waiters \/ Timed(r)

\* A coroutine that is suspended without an answer can still be answered:
\* its id is held by a waiter list, a peer or a timer.  A FulfillRequest that
\* missed its task, or a flag cleared too late in Tick, would break this.
NoLostWakeup ==
    \A t \in ToSet(Lists) : Suspended(t) => Answerable(task[t].requestId)

\* An Invoke handler is answered exactly when it returned normally, however
\* often it yielded before; a handler that raised is never answered.
AnsweredOnce ==
    [][\A t \in Task :
        /\ answers'[t] # answers[t] => answers'[t] = 1 /\ task'[t].co = "ok"
        /\ (task[t].onComplete /\ task[t].co # "ok" /\ task'[t].co = "ok")
            => answers'[t] = 1]_vars

\* The list Tick iterates does not change under the iteration: whatever the
\* resumed scripts call, a Tick resumes each task at most once and a script
\* that keeps spawning cannot keep a Tick from ending.
IterationStable == [][phase = "tasks" /\ phase' = "tasks" => tasks' = tasks]_vars

\* Whichever answer comes first wins: a value that arrived before the timeout
\* is what WaitForChild returns, the later FulfillRequest of the timer is a
\* no-op (KakaScheduler.hpp:102-107, LuaVM.cpp:183-186).
FirstAnswerWins ==
    [][\A t \in Task :
        (/\ task[t].responseReady /\ task[t].pendingResponseArgs = SomeArg
         /\ task'[t].responseReady /\ task'[t].requestId = task[t].requestId)
        => task'[t].pendingResponseArgs = SomeArg]_vars

\* The request of task t as those who wait on the scheduler see it.
OpenRequest(t) ==
    IF task[t].co \in {"ok", "error", "gone"} THEN
        [state |-> "over", id |-> 0, args |-> NoArgs]
    ELSE IF ~task[t].waitingForRequest THEN
        [state |-> "none", id |-> 0, args |-> NoArgs]
    ELSE [state |-> IF task[t].responseReady THEN "answered" ELSE "waiting",
          id    |-> task[t].requestId,
          args  |-> task[t].pendingResponseArgs]

Contract == INSTANCE Requests WITH
    Coroutine <- Task, Answers <- Args, NoAnswer <- NoArgs,
    call      <- [t \in Task |-> OpenRequest(t)],
    lastReq   <- nextReq - 1

\* The scheduler keeps the contract of module Requests, with all its lists,
\* flags and loops: every answer reaches the coroutine that asked for it,
\* nothing else resumes a coroutine that waits, and none forgets its request.
RefinesRequests == Contract!RequestsSpec

\* An answered coroutine runs again (unless Clear drops it).
AnsweredResumes ==
    \A t \in Task : task[t].responseReady ~> (current = t \/ t \notin ToSet(Lists))

\* A coroutine that waits for a time runs again once that time has come.
SleeperResumes ==
    \A t \in Task :
        (t \in ToSet(Lists) /\ Runnable(t) /\ ~task[t].waitingForRequest)
            ~> (current = t \/ t \notin ToSet(Lists))

\* WaitForChild with a timeout never hangs: while its timer is armed, the
\* coroutine that waits for it will run again.
TimeoutResumes ==
    \A t \in Task :
        (Suspended(t) /\ Timed(task[t].requestId))
            ~> (current = t \/ t \notin ToSet(Lists))
=============================================================================
