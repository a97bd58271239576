------------------------------ MODULE Requests ------------------------------
(***************************************************************************)
(* What the scheduler promises to those who suspend coroutines on it       *)
(* (Signal, NetworkEvent, Instance:WaitForChild): a coroutine that waits   *)
(* is resumed with an answer given to its own request, or with one it had  *)
(* not taken yet when it asked again, and by nothing else.  KakaScheduler  *)
(* implements this module; Signal builds on it.                            *)
(***************************************************************************)
EXTENDS Naturals

CONSTANTS
    Coroutine,   \* the coroutines
    Answers,     \* what a request can be answered with
    NoAnswer     \* the empty argument vector, one of Answers

VARIABLES
    call,     \* of each coroutine: its open request
    lastReq   \* the last request id given out

requests == <<call, lastReq>>

None == [state |-> "none", id |-> 0, args |-> NoAnswer]
Over == [None EXCEPT !.state = "over"]

\* Mutant of Asked: ids are not counted.
AskedSameId(t) ==
    [call EXCEPT ![t] = [state |-> "waiting", id |-> 1, args |-> NoAnswer]]

\* SuspendCurrentTask: a new request of coroutine t.
Asked(t) ==
    [call EXCEPT ![t] = [state |-> "waiting", id |-> lastReq + 1,
                         args |-> NoAnswer]]

Open(k) == k.state \in {"waiting", "answered"}

\* FulfillRequest for each id of R: the coroutine with that open request is
\* answered; one that has been answered and has not run yet gets the later
\* answer.
Answered(k, R, a) ==
    [t \in Coroutine |-> IF Open(k[t]) /\ k[t].id \in R
                         THEN [k[t] EXCEPT !.state = "answered", !.args = a]
                         ELSE k[t]]

Ask(t) ==
    /\ call[t].state \in {"none", "waiting"}
    /\ call' = Asked(t)
    /\ lastReq' = lastReq + 1

\* Only a coroutine that runs on after asking (the sandbox exposes coroutine)
\* can be answered before it asks again: the new request inherits the answer.
AskAgain(t) ==
    /\ call[t].state = "answered"
    /\ call' = [call EXCEPT ![t].id = lastReq + 1]
    /\ lastReq' = lastReq + 1

\* SuspendCurrentTask, whatever the request of t is by then.
Suspend(t) == Ask(t) \/ AskAgain(t)

Answer(r, a) ==
    /\ r \in 1..lastReq
    /\ call' = Answered(call, {r}, a)
    /\ UNCHANGED lastReq

\* A coroutine that is given arguments for its first run.
Start(t, a) ==
    /\ call[t] = None
    /\ call' = [call EXCEPT ![t] = [state |-> "answered", id |-> 0, args |-> a]]
    /\ UNCHANGED lastReq

\* The answer is handed over and the coroutine runs on.
Resume(t) ==
    /\ call[t].state = "answered"
    /\ call' = [call EXCEPT ![t] = None]
    /\ UNCHANGED lastReq

\* Coroutines end, or are cleared away.
End(S) ==
    /\ call' = [t \in Coroutine |-> IF t \in S THEN Over ELSE call[t]]
    /\ UNCHANGED lastReq

RequestsInit == call = [t \in Coroutine |-> None] /\ lastReq = 0

RequestsNext ==
    \/ \E t \in Coroutine :
          \/ Suspend(t) \/ Resume(t)
          \/ \E a \in Answers : Start(t, a)
    \/ \E r \in 1..lastReq, a \in Answers : Answer(r, a)
    \/ \E S \in SUBSET Coroutine : End(S)

RequestsSpec == RequestsInit /\ [][RequestsNext]_requests
=============================================================================
