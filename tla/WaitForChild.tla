---------------------------- MODULE WaitForChild ----------------------------
(***************************************************************************)
(* Instance:WaitForChild (Runtime/LuaVM, Engine/FemkaDM/Instance) on a     *)
(* tree that scripts and packets change, and Signal:Wait next to it: both  *)
(* suspend coroutines of one scheduler, by ids of one counter.             *)
(*                                                                         *)
(* A coroutine asks while Tick runs it.  It need not yield then: a nested  *)
(* Lua coroutine that asks marks the task Tick runs, which goes on, may    *)
(* ask again while its request is open, and may be answered meanwhile.     *)
(* What it asks for next then finds an answer that is ready: it inherits   *)
(* that answer.                                                            *)
(*                                                                         *)
(* Who makes a change to the tree does not matter here: the main loop, a   *)
(* packet and a script all do it between two yields.  The clock is left    *)
(* out: a timer may fire at any later moment.                              *)
(***************************************************************************)
EXTENDS Signal, InstanceTree

CONSTANTS
    Root,         \* the instance everything hangs under
    Parts,        \* the other instances
    WaitedOn,     \* the instances scripts wait for children of
    Names,        \* names
    DefaultName,  \* the name of a new instance, one of Names
    MaxRequests   \* bound: requests ever made

ASSUME WaitAssumption ==
    /\ Root \notin Parts /\ Nil \notin Parts \cup {Root} \cup Coroutine
    /\ DefaultName \in Names
    /\ NoAnswer \notin Parts /\ IsFiniteSet(Parts)
    /\ Parts \cup (1..MaxFires) \cup {NoAnswer} \subseteq Answers
    /\ WaitedOn \subseteq Parts \cup {Root}
    /\ {MaxRequests, MaxConns, MaxFires} \subseteq Nat

Object == Parts \cup {Root}

VARIABLES
    current,  \* m_currentTask, Nil outside the loop of Tick
    tree,     \* m_parent, m_children, m_destroyed
    name,     \* m_name
    sought,   \* m_childWaiters: the requests waiting for a name under an object
    timers,   \* requests a timer will answer
    renamed,  \* history: the objects renamed since they got their parent
    wish      \* history: what the last request of each coroutine, since it was
              \* resumed, is for, and whether an answer was ready by then

waitVars == <<sought, timers, wish>>
vars == <<requests, signal, current, tree, name, waitVars, renamed>>

\* What a coroutine may wait for.
Nothing == [for |-> "nothing"]
Inherits(s) == call[s].state = "answered"
TheNextFire(s) == [for |-> "fire", since |-> fires, inherits |-> Inherits(s)]
TheChild(s, p, n, timed) ==
    [for |-> "child", parent |-> p, name |-> n, timed |-> timed, inherits |-> Inherits(s)]

-----------------------------------------------------------------------------
(* The tree. *)

\* The end of AddChild: those who wait under p for the name x has now are
\* answered with x, and forgotten.
Arrive(p, x) ==
    IF p \notin WaitedOn THEN UNCHANGED <<call, sought>>
    ELSE /\ call' = Answered(call, ToSet(sought[p][name[x]]), x)
         /\ sought' = [sought EXCEPT ![p][name[x]] = <<>>]

\* x.Parent = p, with p not below x.
Reparent(x, p) ==
    /\ x \notin tree.dead
    /\ p # Nil => p \notin Subtree(tree, x)
    /\ tree' = SetParent(tree, x, p)
    /\ Arrive(p, x)
    /\ renamed' = renamed \ {x}
    /\ UNCHANGED <<lastReq, signal, current, name, timers, wish>>

\* x.Name = n: nobody who waits is told.  (The name of a destroyed object,
\* which can have no parent any more, is of no interest here.)
SetName(x, n) ==
    /\ n # name[x] /\ x \notin tree.dead
    /\ name' = [name EXCEPT ![x] = n]
    /\ renamed' = IF tree.parent[x] = Nil THEN renamed ELSE renamed \cup {x}
    /\ UNCHANGED <<requests, signal, current, tree, waitVars>>

\* x:Destroy(): its m_childWaiters stay, their coroutines keep waiting.
DestroyObject(x) ==
    /\ x \notin tree.dead
    /\ tree' = Destroy(tree, x)
    /\ renamed' = renamed \ Subtree(tree, x)
    /\ UNCHANGED <<requests, signal, current, name, waitVars>>

-----------------------------------------------------------------------------
(* Coroutines. *)

\* Mutant of Yield: every waiter of the name is dropped by a new one.
YieldAlone(s, p, n, timed) ==
    /\ lastReq < MaxRequests
    /\ Suspend(s)
    /\ sought' = [sought EXCEPT ![p][n] = <<lastReq'>>]
    /\ timers' = IF timed THEN timers \cup {lastReq'} ELSE timers

\* __WaitForChildYield: suspend, register, and arm a timer if there is one.
Yield(s, p, n, timed) ==
    /\ lastReq < MaxRequests
    /\ Suspend(s)
    /\ sought' = [sought EXCEPT ![p][n] = Append(@, lastReq')]
    /\ timers' = IF timed THEN timers \cup {lastReq'} ELSE timers

\* p:WaitForChild(n, timeout) of the coroutine that runs.  A child that is
\* there is returned at once, and nothing changes.
WaitForChild(s, p, n, timed) ==
    /\ current = s
    /\ FindFirstChild(tree, name, p, n) = Nil
    /\ Yield(s, p, n, timed)
    /\ wish' = [wish EXCEPT ![s] = TheChild(s, p, n, timed)]
    /\ UNCHANGED <<signal, current, tree, name, renamed>>

\* signal:Wait() of the coroutine that runs.
WaitForFire(s) ==
    /\ current = s
    /\ lastReq < MaxRequests
    /\ Wait(s)
    /\ wish' = [wish EXCEPT ![s] = TheNextFire(s)]
    /\ UNCHANGED <<current, tree, name, sought, timers, renamed>>

\* After the tasks, Tick fires timers: that of request r calls
\* FulfillRequest(r, {}).
FireTimer(r) ==
    /\ current = Nil
    /\ r \in timers
    /\ timers' = timers \ {r}
    /\ call' = Answered(call, {r}, NoAnswer)
    /\ UNCHANGED <<lastReq, signal, current, tree, name, sought, wish, renamed>>

\* Tick resumes a coroutine: one that is answered, with its answer, or one
\* that only sleeps.
RunOn(s) ==
    /\ current = Nil /\ current' = s
    /\ Resume(s) \/ (call[s] = None /\ UNCHANGED requests)
    /\ wish' = [wish EXCEPT ![s] = Nothing]
    /\ UNCHANGED <<signal, tree, name, sought, timers, renamed>>

\* The coroutine comes back to Tick, with or without a request.
GiveUp ==
    /\ current # Nil /\ current' = Nil
    /\ UNCHANGED <<requests, signal, tree, name, waitVars, renamed>>

\* It has returned or raised; the ids of its requests stay where they are.
Finish(s) ==
    /\ current = s /\ current' = Nil
    /\ End({s})
    /\ wish' = [wish EXCEPT ![s] = Nothing]
    /\ UNCHANGED <<signal, tree, name, sought, timers, renamed>>

OnSignal(A) == A /\ UNCHANGED <<current, tree, name, waitVars, renamed>>

Init ==
    /\ call = [s \in Coroutine |-> None] /\ lastReq = 0
    /\ SignalInit
    /\ current = Nil
    /\ tree = [parent |-> [x \in Object |-> Nil],
               kids |-> [x \in Object |-> <<>>], dead |-> {}]
    /\ name = [x \in Object |-> DefaultName]
    /\ sought = [x \in WaitedOn |-> [n \in Names |-> <<>>]]
    /\ timers = {}
    /\ renamed = {}
    /\ wish = [s \in Coroutine |-> Nothing]

Next ==
    \/ \E x \in Parts, p \in Object \cup {Nil} : Reparent(x, p)
    \/ \E x \in Parts, n \in Names : SetName(x, n)
    \/ \E x \in Parts : DestroyObject(x)
    \/ \E s \in Coroutine, p \in WaitedOn, n \in Names, timed \in BOOLEAN :
          WaitForChild(s, p, n, timed)
    \/ \E s \in Coroutine : WaitForFire(s) \/ RunOn(s) \/ Finish(s)
    \/ GiveUp
    \/ \E r \in 1..MaxRequests : FireTimer(r)
    \/ \E once \in BOOLEAN : OnSignal(Connect(once) /\ UNCHANGED requests)
    \/ \E c \in 1..MaxConns : OnSignal(RemoveConnection(c) /\ UNCHANGED requests)
    \/ OnSignal(Fire)

Spec == Init /\ [][Next]_vars
-----------------------------------------------------------------------------
(* Properties. *)

\* Every variable keeps its type.
TypeOK ==
    /\ \A s \in Coroutine :
          /\ call[s].state \in {"none", "waiting", "answered", "over"}
          /\ call[s].id \in 0..MaxRequests
          /\ call[s].args \in Answers
    /\ lastReq \in 0..MaxRequests
    /\ current \in Coroutine \cup {Nil}
    /\ tree \in Tree(Object) /\ name \in [Object -> Names]
    /\ sought \in [WaitedOn -> [Names -> Seq(1..MaxRequests)]]
    /\ timers \subseteq 1..MaxRequests
    /\ ToSet(waiters) \subseteq 1..MaxRequests
    /\ nextConnId \in 1..MaxConns + 1 /\ fires \in 0..MaxFires

\* Whoever waits for a child misses only a child that was given the name
\* after it was given its parent, which no code tells the waiters: AddChild
\* looks up the name the child has when it arrives.
NoChildMissed ==
    \A s \in Coroutine :
        (call[s].state = "waiting" /\ wish[s].for = "child") =>
            \A x \in ToSet(tree.kids[wish[s].parent]) :
                name[x] = wish[s].name => x \in renamed

\* Signal:Wait is answered with the arguments of the first Fire after it,
\* also when the signal is fired again before the coroutine runs, and also
\* when the coroutine had an answer ready as it called Wait.  Only if there
\* is no Fire until it runs does it get that earlier answer; without one it
\* waits.
WaitGetsNextFire ==
    \A s \in Coroutine :
        wish[s].for = "fire" =>
            IF wish[s].since < fires
            THEN call[s].state = "answered" /\ call[s].args = wish[s].since + 1
            ELSE call[s].state = IF wish[s].inherits THEN "answered" ELSE "waiting"

\* No Fire is missed, by who waits for it or is connected.
NoFireMissed == WaitGetsNextFire /\ HandlersHearAll

\* An answer that a request is given is one it asked for: the Fire, a child
\* that has just arrived with that name under that parent, or nothing if
\* there was a timeout (which may come after the child and replace it, see
\* KakaScheduler!FirstAnswerWins).  An id left behind in m_waiters, in
\* m_childWaiters or in m_timers, by a request that was answered, or that its
\* coroutine has given up for another one, never answers that one.  The one
\* other way to an answer is to inherit it: a request made with an answer
\* ready keeps that answer, which the same coroutine had asked for before.
Given(w, a) ==
    CASE w.for = "fire"  -> a = fires'
      [] w.for = "child" -> IF a = NoAnswer THEN w.timed
                            ELSE a \in ToSet(tree'.kids[w.parent]) /\ name[a] = w.name

AnswerIsWanted ==
    [][\A s \in Coroutine :
        (call'[s].state = "answered" /\ call'[s] # call[s]) =>
            IF call'[s].id = call[s].id
            THEN Given(wish[s], call'[s].args)
            ELSE /\ wish'[s].inherits
                 /\ call[s].state = "answered" /\ call'[s].args = call[s].args]_vars
=============================================================================
