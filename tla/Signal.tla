------------------------------- MODULE Signal -------------------------------
(***************************************************************************)
(* A Signal (Network/Shared/Signal): the event object scripts connect to   *)
(* and wait on.  A handler never runs inside Fire: Fire spawns a coroutine *)
(* for every connection, and it answers the requests of those in Wait.     *)
(***************************************************************************)
EXTENDS Requests, SequencesExt, Lists

CONSTANTS
    MaxConns,   \* bound: connections ever made
    MaxFires    \* bound: calls of Fire; the n-th is fired with argument n

VARIABLES
    connections,   \* m_connections
    nextConnId,    \* m_nextConnId
    waiters,       \* m_waiters
    fires          \* history: calls of Fire

signal == <<connections, nextConnId, waiters, fires>>

SignalInit ==
    /\ connections = <<>> /\ nextConnId = 1
    /\ waiters = <<>>
    /\ fires = 0

\* SetConnection and, with once, DoOnce.  The history of a connection: the
\* fires before it, and those it got a coroutine for.
Connect(once) ==
    /\ nextConnId <= MaxConns
    /\ connections' = Append(connections, [id |-> nextConnId, once |-> once,
                                           since |-> fires, heard |-> <<>>])
    /\ nextConnId' = nextConnId + 1
    /\ UNCHANGED <<waiters, fires>>

\* Every connection, before fire n, gets a coroutine that will be passed n.
Spawned(n) ==
    [i \in DOMAIN connections |->
        [connections[i] EXCEPT !.heard = Append(@, n)]]

RemoveConnection(c) ==
    /\ connections' = KeepIn(connections, {d \in ToSet(connections) : d.id # c})
    /\ UNCHANGED <<nextConnId, waiters, fires>>

\* Wait, of coroutine s.  That an earlier request of s is still open, or
\* answered, is not looked at.
Wait(s) ==
    /\ Suspend(s)
    /\ waiters' = Append(waiters, lastReq')
    /\ UNCHANGED <<connections, nextConnId, fires>>

\* Mutant of Fire: the waiters are not forgotten.
FireAgain ==
    /\ fires < MaxFires
    /\ fires' = fires + 1
    /\ connections' = KeepIn(Spawned(fires'), {c \in ToSet(Spawned(fires')) : ~c.once})
    /\ call' = Answered(call, ToSet(waiters), fires')
    /\ UNCHANGED <<waiters, lastReq, nextConnId>>

\* Fire: a coroutine per connection, the DoOnce ones leave, every waiter is
\* answered and forgotten.
Fire ==
    /\ fires < MaxFires
    /\ fires' = fires + 1
    /\ connections' = KeepIn(Spawned(fires'), {c \in ToSet(Spawned(fires')) : ~c.once})
    /\ call' = Answered(call, ToSet(waiters), fires')
    /\ waiters' = <<>>
    /\ UNCHANGED <<lastReq, nextConnId>>
-----------------------------------------------------------------------------
(* Properties. *)

\* A connection that is still there has got a coroutine for every Fire since
\* SetConnection, in order; a DoOnce connection leaves with its first one, so
\* that one that is still there has got none.
HandlersHearAll ==
    \A i \in DOMAIN connections :
        LET c == connections[i]
        IN  /\ c.heard = [k \in 1..fires - c.since |-> c.since + k]
            /\ c.once => c.heard = <<>>
=============================================================================
