------------------------------ MODULE Runtime ------------------------------
(***************************************************************************)
(* One process of the system, SXS or Client, from main() to its end: the   *)
(* boot sequence (JoinScriptLoader), the main loop, the Engine with its    *)
(* server and client replicator, and the GNSTransport under each of them.  *)
(*                                                                         *)
(* The join script decides what the process becomes: it may call           *)
(* HostServer, ConnectServer and Shutdown, in any order and any number of  *)
(* times.  All transports share s_instance and the networking library,     *)
(* which is external: it queues the changes of a connection's status and   *)
(* hands them to the static callbacks of GNSTransport inside Poll.         *)
(* Packets are module Replication's.                                       *)
(***************************************************************************)
EXTENDS Naturals, FiniteSets, SequencesExt, Lists

CONSTANTS
    Peer,            \* clients elsewhere, each of which connects once
    MaxTransports    \* bound: GNSTransport objects ever made

ASSUME RuntimeBounds == MaxTransports \in Nat \ {0} /\ Peer \cap (1..MaxTransports) = {}

Transport == 1..MaxTransports
NullPtr == 0

\* A GNSTransport; running, m_listenSocket and m_pollGroup of a server are
\* set together, as are running and the first value of m_serverConn.
Object == [running : BOOLEAN, listening : BOOLEAN, m_clients : Seq(Peer),
           connected : BOOLEAN]

Fresh == [running |-> FALSE, listening |-> FALSE, m_clients |-> <<>>,
          connected |-> FALSE]

\* SteamNetConnectionStatusChangedCallback_t, for the callback `to'.
StatusChange == [to : {"server", "client"}, state : {"open", "lost"},
                 conn : Peer \cup Transport]

VARIABLES
    exe,       \* which program this is
    at,        \* where main() is
    g_running,
    proc,      \* the objects of the process, see Process
    queue,     \* library: status changes that wait for RunCallbacks
    link,      \* library: the connection of each peer, and of each client transport
    doubled    \* history: a call to host or connect while a replicator exists

vars == <<exe, at, g_running, proc, queue, link, doubled>>

Loop  == {"poll server", "poll client", "tick"}
Boot  == {"fetch", "verify", "spawn"}
Done  == {"ended", "exited", "crashed"}

Process ==
    [made : 0..MaxTransports,          \* GNSTransport objects ever made
     gns  : [Transport -> Object],
     m_server : 0..MaxTransports,      \* the transport of the ServerReplicator
     m_client : 0..MaxTransports,      \* the transport of the ClientReplicator
     s_instance : 0..MaxTransports,    \* GNSTransport::s_instance
     serverActive : 0..MaxTransports,  \* ServerReplicator::s_active
     clientActive : 0..MaxTransports,  \* ClientReplicator::s_active
     lib : BOOLEAN,                    \* between _Init and _Kill
     stray : BOOLEAN,                  \* history: a call on a killed library
     joined : SUBSET Peer]             \* the peers the ServerReplicator was told of

Alive(P) == {P.m_server, P.m_client} \ {NullPtr}

-----------------------------------------------------------------------------
(* GNSTransport. *)

\* Mutant of New: s_instance is set to the next object.
NewAhead(P) == [P EXCEPT !.made = @ + 1, !.s_instance = P.made + 2, !.lib = TRUE]

\* The constructor: s_instance is this object now, and the library is up.
New(P) == [P EXCEPT !.made = @ + 1, !.s_instance = P.made + 1, !.lib = TRUE]

\* Shutdown closes what the transport holds; a call on a killed library has
\* no defined outcome.
Shutdown(P, t) ==
    IF t = NullPtr \/ ~P.gns[t].running THEN P
    ELSE [P EXCEPT !.gns[t] = Fresh, !.stray = @ \/ ~P.lib]

\* The destructor: the library is killed and s_instance cleared, whichever
\* transport that was.
Delete(P, t) ==
    IF t = NullPtr THEN P
    ELSE [Shutdown(P, t) EXCEPT !.lib = FALSE, !.s_instance = NullPtr]

\* StartServer, when the listen socket can be had.
StartServer(P, t) ==
    [P EXCEPT !.gns[t].running = TRUE, !.gns[t].listening = TRUE,
              !.stray = @ \/ ~P.lib]

\* Connect, when an attempt could be started.
Connect(P, t) ==
    [P EXCEPT !.gns[t].running = TRUE, !.gns[t].connected = TRUE,
              !.stray = @ \/ ~P.lib]

-----------------------------------------------------------------------------
(* Engine. *)

\* Mutant of StartServerInternal: s_active is set before the result is known.
StartServerEagerly(P, ok) ==
    LET t == P.made + 1
        Q == [Delete(New(P), P.m_server) EXCEPT !.m_server = t, !.joined = {},
                                                !.serverActive = t]
    IN  IF ok THEN StartServer(Q, t) ELSE [Delete(Q, t) EXCEPT !.m_server = NullPtr]

\* HostServer: the new transport is made before the replicator it replaces is
\* destroyed; s_active is set on success and never reset.
StartServerInternal(P, ok) ==
    LET t == P.made + 1
        Q == [Delete(New(P), P.m_server) EXCEPT !.m_server = t, !.joined = {}]
    IN  IF ok THEN [StartServer(Q, t) EXCEPT !.serverActive = t]
        ELSE [Delete(Q, t) EXCEPT !.m_server = NullPtr]

\* ConnectToServer, as the bindings call it: without SecretlyHostToo.
ConnectToServer(P, ok) ==
    LET t == P.made + 1
        Q == [Delete(New(P), P.m_client) EXCEPT !.m_client = t]
    IN  IF ok THEN [Connect(Q, t) EXCEPT !.clientActive = t]
        ELSE [Delete(Q, t) EXCEPT !.m_client = NullPtr]

\* Engine::Shutdown: the server first; its replicator and transport are gone
\* before the client's transport is shut down.
EngineShutdown(P) ==
    LET Q == Delete(Shutdown(P, P.m_server), P.m_server)
        R == Delete(Shutdown(Q, P.m_client), P.m_client)
    IN  [R EXCEPT !.m_server = NullPtr, !.m_client = NullPtr]

-----------------------------------------------------------------------------
(* The static callbacks of GNSTransport. *)

\* Mutant of ServerStatusCallback: a lost client stays in m_clients.
ServerStatusKeep(P, e) ==
    LET T == P.s_instance  mine == T = P.m_server
    IN  IF T = NullPtr THEN P
        ELSE IF e.state = "open" THEN
            [P EXCEPT !.gns[T].m_clients = Append(@, e.conn),
                      !.joined = IF mine THEN @ \cup {e.conn} ELSE @]
        ELSE [P EXCEPT !.joined = IF mine THEN @ \ {e.conn} ELSE @]

\* ServerStatusCallback, for whatever transport s_instance is: only a
\* ServerReplicator does something when it is told.
ServerStatusCallback(P, e) ==
    LET T == P.s_instance  mine == T = P.m_server
    IN  IF T = NullPtr THEN P
        ELSE IF e.state = "open" THEN
            [P EXCEPT !.gns[T].m_clients = Append(@, e.conn),
                      !.joined = IF mine THEN @ \cup {e.conn} ELSE @]
        ELSE [P EXCEPT !.gns[T].m_clients = KeepIn(@, Peer \ {e.conn}),
                       !.joined = IF mine THEN @ \ {e.conn} ELSE @]

\* ClientStatusCallback.
ClientStatusCallback(P, e) ==
    IF P.s_instance = NullPtr \/ e.state = "open" THEN P
    ELSE [P EXCEPT !.gns[P.s_instance].connected = FALSE]

\* Mutant of StopsClient: Client's OnDisconnectedFromServer only logs.
StopsNobody(P, e) == FALSE

\* The ClientReplicator is told that it was disconnected, and main() of
\* Client ends the loop.
StopsClient(P, e) ==
    /\ exe = "Client" /\ e.to = "client" /\ e.state = "lost"
    /\ P.s_instance # NullPtr /\ P.s_instance = P.m_client

-----------------------------------------------------------------------------
(* The library. *)

\* A new transport of a client has a connection under way.  A kill drops all
\* connections and all that is queued; so does, for its own, a Shutdown.
Settle(P) ==
    LET gone(c) == \/ ~P.lib
                   \/ c \in Transport /\ ~P.gns[c].running
                   \/ c \in Peer /\ P.m_server # proc.m_server
        next(c) == IF c \in Transport /\ c > proc.made /\ P.lib /\ P.gns[c].connected
                   THEN "trying"
                   ELSE IF link[c] # "none" /\ gone(c) THEN "closed" ELSE link[c]
    IN  /\ link' = [c \in DOMAIN link |-> next(c)]
        /\ queue' = KeepIn(queue, {e \in StatusChange : next(e.conn) # "closed"})

Post(c, to, state) ==
    /\ queue' = Append(queue, [to |-> to, state |-> state, conn |-> c])
    /\ UNCHANGED <<exe, at, g_running, proc, doubled>>

\* Somebody connects to the listening socket.
PeerArrives(p) ==
    /\ link[p] = "none" /\ proc.lib
    /\ proc.m_server # NullPtr /\ proc.gns[proc.m_server].listening
    /\ link' = [link EXCEPT ![p] = "up"]
    /\ Post(p, "server", "open")

PeerLost(p) ==
    /\ link[p] = "up" /\ proc.lib
    /\ link' = [link EXCEPT ![p] = "lost"]
    /\ Post(p, "server", "lost")

\* The server at the other end accepts; refuses, closes or vanishes.
ServerAccepts(t) ==
    /\ link[t] = "trying" /\ proc.lib
    /\ link' = [link EXCEPT ![t] = "up"]
    /\ Post(t, "client", "open")

ServerLost(t) ==
    /\ link[t] \in {"trying", "up"} /\ proc.lib
    /\ link' = [link EXCEPT ![t] = "lost"]
    /\ Post(t, "client", "lost")

Library ==
    \/ \E p \in Peer : PeerArrives(p) \/ PeerLost(p)
    \/ \E t \in Transport : ServerAccepts(t) \/ ServerLost(t)

-----------------------------------------------------------------------------
(* main(). *)

\* Boot: the base URL of the settings is compared and the script fetched; its
\* signature verified; it is compiled and spawned.  Each step may end the
\* process, at once by exit(0) or as the failure of LoadHost or LoadJoin.
BootStep(from, to) ==
    /\ at = from
    /\ at' \in {to, "exited"}
    /\ UNCHANGED <<exe, g_running, proc, queue, link, doubled>>

\* SIGINT or SIGTERM, at any moment.
Interrupt ==
    /\ at \notin Done /\ g_running
    /\ g_running' = FALSE
    /\ UNCHANGED <<exe, at, proc, queue, link, doubled>>

\* The process goes on at `next' with the objects P.  After a call on a
\* killed library it may go on or crash.
GoOn(P, next) ==
    /\ proc' = P
    /\ at' \in {next} \cup (IF P.stray THEN {"crashed"} ELSE {})

\* while (g_running)
LoopEnd == IF g_running THEN "poll server" ELSE "shutdown"

\* The first test of g_running.
EnterLoop ==
    /\ at = "running"
    /\ at' = LoopEnd
    /\ UNCHANGED <<exe, g_running, proc, queue, link, doubled>>

\* A replicator polls its transport: RunCallbacks hands out what is queued,
\* for all transports, then the packets are read.
Poll(t, here, next) ==
    /\ at = here
    /\ \/ /\ t # NullPtr /\ proc.lib /\ queue # <<>>
          /\ LET e == Head(queue)
             IN  /\ proc' = IF e.to = "server" THEN ServerStatusCallback(proc, e)
                            ELSE ClientStatusCallback(proc, e)
                 /\ g_running' = (g_running /\ ~StopsClient(proc, e))
          /\ queue' = Tail(queue)
          /\ UNCHANGED at
       \/ /\ t # NullPtr => (proc.lib => queue = <<>>)
          /\ GoOn([proc EXCEPT !.stray = @ \/ (t # NullPtr /\ ~proc.lib)], next)
          /\ UNCHANGED <<g_running, queue>>
    /\ UNCHANGED <<exe, link, doubled>>

PollServer == Poll(proc.m_server, "poll server", "poll client")
PollClient == Poll(proc.m_client, "poll client", "tick")

\* In Tick, the join script makes the process a server or a client.
ScriptCalls(P) ==
    /\ at = "tick" /\ proc.made < MaxTransports
    /\ GoOn(P, "tick")
    /\ doubled' = (doubled \/ Alive(proc) # {})
    /\ Settle(P)
    /\ UNCHANGED <<exe, g_running>>

HostServer == \E ok \in BOOLEAN : ScriptCalls(StartServerInternal(proc, ok))
ConnectServer == \E ok \in BOOLEAN : ScriptCalls(ConnectToServer(proc, ok))

EndTick ==
    /\ at = "tick"
    /\ at' = LoopEnd
    /\ UNCHANGED <<exe, g_running, proc, queue, link, doubled>>

\* Shutdown and the end of the process: of main(), or game.Shutdown of a script.
Stop ==
    /\ at \in {"shutdown", "tick"}
    /\ LET P == EngineShutdown(proc)
       IN  GoOn(P, IF at = "tick" THEN "exited" ELSE "ended") /\ Settle(P)
    /\ UNCHANGED <<exe, g_running, doubled>>

Main ==
    \/ BootStep("fetch", "verify") \/ BootStep("verify", "spawn")
    \/ BootStep("spawn", "running")
    \/ EnterLoop \/ PollServer \/ PollClient \/ EndTick
    \/ at = "shutdown" /\ Stop

Script == HostServer \/ ConnectServer \/ (at = "tick" /\ Stop)

Init ==
    /\ exe \in {"SXS", "Client"}
    /\ at = "fetch"
    /\ g_running = TRUE
    /\ proc = [made |-> 0, gns |-> [t \in Transport |-> Fresh],
               m_server |-> NullPtr, m_client |-> NullPtr,
               s_instance |-> NullPtr, serverActive |-> NullPtr,
               clientActive |-> NullPtr, lib |-> FALSE, stray |-> FALSE,
               joined |-> {}]
    /\ queue = <<>>
    /\ link = [c \in Peer \cup Transport |-> "none"]
    /\ doubled = FALSE

Next == Main \/ Script \/ Library \/ Interrupt

Spec == Init /\ [][Next]_vars

\* Nothing but its end keeps main() from going on: no call of it blocks.
FairSpec == Spec /\ WF_vars(Main)
-----------------------------------------------------------------------------
(* Properties.  A join script that makes the process a server or a client   *)
(* once, whether or not a first attempt failed, never sets doubled.         *)

\* Every variable keeps its type.
TypeOK ==
    /\ exe \in {"SXS", "Client"} /\ g_running \in BOOLEAN /\ doubled \in BOOLEAN
    /\ at \in Boot \cup {"running"} \cup Loop \cup {"shutdown"} \cup Done
    /\ proc \in Process
    /\ queue \in Seq(StatusChange)
    /\ link \in [Peer \cup Transport -> {"none", "trying", "up", "lost", "closed"}]

\* With one replicator at a time, s_instance is its transport and the library
\* is up, also after calls that failed: the static callbacks reach the
\* replicator they are meant for.
EventsReachOwner ==
    ~doubled => \A t \in Alive(proc) : proc.s_instance = t /\ proc.lib

\* A server that has handled all status changes knows the peers that are
\* connected, each once, and has told its replicator of the same.
ClientsAreConnections ==
    (at \in Loop /\ proc.m_server # NullPtr /\ queue = <<>> /\ ~doubled) =>
        LET known == proc.gns[proc.m_server].m_clients
        IN  /\ IsInjective(known)
            /\ ToSet(known) = {p \in Peer : link[p] = "up"}
            /\ ToSet(known) = proc.joined

\* With one replicator at a time, nothing that is gone is used: no transport
\* after the destructor of another one has killed the library, and "the
\* currently running" replicator (GetActive) is one that exists.
NothingDangles ==
    ~doubled =>
        /\ ~proc.stray
        /\ at \in Loop => {proc.serverActive, proc.clientActive} \subseteq Alive(proc) \cup {NullPtr}

Over == at \in Done

\* The main loop ends when it should: that of a Client when its server is
\* lost, and any when the process gets a signal, wherever it is.
LoopEnds ==
    /\ \A t \in Transport :
           (exe = "Client" /\ proc.m_client = t /\ link[t] = "lost") ~> (Over \/ doubled)
    /\ ~g_running ~> Over
=============================================================================
