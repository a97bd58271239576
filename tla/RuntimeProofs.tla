--------------------------- MODULE RuntimeProofs ---------------------------
(***************************************************************************)
(* What MCRuntime checks, proved for any number of peers and transports.   *)
(* The transport that is alive is s_instance, the one that callbacks go to *)
(* (OwnerInv), as long as no script made a second replicator beside it;    *)
(* and the status changes that are not handed out yet are the difference   *)
(* between what the library knows of a peer and m_clients (ConnInv).       *)
(***************************************************************************)
EXTENDS Runtime, ListLemmas

(***************************************************************************)
(* The invariants.                                                         *)
(***************************************************************************)

\* The types, and whose connections the two callbacks are told of.
TypeInv ==
    /\ TypeOK
    /\ \A e \in ToSet(queue) : e.to = "server" <=> e.conn \in Peer

\* With one replicator at a time: the transport that is alive, the last one
\* made, is s_instance and the library is up; with none it is down.
OwnerInv ==
    ~doubled =>
        /\ ~proc.stray
        /\ proc.m_server = NullPtr \/ proc.m_client = NullPtr
        /\ \A t \in Alive(proc) : proc.s_instance = t /\ proc.lib /\ t <= proc.made
        /\ Alive(proc) = {} => ~proc.lib /\ proc.s_instance = NullPtr
        /\ at \notin Done =>
              {proc.serverActive, proc.clientActive} \subseteq Alive(proc) \cup {NullPtr}

\* The changes of a peer's status that the library has not handed out.
Waiting(q, p) == {e.state : e \in {x \in ToSet(q) : x.conn = p}}

\* What the library knows of a peer, what it has still to say of it, and
\* whether the transport has it among its clients.
PeerAgrees(state, waiting, known) ==
    \/ state \in {"none", "closed"} /\ waiting = {} /\ ~known
    \/ state = "up" /\ waiting = {} /\ known
    \/ state = "up" /\ waiting = {"open"} /\ ~known
    \/ state = "lost" /\ waiting = {"lost"} /\ known
    \/ state = "lost" /\ waiting \in {{}, {"open", "lost"}} /\ ~known

\* Of two changes of one peer that wait, the first opens and the second loses.
OpenThenLost(q) ==
    \A i, j \in 1..Len(q) :
        (i < j /\ q[i].conn \in Peer /\ q[i].conn = q[j].conn) =>
            q[i].state = "open" /\ q[j].state = "lost"

Known(P) == IF P.m_server = NullPtr THEN <<>> ELSE P.gns[P.m_server].m_clients

\* With one replicator at a time, m_clients is what the library has told.
ConnInv ==
    ~doubled =>
        /\ OpenThenLost(queue)
        /\ \A t \in Transport : t > proc.made => proc.gns[t].m_clients = <<>>
        /\ IsInjective(Known(proc))
        /\ proc.m_server # NullPtr => ToSet(Known(proc)) = proc.joined
        /\ proc.m_server = NullPtr => \A p \in Peer : link[p] \in {"none", "closed"}
        /\ \A p \in Peer : PeerAgrees(link[p], Waiting(queue, p), p \in ToSet(Known(proc)))

(***************************************************************************)
(* What each operation makes of the objects of a process.                  *)
(***************************************************************************)

LEMMA FreshObject == Fresh \in Object
<1>1. <<>> \in Seq(Peer)
  BY EmptySeq
<1>2. QED BY <1>1 DEF Fresh, Object

LEMMA NewEffect ==
    ASSUME NEW P \in Process, P.made < MaxTransports
    PROVE  /\ New(P) \in Process
           /\ New(P).made = P.made + 1 /\ New(P).s_instance = P.made + 1 /\ New(P).lib
           /\ New(P).gns = P.gns /\ New(P).stray = P.stray /\ New(P).joined = P.joined
           /\ New(P).m_server = P.m_server /\ New(P).m_client = P.m_client
           /\ New(P).serverActive = P.serverActive
           /\ New(P).clientActive = P.clientActive
<1>1. P.made + 1 \in 0..MaxTransports
  BY RuntimeBounds DEF Process
<1>2. PICK m \in 0..MaxTransports : m = P.made + 1
  BY <1>1
<1>3. New(P) = [P EXCEPT !.made = m, !.s_instance = m, !.lib = TRUE]
  BY <1>2 DEF New, Process
<1>4. QED BY <1>2, <1>3 DEF Process

LEMMA ShutdownEffect ==
    ASSUME NEW P \in Process, NEW t \in 0..MaxTransports
    PROVE  /\ Shutdown(P, t) \in Process
           /\ \A u \in Transport :
                 Shutdown(P, t).gns[u] = P.gns[u] \/ Shutdown(P, t).gns[u] = Fresh
           /\ t # NullPtr => ~Shutdown(P, t).gns[t].running
           /\ P.lib => Shutdown(P, t).stray = P.stray
           /\ Shutdown(P, t).made = P.made /\ Shutdown(P, t).lib = P.lib
           /\ Shutdown(P, t).s_instance = P.s_instance /\ Shutdown(P, t).joined = P.joined
           /\ Shutdown(P, t).m_server = P.m_server /\ Shutdown(P, t).m_client = P.m_client
           /\ Shutdown(P, t).serverActive = P.serverActive
           /\ Shutdown(P, t).clientActive = P.clientActive
<1>1. CASE t = NullPtr \/ ~P.gns[t].running
  BY <1>1 DEF Shutdown, NullPtr
<1>2. CASE ~(t = NullPtr \/ ~P.gns[t].running)
  <2>1. Shutdown(P, t) = [P EXCEPT !.gns[t] = Fresh, !.stray = @ \/ ~P.lib]
    BY <1>2 DEF Shutdown
  <2>2. t \in Transport
    BY <1>2, RuntimeBounds DEF Transport, NullPtr
  <2> DEFINE g == [P.gns EXCEPT ![t] = Fresh]
  <2>3. g \in [Transport -> Object] /\ g[t] = Fresh
        /\ \A u \in Transport : g[u] = P.gns[u] \/ g[u] = Fresh
    BY <2>2, FreshObject DEF Process
  <2>4. Shutdown(P, t) = [P EXCEPT !.gns = g, !.stray = P.stray \/ ~P.lib]
    BY <2>1 DEF Process
  <2> HIDE DEF g
  <2>5. ~Fresh.running
    BY DEF Fresh
  <2>6. P.stray \in BOOLEAN /\ P.lib \in BOOLEAN
    BY DEF Process
  <2>7. QED BY <2>3, <2>4, <2>5, <2>6 DEF Process
<1>3. QED BY <1>1, <1>2

LEMMA DeleteEffect ==
    ASSUME NEW P \in Process, NEW t \in 0..MaxTransports
    PROVE  /\ Delete(P, t) \in Process
           /\ \A u \in Transport :
                 Delete(P, t).gns[u] = P.gns[u] \/ Delete(P, t).gns[u] = Fresh
           /\ t = NullPtr => Delete(P, t) = P
           /\ t # NullPtr => ~Delete(P, t).lib /\ Delete(P, t).s_instance = NullPtr
           /\ P.lib => Delete(P, t).stray = P.stray
           /\ Delete(P, t).made = P.made /\ Delete(P, t).joined = P.joined
           /\ Delete(P, t).m_server = P.m_server /\ Delete(P, t).m_client = P.m_client
           /\ Delete(P, t).serverActive = P.serverActive
           /\ Delete(P, t).clientActive = P.clientActive
<1>1. CASE t = NullPtr
  BY <1>1 DEF Delete
<1>2. CASE t # NullPtr
  <2>1. Delete(P, t) = [Shutdown(P, t) EXCEPT !.lib = FALSE, !.s_instance = NullPtr]
    BY <1>2 DEF Delete
  <2> DEFINE S == Shutdown(P, t)
  <2>2. S \in Process
    BY ShutdownEffect
  <2>3. [S EXCEPT !.lib = FALSE, !.s_instance = NullPtr] \in Process
    <3>1. 0 \in 0..MaxTransports /\ NullPtr = 0
      BY RuntimeBounds DEF NullPtr
    <3>2. QED BY <2>2, <3>1 DEF Process
  <2>4. LET D == [S EXCEPT !.lib = FALSE, !.s_instance = NullPtr]
        IN  /\ D.gns = S.gns /\ D.stray = S.stray /\ D.made = S.made
            /\ D.joined = S.joined /\ D.m_server = S.m_server /\ D.m_client = S.m_client
            /\ D.serverActive = S.serverActive /\ D.clientActive = S.clientActive
            /\ D.lib = FALSE /\ D.s_instance = NullPtr
    BY <2>2 DEF Process
  <2>5. QED BY <1>2, <2>1, <2>3, <2>4, ShutdownEffect
<1>3. QED BY <1>1, <1>2

\* Both set fields of one object and, on a killed library, stray.
LEMMA StartEffect ==
    ASSUME NEW P \in Process, NEW t \in Transport,
           NEW Q, Q \in {StartServer(P, t), Connect(P, t)}
    PROVE  /\ Q \in Process
           /\ \A u \in Transport : Q.gns[u].m_clients = P.gns[u].m_clients
           /\ P.lib => Q.stray = P.stray
           /\ Q.made = P.made /\ Q.joined = P.joined /\ Q.lib = P.lib
           /\ Q.s_instance = P.s_instance
           /\ Q.m_server = P.m_server /\ Q.m_client = P.m_client
           /\ Q.serverActive = P.serverActive /\ Q.clientActive = P.clientActive
<1>1. PICK o \in Object : /\ o.m_clients = P.gns[t].m_clients
                          /\ Q = [P EXCEPT !.gns = [P.gns EXCEPT ![t] = o],
                                           !.stray = P.stray \/ ~P.lib]
  <2>1. P.gns[t] \in Object
    BY DEF Process
  <2>2. CASE Q = StartServer(P, t)
    <3> DEFINE o == [P.gns[t] EXCEPT !.running = TRUE, !.listening = TRUE]
    <3>1. o \in Object /\ o.m_clients = P.gns[t].m_clients
      BY <2>1 DEF Object
    <3>2. [P.gns EXCEPT ![t].running = TRUE, ![t].listening = TRUE] = [P.gns EXCEPT ![t] = o]
      BY <2>1 DEF Process
    <3>3. Q = [P EXCEPT !.gns = [P.gns EXCEPT ![t] = o], !.stray = P.stray \/ ~P.lib]
      BY <2>2, <3>2 DEF StartServer, Process
    <3> HIDE DEF o
    <3>4. QED BY <3>1, <3>3
  <2>3. CASE Q = Connect(P, t)
    <3> DEFINE o == [P.gns[t] EXCEPT !.running = TRUE, !.connected = TRUE]
    <3>1. o \in Object /\ o.m_clients = P.gns[t].m_clients
      BY <2>1 DEF Object
    <3>2. [P.gns EXCEPT ![t].running = TRUE, ![t].connected = TRUE] = [P.gns EXCEPT ![t] = o]
      BY <2>1 DEF Process
    <3>3. Q = [P EXCEPT !.gns = [P.gns EXCEPT ![t] = o], !.stray = P.stray \/ ~P.lib]
      BY <2>3, <3>2 DEF Connect, Process
    <3> HIDE DEF o
    <3>4. QED BY <3>1, <3>3
  <2>4. QED BY <2>2, <2>3
<1> DEFINE g == [P.gns EXCEPT ![t] = o]
<1>2. g \in [Transport -> Object] /\ \A u \in Transport : g[u].m_clients = P.gns[u].m_clients
  BY <1>1 DEF Process
<1>3. Q = [P EXCEPT !.gns = g, !.stray = P.stray \/ ~P.lib]
  BY <1>1
<1> HIDE DEF g
<1>4. P.stray \in BOOLEAN /\ P.lib \in BOOLEAN
  BY DEF Process
<1>5. QED BY <1>2, <1>3, <1>4 DEF Process

\* HostServer: what becomes of the process whether the transport starts or not.
LEMMA HostEffect ==
    ASSUME NEW P \in Process, P.made < MaxTransports, NEW ok \in BOOLEAN
    PROVE  LET Q == StartServerInternal(P, ok)  t == P.made + 1
           IN  /\ Q \in Process /\ Q.made = t
               /\ Q.m_client = P.m_client /\ Q.clientActive = P.clientActive
               /\ IF ok THEN Q.m_server = t /\ Q.serverActive = t
                  ELSE Q.m_server = NullPtr /\ Q.serverActive = P.serverActive
               /\ Q.joined = {}
               /\ \A u \in Transport : Q.gns[u].m_clients \in {P.gns[u].m_clients, <<>>}
               /\ P.m_server = NullPtr =>
                     /\ Q.stray = P.stray
                     /\ IF ok THEN Q.s_instance = t /\ Q.lib
                        ELSE Q.s_instance = NullPtr /\ ~Q.lib
<1> DEFINE t == P.made + 1
           N == New(P)
           D == Delete(N, P.m_server)
           Q == [D EXCEPT !.m_server = t, !.joined = {}]
<1>1. t \in Transport /\ t \in 0..MaxTransports /\ t # NullPtr /\ NullPtr \in 0..MaxTransports
  BY RuntimeBounds DEF Process, Transport, NullPtr
<1>2. P.m_server \in 0..MaxTransports
  BY DEF Process
<1>3. /\ N \in Process /\ N.made = t /\ N.s_instance = t /\ N.lib
      /\ N.gns = P.gns /\ N.stray = P.stray
      /\ N.m_client = P.m_client /\ N.serverActive = P.serverActive
      /\ N.clientActive = P.clientActive
  BY NewEffect
<1> HIDE DEF N, t
<1>4. /\ D \in Process /\ D.made = t
      /\ D.m_client = P.m_client /\ D.serverActive = P.serverActive
      /\ D.clientActive = P.clientActive
      /\ P.m_server = NullPtr => D.lib /\ D.s_instance = t
      /\ D.stray = P.stray
      /\ \A u \in Transport : D.gns[u].m_clients \in {P.gns[u].m_clients, <<>>}
  <2>1. Fresh.m_clients = <<>>
    BY DEF Fresh
  <2>2. QED BY <1>2, <1>3, <2>1, DeleteEffect
<1> HIDE DEF D
<1>5. /\ Q \in Process /\ Q.made = t /\ Q.m_server = t /\ Q.joined = {}
      /\ Q.m_client = D.m_client /\ Q.serverActive = D.serverActive
      /\ Q.clientActive = D.clientActive /\ Q.lib = D.lib
      /\ Q.s_instance = D.s_instance /\ Q.stray = D.stray /\ Q.gns = D.gns
  BY <1>1, <1>4 DEF Process
<1> DEFINE R == IF ok THEN [StartServer(Q, t) EXCEPT !.serverActive = t]
                ELSE [Delete(Q, t) EXCEPT !.m_server = NullPtr]
<1>6. StartServerInternal(P, ok) = R
  BY DEF StartServerInternal, D, N, t
<1> HIDE DEF Q
<1>7. CASE ok
  <2> DEFINE S == StartServer(Q, t)
  <2>1. /\ S \in Process /\ \A u \in Transport : S.gns[u].m_clients = Q.gns[u].m_clients
        /\ Q.lib => S.stray = Q.stray
        /\ S.made = Q.made /\ S.joined = Q.joined /\ S.lib = Q.lib
        /\ S.s_instance = Q.s_instance
        /\ S.m_server = Q.m_server /\ S.m_client = Q.m_client
        /\ S.serverActive = Q.serverActive /\ S.clientActive = Q.clientActive
    BY <1>1, <1>5, StartEffect
  <2> HIDE DEF S
  <2>2. R = [S EXCEPT !.serverActive = t]
    BY <1>7 DEF S
  <2>3. /\ R \in Process /\ R.serverActive = t
        /\ R.made = S.made /\ R.joined = S.joined /\ R.lib = S.lib /\ R.gns = S.gns
        /\ R.s_instance = S.s_instance /\ R.stray = S.stray
        /\ R.m_server = S.m_server /\ R.m_client = S.m_client
        /\ R.clientActive = S.clientActive
    BY <1>1, <2>1, <2>2 DEF Process
  <2> HIDE DEF R
  <2>4. QED BY <1>4, <1>5, <1>6, <1>7, <2>1, <2>3 DEF t
<1>8. CASE ~ok
  <2> DEFINE S == Delete(Q, t)
  <2>1. /\ S \in Process
        /\ \A u \in Transport : S.gns[u] = Q.gns[u] \/ S.gns[u] = Fresh
        /\ ~S.lib /\ S.s_instance = NullPtr
        /\ Q.lib => S.stray = Q.stray
        /\ S.made = Q.made /\ S.joined = Q.joined
        /\ S.m_client = Q.m_client
        /\ S.serverActive = Q.serverActive /\ S.clientActive = Q.clientActive
    BY <1>1, <1>5, DeleteEffect
  <2> HIDE DEF S
  <2>2. R = [S EXCEPT !.m_server = NullPtr]
    BY <1>8 DEF S
  <2>3. /\ R \in Process /\ R.serverActive = S.serverActive
        /\ R.made = S.made /\ R.joined = S.joined /\ R.lib = S.lib /\ R.gns = S.gns
        /\ R.s_instance = S.s_instance /\ R.stray = S.stray
        /\ R.m_server = NullPtr /\ R.m_client = S.m_client
        /\ R.clientActive = S.clientActive
    BY <1>1, <2>1, <2>2 DEF Process
  <2> HIDE DEF R
  <2>4. Fresh.m_clients = <<>>
    BY DEF Fresh
  <2>5. QED BY <1>4, <1>5, <1>6, <1>8, <2>1, <2>3, <2>4 DEF t
<1>9. QED BY <1>7, <1>8

\* ConnectServer: the same, of the other replicator.
LEMMA ConnectEffect ==
    ASSUME NEW P \in Process, P.made < MaxTransports, NEW ok \in BOOLEAN
    PROVE  LET Q == ConnectToServer(P, ok)  t == P.made + 1
           IN  /\ Q \in Process /\ Q.made = t
               /\ Q.m_server = P.m_server /\ Q.serverActive = P.serverActive
               /\ IF ok THEN Q.m_client = t /\ Q.clientActive = t
                  ELSE Q.m_client = NullPtr /\ Q.clientActive = P.clientActive
               /\ Q.joined = P.joined
               /\ \A u \in Transport : Q.gns[u].m_clients \in {P.gns[u].m_clients, <<>>}
               /\ P.m_client = NullPtr =>
                     /\ Q.stray = P.stray
                     /\ IF ok THEN Q.s_instance = t /\ Q.lib
                        ELSE Q.s_instance = NullPtr /\ ~Q.lib
<1> DEFINE t == P.made + 1
           N == New(P)
           D == Delete(N, P.m_client)
           Q == [D EXCEPT !.m_client = t]
<1>1. t \in Transport /\ t \in 0..MaxTransports /\ t # NullPtr /\ NullPtr \in 0..MaxTransports
  BY RuntimeBounds DEF Process, Transport, NullPtr
<1>2. P.m_client \in 0..MaxTransports
  BY DEF Process
<1>3. /\ N \in Process /\ N.made = t /\ N.s_instance = t /\ N.lib
      /\ N.gns = P.gns /\ N.stray = P.stray /\ N.joined = P.joined
      /\ N.m_server = P.m_server /\ N.clientActive = P.clientActive
      /\ N.serverActive = P.serverActive
  BY NewEffect
<1> HIDE DEF N, t
<1>4. /\ D \in Process /\ D.made = t
      /\ D.m_server = P.m_server /\ D.clientActive = P.clientActive
      /\ D.serverActive = P.serverActive
      /\ P.m_client = NullPtr => D.lib /\ D.s_instance = t
      /\ D.stray = P.stray /\ D.joined = P.joined
      /\ \A u \in Transport : D.gns[u].m_clients \in {P.gns[u].m_clients, <<>>}
  <2>1. Fresh.m_clients = <<>>
    BY DEF Fresh
  <2>2. QED BY <1>2, <1>3, <2>1, DeleteEffect
<1> HIDE DEF D
<1>5. /\ Q \in Process /\ Q.made = t /\ Q.m_client = t /\ Q.joined = P.joined
      /\ Q.m_server = D.m_server /\ Q.clientActive = D.clientActive
      /\ Q.serverActive = D.serverActive /\ Q.lib = D.lib
      /\ Q.s_instance = D.s_instance /\ Q.stray = D.stray /\ Q.gns = D.gns
  BY <1>1, <1>4 DEF Process
<1> DEFINE R == IF ok THEN [Connect(Q, t) EXCEPT !.clientActive = t]
                ELSE [Delete(Q, t) EXCEPT !.m_client = NullPtr]
<1>6. ConnectToServer(P, ok) = R
  BY DEF ConnectToServer, D, N, t
<1> HIDE DEF Q
<1>7. CASE ok
  <2> DEFINE S == Connect(Q, t)
  <2>1. /\ S \in Process /\ \A u \in Transport : S.gns[u].m_clients = Q.gns[u].m_clients
        /\ Q.lib => S.stray = Q.stray
        /\ S.made = Q.made /\ S.joined = Q.joined /\ S.lib = Q.lib
        /\ S.s_instance = Q.s_instance
        /\ S.m_client = Q.m_client /\ S.m_server = Q.m_server
        /\ S.clientActive = Q.clientActive /\ S.serverActive = Q.serverActive
    BY <1>1, <1>5, StartEffect
  <2> HIDE DEF S
  <2>2. R = [S EXCEPT !.clientActive = t]
    BY <1>7 DEF S
  <2>3. /\ R \in Process /\ R.clientActive = t
        /\ R.made = S.made /\ R.joined = S.joined /\ R.lib = S.lib /\ R.gns = S.gns
        /\ R.s_instance = S.s_instance /\ R.stray = S.stray
        /\ R.m_client = S.m_client /\ R.m_server = S.m_server
        /\ R.serverActive = S.serverActive
    BY <1>1, <2>1, <2>2 DEF Process
  <2> HIDE DEF R
  <2>4. QED BY <1>4, <1>5, <1>6, <1>7, <2>1, <2>3 DEF t
<1>8. CASE ~ok
  <2> DEFINE S == Delete(Q, t)
  <2>1. /\ S \in Process
        /\ \A u \in Transport : S.gns[u] = Q.gns[u] \/ S.gns[u] = Fresh
        /\ ~S.lib /\ S.s_instance = NullPtr
        /\ Q.lib => S.stray = Q.stray
        /\ S.made = Q.made /\ S.joined = Q.joined
        /\ S.m_server = Q.m_server
        /\ S.clientActive = Q.clientActive /\ S.serverActive = Q.serverActive
    BY <1>1, <1>5, DeleteEffect
  <2> HIDE DEF S
  <2>2. R = [S EXCEPT !.m_client = NullPtr]
    BY <1>8 DEF S
  <2>3. /\ R \in Process /\ R.clientActive = S.clientActive
        /\ R.made = S.made /\ R.joined = S.joined /\ R.lib = S.lib /\ R.gns = S.gns
        /\ R.s_instance = S.s_instance /\ R.stray = S.stray
        /\ R.m_client = NullPtr /\ R.m_server = S.m_server
        /\ R.serverActive = S.serverActive
    BY <1>1, <2>1, <2>2 DEF Process
  <2> HIDE DEF R
  <2>4. Fresh.m_clients = <<>>
    BY DEF Fresh
  <2>5. QED BY <1>4, <1>5, <1>6, <1>8, <2>1, <2>3, <2>4 DEF t
<1>9. QED BY <1>7, <1>8

\* What Shutdown and the destruction of one of the two replicators' transports
\* leave alone.
LEMMA EndEffect ==
    ASSUME NEW P \in Process, NEW t \in 0..MaxTransports
    PROVE  LET D == Delete(Shutdown(P, t), t)
           IN  /\ D \in Process /\ D.made = P.made /\ D.joined = P.joined
               /\ D.m_client = P.m_client /\ D.m_server = P.m_server
               /\ \A u \in Transport : D.gns[u].m_clients \in {P.gns[u].m_clients, <<>>}
               /\ P.lib => D.stray = P.stray
               /\ t = NullPtr => D = P
               /\ t # NullPtr => ~D.lib /\ D.s_instance = NullPtr
<1> DEFINE S == Shutdown(P, t)
<1>1. /\ S \in Process
      /\ \A u \in Transport : S.gns[u] = P.gns[u] \/ S.gns[u] = Fresh
      /\ P.lib => S.stray = P.stray
      /\ S.made = P.made /\ S.lib = P.lib /\ S.joined = P.joined
      /\ S.m_server = P.m_server /\ S.m_client = P.m_client
      /\ t = NullPtr => S = P
  <2>1. t = NullPtr => S = P
    BY DEF Shutdown
  <2> HIDE DEF S
  <2>2. QED BY <2>1, ShutdownEffect DEF S
<1>2. Fresh.m_clients = <<>>
  BY DEF Fresh
<1> HIDE DEF S
<1> DEFINE D == Delete(S, t)
<1>3. /\ D \in Process
      /\ \A u \in Transport : D.gns[u] = S.gns[u] \/ D.gns[u] = Fresh
      /\ t = NullPtr => D = S
      /\ t # NullPtr => ~D.lib /\ D.s_instance = NullPtr
      /\ S.lib => D.stray = S.stray
      /\ D.made = S.made /\ D.joined = S.joined
      /\ D.m_server = S.m_server /\ D.m_client = S.m_client
  BY <1>1, DeleteEffect
<1> HIDE DEF D
<1>4. /\ D \in Process /\ D.made = P.made /\ D.joined = P.joined
      /\ D.m_client = P.m_client /\ D.m_server = P.m_server
      /\ \A u \in Transport : D.gns[u].m_clients \in {P.gns[u].m_clients, <<>>}
      /\ P.lib => D.stray = P.stray
      /\ t = NullPtr => D = P
      /\ t # NullPtr => ~D.lib /\ D.s_instance = NullPtr
  BY <1>1, <1>2, <1>3
<1>5. QED BY <1>4 DEF D, S

LEMMA EngineShutdownEffect ==
    ASSUME NEW P \in Process
    PROVE  LET R == EngineShutdown(P)
           IN  /\ R \in Process /\ R.made = P.made
               /\ R.m_server = NullPtr /\ R.m_client = NullPtr
               /\ \A u \in Transport : R.gns[u].m_clients \in {P.gns[u].m_clients, <<>>}
               /\ (P.m_server = NullPtr \/ P.m_client = NullPtr) =>
                     /\ Alive(P) = {} => /\ R.stray = P.stray /\ R.lib = P.lib
                                         /\ R.s_instance = P.s_instance
                     /\ Alive(P) # {} => /\ P.lib => R.stray = P.stray
                                        /\ ~R.lib /\ R.s_instance = NullPtr
<1> DEFINE Q == Delete(Shutdown(P, P.m_server), P.m_server)
           T == Delete(Shutdown(Q, P.m_client), P.m_client)
           R == [T EXCEPT !.m_server = NullPtr, !.m_client = NullPtr]
<1>1. P.m_server \in 0..MaxTransports /\ P.m_client \in 0..MaxTransports
  BY DEF Process
<1>2. /\ Q \in Process /\ Q.made = P.made /\ Q.m_client = P.m_client
      /\ \A u \in Transport : Q.gns[u].m_clients \in {P.gns[u].m_clients, <<>>}
      /\ P.lib => Q.stray = P.stray
      /\ P.m_server = NullPtr => Q = P
      /\ P.m_server # NullPtr => ~Q.lib /\ Q.s_instance = NullPtr
  BY <1>1, EndEffect
<1>3. EngineShutdown(P) = R
  BY <1>2 DEF EngineShutdown
<1> HIDE DEF Q
<1>4. /\ T \in Process /\ T.made = Q.made
      /\ \A u \in Transport : T.gns[u].m_clients \in {Q.gns[u].m_clients, <<>>}
      /\ Q.lib => T.stray = Q.stray
      /\ P.m_client = NullPtr => T = Q
      /\ P.m_client # NullPtr => ~T.lib /\ T.s_instance = NullPtr
  BY <1>1, <1>2, EndEffect
<1> HIDE DEF T
<1>5. 0 \in 0..MaxTransports /\ NullPtr = 0
  BY RuntimeBounds DEF NullPtr
<1>6. /\ R \in Process /\ R.made = T.made /\ R.gns = T.gns /\ R.stray = T.stray
      /\ R.lib = T.lib /\ R.s_instance = T.s_instance
      /\ R.m_server = NullPtr /\ R.m_client = NullPtr
  BY <1>4, <1>5 DEF Process
<1> HIDE DEF R
<1>7. Alive(P) = {} <=> (P.m_server = NullPtr /\ P.m_client = NullPtr)
  BY DEF Alive
<1>8. QED BY <1>2, <1>3, <1>4, <1>6, <1>7

\* ServerStatusCallback, of the transport that s_instance is.
LEMMA ServerStatusEffect ==
    ASSUME NEW P \in Process, NEW e \in StatusChange, e.conn \in Peer
    PROVE  LET Q == ServerStatusCallback(P, e)
               m == P.gns[P.m_server].m_clients
           IN  /\ Q \in Process
               /\ Q.made = P.made /\ Q.lib = P.lib /\ Q.s_instance = P.s_instance
               /\ Q.stray = P.stray /\ Q.m_server = P.m_server /\ Q.m_client = P.m_client
               /\ Q.serverActive = P.serverActive /\ Q.clientActive = P.clientActive
               /\ \A u \in Transport \ {P.s_instance} : Q.gns[u] = P.gns[u]
               /\ (P.m_server # NullPtr /\ P.s_instance = P.m_server) =>
                     /\ Q.gns[P.m_server].m_clients =
                           IF e.state = "open" THEN Append(m, e.conn)
                           ELSE KeepIn(m, Peer \ {e.conn})
                     /\ Q.joined = IF e.state = "open" THEN P.joined \cup {e.conn}
                                   ELSE P.joined \ {e.conn}
<1> DEFINE T == P.s_instance
           Q == ServerStatusCallback(P, e)
<1>1. CASE T = NullPtr
  BY <1>1 DEF ServerStatusCallback
<1>2. CASE T # NullPtr
  <2>1. T \in Transport
    BY <1>2, RuntimeBounds DEF Process, Transport, NullPtr
  <2> DEFINE l == P.gns[T].m_clients
             open == e.state = "open"
  <2>2. l \in Seq(Peer) /\ P.gns[T] \in Object
    BY <2>1 DEF Process, Object
  <2>3. PICK k \in Seq(Peer) :
          k = IF open THEN Append(l, e.conn) ELSE KeepIn(l, Peer \ {e.conn})
    <3>1. Append(l, e.conn) \in Seq(Peer)
      BY <2>2, AppendProperties
    <3>2. KeepIn(l, Peer \ {e.conn}) \in Seq(Peer)
      <4> DEFINE R == {<<l[i], l[j]>> : i \in 1..Len(l), j \in 1..Len(l)}
      <4>1. \A i, j \in 1..Len(l) : i < j => <<l[i], l[j]>> \in R
        OBVIOUS
      <4> HIDE DEF R, l
      <4>2. QED BY <2>2, <4>1, KeepInProperties
    <3>3. QED BY <3>1, <3>2
  <2>4. PICK J \in SUBSET Peer :
          J = IF T = P.m_server THEN IF open THEN P.joined \cup {e.conn}
                                     ELSE P.joined \ {e.conn}
              ELSE P.joined
    <3>1. P.joined \in SUBSET Peer
      BY DEF Process
    <3>2. QED BY <3>1
  <2> DEFINE o == [P.gns[T] EXCEPT !.m_clients = k]
             g == [P.gns EXCEPT ![T] = o]
  <2>5. Q = [P EXCEPT !.gns = g, !.joined = J]
    <3>1. CASE open
      <4>1. Q = [P EXCEPT !.gns[T].m_clients = Append(@, e.conn),
                          !.joined = IF T = P.m_server THEN @ \cup {e.conn} ELSE @]
        BY <1>2, <3>1 DEF ServerStatusCallback
      <4>2. QED BY <2>3, <2>4, <3>1, <4>1 DEF Process
    <3>2. CASE ~open
      <4>1. Q = [P EXCEPT !.gns[T].m_clients = KeepIn(@, Peer \ {e.conn}),
                          !.joined = IF T = P.m_server THEN @ \ {e.conn} ELSE @]
        BY <1>2, <3>2 DEF ServerStatusCallback
      <4>2. QED BY <2>3, <2>4, <3>2, <4>1 DEF Process
    <3>3. QED BY <3>1, <3>2
  <2>6. o \in Object /\ o.m_clients = k
    BY <2>2 DEF Object
  <2> HIDE DEF o, Q, open
  <2>7. /\ g \in [Transport -> Object] /\ g[T] = o
        /\ \A u \in Transport \ {T} : g[u] = P.gns[u]
    BY <2>1, <2>6 DEF Process
  <2> HIDE DEF g
  <2>8. /\ Q \in Process /\ Q.gns = g /\ Q.joined = J
        /\ Q.made = P.made /\ Q.lib = P.lib /\ Q.s_instance = P.s_instance
        /\ Q.stray = P.stray /\ Q.m_server = P.m_server /\ Q.m_client = P.m_client
        /\ Q.serverActive = P.serverActive /\ Q.clientActive = P.clientActive
    BY <2>5, <2>7 DEF Process
  <2>9. QED BY <2>3, <2>4, <2>6, <2>7, <2>8 DEF Q, open
<1>3. QED BY <1>1, <1>2

\* ClientStatusCallback changes one connection's state.
LEMMA ClientStatusEffect ==
    ASSUME NEW P \in Process, NEW e \in StatusChange
    PROVE  LET Q == ClientStatusCallback(P, e)
           IN  /\ Q \in Process
               /\ Q.made = P.made /\ Q.lib = P.lib /\ Q.s_instance = P.s_instance
               /\ Q.stray = P.stray /\ Q.m_server = P.m_server /\ Q.m_client = P.m_client
               /\ Q.serverActive = P.serverActive /\ Q.clientActive = P.clientActive
               /\ Q.joined = P.joined
               /\ \A u \in Transport : Q.gns[u].m_clients = P.gns[u].m_clients
<1> DEFINE T == P.s_instance
           Q == ClientStatusCallback(P, e)
<1>1. CASE T = NullPtr \/ e.state = "open"
  BY <1>1 DEF ClientStatusCallback
<1>2. CASE ~(T = NullPtr \/ e.state = "open")
  <2>1. T \in Transport
    BY <1>2, RuntimeBounds DEF Process, Transport, NullPtr
  <2>2. P.gns[T] \in Object
    BY <2>1 DEF Process
  <2> DEFINE o == [P.gns[T] EXCEPT !.connected = FALSE]
             g == [P.gns EXCEPT ![T] = o]
  <2>3. o \in Object /\ o.m_clients = P.gns[T].m_clients
    BY <2>2 DEF Object
  <2>4. Q = [P EXCEPT !.gns = g]
    BY <1>2 DEF ClientStatusCallback, Process
  <2> HIDE DEF o, Q
  <2>5. g \in [Transport -> Object] /\ \A u \in Transport : g[u].m_clients = P.gns[u].m_clients
    BY <2>1, <2>3 DEF Process
  <2> HIDE DEF g
  <2>6. QED BY <2>4, <2>5 DEF Process, Q
<1>3. QED BY <1>1, <1>2

(***************************************************************************)
(* The library.                                                            *)
(***************************************************************************)

\* A status change that is posted: where it goes and what then waits.
LEMMA PostEffect ==
    ASSUME NEW q \in Seq(StatusChange), NEW e \in StatusChange
    PROVE  /\ Append(q, e) \in Seq(StatusChange)
           /\ ToSet(Append(q, e)) = ToSet(q) \cup {e}
           /\ \A p : Waiting(Append(q, e), p) =
                       Waiting(q, p) \cup (IF p = e.conn THEN {e.state} ELSE {})
<1>1. Append(q, e) \in Seq(StatusChange)
  BY AppendProperties
<1>2. ToSet(Append(q, e)) = ToSet(q) \cup {e}
  BY ToSetAppend
<1>3. QED BY <1>1, <1>2 DEF Waiting

LEMMA PostKeepsOrder ==
    ASSUME NEW q \in Seq(StatusChange), NEW e \in StatusChange, OpenThenLost(q),
           e.conn \in Peer => \/ Waiting(q, e.conn) = {}
                              \/ Waiting(q, e.conn) = {"open"} /\ e.state = "lost"
    PROVE  OpenThenLost(Append(q, e))
<1> DEFINE a == Append(q, e)
<1>1. /\ Len(q) \in Nat /\ Len(a) = Len(q) + 1 /\ a[Len(q) + 1] = e
      /\ \A i \in 1..Len(q) : a[i] = q[i]
  BY AppendProperties
<1> SUFFICES ASSUME NEW i \in 1..Len(a), NEW j \in 1..Len(a), i < j,
                    a[i].conn \in Peer, a[i].conn = a[j].conn
             PROVE  a[i].state = "open" /\ a[j].state = "lost"
  BY DEF OpenThenLost
<1> HIDE DEF a
<1>2. i \in 1..Len(q) /\ a[i] = q[i]
  BY <1>1
<1>3. CASE j \in 1..Len(q)
  <2>1. a[j] = q[j]
    BY <1>1, <1>3
  <2>2. QED BY <1>2, <1>3, <2>1 DEF OpenThenLost
<1>4. CASE j = Len(q) + 1
  <2>1. a[j] = e
    BY <1>1, <1>4
  <2>2. q[i] \in ToSet(q)
    BY <1>2 DEF ToSet
  <2>3. q[i].state \in Waiting(q, e.conn)
    BY <1>2, <2>1, <2>2 DEF Waiting
  <2>4. QED BY <1>2, <2>1, <2>3
<1>5. QED BY <1>1, <1>3, <1>4

\* The first status change that waits is handed out.
LEMMA HandOutEffect ==
    ASSUME NEW q \in Seq(StatusChange), q # <<>>
    PROVE  /\ Head(q) \in StatusChange /\ Head(q) \in ToSet(q)
           /\ Tail(q) \in Seq(StatusChange) /\ ToSet(Tail(q)) \subseteq ToSet(q)
           /\ ToSet(q) = ToSet(Tail(q)) \cup {Head(q)}
           /\ OpenThenLost(q) =>
                 /\ OpenThenLost(Tail(q))
                 /\ Head(q).conn \in Peer =>
                       \A e \in ToSet(Tail(q)) : e.conn = Head(q).conn =>
                           Head(q).state = "open" /\ e.state = "lost"
<1>1. /\ Head(q) = q[1] /\ Tail(q) \in Seq(StatusChange)
      /\ Len(q) \in Nat \ {0} /\ Len(Tail(q)) = Len(q) - 1
      /\ \A i \in 1..Len(Tail(q)) : Tail(q)[i] = q[i + 1]
  BY HeadTailProperties, EmptySeq
<1>2. Head(q) \in StatusChange /\ Head(q) \in ToSet(q)
  <2>1. ToSet(q) = {q[i] : i \in 1..Len(q)}
    BY DEF ToSet
  <2>2. 1 \in 1..Len(q) /\ q[1] \in StatusChange
    BY <1>1
  <2>3. QED BY <1>1, <2>1, <2>2
<1>3. \A i \in 1..Len(q) : i = 1 \/ (i - 1 \in 1..Len(Tail(q)) /\ Tail(q)[i - 1] = q[i])
  BY <1>1
<1>4. \A i \in 1..Len(Tail(q)) : i + 1 \in 1..Len(q) /\ Tail(q)[i] = q[i + 1]
  BY <1>1
<1>5. ToSet(q) = {q[i] : i \in 1..Len(q)} /\ ToSet(Tail(q)) = {Tail(q)[i] : i \in 1..Len(Tail(q))}
  <2>1. \A s \in Seq(StatusChange) : ToSet(s) = {s[i] : i \in 1..Len(s)}
    BY DEF ToSet
  <2>2. QED BY <1>1, <2>1
<1>6. ToSet(q) = ToSet(Tail(q)) \cup {Head(q)}
  <2>1. \A x \in ToSet(q) : x \in ToSet(Tail(q)) \/ x = Head(q)
    BY <1>1, <1>3, <1>5
  <2>2. \A x \in ToSet(Tail(q)) : x \in ToSet(q)
    BY <1>4, <1>5
  <2>3. QED BY <1>2, <2>1, <2>2
<1>7. ASSUME OpenThenLost(q) PROVE OpenThenLost(Tail(q))
  BY <1>1, <1>4, <1>7 DEF OpenThenLost
<1>8. ASSUME OpenThenLost(q), Head(q).conn \in Peer,
             NEW e \in ToSet(Tail(q)), e.conn = Head(q).conn
      PROVE  Head(q).state = "open" /\ e.state = "lost"
  <2>1. PICK i \in 1..Len(Tail(q)) : e = Tail(q)[i]
    BY <1>5
  <2>2. i + 1 \in 1..Len(q) /\ e = q[i + 1] /\ 1 \in 1..Len(q) /\ 1 < i + 1
    BY <1>1, <1>4, <2>1
  <2>3. QED BY <1>1, <1>8, <2>2 DEF OpenThenLost
<1>9. QED BY <1>1, <1>2, <1>6, <1>7, <1>8

\* What Settle keeps: the status changes of connections that are not closed.
LEMMA SettleEffect ==
    ASSUME TypeInv, NEW P \in Process, Settle(P)
    PROVE  /\ queue' \in Seq(StatusChange)
           /\ link' \in [Peer \cup Transport -> {"none", "trying", "up", "lost", "closed"}]
           /\ ToSet(queue') = {e \in ToSet(queue) : link'[e.conn] # "closed"}
           /\ OpenThenLost(queue) => OpenThenLost(queue')
           /\ \A p \in Peer : link'[p] =
                 IF link[p] # "none" /\ (~P.lib \/ P.m_server # proc.m_server)
                 THEN "closed" ELSE link[p]
<1> DEFINE gone(c) == \/ ~P.lib
                      \/ c \in Transport /\ ~P.gns[c].running
                      \/ c \in Peer /\ P.m_server # proc.m_server
           next(c) == IF c \in Transport /\ c > proc.made /\ P.lib /\ P.gns[c].connected
                      THEN "trying"
                      ELSE IF link[c] # "none" /\ gone(c) THEN "closed" ELSE link[c]
           K == {e \in StatusChange : next(e.conn) # "closed"}
           R == {r \in StatusChange \X StatusChange :
                    (r[1].conn \in Peer /\ r[1].conn = r[2].conn) =>
                        r[1].state = "open" /\ r[2].state = "lost"}
           Pairs(q) == \A i, j \in 1..Len(q) : i < j => <<q[i], q[j]>> \in R
           All == StatusChange \X StatusChange
<1>1. /\ link \in [Peer \cup Transport -> {"none", "trying", "up", "lost", "closed"}]
      /\ queue \in Seq(StatusChange)
  BY DEF TypeInv, TypeOK
<1>2. /\ link' = [c \in Peer \cup Transport |-> next(c)]
      /\ queue' = KeepIn(queue, K)
  BY <1>1 DEF Settle
<1>3. \A c \in Peer \cup Transport :
         next(c) \in {"none", "trying", "up", "lost", "closed"} /\ link'[c] = next(c)
  BY <1>1, <1>2
<1>4. link' \in [Peer \cup Transport -> {"none", "trying", "up", "lost", "closed"}]
  BY <1>2, <1>3
<1>5. \A p \in Peer : link'[p] =
         IF link[p] # "none" /\ (~P.lib \/ P.m_server # proc.m_server)
         THEN "closed" ELSE link[p]
  BY <1>3, RuntimeBounds DEF Transport
<1>6. \A e \in StatusChange : e \in K <=> link'[e.conn] # "closed"
  BY <1>3 DEF StatusChange
<1> HIDE DEF K, R, next
<1>7. KeepIn(queue, K) \in Seq(StatusChange) /\ ToSet(KeepIn(queue, K)) = ToSet(queue) \cap K
  <2>1. \A i, j \in 1..Len(queue) : i < j => <<queue[i], queue[j]>> \in All
    BY <1>1
  <2> HIDE DEF All
  <2>2. QED BY <1>1, <2>1, KeepInProperties
<1>8. ToSet(queue) \subseteq StatusChange
  BY <1>1, ToSetTyped
<1>9. ASSUME OpenThenLost(queue) PROVE OpenThenLost(queue')
  <2>1. \A i, j \in 1..Len(queue) : i < j => <<queue[i], queue[j]>> \in R
    BY <1>1, <1>9 DEF OpenThenLost, R
  <2>2. \A i, j \in 1..Len(queue') : i < j => <<queue'[i], queue'[j]>> \in R
    BY <1>1, <1>2, <2>1, KeepInProperties
  <2>3. QED BY <2>2 DEF OpenThenLost, R
<1>10. QED BY <1>2, <1>4, <1>5, <1>6, <1>7, <1>8, <1>9

(***************************************************************************)
(* The types.                                                              *)
(***************************************************************************)

\* Init gives every variable its type.
LEMMA TypeInit == Init => TypeInv
<1> SUFFICES ASSUME Init PROVE TypeInv
  OBVIOUS
<1>1. NullPtr \in 0..MaxTransports /\ {} \in SUBSET Peer /\ FALSE \in BOOLEAN
  BY RuntimeBounds DEF NullPtr
<1>2. 0 \in 0..MaxTransports
  BY RuntimeBounds
<1>3. [t \in Transport |-> Fresh] \in [Transport -> Object]
  BY FreshObject
<1>4. proc \in Process
  BY <1>1, <1>2, <1>3 DEF Init, Process
<1>5. queue \in Seq(StatusChange) /\ ToSet(queue) = {}
  BY EmptySeq DEF Init, ToSet
<1>6. link \in [Peer \cup Transport -> {"none", "trying", "up", "lost", "closed"}]
  BY DEF Init
<1>7. exe \in {"SXS", "Client"} /\ g_running \in BOOLEAN /\ doubled \in BOOLEAN
      /\ at \in Boot
  BY DEF Init, Boot
<1>8. QED BY <1>4, <1>5, <1>6, <1>7 DEF TypeInv, TypeOK

\* The status changes that go to a server are those of peers.
LEMMA TypePost ==
    ASSUME TypeInv, NEW c \in Peer \cup Transport, NEW to, NEW state \in {"open", "lost"},
           to = IF c \in Peer THEN "server" ELSE "client",
           Post(c, to, state),
           NEW new \in {"up", "lost"}, link' = [link EXCEPT ![c] = new]
    PROVE  TypeInv'
<1> DEFINE e == [to |-> to, state |-> state, conn |-> c]
<1>1. e \in StatusChange /\ queue \in Seq(StatusChange)
  BY DEF StatusChange, TypeInv, TypeOK
<1>2. queue' = Append(queue, e) /\ e.to = to /\ e.conn = c
  BY DEF Post
<1> HIDE DEF e
<1>3. queue' \in Seq(StatusChange) /\ ToSet(queue') = ToSet(queue) \cup {e}
  BY <1>1, <1>2, PostEffect
<1>4. link' \in [Peer \cup Transport -> {"none", "trying", "up", "lost", "closed"}]
  BY DEF TypeInv, TypeOK
<1>5. UNCHANGED <<exe, at, g_running, proc, doubled>>
  BY DEF Post
<1>6. \A x \in ToSet(queue') : x.to = "server" <=> x.conn \in Peer
  BY <1>2, <1>3 DEF TypeInv
<1>7. QED BY <1>3, <1>4, <1>5, <1>6 DEF TypeInv, TypeOK

\* A callback is told of one status change, or the step goes on.
LEMMA TypePoll ==
    ASSUME TypeInv, NEW t \in 0..MaxTransports, NEW here, NEW next \in Loop, Poll(t, here, next)
    PROVE  TypeInv'
<1>1. /\ proc \in Process /\ queue \in Seq(StatusChange)
      /\ \A e \in ToSet(queue) : e.to = "server" <=> e.conn \in Peer
  BY DEF TypeInv, TypeOK
<1>2. CASE /\ t # NullPtr /\ proc.lib /\ queue # <<>>
           /\ LET e == Head(queue)
              IN  /\ proc' = IF e.to = "server" THEN ServerStatusCallback(proc, e)
                             ELSE ClientStatusCallback(proc, e)
                  /\ g_running' = (g_running /\ ~StopsClient(proc, e))
           /\ queue' = Tail(queue)
           /\ UNCHANGED <<at, exe, link, doubled>>
  <2> DEFINE e == Head(queue)
  <2>1. /\ e \in StatusChange /\ e \in ToSet(queue) /\ queue' \in Seq(StatusChange)
        /\ ToSet(queue') \subseteq ToSet(queue)
    BY <1>1, <1>2, HandOutEffect
  <2>2. g_running' \in BOOLEAN
    BY <1>2 DEF TypeInv, TypeOK
  <2>3. proc' = IF e.to = "server" THEN ServerStatusCallback(proc, e)
                ELSE ClientStatusCallback(proc, e)
    BY <1>2
  <2> HIDE DEF e
  <2>4. proc' \in Process
    <3>1. CASE e.to = "server"
      BY <1>1, <2>1, <2>3, <3>1, ServerStatusEffect
    <3>2. CASE e.to # "server"
      BY <1>1, <2>1, <2>3, <3>2, ClientStatusEffect
    <3>3. QED BY <3>1, <3>2
  <2>5. QED BY <1>2, <2>1, <2>2, <2>4 DEF TypeInv, TypeOK
<1>3. CASE /\ GoOn([proc EXCEPT !.stray = @ \/ (t # NullPtr /\ ~proc.lib)], next)
           /\ UNCHANGED <<g_running, queue, exe, link, doubled>>
  <2>1. proc' \in Process
    <3> DEFINE b == proc.stray \/ (t # NullPtr /\ ~proc.lib)
    <3>1. b \in BOOLEAN
      OBVIOUS
    <3>2. proc' = [proc EXCEPT !.stray = b]
      BY <1>1, <1>3 DEF GoOn, Process
    <3> HIDE DEF b
    <3>3. QED BY <1>1, <3>1, <3>2 DEF Process
  <2>2. at' \in Loop \cup Done
    BY <1>3 DEF GoOn, Done
  <2>3. QED BY <1>3, <2>1, <2>2 DEF TypeInv, TypeOK
<1>4. QED BY <1>2, <1>3 DEF Poll

\* A step that sets the objects to P and settles the connections.
LEMMA TypeSettle ==
    ASSUME TypeInv, NEW P \in Process, proc' = P, Settle(P),
           at' \in Loop \cup Done, doubled' \in BOOLEAN, UNCHANGED <<exe, g_running>>
    PROVE  TypeInv'
<1>1. /\ queue' \in Seq(StatusChange)
      /\ link' \in [Peer \cup Transport -> {"none", "trying", "up", "lost", "closed"}]
      /\ ToSet(queue') \subseteq ToSet(queue)
  BY SettleEffect
<1>2. QED BY <1>1 DEF TypeInv, TypeOK

\* Every step keeps the types.
LEMMA TypeStep == TypeInv /\ [Next]_vars => TypeInv'
<1> SUFFICES ASSUME TypeInv, [Next]_vars PROVE TypeInv'
  OBVIOUS
<1>1. /\ proc \in Process /\ doubled \in BOOLEAN
      /\ proc.m_server \in 0..MaxTransports /\ proc.m_client \in 0..MaxTransports
  BY DEF TypeInv, TypeOK, Process
<1>2. ASSUME UNCHANGED <<exe, proc, queue, link, doubled>>,
             at' \in Boot \cup {"running"} \cup Loop \cup {"shutdown"} \cup Done,
             g_running' \in BOOLEAN
      PROVE  TypeInv'
  BY <1>2 DEF TypeInv, TypeOK
<1>3. CASE UNCHANGED vars
  BY <1>3 DEF vars, TypeInv, TypeOK
<1>4. CASE BootStep("fetch", "verify") \/ BootStep("verify", "spawn") \/ BootStep("spawn", "running")
  BY <1>2, <1>4 DEF BootStep, TypeInv, TypeOK, Boot, Done
<1>5. CASE EnterLoop \/ EndTick
  BY <1>2, <1>5 DEF EnterLoop, EndTick, LoopEnd, Loop, TypeInv, TypeOK
<1>6. CASE PollServer
  <2>1. "poll client" \in Loop
    BY DEF Loop
  <2>2. QED BY <1>1, <1>6, <2>1, TypePoll DEF PollServer
<1>7. CASE PollClient
  <2>1. "tick" \in Loop
    BY DEF Loop
  <2>2. QED BY <1>1, <1>7, <2>1, TypePoll DEF PollClient
<1>8. CASE Stop
  <2>1. EngineShutdown(proc) \in Process
    BY <1>1, EngineShutdownEffect
  <2>2. /\ proc' = EngineShutdown(proc) /\ Settle(EngineShutdown(proc)) /\ at' \in Loop \cup Done
        /\ UNCHANGED <<exe, g_running, doubled>>
    BY <1>8 DEF Stop, GoOn, Done
  <2>3. QED BY <1>1, <2>1, <2>2, TypeSettle
<1>9. ASSUME NEW P \in Process, ScriptCalls(P) PROVE TypeInv'
  <2>1. at' \in Loop \cup Done /\ doubled' \in BOOLEAN
    BY <1>9 DEF ScriptCalls, GoOn, Loop, Done
  <2>2. proc' = P /\ Settle(P) /\ UNCHANGED <<exe, g_running>>
    BY <1>9 DEF ScriptCalls, GoOn
  <2>3. QED BY <2>1, <2>2, TypeSettle
<1>10. CASE HostServer
  <2>1. PICK ok \in BOOLEAN : ScriptCalls(StartServerInternal(proc, ok))
    BY <1>10 DEF HostServer
  <2>2. proc.made < MaxTransports
    BY <2>1 DEF ScriptCalls
  <2>3. StartServerInternal(proc, ok) \in Process
    BY <1>1, <2>2, HostEffect
  <2>4. QED BY <1>9, <2>1, <2>3
<1>11. CASE ConnectServer
  <2>1. PICK ok \in BOOLEAN : ScriptCalls(ConnectToServer(proc, ok))
    BY <1>11 DEF ConnectServer
  <2>2. proc.made < MaxTransports
    BY <2>1 DEF ScriptCalls
  <2>3. ConnectToServer(proc, ok) \in Process
    BY <1>1, <2>2, ConnectEffect
  <2>4. QED BY <1>9, <2>1, <2>3
<1>12. ASSUME NEW p \in Peer, PeerArrives(p) \/ PeerLost(p) PROVE TypeInv'
  <2>1. CASE PeerArrives(p)
    BY <2>1, TypePost DEF PeerArrives
  <2>2. CASE PeerLost(p)
    BY <2>2, TypePost DEF PeerLost
  <2>3. QED BY <1>12, <2>1, <2>2
<1>13. ASSUME NEW t \in Transport, ServerAccepts(t) \/ ServerLost(t) PROVE TypeInv'
  <2>1. t \notin Peer
    BY RuntimeBounds DEF Transport
  <2>2. CASE ServerAccepts(t)
    BY <2>1, <2>2, TypePost DEF ServerAccepts
  <2>3. CASE ServerLost(t)
    BY <2>1, <2>3, TypePost DEF ServerLost
  <2>4. QED BY <1>13, <2>2, <2>3
<1>14. CASE Interrupt
  BY <1>2, <1>14 DEF Interrupt, TypeInv, TypeOK
<1>15. QED BY <1>3, <1>4, <1>5, <1>6, <1>7, <1>8, <1>10, <1>11, <1>12, <1>13, <1>14
          DEF Next, Main, Script, Library

(***************************************************************************)
(* The owner of the status changes.                                        *)
(***************************************************************************)

\* Nothing is alive at first.
LEMMA OwnerInit == Init => OwnerInv
  BY DEF Init, OwnerInv, Alive, NullPtr

\* A step that leaves the objects' owner as it was.
LEMMA OwnerKept ==
    ASSUME OwnerInv, doubled' = doubled, at \in Done => at' \in Done,
           /\ proc'.stray = proc.stray /\ proc'.lib = proc.lib /\ proc'.made = proc.made
           /\ proc'.s_instance = proc.s_instance
           /\ proc'.m_server = proc.m_server /\ proc'.m_client = proc.m_client
           /\ proc'.serverActive = proc.serverActive
           /\ proc'.clientActive = proc.clientActive
    PROVE  OwnerInv'
<1>1. Alive(proc)' = Alive(proc)
  BY DEF Alive
<1>2. QED BY <1>1 DEF OwnerInv

\* A script call that finds nothing alive and leaves one transport or none.
LEMMA OwnerCall ==
    ASSUME TypeInv, OwnerInv, at \notin Done, Alive(proc) = {}, ~doubled,
           NEW P \in Process, proc' = P,
           P.stray = proc.stray, P.made = proc.made + 1,
           P.m_server = NullPtr \/ P.m_client = NullPtr,
           \/ /\ Alive(P) = {} /\ ~P.lib /\ P.s_instance = NullPtr
              /\ {P.serverActive, P.clientActive} = {NullPtr}
           \/ /\ Alive(P) = {P.made} /\ P.lib /\ P.s_instance = P.made
              /\ {P.serverActive, P.clientActive} \subseteq {P.made, NullPtr}
    PROVE  OwnerInv'
<1>1. ~proc.stray
  BY DEF OwnerInv
<1>2. P.made \in Nat /\ P.made <= P.made
  BY RuntimeBounds DEF Process
<1>3. QED BY <1>1, <1>2 DEF OwnerInv

\* Every step keeps the owner.
LEMMA OwnerStep == TypeInv /\ OwnerInv /\ [Next]_vars => OwnerInv'
<1> SUFFICES ASSUME TypeInv, OwnerInv, [Next]_vars PROVE OwnerInv'
  OBVIOUS
<1>1. /\ proc \in Process /\ queue \in Seq(StatusChange)
      /\ \A e \in ToSet(queue) : e.to = "server" <=> e.conn \in Peer
  BY DEF TypeInv, TypeOK
<1>2. ASSUME UNCHANGED <<proc, doubled>>, at \in Done => at' \in Done
      PROVE  OwnerInv'
  BY <1>2, OwnerKept
<1>3. CASE UNCHANGED vars
  BY <1>2, <1>3 DEF vars
<1>4. CASE BootStep("fetch", "verify") \/ BootStep("verify", "spawn") \/ BootStep("spawn", "running")
  BY <1>2, <1>4 DEF BootStep, Done
<1>5. CASE EnterLoop \/ EndTick \/ Interrupt
  BY <1>2, <1>5 DEF EnterLoop, EndTick, Interrupt, Done
<1>6. ASSUME NEW t \in {proc.m_server, proc.m_client}, NEW here, here \notin Done,
             NEW next, Poll(t, here, next)
      PROVE  OwnerInv'
  <2>1. at \notin Done
    BY <1>6 DEF Poll
  <2>2. CASE /\ t # NullPtr /\ proc.lib /\ queue # <<>>
             /\ LET e == Head(queue)
                IN  /\ proc' = IF e.to = "server" THEN ServerStatusCallback(proc, e)
                               ELSE ClientStatusCallback(proc, e)
                    /\ g_running' = (g_running /\ ~StopsClient(proc, e))
             /\ queue' = Tail(queue)
             /\ UNCHANGED <<at, exe, link, doubled>>
    <3> DEFINE e == Head(queue)
    <3>1. e \in StatusChange /\ e \in ToSet(queue)
      BY <1>1, <2>2, HandOutEffect
    <3>2. proc' = IF e.to = "server" THEN ServerStatusCallback(proc, e)
                  ELSE ClientStatusCallback(proc, e)
      BY <2>2
    <3> HIDE DEF e
    <3>3. /\ proc'.stray = proc.stray /\ proc'.lib = proc.lib /\ proc'.made = proc.made
          /\ proc'.s_instance = proc.s_instance
          /\ proc'.m_server = proc.m_server /\ proc'.m_client = proc.m_client
          /\ proc'.serverActive = proc.serverActive
          /\ proc'.clientActive = proc.clientActive
      <4>1. CASE e.to = "server"
        <5>1. e.conn \in Peer
          BY <1>1, <3>1, <4>1
        <5>2. QED BY <1>1, <3>1, <3>2, <4>1, <5>1, ServerStatusEffect
      <4>2. CASE e.to # "server"
        BY <1>1, <3>1, <3>2, <4>2, ClientStatusEffect
      <4>3. QED BY <4>1, <4>2
    <3>4. doubled' = doubled /\ at \notin Done
      BY <2>1, <2>2
    <3>5. QED BY <3>3, <3>4, OwnerKept
  <2>3. CASE /\ GoOn([proc EXCEPT !.stray = @ \/ (t # NullPtr /\ ~proc.lib)], next)
             /\ UNCHANGED <<g_running, queue, exe, link, doubled>>
    <3>1. proc' = [proc EXCEPT !.stray = proc.stray \/ (t # NullPtr /\ ~proc.lib)]
      BY <1>1, <2>3 DEF GoOn, Process
    <3>2. CASE doubled
      BY <2>3, <3>2 DEF OwnerInv
    <3>3. CASE ~doubled
      <4>1. t # NullPtr => proc.lib
        BY <1>6, <3>3 DEF OwnerInv, Alive
      <4>2. proc.stray \in BOOLEAN
        BY <1>1 DEF Process
      <4>3. proc' = proc
        BY <1>1, <3>1, <4>1, <4>2 DEF Process
      <4>4. QED BY <1>2, <2>1, <2>3, <4>3
    <3>4. QED BY <3>2, <3>3
  <2>4. QED BY <1>6, <2>2, <2>3 DEF Poll
<1>7. CASE PollServer \/ PollClient
  BY <1>6, <1>7 DEF PollServer, PollClient, Done
<1>8. CASE Stop
  <2> DEFINE P == EngineShutdown(proc)
  <2>1. proc' = P /\ doubled' = doubled /\ at' \in {"ended", "exited", "crashed"}
    BY <1>8 DEF Stop, GoOn
  <2>2. CASE doubled
    BY <2>1, <2>2 DEF OwnerInv
  <2>3. CASE ~doubled
    <3>1. /\ ~proc.stray
          /\ proc.m_server = NullPtr \/ proc.m_client = NullPtr
          /\ Alive(proc) # {} => proc.lib
          /\ Alive(proc) = {} => ~proc.lib /\ proc.s_instance = NullPtr
      BY <2>3 DEF OwnerInv
    <3>2. /\ P.m_server = NullPtr /\ P.m_client = NullPtr
          /\ P.stray = proc.stray /\ ~P.lib /\ P.s_instance = NullPtr
      BY <1>1, <3>1, EngineShutdownEffect
    <3>3. Alive(P) = {}
      BY <3>2 DEF Alive
    <3> HIDE DEF P
    <3>4. QED BY <2>1, <3>1, <3>2, <3>3 DEF OwnerInv, Done
  <2>4. QED BY <2>2, <2>3
<1>9. ASSUME HostServer \/ ConnectServer, doubled \/ Alive(proc) # {} PROVE OwnerInv'
  BY <1>9 DEF HostServer, ConnectServer, ScriptCalls, OwnerInv
<1>10. ASSUME ~doubled, Alive(proc) = {}
       PROVE  /\ proc.m_server = NullPtr /\ proc.m_client = NullPtr
              /\ at \notin Done => proc.serverActive = NullPtr /\ proc.clientActive = NullPtr
  BY <1>10 DEF Alive, OwnerInv
<1>11. CASE HostServer
  <2>1. PICK ok \in BOOLEAN : ScriptCalls(StartServerInternal(proc, ok))
    BY <1>11 DEF HostServer
  <2>2. /\ proc.made < MaxTransports /\ at \notin Done
        /\ proc' = StartServerInternal(proc, ok)
    BY <2>1 DEF ScriptCalls, GoOn, Done
  <2>3. CASE ~doubled /\ Alive(proc) = {}
    <3> DEFINE P == StartServerInternal(proc, ok)
    <3>1. /\ P \in Process /\ P.made = proc.made + 1 /\ P.stray = proc.stray
          /\ P.m_client = NullPtr /\ P.clientActive = NullPtr
          /\ IF ok THEN P.m_server = P.made /\ P.serverActive = P.made
                        /\ P.s_instance = P.made /\ P.lib
             ELSE P.m_server = NullPtr /\ P.serverActive = NullPtr
                  /\ P.s_instance = NullPtr /\ ~P.lib
      BY <1>1, <1>10, <2>2, <2>3, HostEffect
    <3> HIDE DEF P
    <3>2. P.made # NullPtr
      BY <1>1, <3>1, RuntimeBounds DEF Process, NullPtr
    <3>3. Alive(P) = IF ok THEN {P.made} ELSE {}
      BY <3>1, <3>2 DEF Alive
    <3>4. QED BY <2>2, <2>3, <3>1, <3>3, OwnerCall DEF P
  <2>4. QED BY <1>9, <1>11, <2>3
<1>12. CASE ConnectServer
  <2>1. PICK ok \in BOOLEAN : ScriptCalls(ConnectToServer(proc, ok))
    BY <1>12 DEF ConnectServer
  <2>2. /\ proc.made < MaxTransports /\ at \notin Done
        /\ proc' = ConnectToServer(proc, ok)
    BY <2>1 DEF ScriptCalls, GoOn, Done
  <2>3. CASE ~doubled /\ Alive(proc) = {}
    <3> DEFINE P == ConnectToServer(proc, ok)
    <3>1. /\ P \in Process /\ P.made = proc.made + 1 /\ P.stray = proc.stray
          /\ P.m_server = NullPtr /\ P.serverActive = NullPtr
          /\ IF ok THEN P.m_client = P.made /\ P.clientActive = P.made
                        /\ P.s_instance = P.made /\ P.lib
             ELSE P.m_client = NullPtr /\ P.clientActive = NullPtr
                  /\ P.s_instance = NullPtr /\ ~P.lib
      BY <1>1, <1>10, <2>2, <2>3, ConnectEffect
    <3> HIDE DEF P
    <3>2. P.made # NullPtr
      BY <1>1, <3>1, RuntimeBounds DEF Process, NullPtr
    <3>3. Alive(P) = IF ok THEN {P.made} ELSE {}
      BY <3>1, <3>2 DEF Alive
    <3>4. QED BY <2>2, <2>3, <3>1, <3>3, OwnerCall DEF P
  <2>4. QED BY <1>9, <1>12, <2>3
<1>13. CASE Library
  BY <1>2, <1>13 DEF Library, PeerArrives, PeerLost, ServerAccepts, ServerLost, Post
<1>14. QED BY <1>3, <1>4, <1>5, <1>7, <1>8, <1>11, <1>12, <1>13
          DEF Next, Main, Script

(***************************************************************************)
(* The clients of a server are the peers that are connected.               *)
(***************************************************************************)

\* Nobody is connected at first.
LEMMA ConnInit == Init => ConnInv
<1> SUFFICES ASSUME Init PROVE ConnInv
  OBVIOUS
<1>1. queue = <<>> /\ ToSet(queue) = {} /\ Len(queue) = 0
  BY EmptySeq DEF Init, ToSet
<1>2. proc.m_server = NullPtr /\ Known(proc) = <<>> /\ ToSet(Known(proc)) = {}
  BY DEF Init, Known, ToSet
<1>3. IsInjective(Known(proc))
  BY <1>2 DEF IsInjective
<1>4. \A t \in Transport : proc.gns[t].m_clients = <<>>
  BY DEF Init, Fresh
<1>5. \A p \in Peer : link[p] = "none"
  BY DEF Init
<1>6. \A p \in Peer : Waiting(queue, p) = {}
  BY <1>1 DEF Waiting
<1>7. OpenThenLost(queue)
  BY <1>1 DEF OpenThenLost
<1>8. \A p \in Peer : PeerAgrees(link[p], Waiting(queue, p), p \in ToSet(Known(proc)))
  BY <1>2, <1>5, <1>6 DEF PeerAgrees
<1>9. QED BY <1>2, <1>3, <1>4, <1>5, <1>7, <1>8 DEF ConnInv

\* A step that changes neither what waits nor what is known.
LEMMA ConnKept ==
    ASSUME ConnInv, UNCHANGED <<queue, link, proc, doubled>>
    PROVE  ConnInv'
  BY DEF ConnInv

\* A peer arrives or is lost: one more status change waits.
LEMMA ConnPost ==
    ASSUME TypeInv, OwnerInv, ConnInv, NEW c \in Peer, PeerArrives(c) \/ PeerLost(c)
    PROVE  ConnInv'
<1> SUFFICES ASSUME ~doubled' PROVE ConnInv'
  BY DEF ConnInv
<1>1. PICK state \in {"open", "lost"} :
         /\ Post(c, "server", state)
         /\ \/ state = "open" /\ link[c] = "none" /\ proc.m_server # NullPtr
               /\ link' = [link EXCEPT ![c] = "up"]
            \/ state = "lost" /\ link[c] = "up" /\ link' = [link EXCEPT ![c] = "lost"]
  BY DEF PeerArrives, PeerLost
<1> DEFINE e == [to |-> "server", state |-> state, conn |-> c]
<1>2. /\ e \in StatusChange /\ e.conn = c /\ e.state = state
      /\ queue \in Seq(StatusChange) /\ queue' = Append(queue, e)
      /\ proc' = proc /\ doubled' = doubled
  BY <1>1 DEF StatusChange, TypeInv, TypeOK, Post
<1> HIDE DEF e
<1>3. /\ OpenThenLost(queue)
      /\ \A t \in Transport : t > proc.made => proc.gns[t].m_clients = <<>>
      /\ IsInjective(Known(proc))
      /\ proc.m_server # NullPtr => ToSet(Known(proc)) = proc.joined
      /\ proc.m_server = NullPtr => \A p \in Peer : link[p] \in {"none", "closed"}
      /\ \A p \in Peer : PeerAgrees(link[p], Waiting(queue, p), p \in ToSet(Known(proc)))
  BY <1>2 DEF ConnInv
<1>4. \A p : Waiting(queue', p) = Waiting(queue, p) \cup (IF p = c THEN {state} ELSE {})
  BY <1>2, PostEffect
<1>5. \A p \in Peer : link'[p] = IF p = c THEN IF state = "open" THEN "up" ELSE "lost" ELSE link[p]
  BY <1>1 DEF TypeInv, TypeOK
<1>6. \A p \in Peer : PeerAgrees(link[p]', Waiting(queue, p)', p \in ToSet(Known(proc)))
  <2> SUFFICES ASSUME NEW p \in Peer
               PROVE  PeerAgrees(link'[p], Waiting(queue', p), p \in ToSet(Known(proc)))
    BY DEF Waiting
  <2>1. CASE p # c
    BY <1>3, <1>4, <1>5, <2>1
  <2>2. CASE p = c
    <3>1. PeerAgrees(link[c], Waiting(queue, c), c \in ToSet(Known(proc)))
      BY <1>3
    <3>2. CASE state = "open"
      BY <1>1, <1>4, <1>5, <2>2, <3>1, <3>2 DEF PeerAgrees
    <3>3. CASE state = "lost"
      BY <1>1, <1>4, <1>5, <2>2, <3>1, <3>3 DEF PeerAgrees
    <3>4. QED BY <3>2, <3>3
  <2>3. QED BY <2>1, <2>2
<1>7. OpenThenLost(queue')
  <2>1. PeerAgrees(link[c], Waiting(queue, c), c \in ToSet(Known(proc)))
    BY <1>3
  <2>2. \/ Waiting(queue, c) = {}
        \/ Waiting(queue, c) = {"open"} /\ e.state = "lost"
    BY <1>1, <1>2, <2>1 DEF PeerAgrees
  <2>3. QED BY <1>2, <1>3, <2>2, PostKeepsOrder
<1>8. proc.m_server # NullPtr
  BY <1>1, <1>3
<1>9. QED BY <1>2, <1>3, <1>6, <1>7, <1>8 DEF ConnInv

\* What waits for a client is nothing to a server's peers.
LEMMA ConnClient ==
    ASSUME TypeInv, ConnInv, NEW c \in Transport, ServerAccepts(c) \/ ServerLost(c)
    PROVE  ConnInv'
<1> SUFFICES ASSUME ~doubled' PROVE ConnInv'
  BY DEF ConnInv
<1>1. PICK state \in {"open", "lost"}, new \in {"up", "lost"} :
         Post(c, "client", state) /\ link' = [link EXCEPT ![c] = new]
  BY DEF ServerAccepts, ServerLost
<1> DEFINE e == [to |-> "client", state |-> state, conn |-> c]
<1>2. /\ e \in StatusChange /\ e.conn = c
      /\ queue \in Seq(StatusChange) /\ queue' = Append(queue, e)
      /\ proc' = proc /\ doubled' = doubled
  BY <1>1 DEF StatusChange, TypeInv, TypeOK, Post
<1> HIDE DEF e
<1>3. /\ OpenThenLost(queue)
      /\ \A t \in Transport : t > proc.made => proc.gns[t].m_clients = <<>>
      /\ IsInjective(Known(proc))
      /\ proc.m_server # NullPtr => ToSet(Known(proc)) = proc.joined
      /\ proc.m_server = NullPtr => \A p \in Peer : link[p] \in {"none", "closed"}
      /\ \A p \in Peer : PeerAgrees(link[p], Waiting(queue, p), p \in ToSet(Known(proc)))
  BY <1>2 DEF ConnInv
<1>4. c \notin Peer
  BY RuntimeBounds DEF Transport
<1>5. \A p \in Peer : link'[p] = link[p] /\ Waiting(queue', p) = Waiting(queue, p)
  <2>1. \A p : Waiting(queue', p) = Waiting(queue, p) \cup (IF p = c THEN {e.state} ELSE {})
    BY <1>2, PostEffect
  <2>2. \A p \in Peer : p # c
    BY <1>4
  <2>3. \A p \in Peer : link'[p] = link[p]
    BY <1>1, <2>2 DEF TypeInv, TypeOK
  <2>4. QED BY <2>1, <2>2, <2>3
<1>6. OpenThenLost(queue')
  BY <1>2, <1>3, <1>4, PostKeepsOrder
<1>7. \A p \in Peer : PeerAgrees(link[p]', Waiting(queue, p)', p \in ToSet(Known(proc)))
  <2>1. \A p \in Peer : Waiting(queue, p)' = Waiting(queue', p)
    BY DEF Waiting
  <2>2. QED BY <1>3, <1>5, <2>1
<1>8. QED BY <1>2, <1>3, <1>5, <1>6, <1>7 DEF ConnInv

\* The erasure of a client that is known once, and the addition of one that
\* is not known.
LEMMA KnownEffect ==
    ASSUME NEW m \in Seq(Peer), NEW c \in Peer, IsInjective(m)
    PROVE  /\ KeepIn(m, Peer \ {c}) \in Seq(Peer)
           /\ ToSet(KeepIn(m, Peer \ {c})) = ToSet(m) \ {c}
           /\ IsInjective(KeepIn(m, Peer \ {c}))
           /\ ToSet(Append(m, c)) = ToSet(m) \cup {c}
           /\ c \notin ToSet(m) => IsInjective(Append(m, c))
<1> DEFINE R == {r \in Peer \X Peer : r[1] # r[2]}
           k == KeepIn(m, Peer \ {c})
           a == Append(m, c)
<1>1. \A i, j \in 1..Len(m) : i < j => <<m[i], m[j]>> \in R
  <2>1. \A i, j \in 1..Len(m) : i < j => m[i] # m[j] /\ m[i] \in Peer /\ m[j] \in Peer
    BY DEF IsInjective
  <2>2. QED BY <2>1
<1> HIDE DEF R
<1>2. /\ k \in Seq(Peer) /\ ToSet(k) = ToSet(m) \cap (Peer \ {c})
      /\ \A i, j \in 1..Len(k) : i < j => <<k[i], k[j]>> \in R
  BY <1>1, KeepInProperties
<1> HIDE DEF k
<1>3. ToSet(k) = ToSet(m) \ {c}
  BY <1>2, ToSetTyped
<1>4. IsInjective(k)
  <2>1. \A i, j \in 1..Len(k) : i < j => k[i] # k[j]
    BY <1>2 DEF R
  <2>2. DOMAIN k = 1..Len(k) /\ Len(k) \in Nat
    BY <1>2
  <2>3. QED BY <2>1, <2>2 DEF IsInjective
<1>5. ToSet(a) = ToSet(m) \cup {c}
  BY ToSetAppend
<1>6. ASSUME c \notin ToSet(m) PROVE IsInjective(a)
  <2>1. /\ DOMAIN a = 1..Len(m) + 1 /\ a[Len(m) + 1] = c
        /\ \A i \in 1..Len(m) : a[i] = m[i] /\ m[i] # c
    <3>1. \A i \in 1..Len(m) : m[i] \in ToSet(m)
      BY DEF ToSet
    <3>2. QED BY <1>6, <3>1, AppendProperties
  <2>2. \A i, j \in 1..Len(m) : m[i] = m[j] => i = j
    BY DEF IsInjective
  <2>3. QED BY <2>1, <2>2, Len(m) \in Nat DEF IsInjective
<1>7. QED BY <1>2, <1>3, <1>4, <1>5, <1>6 DEF k

\* A status change of a peer is handed out.
LEMMA ConnHandOut ==
    ASSUME TypeInv, OwnerInv, ConnInv, queue # <<>>, queue' = Tail(queue),
           Head(queue).to = "server", proc' = ServerStatusCallback(proc, Head(queue)),
           UNCHANGED <<link, doubled>>
    PROVE  ConnInv'
<1> SUFFICES ASSUME ~doubled' PROVE ConnInv'
  BY DEF ConnInv
<1> DEFINE e == Head(queue)
           c == e.conn
           m == Known(proc)
<1>1. /\ OpenThenLost(queue)
      /\ \A t \in Transport : t > proc.made => proc.gns[t].m_clients = <<>>
      /\ IsInjective(Known(proc))
      /\ proc.m_server # NullPtr => ToSet(Known(proc)) = proc.joined
      /\ proc.m_server = NullPtr => \A p \in Peer : link[p] \in {"none", "closed"}
      /\ \A p \in Peer : PeerAgrees(link[p], Waiting(queue, p), p \in ToSet(Known(proc)))
  BY DEF ConnInv
<1>2. /\ e \in StatusChange /\ queue' \in Seq(StatusChange)
      /\ ToSet(queue) = ToSet(queue') \cup {e}
      /\ OpenThenLost(queue')
      /\ c \in Peer
      /\ \A x \in ToSet(queue') : x.conn = c => e.state = "open" /\ x.state = "lost"
  <2>1. queue \in Seq(StatusChange)
    BY DEF TypeInv, TypeOK
  <2>2. c \in Peer
    BY <2>1, HandOutEffect DEF TypeInv
  <2>3. QED BY <1>1, <2>1, <2>2, HandOutEffect
<1> HIDE DEF e
<1>3. \A p : Waiting(queue, p) = Waiting(queue', p) \cup (IF p = c THEN {e.state} ELSE {})
  BY <1>2 DEF Waiting
<1>4. PeerAgrees(link[c], Waiting(queue, c), c \in ToSet(m))
  BY <1>1, <1>2
<1>5. e.state \in Waiting(queue, c) /\ e.state \in {"open", "lost"}
  BY <1>2, <1>3 DEF StatusChange
<1>6. proc.m_server # NullPtr
  BY <1>1, <1>2, <1>4, <1>5 DEF PeerAgrees
<1>7. proc \in Process /\ proc.m_server \in Transport /\ proc.s_instance = proc.m_server
      /\ proc.m_server <= proc.made
  <2>1. proc.m_server \in Alive(proc)
    BY <1>6 DEF Alive
  <2>2. QED BY <1>6, <2>1, RuntimeBounds DEF OwnerInv, TypeInv, TypeOK, Process, Transport, NullPtr
<1>8. m = proc.gns[proc.m_server].m_clients /\ m \in Seq(Peer)
  BY <1>6, <1>7 DEF Known, Process, Object
<1>9. /\ proc'.made = proc.made /\ proc'.m_server = proc.m_server
      /\ \A u \in Transport \ {proc.m_server} : proc'.gns[u] = proc.gns[u]
      /\ Known(proc') = IF e.state = "open" THEN Append(m, c) ELSE KeepIn(m, Peer \ {c})
      /\ proc'.joined = IF e.state = "open" THEN proc.joined \cup {c} ELSE proc.joined \ {c}
  <2>1. proc' = ServerStatusCallback(proc, e)
    BY DEF e
  <2> DEFINE s == proc.m_server
  <2>2. /\ proc'.made = proc.made /\ proc'.m_server = s
        /\ \A u \in Transport \ {s} : proc'.gns[u] = proc.gns[u]
        /\ proc'.gns[s].m_clients = IF e.state = "open" THEN Append(m, c)
                                    ELSE KeepIn(m, Peer \ {c})
        /\ proc'.joined = IF e.state = "open" THEN proc.joined \cup {c} ELSE proc.joined \ {c}
    <3> HIDE DEF m
    <3>1. m = proc.gns[s].m_clients
      BY <1>8
    <3> DEFINE Q == ServerStatusCallback(proc, e)
    <3>2. /\ Q.made = proc.made /\ Q.m_server = proc.m_server
          /\ \A u \in Transport \ {proc.s_instance} : Q.gns[u] = proc.gns[u]
          /\ Q.gns[proc.m_server].m_clients =
                IF e.state = "open" THEN Append(proc.gns[proc.m_server].m_clients, e.conn)
                ELSE KeepIn(proc.gns[proc.m_server].m_clients, Peer \ {e.conn})
          /\ Q.joined = IF e.state = "open" THEN proc.joined \cup {e.conn}
                        ELSE proc.joined \ {e.conn}
      BY <1>2, <1>6, <1>7, ServerStatusEffect
    <3> HIDE DEF Q
    <3>3. proc' = Q
      BY <2>1 DEF Q
    <3>4. QED BY <1>7, <3>1, <3>2, <3>3
  <2> HIDE DEF s
  <2>3. Known(proc') = proc'.gns[s].m_clients
    BY <1>6, <2>2 DEF Known, s
  <2>4. QED BY <2>2, <2>3 DEF s
<1> HIDE DEF m
<1>10. ToSet(Known(proc')) = IF e.state = "open" THEN ToSet(m) \cup {c} ELSE ToSet(m) \ {c}
  <2>1. IsInjective(m) /\ m \in Seq(Peer) /\ c \in Peer
    BY <1>1, <1>2, <1>8 DEF m
  <2>2. /\ ToSet(KeepIn(m, Peer \ {c})) = ToSet(m) \ {c}
        /\ ToSet(Append(m, c)) = ToSet(m) \cup {c}
    BY <2>1, KnownEffect
  <2>3. QED BY <1>9, <2>2
<1>11. e.state = "open" => c \notin ToSet(m)
  BY <1>4, <1>5 DEF PeerAgrees
<1>12. IsInjective(Known(proc'))
  BY <1>1, <1>2, <1>8, <1>9, <1>11, KnownEffect DEF m
<1>13. ToSet(Known(proc')) = proc'.joined
  BY <1>1, <1>6, <1>9, <1>10 DEF m
<1>14. \A p \in Peer : PeerAgrees(link[p], Waiting(queue', p), p \in ToSet(Known(proc')))
  <2> SUFFICES ASSUME NEW p \in Peer
               PROVE  PeerAgrees(link[p], Waiting(queue', p), p \in ToSet(Known(proc')))
    OBVIOUS
  <2>1. CASE p # c
    <3>1. PeerAgrees(link[p], Waiting(queue, p), p \in ToSet(m))
      BY <1>1 DEF m
    <3>2. Waiting(queue, p) = Waiting(queue', p)
      <4>1. Waiting(queue, p) = Waiting(queue', p) \cup {}
        BY <1>3, <2>1
      <4>2. QED BY <4>1
    <3>3. p \in ToSet(Known(proc')) <=> p \in ToSet(m)
      BY <1>10, <2>1
    <3>4. QED BY <3>1, <3>2, <3>3 DEF PeerAgrees
  <2>2. CASE p = c /\ e.state = "open"
    <3>1. "open" \notin Waiting(queue', c)
      BY <1>2 DEF Waiting
    <3>2. Waiting(queue, c) = Waiting(queue', c) \cup {"open"}
      BY <1>3, <2>2
    <3>3. QED BY <1>4, <1>10, <2>2, <3>1, <3>2 DEF PeerAgrees
  <2>3. CASE p = c /\ e.state = "lost"
    <3>1. Waiting(queue', c) = {}
      BY <1>2, <2>3 DEF Waiting
    <3>2. Waiting(queue, c) = {"lost"}
      BY <1>3, <2>3, <3>1
    <3>3. QED BY <1>4, <1>10, <2>3, <3>1, <3>2 DEF PeerAgrees
  <2>4. QED BY <1>5, <2>1, <2>2, <2>3
<1>15. \A t \in Transport : t > proc'.made => proc'.gns[t].m_clients = <<>>
  <2>1. proc.made \in Nat /\ proc.m_server \in Nat
    BY <1>7, RuntimeBounds DEF Process, Transport
  <2>2. \A t \in Transport : t > proc.made => t # proc.m_server
    BY <1>7, <2>1 DEF Transport
  <2>3. QED BY <1>1, <1>9, <2>2
<1>16. link' = link /\ Known(proc)' = Known(proc')
  BY DEF Known
<1>17. \A p \in Peer : PeerAgrees(link[p], Waiting(queue, p), p \in ToSet(Known(proc)))'
  BY <1>14, <1>16 DEF Waiting
<1>18. QED BY <1>2, <1>6, <1>9, <1>12, <1>13, <1>15, <1>16, <1>17 DEF ConnInv

\* A status change of the client's connection is handed out.
LEMMA ConnHandOutClient ==
    ASSUME TypeInv, ConnInv, queue # <<>>, queue' = Tail(queue),
           Head(queue).to # "server", proc' = ClientStatusCallback(proc, Head(queue)),
           UNCHANGED <<link, doubled>>
    PROVE  ConnInv'
<1> SUFFICES ASSUME ~doubled' PROVE ConnInv'
  BY DEF ConnInv
<1> DEFINE e == Head(queue)
<1>1. /\ OpenThenLost(queue)
      /\ \A t \in Transport : t > proc.made => proc.gns[t].m_clients = <<>>
      /\ IsInjective(Known(proc))
      /\ proc.m_server # NullPtr => ToSet(Known(proc)) = proc.joined
      /\ proc.m_server = NullPtr => \A p \in Peer : link[p] \in {"none", "closed"}
      /\ \A p \in Peer : PeerAgrees(link[p], Waiting(queue, p), p \in ToSet(Known(proc)))
  BY DEF ConnInv
<1>2. queue \in Seq(StatusChange) /\ proc \in Process
  BY DEF TypeInv, TypeOK
<1>3. /\ e \in StatusChange /\ ToSet(queue) = ToSet(queue') \cup {e} /\ OpenThenLost(queue')
      /\ e.conn \notin Peer
  BY <1>1, <1>2, HandOutEffect DEF TypeInv
<1>4. /\ proc'.made = proc.made /\ proc'.m_server = proc.m_server /\ proc'.joined = proc.joined
      /\ \A u \in Transport : proc'.gns[u].m_clients = proc.gns[u].m_clients
  <2>1. e \in StatusChange /\ proc' = ClientStatusCallback(proc, e)
    BY <1>3
  <2> HIDE DEF e
  <2>2. QED BY <1>2, <2>1, ClientStatusEffect
<1> HIDE DEF e
<1>5. Known(proc') = Known(proc)
  <2>1. proc.m_server # NullPtr => proc.m_server \in Transport
    BY <1>2, RuntimeBounds DEF Process, Transport, NullPtr
  <2>2. QED BY <1>4, <2>1 DEF Known
<1>6. \A p \in Peer : Waiting(queue', p) = Waiting(queue, p)
  BY <1>3 DEF Waiting
<1>7. Known(proc)' = Known(proc') /\ \A p : Waiting(queue, p)' = Waiting(queue', p)
  BY DEF Known, Waiting
<1>8. \A p \in Peer : PeerAgrees(link[p], Waiting(queue', p), p \in ToSet(Known(proc')))
  BY <1>1, <1>5, <1>6
<1>9. \A p \in Peer : PeerAgrees(link[p], Waiting(queue, p), p \in ToSet(Known(proc)))'
  BY <1>7, <1>8
<1>10. QED BY <1>1, <1>3, <1>4, <1>5, <1>7, <1>9 DEF ConnInv

\* The objects are replaced: no server is left, or a new one, without clients.
LEMMA ConnSettle ==
    ASSUME TypeInv, ConnInv, ~doubled', NEW P \in Process, proc' = P, Settle(P),
           doubled => doubled', P.made \in {proc.made, proc.made + 1},
           \A u \in Transport : P.gns[u].m_clients \in {proc.gns[u].m_clients, <<>>},
           \/ P.m_server = NullPtr
           \/ proc.m_server = NullPtr /\ P.m_server = proc.made + 1 /\ P.joined = {}
    PROVE  ConnInv'
<1>1. /\ OpenThenLost(queue)
      /\ \A t \in Transport : t > proc.made => proc.gns[t].m_clients = <<>>
      /\ IsInjective(Known(proc))
      /\ proc.m_server # NullPtr => ToSet(Known(proc)) = proc.joined
      /\ proc.m_server = NullPtr => \A p \in Peer : link[p] \in {"none", "closed"}
      /\ \A p \in Peer : PeerAgrees(link[p], Waiting(queue, p), p \in ToSet(Known(proc)))
  BY DEF ConnInv
<1>2. proc \in Process /\ proc.made \in Nat /\ Transport \subseteq Nat
  BY RuntimeBounds DEF TypeInv, TypeOK, Process, Transport
<1>3. \A t \in Transport : t > P.made => P.gns[t].m_clients = <<>>
  <2>1. \A t \in Transport : t > P.made => t > proc.made
    BY <1>2
  <2>2. QED BY <1>1, <2>1
<1>4. Known(P) = <<>> /\ (P.m_server # NullPtr => P.joined = {})
  <2>1. CASE P.m_server = NullPtr
    BY <2>1 DEF Known
  <2>2. CASE P.m_server # NullPtr
    <3>1. P.m_server \in Transport /\ P.m_server > proc.made
      BY <1>2, <2>2, RuntimeBounds DEF Process, Transport, NullPtr
    <3>2. P.gns[P.m_server].m_clients = <<>>
      BY <1>1, <3>1
    <3>3. QED BY <2>2, <3>2 DEF Known
  <2>3. QED BY <2>1, <2>2
<1>5. ToSet(Known(P)) = {} /\ IsInjective(Known(P))
  BY <1>4 DEF ToSet, IsInjective
<1>6. /\ ToSet(queue') = {e \in ToSet(queue) : link'[e.conn] # "closed"}
      /\ OpenThenLost(queue')
      /\ \A p \in Peer : link'[p] =
            IF link[p] # "none" /\ (~P.lib \/ P.m_server # proc.m_server)
            THEN "closed" ELSE link[p]
  BY <1>1, SettleEffect
<1>7. \A p \in Peer : link'[p] \in {"none", "closed"} /\ Waiting(queue', p) = {}
  <2> SUFFICES ASSUME NEW p \in Peer
               PROVE  link'[p] \in {"none", "closed"} /\ Waiting(queue', p) = {}
    OBVIOUS
  <2>1. PeerAgrees(link[p], Waiting(queue, p), p \in ToSet(Known(proc)))
    BY <1>1
  <2>2. Waiting(queue', p) \subseteq Waiting(queue, p)
    BY <1>6 DEF Waiting
  <2>3. link[p] \in {"none", "closed"} => Waiting(queue', p) = {}
    BY <2>1, <2>2 DEF PeerAgrees
  <2>4. link'[p] = "closed" => Waiting(queue', p) = {}
    BY <1>6 DEF Waiting
  <2>5. link'[p] \in {"none", "closed"}
    BY <1>1, <1>6
  <2>6. link'[p] = "none" => link[p] = "none"
    BY <1>6
  <2>7. QED BY <2>3, <2>4, <2>5, <2>6
<1>8. Known(proc)' = Known(P) /\ \A p : Waiting(queue, p)' = Waiting(queue', p)
  BY DEF Known, Waiting
<1>9. \A p \in Peer : PeerAgrees(link[p], Waiting(queue, p), p \in ToSet(Known(proc)))'
  BY <1>5, <1>7, <1>8 DEF PeerAgrees
<1>10. QED BY <1>3, <1>4, <1>5, <1>6, <1>7, <1>8, <1>9 DEF ConnInv

\* Every step keeps what is known of the connections.
LEMMA ConnStep == TypeInv /\ OwnerInv /\ ConnInv /\ [Next]_vars => ConnInv'
<1> SUFFICES ASSUME TypeInv, OwnerInv, ConnInv, [Next]_vars, ~doubled' PROVE ConnInv'
  BY DEF ConnInv
<1>1. proc \in Process
  BY DEF TypeInv, TypeOK
<1>2. CASE UNCHANGED vars
  BY <1>2, ConnKept DEF vars
<1>3. CASE BootStep("fetch", "verify") \/ BootStep("verify", "spawn") \/ BootStep("spawn", "running")
  BY <1>3, ConnKept DEF BootStep
<1>4. CASE EnterLoop \/ EndTick \/ Interrupt
  BY <1>4, ConnKept DEF EnterLoop, EndTick, Interrupt
<1>5. ASSUME NEW t \in {proc.m_server, proc.m_client}, NEW here, NEW next, Poll(t, here, next)
      PROVE  ConnInv'
  <2>1. CASE /\ t # NullPtr /\ proc.lib /\ queue # <<>>
             /\ LET e == Head(queue)
                IN  /\ proc' = IF e.to = "server" THEN ServerStatusCallback(proc, e)
                               ELSE ClientStatusCallback(proc, e)
                    /\ g_running' = (g_running /\ ~StopsClient(proc, e))
             /\ queue' = Tail(queue)
             /\ UNCHANGED <<at, exe, link, doubled>>
    <3>1. CASE Head(queue).to = "server"
      BY <2>1, <3>1, ConnHandOut
    <3>2. CASE Head(queue).to # "server"
      BY <2>1, <3>2, ConnHandOutClient
    <3>3. QED BY <3>1, <3>2
  <2>2. CASE /\ GoOn([proc EXCEPT !.stray = @ \/ (t # NullPtr /\ ~proc.lib)], next)
             /\ UNCHANGED <<g_running, queue, exe, link, doubled>>
    <3>1. proc' = [proc EXCEPT !.stray = proc.stray \/ (t # NullPtr /\ ~proc.lib)]
      BY <1>1, <2>2 DEF GoOn, Process
    <3>2. /\ proc'.made = proc.made /\ proc'.m_server = proc.m_server
          /\ proc'.joined = proc.joined /\ proc'.gns = proc.gns
      BY <1>1, <3>1 DEF Process
    <3>3. Known(proc)' = Known(proc)
      BY <3>2 DEF Known
    <3>4. UNCHANGED <<queue, link, doubled>>
      BY <2>2
    <3>5. QED BY <3>2, <3>3, <3>4 DEF ConnInv, Waiting
  <2>3. QED BY <1>5, <2>1, <2>2 DEF Poll
<1>6. CASE PollServer \/ PollClient
  BY <1>5, <1>6 DEF PollServer, PollClient
<1>7. CASE Stop
  <2> DEFINE P == EngineShutdown(proc)
  <2>1. proc' = P /\ Settle(P) /\ doubled' = doubled
    BY <1>7 DEF Stop, GoOn
  <2>2. /\ P \in Process /\ P.made = proc.made /\ P.m_server = NullPtr
        /\ \A u \in Transport : P.gns[u].m_clients \in {proc.gns[u].m_clients, <<>>}
    BY <1>1, EngineShutdownEffect
  <2> HIDE DEF P
  <2>3. QED BY <2>1, <2>2, ConnSettle
<1>8. CASE HostServer
  <2>1. PICK ok \in BOOLEAN : ScriptCalls(StartServerInternal(proc, ok))
    BY <1>8 DEF HostServer
  <2> DEFINE P == StartServerInternal(proc, ok)
  <2>2. /\ proc.made < MaxTransports /\ proc' = P /\ Settle(P)
        /\ (doubled => doubled') /\ Alive(proc) = {}
    BY <2>1 DEF ScriptCalls, GoOn
  <2>3. /\ P \in Process /\ P.made = proc.made + 1 /\ P.joined = {}
        /\ P.m_server = NullPtr \/ P.m_server = proc.made + 1
        /\ \A u \in Transport : P.gns[u].m_clients \in {proc.gns[u].m_clients, <<>>}
    BY <1>1, <2>2, HostEffect
  <2>4. proc.m_server = NullPtr
    BY <2>2 DEF Alive
  <2> HIDE DEF P
  <2>5. QED BY <2>2, <2>3, <2>4, ConnSettle
<1>9. CASE ConnectServer
  <2>1. PICK ok \in BOOLEAN : ScriptCalls(ConnectToServer(proc, ok))
    BY <1>9 DEF ConnectServer
  <2> DEFINE P == ConnectToServer(proc, ok)
  <2>2. /\ proc.made < MaxTransports /\ proc' = P /\ Settle(P)
        /\ (doubled => doubled') /\ Alive(proc) = {}
    BY <2>1 DEF ScriptCalls, GoOn
  <2>3. /\ P \in Process /\ P.made = proc.made + 1 /\ P.m_server = proc.m_server
        /\ \A u \in Transport : P.gns[u].m_clients \in {proc.gns[u].m_clients, <<>>}
    BY <1>1, <2>2, ConnectEffect
  <2>4. proc.m_server = NullPtr
    BY <2>2 DEF Alive
  <2> HIDE DEF P
  <2>5. QED BY <2>2, <2>3, <2>4, ConnSettle
<1>10. CASE \E p \in Peer : PeerArrives(p) \/ PeerLost(p)
  BY <1>10, ConnPost
<1>11. CASE \E t \in Transport : ServerAccepts(t) \/ ServerLost(t)
  BY <1>11, ConnClient
<1>12. QED BY <1>2, <1>3, <1>4, <1>6, <1>7, <1>8, <1>9, <1>10, <1>11
          DEF Next, Main, Script, Library

(***************************************************************************)
(* The theorems.                                                           *)
(***************************************************************************)

RuntimeInv == TypeInv /\ OwnerInv /\ ConnInv

\* What the inductive invariant says of a state.
LEMMA RuntimeInvImplies ==
    RuntimeInv => TypeOK /\ EventsReachOwner /\ NothingDangles /\ ClientsAreConnections
<1> SUFFICES ASSUME RuntimeInv
             PROVE  TypeOK /\ EventsReachOwner /\ NothingDangles /\ ClientsAreConnections
  OBVIOUS
<1>1. TypeOK
  BY DEF RuntimeInv, TypeInv
<1>2. EventsReachOwner
  BY DEF RuntimeInv, OwnerInv, EventsReachOwner
<1>3. NothingDangles
  BY DEF RuntimeInv, OwnerInv, NothingDangles, Loop, Done
<1>4. ClientsAreConnections
  <2> SUFFICES ASSUME proc.m_server # NullPtr, queue = <<>>, ~doubled
               PROVE  /\ IsInjective(proc.gns[proc.m_server].m_clients)
                      /\ ToSet(proc.gns[proc.m_server].m_clients) = {p \in Peer : link[p] = "up"}
                      /\ ToSet(proc.gns[proc.m_server].m_clients) = proc.joined
    BY DEF ClientsAreConnections
  <2> DEFINE m == Known(proc)
  <2>1. m = proc.gns[proc.m_server].m_clients
    BY DEF Known
  <2>2. /\ IsInjective(m) /\ ToSet(m) = proc.joined
        /\ \A p \in Peer : PeerAgrees(link[p], Waiting(queue, p), p \in ToSet(m))
    BY DEF RuntimeInv, ConnInv
  <2> HIDE DEF m
  <2>3. \A p \in Peer : Waiting(queue, p) = {}
    BY DEF Waiting, ToSet
  <2>4. \A p \in Peer : p \in ToSet(m) <=> link[p] = "up"
    BY <2>2, <2>3 DEF PeerAgrees
  <2>5. proc.joined \in SUBSET Peer
    BY DEF RuntimeInv, TypeInv, TypeOK, Process
  <2>6. QED BY <2>1, <2>2, <2>4, <2>5
<1>5. QED BY <1>1, <1>2, <1>3, <1>4

\* The invariant holds of every behaviour.
LEMMA RuntimeInvHolds == Spec => []RuntimeInv
<1>1. Init => RuntimeInv
  BY TypeInit, OwnerInit, ConnInit DEF RuntimeInv
<1>2. RuntimeInv /\ [Next]_vars => RuntimeInv'
  BY TypeStep, OwnerStep, ConnStep DEF RuntimeInv
<1>3. QED BY <1>1, <1>2, PTL DEF Spec

\* A status change reaches the replicator whose connection it is about, for
\* any number of peers and of transports, in scripts that start one at a time.
THEOREM StatusReachesOwner == Spec => []EventsReachOwner
  BY RuntimeInvHolds, RuntimeInvImplies, PTL

\* No call goes to a killed library, and GetActive is a replicator that exists.
THEOREM NothingIsStale == Spec => []NothingDangles
  BY RuntimeInvHolds, RuntimeInvImplies, PTL

\* m_clients is the set of the peers that are connected once every status
\* change is handed out, and the replicator was told of the same.
THEOREM ClientsAreKnown == Spec => []ClientsAreConnections
  BY RuntimeInvHolds, RuntimeInvImplies, PTL
=============================================================================
