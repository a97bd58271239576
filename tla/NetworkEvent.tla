---------------------------- MODULE NetworkEvent ----------------------------
(***************************************************************************)
(* Network/Shared/NetworkEvent: scripts of one process fire events at, and *)
(* invoke handlers of, another process.  A server and its clients exchange *)
(* packets over reliable ordered channels, which also carry the news of    *)
(* which events exist, and over an unreliable one.                         *)
(*                                                                         *)
(* A task is a coroutine: one script per process, and one handler per call. *)
(* KakaScheduler resumes an answered task at its next Tick; here the answer *)
(* resumes it.  A call is a number, which is also its argument and what its *)
(* handler returns; a request id is a number of the calling process alone. *)
(***************************************************************************)
EXTENDS Integers, SequencesExt

CONSTANTS
    server, Client,   \* the processes
    Event,            \* NetworkEvents the server creates
    MaxCalls,         \* bound: calls of InvokeServer and InvokeClient
    MaxFires,         \* bound: calls of FireServer, FireClient, FireAllClients
    Faults            \* what may go wrong: "leave" a connection is lost,
                      \* "destroy" the server destroys an event, "raise" a
                      \* handler raises, "unset" handlers come and go

ASSUME NetworkEventBounds ==
    /\ MaxCalls \in Nat /\ MaxFires \in Nat
    /\ server \notin Client
    /\ ({server} \cup Client) \cap (1..MaxCalls) = {}
    /\ Faults \subseteq {"leave", "destroy", "raise", "unset"}

Proc == {server} \cup Client
Call == 1..MaxCalls
Fire == 1..MaxFires
Task == Proc \cup Call

VARIABLES
    status,    \* of each connection: "new", "open", "closed"
    made,      \* events the server has created so far
    tree,      \* events in each process's tree
    known,     \* events FindByNetId finds in each process
    nextReq,   \* m_nextRequestId of each process
    wait,      \* the request a task is suspended on, 0 if none
    asked,     \* the call it is suspended in, 0 if none
    target,    \* the process each call is made to
    got,       \* what the caller of each call was resumed with, 0 if nothing
    calls,     \* calls made so far
    job,       \* the handler task of each call
    fire,      \* each Fire: whose, the processes it is for, and its protocol
    heard,     \* processes that ran their handlers for a Fire
    up, down,  \* reliable packets of each client: to and from the server
    loose      \* unreliable packets

connVars == <<status, made, tree, known>>
callVars == <<nextReq, wait, asked, target, calls>>
fireVars == <<fire, heard>>
netVars  == <<up, down, loose>>
vars == <<connVars, callVars, got, job, fireVars, netVars>>

NoJob == [state |-> "none", at |-> server, ev |-> 0, from |-> server, req |-> 0]
Open  == {c \in Client : status[c] = "open"}

\* Nothing is left of a handler's task when it is over but what became of it.
Over(outcome) == [NoJob EXCEPT !.state = outcome]

ProcOf(t) == IF t \in Proc THEN t ELSE job[t].at

\* A task that can run.
Ready(t) == wait[t] = 0 /\ (t \in Call => job[t].state = "running")

\* Whether OnServer (OnClient) of an event has a connection when a packet for it
\* arrives: scripts set and remove them at any time, with "unset"; without it
\* they are set before anything arrives and stay.
MayHaveHandler == IF "unset" \in Faults THEN BOOLEAN ELSE {TRUE}
-----------------------------------------------------------------------------
(* Packets. *)

\* Send of a client, SendTo of the server; nothing goes to a lost connection.
ToServer(c, m) == up' = IF c \in Open THEN [up EXCEPT ![c] = Append(@, m)] ELSE up
ToClient(c, m) == down' = IF c \in Open THEN [down EXCEPT ![c] = Append(@, m)] ELSE down

\* A message goes from process p to process q, one of which is the server.
Send(p, q, m) ==
    IF p = server THEN ToClient(q, m) /\ UNCHANGED up
                  ELSE ToServer(p, m) /\ UNCHANGED down

ToAll(m) == down' = [c \in Client |-> IF c \in Open THEN Append(down[c], m) ELSE down[c]]
-----------------------------------------------------------------------------
(* Connections and events. *)

\* The client gets a snapshot of the events in the server's tree.
Connect(c) ==
    /\ status[c] = "new"
    /\ status' = [status EXCEPT ![c] = "open"]
    /\ down' = [down EXCEPT ![c] = [i \in 1..Cardinality(tree[server]) |->
                    [sig |-> "Added", ev |-> SetToSeq(tree[server])[i]]]]
    /\ UNCHANGED <<made, tree, known, callVars, got, job, fireVars, up, loose>>

\* The connection is lost with everything on its way; both processes go on.
Disconnect(c) ==
    /\ "leave" \in Faults /\ c \in Open
    /\ status' = [status EXCEPT ![c] = "closed"]
    /\ up' = [up EXCEPT ![c] = <<>>]
    /\ down' = [down EXCEPT ![c] = <<>>]
    /\ loose' = {m \in loose : m.from # c /\ m.to # c}
    /\ UNCHANGED <<made, tree, known, callVars, got, job, fireVars>>

\* A server script creates an event and puts it into the tree.
CreateEvent(e) ==
    /\ e \notin made
    /\ made' = made \cup {e}
    /\ tree' = [tree EXCEPT ![server] = @ \cup {e}]
    /\ known' = [known EXCEPT ![server] = @ \cup {e}]
    /\ ToAll([sig |-> "Added", ev |-> e])
    /\ UNCHANGED <<status, callVars, got, job, fireVars, up, loose>>

\* The server destroys an event, which the clients are told.
DestroyEvent(e) ==
    /\ "destroy" \in Faults /\ e \in tree[server]
    /\ tree' = [tree EXCEPT ![server] = @ \ {e}]
    /\ ToAll([sig |-> "Removed", ev |-> e])
    /\ UNCHANGED <<status, made, known, callVars, got, job, fireVars,
                   up, loose>>

\* The last reference to a destroyed event goes away, and with it its signals;
\* a handler that is running holds one (the callback of SpawnWithCallback).
Release(p, e) ==
    /\ e \in known[p] \ tree[p]
    /\ \A k \in Call : job[k].state = "running" /\ job[k].at = p => job[k].ev # e
    /\ known' = [known EXCEPT ![p] = @ \ {e}]
    /\ UNCHANGED <<status, made, tree, callVars, got, job, fireVars, netVars>>
-----------------------------------------------------------------------------
(* Calls. *)

\* Mutant of Invoke: the id is not used up.
InvokeSameId(t, q, e) ==
    LET p == ProcOf(t)
    IN  /\ Ready(t) /\ calls < MaxCalls /\ e \in known[p]
        /\ wait' = [wait EXCEPT ![t] = nextReq[p]]
        /\ asked' = [asked EXCEPT ![t] = calls + 1]
        /\ target' = [target EXCEPT ![calls + 1] = q]
        /\ calls' = calls + 1
        /\ Send(p, q, [sig |-> "Request", ev |-> e, req |-> nextReq[p], arg |-> calls + 1])
        /\ UNCHANGED <<connVars, nextReq, got, job, fireVars, loose>>

\* InvokeServer (q = server) and InvokeClient: suspend first, then send.
Invoke(t, q, e) ==
    LET p == ProcOf(t)
    IN  /\ Ready(t) /\ calls < MaxCalls /\ e \in known[p]
        /\ nextReq' = [nextReq EXCEPT ![p] = @ + 1]
        /\ wait' = [wait EXCEPT ![t] = nextReq[p]]
        /\ asked' = [asked EXCEPT ![t] = calls + 1]
        /\ target' = [target EXCEPT ![calls + 1] = q]
        /\ calls' = calls + 1
        /\ Send(p, q, [sig |-> "Request", ev |-> e, req |-> nextReq[p], arg |-> calls + 1])
        /\ UNCHANGED <<connVars, got, job, fireVars, loose>>

\* A client script calls InvokeServer; a server script calls InvokeClient.
InvokeServer(t, e) == ProcOf(t) \in Client /\ Invoke(t, server, e)
InvokeClient(t, c, e) ==
    /\ ProcOf(t) = server
    /\ status[c] # "new"
    /\ Invoke(t, c, e)

\* Mutant of HandlerReturns: no callback was passed to SpawnWithCallback.
ReturnsSilently(k) ==
    /\ job[k].state = "running" /\ Ready(k)
    /\ job' = [job EXCEPT ![k] = Over("returned")]
    /\ UNCHANGED <<connVars, callVars, got, fireVars, netVars>>

\* SendInvokeResponse when the handler of call k returns.
HandlerReturns(k) ==
    /\ job[k].state = "running" /\ Ready(k)
    /\ job' = [job EXCEPT ![k] = Over("returned")]
    /\ Send(job[k].at, job[k].from,
            [sig |-> "Response", req |-> job[k].req, arg |-> k])
    /\ UNCHANGED <<connVars, callVars, got, fireVars, loose>>

\* Mutant of HandlerRaises: the callback is called all the same.
RaisesAnswered(k) ==
    /\ "raise" \in Faults
    /\ job[k].state = "running" /\ Ready(k)
    /\ job' = [job EXCEPT ![k] = Over("raised")]
    /\ Send(job[k].at, job[k].from,
            [sig |-> "Response", req |-> job[k].req, arg |-> k])
    /\ UNCHANGED <<connVars, callVars, got, fireVars, loose>>

\* A handler that raises answers nobody.
HandlerRaises(k) ==
    /\ "raise" \in Faults
    /\ job[k].state = "running" /\ Ready(k)
    /\ job' = [job EXCEPT ![k] = Over("raised")]
    /\ UNCHANGED <<connVars, callVars, got, fireVars, netVars>>
-----------------------------------------------------------------------------
(* Fires. *)

\* Mutant of Fires: Protocol is not looked at.
FiresLoose(p, to, e, tcp) ==
    /\ e \in known[p]
    /\ \E f \in Fire :
        /\ fire[f].to = {} /\ \A g \in Fire : g < f => fire[g].to # {}
        /\ fire' = [fire EXCEPT ![f] = [from |-> p, to |-> to, tcp |-> tcp]]
        /\ loose' = loose \cup
               {[sig |-> "Event", ev |-> e, arg |-> f, from |-> p, to |-> q] : q \in to}
        /\ UNCHANGED <<up, down>>
    /\ UNCHANGED <<connVars, callVars, got, job, heard>>

\* FireServer, FireClient, FireAllClients: to every process of `to', reliably
\* when Protocol is TCP.
Fires(p, to, e, tcp) ==
    /\ e \in known[p]
    /\ \E f \in Fire :
        /\ fire[f].to = {} /\ \A g \in Fire : g < f => fire[g].to # {}
        /\ fire' = [fire EXCEPT ![f] = [from |-> p, to |-> to, tcp |-> tcp]]
        /\ LET m == [sig |-> "Event", ev |-> e, arg |-> f]
           IN  /\ loose' = IF tcp THEN loose ELSE loose \cup
                      {[sig |-> "Event", ev |-> e, arg |-> f, from |-> p, to |-> q]
                          : q \in to}
               /\ up' = [c \in Client |-> IF tcp /\ p = c THEN Append(up[c], m) ELSE up[c]]
               /\ down' = [c \in Client |->
                      IF tcp /\ p = server /\ c \in to THEN Append(down[c], m) ELSE down[c]]
    /\ UNCHANGED <<connVars, callVars, got, job, heard>>

FireServer(c, e, tcp)  == c \in Open /\ Fires(c, {server}, e, tcp)
FireClient(c, e, tcp)  == c \in Open /\ Fires(server, {c}, e, tcp)
FireAllClients(e, tcp) == Open # {} /\ Fires(server, Open, e, tcp)

\* DispatchFire: the handlers of an event the process knows run.
DispatchFire(p, m) ==
    \E handled \in MayHaveHandler :
        heard' = IF m.ev \in known[p] /\ handled
                 THEN [heard EXCEPT ![m.arg] = @ \cup {p}] ELSE heard
-----------------------------------------------------------------------------
(* Incoming packets. *)

\* DispatchInvokeRequest: the first handler of an event the process knows is
\* spawned.  "refused" means that nothing was, and nobody is told.
DispatchInvokeRequest(p, q, m) ==
    \E handled \in MayHaveHandler :
        job' = [job EXCEPT ![m.arg] =
            IF m.ev \in known[p] /\ handled
            THEN [state |-> "running", at |-> p, ev |-> m.ev, from |-> q, req |-> m.req]
            ELSE Over("refused")]

\* DispatchInvokeResponse: FulfillRequest of the process resumes the first
\* task that waits for the request, if there is one.
DispatchInvokeResponse(p, m) ==
    LET hits == {t \in Task : ProcOf(t) = p /\ wait[t] = m.req}
    IN  IF hits = {} THEN UNCHANGED <<wait, asked, got>>
        ELSE \E t \in hits :
                /\ wait' = [wait EXCEPT ![t] = 0]
                /\ asked' = [asked EXCEPT ![t] = 0]
                /\ got' = [got EXCEPT ![asked[t]] = m.arg]

\* OnPacketReceived of process p, of a packet from process q.
Receive(p, q, m) ==
    \/ /\ m.sig = "Added"
       /\ tree' = [tree EXCEPT ![p] = @ \cup {m.ev}]
       /\ known' = [known EXCEPT ![p] = @ \cup {m.ev}]
       /\ UNCHANGED <<status, made, wait, asked, got, job, heard>>
    \/ /\ m.sig = "Removed"
       /\ tree' = [tree EXCEPT ![p] = @ \ {m.ev}]
       /\ UNCHANGED <<status, made, known, wait, asked, got, job, heard>>
    \/ /\ m.sig = "Request" /\ DispatchInvokeRequest(p, q, m)
       /\ UNCHANGED <<connVars, wait, asked, got, heard>>
    \/ /\ m.sig = "Response" /\ DispatchInvokeResponse(p, m)
       /\ UNCHANGED <<connVars, job, heard>>
    \/ /\ m.sig = "Event" /\ DispatchFire(p, m)
       /\ UNCHANGED <<connVars, wait, asked, got, job>>

ServerPolls(c) ==
    /\ up[c] # <<>>
    /\ up' = [up EXCEPT ![c] = Tail(@)]
    /\ Receive(server, c, Head(up[c]))
    /\ UNCHANGED <<nextReq, target, calls, fire, down, loose>>

ClientPolls(c) ==
    /\ down[c] # <<>>
    /\ down' = [down EXCEPT ![c] = Tail(@)]
    /\ Receive(c, server, Head(down[c]))
    /\ UNCHANGED <<nextReq, target, calls, fire, up, loose>>

\* An unreliable packet arrives at any later time ...
LooseArrives(m) ==
    /\ m \in loose /\ loose' = loose \ {m}
    /\ Receive(m.to, m.from, m)
    /\ UNCHANGED <<nextReq, target, calls, fire, up, down>>

\* ... or never.
LooseLost(m) ==
    /\ m \in loose /\ loose' = loose \ {m}
    /\ UNCHANGED <<connVars, callVars, got, job, fireVars, up, down>>
-----------------------------------------------------------------------------
Init ==
    /\ status = [c \in Client |-> "new"]
    /\ made = {}
    /\ tree = [p \in Proc |-> {}] /\ known = tree
    /\ nextReq = [p \in Proc |-> 1]
    /\ wait = [t \in Task |-> 0] /\ asked = wait
    /\ got = [k \in Call |-> 0] /\ target = [k \in Call |-> server] /\ calls = 0
    /\ job = [k \in Call |-> NoJob]
    /\ fire = [f \in Fire |-> [from |-> server, to |-> {}, tcp |-> FALSE]]
    /\ heard = [f \in Fire |-> {}]
    /\ up = [c \in Client |-> <<>>] /\ down = up /\ loose = {}

Scripts ==
    \/ \E e \in Event : CreateEvent(e) \/ DestroyEvent(e)
    \/ \E p \in Proc, e \in Event : Release(p, e)
    \/ \E t \in Task, e \in Event : InvokeServer(t, e)
    \/ \E t \in Task, c \in Client, e \in Event : InvokeClient(t, c, e)
    \/ \E c \in Client, e \in Event, tcp \in BOOLEAN :
           FireServer(c, e, tcp) \/ FireClient(c, e, tcp)
    \/ \E e \in Event, tcp \in BOOLEAN : FireAllClients(e, tcp)

Outcome(k) == HandlerReturns(k) \/ HandlerRaises(k)

Next ==
    \/ \E c \in Client : Connect(c) \/ Disconnect(c)
    \/ Scripts
    \/ \E k \in Call : Outcome(k)
    \/ \E c \in Client : ServerPolls(c) \/ ClientPolls(c)
    \/ \E m \in loose : LooseArrives(m) \/ LooseLost(m)

Spec == Init /\ [][Next]_vars

\* Every process polls, and a handler that can run comes to an end.
FairSpec ==
    /\ Spec
    /\ \A c \in Client : WF_vars(ServerPolls(c)) /\ WF_vars(ClientPolls(c))
    /\ \A k \in Call : WF_vars(Outcome(k))
-----------------------------------------------------------------------------
(* Properties. *)

Message == [sig : {"Added", "Removed"}, ev : Event]
           \cup [sig : {"Request"}, ev : Event, req : Nat, arg : Call]
           \cup [sig : {"Response"}, req : Nat, arg : Call]
           \cup [sig : {"Event"}, ev : Event, arg : Fire]

\* Every variable keeps its type, and only ids that were issued are waited for.
TypeOK ==
    /\ status \in [Client -> {"new", "open", "closed"}] /\ made \subseteq Event
    /\ tree \in [Proc -> SUBSET Event] /\ known \in [Proc -> SUBSET Event]
    /\ nextReq \in [Proc -> 1..MaxCalls + 1] /\ wait \in [Task -> 0..MaxCalls]
    /\ \A t \in Task : wait[t] < nextReq[ProcOf(t)]
    /\ asked \in [Task -> 0..MaxCalls] /\ got \in [Call -> 0..MaxCalls]
    /\ target \in [Call -> Proc] /\ calls \in 0..MaxCalls
    /\ \A k \in Call :
           \/ job[k] \in {NoJob, Over("returned"), Over("raised"), Over("refused")}
           \/ job[k] \in [state : {"running"}, at : Proc, ev : Event, from : Proc,
                          req : 1..MaxCalls]
    /\ \A c \in Client : up[c] \in Seq(Message) /\ down[c] \in Seq(Message)

\* A caller is resumed with the answer to its own call, though every process
\* numbers its requests from 1 and a handler may be a caller itself.
AnswerIsMine == \A k \in Call : got[k] \in {0, k}

\* How many places hold call k: packets on their way, and a running handler.
Packets(k) ==
    UNION {{<<c, "up", i>> : i \in {j \in 1..Len(up[c]) :
                up[c][j].sig \in {"Request", "Response"} /\ up[c][j].arg = k}}
           \cup {<<c, "down", i>> : i \in {j \in 1..Len(down[c]) :
                down[c][j].sig \in {"Request", "Response"} /\ down[c][j].arg = k}}
           : c \in Client}
Holders(k) == Cardinality(Packets(k)) + IF job[k].state = "running" THEN 1 ELSE 0

\* The connection call k of task t was made on is lost.
Cut(t, k) == \E c \in {ProcOf(t), target[k]} \cap Client : status[c] = "closed"

\* A suspended caller's call is in one place: on its way, being handled, or on
\* its way back; unless its connection is lost, or it was refused or raised.
Accounted ==
    \A t \in Task : wait[t] # 0 =>
        LET k == asked[t]
        IN  CASE Cut(t, k)                            -> Holders(k) <= 1
              [] job[k].state \in {"raised", "refused"} -> Holders(k) = 0
              [] OTHER                                -> Holders(k) = 1

\* Each call runs at most one at most once, and is answered only with
\* the result of a handler that returned.
Promise == INSTANCE RemoteCalls WITH st <- [k \in Call |->
    IF got[k] # 0 THEN "answered"
    ELSE IF job[k].state = "none" THEN IF k <= calls THEN "called" ELSE "none"
    ELSE IF job[k].state \in {"raised", "refused"} THEN "failed"
    ELSE job[k].state]
KeepsPromise == Promise!Spec

\* Nothing will answer call k: its connection is lost, nobody handled it, its
\* handler raised, or its handler waits for such a call.
Hopeless[k \in Call] ==
    \/ \E t \in Task : asked[t] = k /\ Cut(t, k)
    \/ job[k].state \in {"raised", "refused"}
    \/ /\ job[k].state = "running" /\ asked[k] > k
       /\ Hopeless[asked[k]]

\* InvokeServer and InvokeClient "suspend da calling task until da matching
\* response/timeout arrives" (NetworkEvent.cpp:76): every caller goes on, also
\* when handlers call back and forth, but for those that nothing will answer.
InvokeReturns == \A k \in Call : k <= calls ~> got[k] # 0 \/ Hopeless[k]

\* A Fire over TCP "must arrive" (NetworkEvent.hpp:23): the handlers of each
\* process it is for run, unless the connection is lost.  This also takes that
\* a client never gets it before it knows the event, however its join, the
\* creation of the event and the packet were interleaved.
FireArrives ==
    \A f \in Fire, p \in Proc :
        (p \in fire[f].to /\ fire[f].tcp)
            ~> \/ p \in heard[f]
               \/ \E c \in {p, fire[f].from} \cap Client : status[c] = "closed"
=============================================================================
