------------------------- MODULE NetworkEventProofs -------------------------
(***************************************************************************)
(* What NetworkEvent's runs check, proved for any set of clients and of    *)
(* events and for any bounds: each packet of a call is the one that is due *)
(* (PacketInv), so it finds the one task that waits for it.  That task is  *)
(* the caller because a process has one task per id (AskInv), whichever    *)
(* ids the other processes are at.                                         *)
(***************************************************************************)
EXTENDS NetworkEvent, ListLemmas, FiniteSetTheorems

(***************************************************************************)
(* The reliable channels, as functions of a client and a direction.        *)
(***************************************************************************)

Link == Client \X {"up", "down"}
Chan(x) == IF x[2] = "up" THEN up[x[1]] ELSE down[x[1]]
From(x) == IF x[2] = "up" THEN x[1] ELSE server
To(x)   == IF x[2] = "up" THEN server ELSE x[1]

\* The places of a channel that hold call k.
Held(s, k) == {i \in 1..Len(s) : s[i].sig \in {"Request", "Response"} /\ s[i].arg = k}

(***************************************************************************)
(* The invariant.                                                          *)
(***************************************************************************)

\* The types, and what they rest on.
NetTypes ==
    /\ TypeOK
    /\ \A p \in Proc : nextReq[p] <= calls + 1
    /\ \A m \in loose : m.sig = "Event"
    /\ IsFiniteSet(tree[server])
    /\ up \in [Client -> Seq(Message)] /\ down \in [Client -> Seq(Message)]
    /\ job = [k \in Call |-> job[k]]

\* Nothing is on its way on a connection that is not open, and a process knows
\* no event before it has one.
LinkInv ==
    \A c \in Client : /\ c \notin Open => up[c] = <<>> /\ down[c] = <<>>
                      /\ status[c] = "new" => known[c] = {}

\* p and q are the two ends of a connection that was once opened.
Linked(p, q) == \E c \in Client : status[c] # "new" /\ {p, q} = {server, c}

\* A task is suspended in one call, under an id of its process, and each call
\* that is made and not answered has a task suspended in it.
AskInv ==
    /\ \A t \in Task :
        /\ asked[t] = 0 <=> wait[t] = 0
        /\ asked[t] <= calls
        /\ asked[t] # 0 => got[asked[t]] = 0 /\ Linked(ProcOf(t), target[asked[t]])
        /\ t \in Call /\ wait[t] # 0 => job[t].state = "running"
    /\ \A t, u \in Task : asked[t] = asked[u] /\ asked[t] # 0 => t = u
    /\ \A t, u \in Task :
        wait[t] = wait[u] /\ wait[t] # 0 /\ ProcOf(t) = ProcOf(u) => t = u
    /\ \A k \in Call : k <= calls /\ got[k] = 0 => \E t \in Task : asked[t] = k

\* The task suspended in call k is of process p and waits for request r.
Asks(k, p, r) == \A t \in Task : asked[t] = k => ProcOf(t) = p /\ wait[t] = r

\* A handler works for the process that asked.
JobOk(k) ==
    /\ got[k] # 0 => got[k] = k /\ job[k].state = "returned"
    /\ k > calls => job[k].state = "none" /\ got[k] = 0
    /\ job[k].state = "running" =>
          /\ target[k] = job[k].at /\ Linked(job[k].at, job[k].from)
          /\ Asks(k, job[k].from, job[k].req)

JobInv == \A k \in Call : JobOk(k)

\* A packet of call k that goes from p to q is the one that is due.
Fits(m, k, p, q) ==
    /\ k <= calls /\ got[k] = 0
    /\ \/ /\ m.sig = "Request" /\ job[k].state = "none"
          /\ target[k] = q /\ Asks(k, p, m.req)
       \/ /\ m.sig = "Response" /\ job[k].state = "returned"
          /\ target[k] = p /\ Asks(k, q, m.req)

\* Every packet of call k fits, there are no two, and there is one if k waits
\* for it.
CallPackets(k) ==
    /\ \A x \in Link : \A i \in Held(Chan(x), k) : Fits(Chan(x)[i], k, From(x), To(x))
    /\ \A x, y \in Link : \A i \in Held(Chan(x), k), j \in Held(Chan(y), k) : x = y /\ i = j
    /\ \A t \in Task :
          (asked[t] = k /\ ~Cut(t, k) /\ job[k].state \in {"none", "returned"}) =>
              \E x \in Link : Held(Chan(x), k) # {}

PacketInv == \A k \in Call : CallPackets(k)

NetInv == NetTypes /\ LinkInv /\ AskInv /\ JobInv /\ PacketInv

(***************************************************************************)
(* Messages and channels.                                                  *)
(***************************************************************************)

CallMessage(m, k) == m.sig \in {"Request", "Response"} /\ m.arg = k

\* What a message of each kind carries.
LEMMA Messages ==
    ASSUME NEW m \in Message
    PROVE  /\ m.sig \in {"Added", "Removed", "Request", "Response", "Event"}
           /\ m.sig \in {"Added", "Removed", "Request"} => m.ev \in Event
           /\ m.sig \in {"Request", "Response"} => m.arg \in Call /\ m.req \in Nat
  BY DEF Message

LEMMA MessageMade ==
    /\ \A e \in Event : [sig |-> "Added", ev |-> e] \in Message
    /\ \A e \in Event : [sig |-> "Removed", ev |-> e] \in Message
    /\ \A e \in Event, r \in Nat, k \in Call :
          [sig |-> "Request", ev |-> e, req |-> r, arg |-> k] \in Message
    /\ \A r \in Nat, k \in Call : [sig |-> "Response", req |-> r, arg |-> k] \in Message
    /\ \A e \in Event, f \in Fire : [sig |-> "Event", ev |-> e, arg |-> f] \in Message
  BY DEF Message

\* A channel one message longer.
LEMMA HeldAppend ==
    ASSUME NEW s \in Seq(Message), NEW m \in Message
    PROVE  /\ Append(s, m) \in Seq(Message) /\ Len(s) \in Nat
           /\ \A k, i : i \in Held(Append(s, m), k) <=>
                 \/ i \in Held(s, k)
                 \/ i = Len(s) + 1 /\ CallMessage(m, k)
           /\ \A k : \A i \in Held(s, k) : Append(s, m)[i] = s[i] /\ i # Len(s) + 1
           /\ Append(s, m)[Len(s) + 1] = m
<1>1. /\ Append(s, m) \in Seq(Message) /\ Len(s) \in Nat
      /\ Len(Append(s, m)) = Len(s) + 1 /\ Append(s, m)[Len(s) + 1] = m
      /\ \A i \in 1..Len(s) : Append(s, m)[i] = s[i]
  BY AppendProperties
<1>2. \A i : i \in 1..Len(s) + 1 <=> i \in 1..Len(s) \/ i = Len(s) + 1
  BY <1>1
<1>3. Len(s) + 1 \notin 1..Len(s)
  BY <1>1
<1>4. QED BY <1>1, <1>2, <1>3 DEF Held, CallMessage

\* A channel without its first message.
LEMMA HeldTail ==
    ASSUME NEW s \in Seq(Message), s # <<>>
    PROVE  /\ Tail(s) \in Seq(Message) /\ Head(s) \in Message /\ Head(s) = s[1]
           /\ \A k : \A i \in Nat \ {0} : i \in Held(Tail(s), k) <=> i + 1 \in Held(s, k)
           /\ \A k : \A i \in Held(Tail(s), k) : Tail(s)[i] = s[i + 1]
           /\ \A k : 1 \in Held(s, k) <=> CallMessage(Head(s), k)
<1>1. /\ Head(s) = s[1] /\ Tail(s) \in Seq(Message)
      /\ Len(s) \in Nat \ {0} /\ Len(Tail(s)) = Len(s) - 1
      /\ \A i \in 1..Len(Tail(s)) : Tail(s)[i] = s[i + 1]
  BY HeadTailProperties, EmptySeq
<1>2. 1 \in 1..Len(s)
  BY <1>1
<1>3. s[1] \in Message
  BY <1>2
<1>4. \A i \in Nat \ {0} : i \in 1..Len(Tail(s)) <=> i + 1 \in 1..Len(s)
  BY <1>1
<1>5. QED BY <1>1, <1>2, <1>3, <1>4 DEF Held, CallMessage

\* A place of a channel is a positive number.
LEMMA HeldPositive ==
    ASSUME NEW s \in Seq(Message), NEW k, NEW i \in Held(s, k)
    PROVE  i \in Nat \ {0}
  BY DEF Held

LEMMA LinkEnds ==
    ASSUME NEW x \in Link
    PROVE  /\ x[1] \in Client /\ x[2] \in {"up", "down"} /\ x = <<x[1], x[2]>>
           /\ x[2] = "up" => From(x) = x[1] /\ To(x) = server /\ Chan(x) = up[x[1]]
           /\ x[2] = "down" => From(x) = server /\ To(x) = x[1] /\ Chan(x) = down[x[1]]
           /\ {From(x), To(x)} = {server, x[1]}
           /\ From(x) \in Proc /\ To(x) \in Proc
  BY DEF Link, From, To, Chan, Proc

LEMMA ChanTyped ==
    ASSUME NetTypes
    PROVE  \A x \in Link : Chan(x) \in Seq(Message)
<1> SUFFICES ASSUME NEW x \in Link PROVE Chan(x) \in Seq(Message)
  OBVIOUS
<1>1. x[1] \in Client
  BY LinkEnds
<1>2. QED BY <1>1 DEF Chan, NetTypes

\* Send appends to the channel from p to q, if the connection is open.
LEMMA SendEffect ==
    ASSUME NEW p, NEW q, NEW c \in Client, {p, q} = {server, c},
           NEW m \in Message, Send(p, q, m),
           up \in [Client -> Seq(Message)], down \in [Client -> Seq(Message)]
    PROVE  \E x \in Link :
              /\ x[1] = c /\ From(x) = p /\ To(x) = q
              /\ \A y \in Link : Chan(y)' = IF y = x /\ c \in Open THEN Append(Chan(y), m)
                                             ELSE Chan(y)
              /\ up' \in [Client -> Seq(Message)] /\ down' \in [Client -> Seq(Message)]
<1>1. server \notin Client
  BY NetworkEventBounds
<1>2. CASE p = server
  <2>1. q = c /\ ToClient(c, m) /\ UNCHANGED up
    BY <1>1, <1>2 DEF Send
  <2>2. down' \in [Client -> Seq(Message)]
    BY <2>1, AppendProperties DEF ToClient
  <2>3. \A d \in Client : down'[d] = IF d = c /\ c \in Open THEN Append(down[d], m) ELSE down[d]
    BY <2>1 DEF ToClient
  <2>4. <<c, "down">> \in Link /\ From(<<c, "down">>) = p /\ To(<<c, "down">>) = q
    BY <1>2, <2>1 DEF Link, From, To
  <2>5. \A y \in Link : Chan(y)' = IF y = <<c, "down">> /\ c \in Open THEN Append(Chan(y), m)
                                   ELSE Chan(y)
    <3> SUFFICES ASSUME NEW y \in Link
                 PROVE  Chan(y)' = IF y = <<c, "down">> /\ c \in Open
                                   THEN Append(Chan(y), m) ELSE Chan(y)
      OBVIOUS
    <3>1. y[1] \in Client /\ y[2] \in {"up", "down"} /\ y = <<y[1], y[2]>>
      BY LinkEnds
    <3>2. Chan(y)' = IF y[2] = "up" THEN up'[y[1]] ELSE down'[y[1]]
      BY DEF Chan
    <3>3. QED BY <2>1, <2>3, <3>1, <3>2 DEF Chan
  <2>6. QED BY <2>1, <2>2, <2>4, <2>5
<1>3. CASE p # server
  <2>1. p = c /\ q = server /\ ToServer(c, m) /\ UNCHANGED down
    BY <1>1, <1>3 DEF Send
  <2>2. up' \in [Client -> Seq(Message)]
    BY <2>1, AppendProperties DEF ToServer
  <2>3. \A d \in Client : up'[d] = IF d = c /\ c \in Open THEN Append(up[d], m) ELSE up[d]
    BY <2>1 DEF ToServer
  <2>4. <<c, "up">> \in Link /\ From(<<c, "up">>) = p /\ To(<<c, "up">>) = q
    BY <2>1 DEF Link, From, To
  <2>5. \A y \in Link : Chan(y)' = IF y = <<c, "up">> /\ c \in Open THEN Append(Chan(y), m)
                                   ELSE Chan(y)
    <3> SUFFICES ASSUME NEW y \in Link
                 PROVE  Chan(y)' = IF y = <<c, "up">> /\ c \in Open
                                   THEN Append(Chan(y), m) ELSE Chan(y)
      OBVIOUS
    <3>1. y[1] \in Client /\ y[2] \in {"up", "down"} /\ y = <<y[1], y[2]>>
      BY LinkEnds
    <3>2. Chan(y)' = IF y[2] = "up" THEN up'[y[1]] ELSE down'[y[1]]
      BY DEF Chan
    <3>3. QED BY <2>1, <2>3, <3>1, <3>2 DEF Chan
  <2>6. QED BY <2>1, <2>2, <2>4, <2>5
<1>4. QED BY <1>2, <1>3

(***************************************************************************)
(* Tasks and handlers.                                                     *)
(***************************************************************************)

Stages == {"none", "running", "returned", "raised", "refused"}

\* The fields of a handler's task.
LEMMA JobTyped ==
    ASSUME TypeOK, NEW k \in Call
    PROVE  /\ job[k].state \in Stages /\ job[k].at \in Proc
           /\ job[k].state = "running" =>
                 job[k].ev \in Event /\ job[k].from \in Proc /\ job[k].req \in 1..MaxCalls
<1>1. \/ job[k] \in {NoJob, Over("returned"), Over("raised"), Over("refused")}
      \/ job[k] \in [state : {"running"}, at : Proc, ev : Event, from : Proc,
                     req : 1..MaxCalls]
  BY DEF TypeOK
<1>2. server \in Proc
  BY DEF Proc
<1>3. QED BY <1>1, <1>2 DEF NoJob, Over, Stages

LEMMA OverFields ==
    ASSUME NEW o \in Stages
    PROVE  Over(o).state = o /\ Over(o).at = server
  BY DEF Over, NoJob

LEMMA ProcTyped ==
    ASSUME TypeOK
    PROVE  \A t \in Task : ProcOf(t) \in Proc
<1> SUFFICES ASSUME NEW t \in Task PROVE ProcOf(t) \in Proc
  OBVIOUS
<1>1. t \in Proc \/ t \in Call
  BY DEF Task
<1>2. QED BY <1>1, JobTyped DEF ProcOf

\* No connection is opened twice or forgotten.
StatusMoves ==
    \A c \in Client : /\ status'[c] = "new" => status[c] = "new"
                      /\ status[c] = "closed" => status'[c] = "closed"

\* Tasks that are suspended keep their process.
LEMMA ProcKept ==
    ASSUME \A k \in Call : wait[k] # 0 =>
               job'[k].state = "running" /\ job'[k].at = job[k].at
    PROVE  \A t \in Task : wait[t] # 0 => ProcOf(t)' = ProcOf(t)
  BY DEF ProcOf, Task

\* What the tasks wait for is as it was.
LEMMA AskKept ==
    ASSUME AskInv, UNCHANGED <<wait, asked, target, got, calls>>, StatusMoves,
           \A k \in Call : wait[k] # 0 =>
               job'[k].state = "running" /\ job'[k].at = job[k].at
    PROVE  AskInv'
<1>1. \A t \in Task : wait[t] # 0 => ProcOf(t)' = ProcOf(t)
  BY ProcKept
<1>2. ASSUME NEW t \in Task
      PROVE  /\ asked'[t] = 0 <=> wait'[t] = 0
             /\ asked'[t] <= calls'
             /\ asked'[t] # 0 => got'[asked'[t]] = 0
             /\ asked'[t] # 0 => Linked(ProcOf(t), target[asked[t]])'
             /\ t \in Call /\ wait'[t] # 0 => job'[t].state = "running"
  <2>1. /\ asked[t] = 0 <=> wait[t] = 0
        /\ asked[t] <= calls
        /\ asked[t] # 0 => got[asked[t]] = 0
        /\ asked[t] # 0 => Linked(ProcOf(t), target[asked[t]])
    BY DEF AskInv
  <2>2. asked'[t] # 0 => Linked(ProcOf(t), target[asked[t]])'
    <3> SUFFICES ASSUME asked[t] # 0 PROVE Linked(ProcOf(t), target[asked[t]])'
      OBVIOUS
    <3>1. PICK c \in Client : status[c] # "new" /\ {ProcOf(t), target[asked[t]]} = {server, c}
      BY <2>1 DEF Linked
    <3>2. status'[c] # "new"
      BY <3>1 DEF StatusMoves
    <3>3. ProcOf(t)' = ProcOf(t) /\ target'[asked'[t]] = target[asked[t]]
      BY <1>1, <2>1
    <3>4. {ProcOf(t)', target'[asked'[t]]} = {server, c}
      BY <3>1, <3>3
    <3>5. QED BY <3>2, <3>4 DEF Linked
  <2>3. QED BY <2>1, <2>2
<1>3. \A t, u \in Task : asked'[t] = asked'[u] /\ asked'[t] # 0 => t = u
  BY DEF AskInv
<1>4. \A t, u \in Task :
        wait'[t] = wait'[u] /\ wait'[t] # 0 /\ ProcOf(t)' = ProcOf(u)' => t = u
  BY <1>1 DEF AskInv
<1>5. \A k \in Call : k <= calls' /\ got'[k] = 0 => \E t \in Task : asked'[t] = k
  BY DEF AskInv
<1>6. QED BY <1>2, <1>3, <1>4, <1>5 DEF AskInv

\* Who asks in call k is as it was, or is answered.
AskerKept(k) ==
    \A t \in Task : asked'[t] = k =>
        asked[t] = k /\ ProcOf(t)' = ProcOf(t) /\ wait'[t] = wait[t]

LEMMA JobKept ==
    ASSUME NEW k \in Call, JobOk(k), job'[k] = job[k], got'[k] = got[k], target'[k] = target[k],
           k > calls' => k > calls, StatusMoves, AskerKept(k)
    PROVE  JobOk(k)'
<1>1. job[k].state = "running" => Linked(job[k].at, job[k].from)'
  <2> SUFFICES ASSUME job[k].state = "running" PROVE Linked(job[k].at, job[k].from)'
    OBVIOUS
  <2>1. PICK c \in Client : status[c] # "new" /\ {job[k].at, job[k].from} = {server, c}
    BY DEF JobOk, Linked
  <2>2. status'[c] # "new"
    BY <2>1 DEF StatusMoves
  <2>3. {job'[k].at, job'[k].from} = {server, c}
    BY <2>1
  <2>4. QED BY <2>2, <2>3 DEF Linked
<1>2. job[k].state = "running" => Asks(k, job[k].from, job[k].req)'
  BY DEF JobOk, Asks, AskerKept
<1>3. QED BY <1>1, <1>2 DEF JobOk

\* The packets of call k move up by at most one place each.
Moved(k, d) ==
    \A x \in Link :
        /\ \A i \in Nat \ {0} : i \in Held(Chan(x)', k) <=> i + d[x] \in Held(Chan(x), k)
        /\ \A i \in Held(Chan(x)', k) : Chan(x)'[i] = Chan(x)[i + d[x]]
        /\ 1 \in Held(Chan(x), k) => d[x] = 0

\* Nothing happens to call k.
LEMMA PacketsKept ==
    ASSUME NetTypes, NetTypes', NEW k \in Call, CallPackets(k), NEW d \in [Link -> {0, 1}], Moved(k, d),
           k <= calls => k <= calls', got'[k] = got[k], target'[k] = target[k],
           job'[k].state = job[k].state, StatusMoves, AskerKept(k)
    PROVE  CallPackets(k)'
<1>1. \A x \in Link : \A i \in Held(Chan(x)', k) :
         i \in Nat \ {0} /\ i + d[x] \in Held(Chan(x), k) /\ Chan(x)'[i] = Chan(x)[i + d[x]]
  <2>1. \A x \in Link : \A i \in Held(Chan(x)', k) : i \in Nat \ {0}
    BY DEF Held
  <2>2. QED BY <2>1 DEF Moved
<1>2. \A p, q, m : Fits(m, k, p, q) => 
         /\ k <= calls' /\ got'[k] = 0
         /\ \/ /\ m.sig = "Request" /\ job'[k].state = "none" /\ target'[k] = q
               /\ \A t \in Task : asked'[t] = k => ProcOf(t)' = p /\ wait'[t] = m.req
            \/ /\ m.sig = "Response" /\ job'[k].state = "returned" /\ target'[k] = p
               /\ \A t \in Task : asked'[t] = k => ProcOf(t)' = q /\ wait'[t] = m.req
  BY DEF Fits, Asks, AskerKept
<1>3. ASSUME NEW x \in Link, NEW i \in Held(Chan(x)', k)
      PROVE  Fits(Chan(x)[i], k, From(x), To(x))'
  <2>1. Fits(Chan(x)[i + d[x]], k, From(x), To(x))
    BY <1>1, <1>3 DEF CallPackets
  <2>2. Chan(x)'[i] = Chan(x)[i + d[x]]
    BY <1>1, <1>3
  <2>3. From(x)' = From(x) /\ To(x)' = To(x)
    BY DEF From, To
  <2>4. QED BY <1>2, <2>1, <2>2, <2>3 DEF Fits, Asks
<1>4. ASSUME NEW x \in Link, NEW y \in Link, NEW i \in Held(Chan(x)', k), NEW j \in Held(Chan(y)', k)
      PROVE  x = y /\ i = j
  <2>1. i \in Nat /\ j \in Nat /\ d[x] \in Nat /\ d[y] \in Nat
    BY <1>1, <1>4
  <2>2. x = y /\ i + d[x] = j + d[y]
    BY <1>1, <1>4 DEF CallPackets
  <2>3. QED BY <2>1, <2>2
<1>5. ASSUME NEW t \in Task, asked'[t] = k, ~Cut(t, k)', job'[k].state \in {"none", "returned"}
      PROVE  \E x \in Link : Held(Chan(x)', k) # {}
  <2>1. asked[t] = k /\ ProcOf(t)' = ProcOf(t)
    BY <1>5 DEF AskerKept
  <2>2. ~Cut(t, k)
    BY <1>5, <2>1 DEF Cut, StatusMoves
  <2>3. PICK x \in Link : Held(Chan(x), k) # {}
    BY <1>5, <2>1, <2>2 DEF CallPackets
  <2>4. PICK i \in Held(Chan(x), k) : TRUE
    BY <2>3
  <2>5. i \in Nat \ {0} /\ d[x] \in {0, 1} /\ i - d[x] \in Nat
    BY <2>4, ChanTyped, HeldPositive
  <2>6. i - d[x] \in Nat \ {0} /\ (i - d[x]) + d[x] = i
    BY <2>4, <2>5 DEF Moved
  <2>7. i - d[x] \in Held(Chan(x)', k)
    BY <2>4, <2>6 DEF Moved
  <2>8. QED BY <2>7
<1>6. QED BY <1>3, <1>4, <1>5 DEF CallPackets

(***************************************************************************)
(* Steps that have nothing to do with calls.                               *)
(***************************************************************************)

\* What a client gets when it connects.
LEMMA Snapshot ==
    ASSUME NEW S \in SUBSET Event, IsFiniteSet(S),
           NEW s, s = [i \in 1..Cardinality(S) |-> [sig |-> "Added", ev |-> SetToSeq(S)[i]]]
    PROVE  s \in Seq(Message) /\ \A k : Held(s, k) = {}
<1>1. Cardinality(S) \in Nat /\ \E f \in [1..Cardinality(S) -> S] : IsInjective(f)
  BY FS_CardinalityType DEF ExistsBijection, Bijection, Injection
<1>2. SetToSeq(S) \in [1..Cardinality(S) -> S]
  BY <1>1 DEF SetToSeq
<1>3. \A i \in 1..Cardinality(S) : SetToSeq(S)[i] \in Event
  BY <1>2
<1>4. \A i \in 1..Cardinality(S) : s[i] \in Message /\ s[i].sig = "Added"
  BY <1>3, MessageMade
<1>5. s \in [1..Cardinality(S) -> Message]
  BY <1>4
<1>6. s \in Seq(Message) /\ Len(s) = Cardinality(S)
  BY <1>1, <1>5
<1>7. QED BY <1>4, <1>6 DEF Held

\* Messages that are not about call k are appended to some channels.
LEMMA MovedAppend ==
    ASSUME NetTypes, NEW k \in Call, NEW L, NEW m \in Message, ~CallMessage(m, k),
           \A x \in Link : Chan(x)' = IF x \in L THEN Append(Chan(x), m) ELSE Chan(x)
    PROVE  [x \in Link |-> 0] \in [Link -> {0, 1}] /\ Moved(k, [x \in Link |-> 0])
<1> DEFINE d == [x \in Link |-> 0]
<1>1. ASSUME NEW x \in Link
      PROVE  /\ \A i \in Nat \ {0} : i \in Held(Chan(x)', k) <=> i + d[x] \in Held(Chan(x), k)
             /\ \A i \in Held(Chan(x)', k) : Chan(x)'[i] = Chan(x)[i + d[x]]
             /\ 1 \in Held(Chan(x), k) => d[x] = 0
  <2>1. Chan(x) \in Seq(Message) /\ d[x] = 0
    BY ChanTyped
  <2>2. \A i : i \in Held(Chan(x)', k) <=> i \in Held(Chan(x), k)
    BY <2>1, HeldAppend
  <2>3. \A i \in Held(Chan(x), k) : Chan(x)'[i] = Chan(x)[i] /\ i \in Nat
    <3>1. \A i \in Held(Chan(x), k) : i \in Nat
      BY <2>1, HeldPositive
    <3>2. \A i \in Held(Chan(x), k) : Append(Chan(x), m)[i] = Chan(x)[i]
      <4>1. PICK s \in Seq(Message) : s = Chan(x)
        BY <2>1
      <4>2. \A i \in Held(s, k) : Append(s, m)[i] = s[i]
        BY AppendProperties DEF Held
      <4>3. QED BY <4>1, <4>2
    <3>3. QED BY <3>1, <3>2
  <2>4. QED BY <2>1, <2>2, <2>3
<1>2. d \in [Link -> {0, 1}]
  OBVIOUS
<1>3. QED BY <1>1, <1>2 DEF Moved

\* Nothing is appended.
LEMMA MovedSame ==
    ASSUME NetTypes, NEW k \in Call, \A x \in Link : Chan(x)' = Chan(x)
    PROVE  [x \in Link |-> 0] \in [Link -> {0, 1}] /\ Moved(k, [x \in Link |-> 0])
<1>1. ASSUME NEW x \in Link
      PROVE  \A i \in Held(Chan(x), k) : i \in Nat \ {0}
  BY ChanTyped, HeldPositive
<1>2. QED BY <1>1 DEF Moved

\* A message that is not about call k is read.
LEMMA MovedTail ==
    ASSUME NetTypes, NEW k \in Call, NEW y \in Link, Chan(y) # <<>>,
           ~CallMessage(Head(Chan(y)), k),
           \A x \in Link : Chan(x)' = IF x = y THEN Tail(Chan(x)) ELSE Chan(x),
           NEW d, d = [x \in Link |-> IF x = y THEN 1 ELSE 0]
    PROVE  d \in [Link -> {0, 1}] /\ Moved(k, d)
<1>1. ASSUME NEW x \in Link
      PROVE  /\ \A i \in Nat \ {0} : i \in Held(Chan(x)', k) <=> i + d[x] \in Held(Chan(x), k)
             /\ \A i \in Held(Chan(x)', k) : Chan(x)'[i] = Chan(x)[i + d[x]]
             /\ 1 \in Held(Chan(x), k) => d[x] = 0
  <2>1. Chan(x) \in Seq(Message)
    BY ChanTyped
  <2>2. CASE x = y
    <3>1. d[x] = 1 /\ Chan(x)' = Tail(Chan(x)) /\ Chan(x) # <<>> /\ 1 \notin Held(Chan(x), k)
      BY <2>1, <2>2, HeldTail
    <3>2. /\ \A i \in Nat \ {0} : i \in Held(Tail(Chan(x)), k) <=> i + 1 \in Held(Chan(x), k)
          /\ \A i \in Held(Tail(Chan(x)), k) : Tail(Chan(x))[i] = Chan(x)[i + 1]
      BY <2>1, <3>1, HeldTail
    <3>3. QED BY <3>1, <3>2
  <2>3. CASE x # y
    <3>1. d[x] = 0 /\ Chan(x)' = Chan(x)
      BY <2>3
    <3>2. \A i \in Held(Chan(x), k) : i \in Nat
      BY <2>1, HeldPositive
    <3>3. QED BY <3>1, <3>2
  <2>4. QED BY <2>2, <2>3
<1>2. d \in [Link -> {0, 1}]
  OBVIOUS
<1>3. QED BY <1>1, <1>2 DEF Moved

callCore == <<wait, asked, target, got, calls, job>>

\* A step that leaves the calls alone.
LEMMA QuietCalls ==
    ASSUME NetInv, NetTypes', UNCHANGED callCore, StatusMoves,
           \A k \in Call : \E d \in [Link -> {0, 1}] : Moved(k, d)
    PROVE  AskInv' /\ JobInv' /\ PacketInv'
<1>1. UNCHANGED <<wait, asked, target, got, calls>> /\ job' = job
  BY DEF callCore
<1>2. \A t \in Task : ProcOf(t)' = ProcOf(t)
  BY <1>1 DEF ProcOf
<1>3. AskInv'
  <2>1. AskInv /\ \A k \in Call : wait[k] # 0 => job'[k].state = "running" /\ job'[k].at = job[k].at
    BY <1>1 DEF NetInv, AskInv, Task
  <2>2. QED BY <1>1, <2>1, AskKept
<1>4. ASSUME NEW k \in Call PROVE JobOk(k)' /\ CallPackets(k)'
  <2>1. AskerKept(k)
    BY <1>1, <1>2 DEF AskerKept
  <2>2. JobOk(k) /\ CallPackets(k) /\ NetTypes
    BY DEF NetInv, JobInv, PacketInv
  <2>3. JobOk(k)'
    BY <1>1, <2>1, <2>2, JobKept
  <2>4. PICK d \in [Link -> {0, 1}] : Moved(k, d)
    OBVIOUS
  <2>5. CallPackets(k)'
    BY <1>1, <2>1, <2>2, <2>4, PacketsKept
  <2>6. QED BY <2>3, <2>5
<1>5. QED BY <1>3, <1>4 DEF JobInv, PacketInv

\* The types after such a step.
LEMMA QuietTypes ==
    ASSUME NetTypes, UNCHANGED <<callCore, nextReq>>,
           status' \in [Client -> {"new", "open", "closed"}], made' \subseteq Event,
           tree' \in [Proc -> SUBSET Event], known' \in [Proc -> SUBSET Event],
           IsFiniteSet(tree'[server]), \A m \in loose' : m.sig = "Event",
           up' \in [Client -> Seq(Message)], down' \in [Client -> Seq(Message)]
    PROVE  NetTypes'
<1>1. UNCHANGED <<wait, asked, target, got, calls, nextReq>> /\ job' = job
  BY DEF callCore
<1>2. \A t \in Task : ProcOf(t)' = ProcOf(t)
  BY <1>1 DEF ProcOf
<1>3. \A t \in Task : wait'[t] < nextReq'[ProcOf(t)']
  BY <1>1, <1>2 DEF NetTypes, TypeOK
<1>4. \A k \in Call :
           \/ job'[k] \in {NoJob, Over("returned"), Over("raised"), Over("refused")}
           \/ job'[k] \in [state : {"running"}, at : Proc, ev : Event, from : Proc,
                          req : 1..MaxCalls]
  BY <1>1 DEF NetTypes, TypeOK
<1>5. \A c \in Client : up'[c] \in Seq(Message) /\ down'[c] \in Seq(Message)
  OBVIOUS
<1>6. TypeOK'
  BY <1>1, <1>3, <1>4, <1>5 DEF NetTypes, TypeOK
<1>7. QED BY <1>1, <1>6 DEF NetTypes

\* A client connects, and gets the events there are.
LEMMA ConnectStep ==
    ASSUME NetInv, NEW c \in Client, Connect(c)
    PROVE  NetInv'
<1> DEFINE s == [i \in 1..Cardinality(tree[server]) |->
                    [sig |-> "Added", ev |-> SetToSeq(tree[server])[i]]]
<1>1. /\ status[c] = "new" /\ status' = [status EXCEPT ![c] = "open"]
      /\ down' = [down EXCEPT ![c] = s]
      /\ UNCHANGED <<made, tree, known, callVars, got, job, fireVars, up, loose>>
  BY DEF Connect
<1>2. NetTypes /\ TypeOK /\ LinkInv /\ server \in Proc
  BY DEF NetInv, NetTypes, Proc
<1>3. s \in Seq(Message) /\ \A k : Held(s, k) = {}
  <2>1. tree[server] \in SUBSET Event /\ IsFiniteSet(tree[server])
    BY <1>2 DEF NetTypes, TypeOK
  <2>2. QED BY <2>1, Snapshot
<1> HIDE DEF s
<1>4. UNCHANGED <<callCore, nextReq>>
  BY <1>1 DEF callVars, callCore
<1>5. NetTypes'
  <2>1. /\ status' \in [Client -> {"new", "open", "closed"}]
        /\ down' \in [Client -> Seq(Message)]
    BY <1>1, <1>2, <1>3 DEF NetTypes, TypeOK
  <2>2. /\ made' \subseteq Event /\ tree' \in [Proc -> SUBSET Event]
        /\ known' \in [Proc -> SUBSET Event] /\ IsFiniteSet(tree'[server])
        /\ \A m \in loose' : m.sig = "Event"
        /\ up' \in [Client -> Seq(Message)]
    BY <1>1, <1>2 DEF NetTypes, TypeOK
  <2>3. QED BY <1>2, <1>4, <2>1, <2>2, QuietTypes
<1>6. \A d \in Client : /\ status'[d] = IF d = c THEN "open" ELSE status[d]
                        /\ down'[d] = IF d = c THEN s ELSE down[d]
  BY <1>1, <1>2 DEF NetTypes, TypeOK
<1>7. StatusMoves
  BY <1>1, <1>6 DEF StatusMoves
<1>8. LinkInv'
  BY <1>1, <1>2, <1>6 DEF LinkInv, Open
<1>9. ASSUME NEW k \in Call PROVE \E d \in [Link -> {0, 1}] : Moved(k, d)
  <2> DEFINE z == [x \in Link |-> 0]
  <2>1. z \in [Link -> {0, 1}]
    OBVIOUS
  <2>2. ASSUME NEW x \in Link
        PROVE  /\ \A i \in Nat \ {0} : i \in Held(Chan(x)', k) <=> i + z[x] \in Held(Chan(x), k)
               /\ \A i \in Held(Chan(x)', k) : Chan(x)'[i] = Chan(x)[i + z[x]]
    <3>1. z[x] = 0 /\ x[1] \in Client /\ \A i \in Held(Chan(x), k) : i \in Nat
      BY <1>2, LinkEnds, ChanTyped, HeldPositive
    <3>2. CASE x[2] # "up" /\ x[1] = c
      <4>1. Chan(x) = <<>> /\ Chan(x)' = s
        BY <1>1, <1>2, <1>6, <3>1, <3>2 DEF Chan, LinkInv, Open
      <4>2. Held(<<>>, k) = {}
        BY DEF Held
      <4>3. QED BY <1>3, <3>1, <4>1, <4>2
    <3>3. CASE ~(x[2] # "up" /\ x[1] = c)
      <4>1. Chan(x)' = Chan(x)
        BY <1>1, <1>6, <3>1, <3>3 DEF Chan
      <4>2. QED BY <3>1, <4>1
    <3>4. QED BY <3>2, <3>3
  <2> HIDE DEF z
  <2>3. \A x \in Link : 1 \in Held(Chan(x), k) => z[x] = 0
    BY DEF z
  <2>4. QED BY <2>1, <2>2, <2>3 DEF Moved
<1>10. UNCHANGED callCore
  BY <1>4
<1>11. QED BY <1>5, <1>7, <1>8, <1>9, <1>10, QuietCalls DEF NetInv

\* Steps that append messages which are not about calls, to open channels.
LEMMA AppendStep ==
    ASSUME NetInv, UNCHANGED <<callCore, nextReq, status>>,
           made' \subseteq Event, tree' \in [Proc -> SUBSET Event],
           known' \in [Proc -> SUBSET Event], IsFiniteSet(tree'[server]),
           \A m \in loose' : m.sig = "Event",
           \A c \in Client : known'[c] \subseteq known[c],
           NEW L, NEW m \in Message, m.sig \notin {"Request", "Response"},
           \A x \in Link : x \in L => x[1] \in Open,
           up' = [c \in Client |-> IF <<c, "up">> \in L THEN Append(up[c], m) ELSE up[c]],
           down' = [c \in Client |-> IF <<c, "down">> \in L THEN Append(down[c], m) ELSE down[c]]
    PROVE  NetInv'
<1>1. NetTypes /\ TypeOK /\ LinkInv
  BY DEF NetInv, NetTypes
<1>2. up' \in [Client -> Seq(Message)] /\ down' \in [Client -> Seq(Message)]
  BY <1>1, AppendProperties DEF NetTypes
<1>3. NetTypes'
  BY <1>1, <1>2, QuietTypes DEF TypeOK
<1>4. LinkInv'
  <2>1. \A c \in Client : <<c, "up">> \in Link /\ <<c, "down">> \in Link
    BY DEF Link
  <2>2. \A c \in Client : c \notin Open => <<c, "up">> \notin L /\ <<c, "down">> \notin L
    BY <2>1
  <2>3. QED BY <1>1, <2>2 DEF LinkInv, Open
<1>5. ASSUME NEW x \in Link PROVE Chan(x)' = IF x \in L THEN Append(Chan(x), m) ELSE Chan(x)
  <2>1. x[1] \in Client /\ x[2] \in {"up", "down"} /\ x = <<x[1], x[2]>>
    BY LinkEnds
  <2>2. CASE x[2] = "up"
    <3>1. x = <<x[1], "up">> /\ Chan(x) = up[x[1]] /\ Chan(x)' = up'[x[1]]
      BY <2>1, <2>2 DEF Chan
    <3>2. QED BY <2>1, <3>1
  <2>3. CASE x[2] = "down"
    <3>1. x = <<x[1], "down">> /\ Chan(x) = down[x[1]] /\ Chan(x)' = down'[x[1]]
      BY <2>1, <2>3 DEF Chan
    <3>2. QED BY <2>1, <3>1
  <2>4. QED BY <2>1, <2>2, <2>3
<1>6. ASSUME NEW k \in Call PROVE \E d \in [Link -> {0, 1}] : Moved(k, d)
  <2>1. ~CallMessage(m, k)
    BY DEF CallMessage
  <2>2. [x \in Link |-> 0] \in [Link -> {0, 1}] /\ Moved(k, [x \in Link |-> 0])
    BY <1>1, <1>5, <2>1, MovedAppend
  <2>3. QED BY <2>2
<1>7. StatusMoves /\ UNCHANGED callCore
  BY DEF StatusMoves
<1>8. QED BY <1>3, <1>4, <1>6, <1>7, QuietCalls DEF NetInv

\* Events come and go.
LEMMA EventSteps ==
    ASSUME NetInv, NEW e \in Event, CreateEvent(e) \/ DestroyEvent(e)
    PROVE  NetInv'
<1> DEFINE L == {x \in Link : x[2] = "down" /\ x[1] \in Open}
<1>1. PICK m \in Message : /\ m.sig \notin {"Request", "Response"} /\ ToAll(m)
  BY MessageMade DEF CreateEvent, DestroyEvent
<1>2. TypeOK /\ NetTypes /\ server \in Proc /\ server \notin Client
  BY NetworkEventBounds DEF NetInv, NetTypes, Proc
<1>3. UNCHANGED <<callCore, nextReq, status>> /\ up' = up /\ loose' = loose
  BY DEF CreateEvent, DestroyEvent, callVars, callCore
<1>4. /\ made' \subseteq Event /\ tree' \in [Proc -> SUBSET Event]
      /\ known' \in [Proc -> SUBSET Event] /\ IsFiniteSet(tree'[server])
      /\ \A c \in Client : known'[c] \subseteq known[c]
  <2>1. CASE CreateEvent(e)
    <3>1. IsFiniteSet(tree[server] \cup {e})
      BY <1>2, FS_AddElement DEF NetTypes
    <3>2. QED BY <1>2, <2>1, <3>1 DEF CreateEvent, TypeOK
  <2>2. CASE DestroyEvent(e)
    <3>1. IsFiniteSet(tree[server] \ {e})
      BY <1>2, FS_Subset DEF NetTypes
    <3>2. QED BY <1>2, <2>2, <3>1 DEF DestroyEvent, TypeOK
  <2>3. QED BY <2>1, <2>2
<1>5. \A c \in Client : <<c, "up">> \notin L /\ (<<c, "down">> \in L <=> c \in Open)
  BY DEF Link
<1>6. /\ up' = [c \in Client |-> IF <<c, "up">> \in L THEN Append(up[c], m) ELSE up[c]]
      /\ down' = [c \in Client |-> IF <<c, "down">> \in L THEN Append(down[c], m) ELSE down[c]]
  <2>1. up = [c \in Client |-> up[c]]
    BY <1>2 DEF NetTypes
  <2> HIDE DEF L
  <2>2. QED BY <1>1, <1>3, <1>5, <2>1 DEF ToAll
<1>7. \A x \in Link : x \in L => x[1] \in Open
  OBVIOUS
<1>8. \A w \in loose' : w.sig = "Event"
  BY <1>2, <1>3 DEF NetTypes
<1> HIDE DEF L
<1>9. QED BY <1>1, <1>3, <1>4, <1>6, <1>7, <1>8, AppendStep

\* The channels and the connections are left alone.
LEMMA StillStep ==
    ASSUME NetInv, UNCHANGED <<callCore, nextReq, status, made, tree, up, down>>,
           known' \in [Proc -> SUBSET Event], \A c \in Client : known'[c] \subseteq known[c],
           \A m \in loose' : m.sig = "Event"
    PROVE  NetInv'
<1>1. NetTypes /\ TypeOK /\ LinkInv
  BY DEF NetInv, NetTypes
<1>2. NetTypes'
  BY <1>1, QuietTypes DEF NetTypes, TypeOK
<1>3. LinkInv'
  BY <1>1 DEF LinkInv, Open
<1>4. \A x \in Link : Chan(x)' = Chan(x)
  BY DEF Chan
<1>5. \A k \in Call : \E d \in [Link -> {0, 1}] : Moved(k, d)
  BY <1>1, <1>4, MovedSame
<1>6. StatusMoves /\ UNCHANGED callCore
  BY DEF StatusMoves
<1>7. QED BY <1>2, <1>3, <1>5, <1>6, QuietCalls DEF NetInv

\* An event is fired.
LEMMA FiresStep ==
    ASSUME NetInv, NEW p, NEW to, NEW e \in Event, NEW tcp \in BOOLEAN, Fires(p, to, e, tcp),
           \/ p \in Open /\ to = {server}
           \/ p = server /\ to \subseteq Open
    PROVE  NetInv'
<1> DEFINE L == {x \in Link : /\ tcp
                            /\ \/ x[2] = "up" /\ p = x[1]
                               \/ x[2] = "down" /\ p = server /\ x[1] \in to}
<1>1. PICK f \in Fire :
         LET m == [sig |-> "Event", ev |-> e, arg |-> f]
         IN  /\ loose' = IF tcp THEN loose ELSE loose \cup
                    {[sig |-> "Event", ev |-> e, arg |-> f, from |-> p, to |-> q] : q \in to}
             /\ up' = [c \in Client |-> IF tcp /\ p = c THEN Append(up[c], m) ELSE up[c]]
             /\ down' = [c \in Client |->
                    IF tcp /\ p = server /\ c \in to THEN Append(down[c], m) ELSE down[c]]
  BY DEF Fires
<1> DEFINE m == [sig |-> "Event", ev |-> e, arg |-> f]
<1>2. m \in Message /\ m.sig \notin {"Request", "Response"}
  BY MessageMade
<1>3. \A w \in loose' : w.sig = "Event"
  BY <1>1 DEF NetInv, NetTypes
<1>4. UNCHANGED <<callCore, nextReq, status, made, tree, known>>
  BY DEF Fires, callVars, callCore, connVars
<1>5. \A c \in Client : /\ <<c, "up">> \in L <=> tcp /\ p = c
                        /\ <<c, "down">> \in L <=> tcp /\ p = server /\ c \in to
  BY DEF Link
<1>6. server \notin Open
  BY NetworkEventBounds DEF Open
<1>7. \A x \in Link : x \in L => x[1] \in Open
  <2>1. \A x \in Link : x[1] # server
    BY NetworkEventBounds, LinkEnds
  <2>2. QED BY <1>6, <2>1
<1>8. /\ up' = [c \in Client |-> IF <<c, "up">> \in L THEN Append(up[c], m) ELSE up[c]]
      /\ down' = [c \in Client |-> IF <<c, "down">> \in L THEN Append(down[c], m) ELSE down[c]]
  <2> HIDE DEF L
  <2>1. QED BY <1>1, <1>5
<1> HIDE DEF L, m
<1>9. /\ made' \subseteq Event /\ tree' \in [Proc -> SUBSET Event]
      /\ known' \in [Proc -> SUBSET Event] /\ IsFiniteSet(tree'[server])
      /\ \A c \in Client : known'[c] \subseteq known[c]
  BY <1>4 DEF NetInv, NetTypes, TypeOK
<1>10. QED BY <1>2, <1>3, <1>4, <1>7, <1>8, <1>9, AppendStep

\* A connection is lost, with the packets on it.
LEMMA DisconnectStep ==
    ASSUME NetInv, NEW c \in Client, Disconnect(c)
    PROVE  NetInv'
<1>1. /\ status' = [status EXCEPT ![c] = "closed"] /\ c \in Open
      /\ up' = [up EXCEPT ![c] = <<>>] /\ down' = [down EXCEPT ![c] = <<>>]
      /\ loose' \subseteq loose
      /\ UNCHANGED <<made, tree, known, callCore, nextReq>>
  BY DEF Disconnect, callVars, callCore
<1>2. NetTypes /\ TypeOK /\ LinkInv /\ AskInv /\ JobInv /\ PacketInv
  BY DEF NetInv, NetTypes
<1>3. /\ up' \in [Client -> Seq(Message)] /\ down' \in [Client -> Seq(Message)]
      /\ \A d \in Client : /\ up'[d] = IF d = c THEN <<>> ELSE up[d]
                           /\ down'[d] = IF d = c THEN <<>> ELSE down[d]
                           /\ status'[d] = IF d = c THEN "closed" ELSE status[d]
  BY <1>1, <1>2, EmptySeq DEF NetTypes, TypeOK
<1>4. NetTypes'
  <2>1. status' \in [Client -> {"new", "open", "closed"}]
    BY <1>1, <1>2 DEF TypeOK
  <2>2. /\ made' \subseteq Event /\ tree' \in [Proc -> SUBSET Event]
        /\ known' \in [Proc -> SUBSET Event] /\ IsFiniteSet(tree'[server])
        /\ \A m \in loose' : m.sig = "Event"
    BY <1>1, <1>2 DEF NetTypes, TypeOK
  <2>3. QED BY <1>1, <1>2, <1>3, <2>1, <2>2, QuietTypes
<1>5. LinkInv'
  BY <1>1, <1>2, <1>3 DEF LinkInv, Open
<1>6. StatusMoves
  BY <1>1, <1>3 DEF StatusMoves, Open
<1>7. UNCHANGED <<wait, asked, target, got, calls>> /\ job' = job
  BY <1>1 DEF callCore
<1>8. \A t \in Task : ProcOf(t)' = ProcOf(t)
  BY <1>7 DEF ProcOf
<1>9. AskInv'
  <2>1. \A k \in Call : wait[k] # 0 => job'[k].state = "running" /\ job'[k].at = job[k].at
    BY <1>2, <1>7 DEF AskInv, Task
  <2>2. QED BY <1>2, <1>6, <1>7, <2>1, AskKept
<1>10. \A k \in Call : AskerKept(k)
  BY <1>7, <1>8 DEF AskerKept
<1>11. JobInv'
  BY <1>2, <1>6, <1>7, <1>10, JobKept DEF JobInv
<1>12. ASSUME NEW x \in Link
       PROVE  Chan(x)' = IF x[1] = c THEN <<>> ELSE Chan(x)
  BY <1>3, LinkEnds DEF Chan
<1>13. \A x \in Link, k \in Call : \A i \in Held(Chan(x)', k) : x[1] # c /\ Chan(x)' = Chan(x)
  BY <1>12 DEF Held
<1>14. ASSUME NEW k \in Call PROVE CallPackets(k)'
  <2>1. CallPackets(k)
    BY <1>2 DEF PacketInv
  <2>2. ASSUME NEW x \in Link, NEW i \in Held(Chan(x)', k)
        PROVE  Fits(Chan(x)[i], k, From(x), To(x))'
    <3>1. Chan(x)' = Chan(x) /\ Fits(Chan(x)[i], k, From(x), To(x))
      BY <1>13, <2>1, <2>2 DEF CallPackets
    <3>2. From(x)' = From(x) /\ To(x)' = To(x)
      BY DEF From, To
    <3>3. QED BY <1>7, <1>8, <3>1, <3>2 DEF Fits, Asks
  <2>3. ASSUME NEW x \in Link, NEW y \in Link, NEW i \in Held(Chan(x)', k), NEW j \in Held(Chan(y)', k)
        PROVE  x = y /\ i = j
    BY <1>13, <2>1, <2>3 DEF CallPackets
  <2>4. ASSUME NEW t \in Task, asked'[t] = k, ~Cut(t, k)', job'[k].state \in {"none", "returned"}
        PROVE  \E x \in Link : Held(Chan(x)', k) # {}
    <3>1. asked[t] = k /\ ~Cut(t, k)
      BY <1>6, <1>7, <1>8, <2>4 DEF Cut, StatusMoves
    <3>2. PICK x \in Link : Held(Chan(x), k) # {}
      BY <1>7, <2>1, <2>4, <3>1 DEF CallPackets
    <3>3. PICK i \in Held(Chan(x), k) : Fits(Chan(x)[i], k, From(x), To(x))
      BY <2>1, <3>2 DEF CallPackets
    <3>4. {ProcOf(t), target[k]} = {From(x), To(x)}
      BY <3>1, <3>3 DEF Fits, Asks
    <3>5. x[1] # c
      <4>1. x[1] \in {ProcOf(t), target[k]} \cap Client
        BY <3>4, LinkEnds
      <4>2. x[1] \in ({ProcOf(t), target[k]} \cap Client)'
        BY <1>7, <1>8, <4>1
      <4>3. status'[x[1]] # "closed"
        BY <2>4, <4>2 DEF Cut
      <4>4. QED BY <1>3, <4>3
    <3>6. QED BY <1>12, <3>2, <3>5
  <2>5. QED BY <2>2, <2>3, <2>4 DEF CallPackets
<1>15. QED BY <1>4, <1>5, <1>9, <1>11, <1>14 DEF NetInv, PacketInv

\* The signals of an event go away, or an unreliable packet is lost or read.
LEMMA StillSteps ==
    ASSUME NetInv, \/ \E p \in Proc, e \in Event : Release(p, e)
                   \/ \E m \in loose : LooseArrives(m) \/ LooseLost(m)
    PROVE  NetInv'
<1>1. TypeOK /\ NetTypes
  BY DEF NetInv, NetTypes
<1>2. CASE \E p \in Proc, e \in Event : Release(p, e)
  <2>1. /\ UNCHANGED <<callCore, nextReq, status, made, tree, up, down>> /\ loose' = loose
        /\ known' \in [Proc -> SUBSET Event] /\ \A c \in Proc : known'[c] \subseteq known[c]
    BY <1>1, <1>2 DEF Release, callVars, callCore, netVars, TypeOK
  <2>2. QED BY <1>1, <2>1, StillStep DEF Proc, NetTypes
<1>3. CASE \E m \in loose : LooseArrives(m) \/ LooseLost(m)
  <2>1. PICK m \in loose : m.sig = "Event" /\ (LooseArrives(m) \/ LooseLost(m))
    BY <1>1, <1>3 DEF NetTypes
  <2>2. UNCHANGED <<callCore, nextReq, status, made, tree, known, up, down>> /\ loose' \subseteq loose
    <3>1. CASE LooseArrives(m)
      BY <2>1, <3>1 DEF LooseArrives, Receive, callCore, connVars
    <3>2. CASE LooseLost(m)
      BY <2>1, <3>2 DEF LooseLost, callVars, callCore, connVars
    <3>3. QED BY <2>1, <3>1, <3>2
  <2>3. QED BY <1>1, <2>2, StillStep DEF NetTypes, TypeOK
<1>4. QED BY <1>2, <1>3

(***************************************************************************)
(* Packets that arrive.                                                    *)
(***************************************************************************)

\* The first message of one channel is read.
LEMMA PollEffect ==
    ASSUME NetInv, NEW c \in Client, ServerPolls(c) \/ ClientPolls(c)
    PROVE  \E y \in Link :
              /\ Chan(y) # <<>> /\ y[1] \in Open
              /\ Receive(To(y), From(y), Head(Chan(y)))
              /\ \A x \in Link : Chan(x)' = IF x = y THEN Tail(Chan(x)) ELSE Chan(x)
              /\ up' \in [Client -> Seq(Message)] /\ down' \in [Client -> Seq(Message)]
              /\ \A d \in Client : d # y[1] => up'[d] = up[d] /\ down'[d] = down[d]
              /\ UNCHANGED <<nextReq, target, calls, fire, loose>>
<1>1. NetTypes /\ LinkInv
  BY DEF NetInv
<1>2. CASE ServerPolls(c)
  <2> DEFINE y == <<c, "up">>
  <2>1. y \in Link /\ y[1] = c /\ Chan(y) = up[c] /\ To(y) = server /\ From(y) = c
    BY DEF Link, Chan, To, From
  <2>2. /\ up[c] # <<>> /\ up' = [up EXCEPT ![c] = Tail(@)] /\ down' = down
        /\ Receive(server, c, Head(up[c]))
        /\ UNCHANGED <<nextReq, target, calls, fire, loose>>
    BY <1>2 DEF ServerPolls
  <2>3. Tail(up[c]) \in Seq(Message)
    BY <1>1, <2>2, HeadTailProperties DEF NetTypes
  <2>4. /\ up' \in [Client -> Seq(Message)] /\ down' \in [Client -> Seq(Message)]
        /\ \A d \in Client : up'[d] = IF d = c THEN Tail(up[c]) ELSE up[d]
    BY <1>1, <2>2, <2>3 DEF NetTypes
  <2>5. \A x \in Link : Chan(x)' = IF x = y THEN Tail(Chan(x)) ELSE Chan(x)
    <3> SUFFICES ASSUME NEW x \in Link PROVE Chan(x)' = IF x = y THEN Tail(Chan(x)) ELSE Chan(x)
      OBVIOUS
    <3>1. x[1] \in Client /\ x[2] \in {"up", "down"} /\ x = <<x[1], x[2]>>
      BY LinkEnds
    <3>2. Chan(x)' = IF x[2] = "up" THEN up'[x[1]] ELSE down'[x[1]]
      BY DEF Chan
    <3>3. QED BY <2>2, <2>4, <3>1, <3>2 DEF Chan
  <2>6. c \in Open
    BY <1>1, <2>2 DEF LinkInv
  <2> HIDE DEF y
  <2>7. QED BY <2>1, <2>2, <2>4, <2>5, <2>6
<1>3. CASE ClientPolls(c)
  <2> DEFINE y == <<c, "down">>
  <2>1. y \in Link /\ y[1] = c /\ Chan(y) = down[c] /\ To(y) = c /\ From(y) = server
    BY DEF Link, Chan, To, From
  <2>2. /\ down[c] # <<>> /\ down' = [down EXCEPT ![c] = Tail(@)] /\ up' = up
        /\ Receive(c, server, Head(down[c]))
        /\ UNCHANGED <<nextReq, target, calls, fire, loose>>
    BY <1>3 DEF ClientPolls
  <2>3. Tail(down[c]) \in Seq(Message)
    BY <1>1, <2>2, HeadTailProperties DEF NetTypes
  <2>4. /\ up' \in [Client -> Seq(Message)] /\ down' \in [Client -> Seq(Message)]
        /\ \A d \in Client : down'[d] = IF d = c THEN Tail(down[c]) ELSE down[d]
    BY <1>1, <2>2, <2>3 DEF NetTypes
  <2>5. \A x \in Link : Chan(x)' = IF x = y THEN Tail(Chan(x)) ELSE Chan(x)
    <3> SUFFICES ASSUME NEW x \in Link PROVE Chan(x)' = IF x = y THEN Tail(Chan(x)) ELSE Chan(x)
      OBVIOUS
    <3>1. x[1] \in Client /\ x[2] \in {"up", "down"} /\ x = <<x[1], x[2]>>
      BY LinkEnds
    <3>2. Chan(x)' = IF x[2] = "up" THEN up'[x[1]] ELSE down'[x[1]]
      BY DEF Chan
    <3>3. QED BY <2>2, <2>4, <3>1, <3>2 DEF Chan
  <2>6. c \in Open
    BY <1>1, <2>2 DEF LinkInv
  <2> HIDE DEF y
  <2>7. QED BY <2>1, <2>2, <2>4, <2>5, <2>6
<1>4. QED BY <1>2, <1>3

\* The message is not about a call.
LEMMA PollQuiet ==
    ASSUME NetInv, NEW y \in Link, Chan(y) # <<>>, y[1] \in Open,
           NEW m, m = Head(Chan(y)), m.sig \notin {"Request", "Response"},
           Receive(To(y), From(y), m),
           \A x \in Link : Chan(x)' = IF x = y THEN Tail(Chan(x)) ELSE Chan(x),
           up' \in [Client -> Seq(Message)], down' \in [Client -> Seq(Message)],
           \A d \in Client : d # y[1] => up'[d] = up[d] /\ down'[d] = down[d],
           UNCHANGED <<nextReq, target, calls, fire, loose>>
    PROVE  NetInv'
<1>1. NetTypes /\ TypeOK /\ LinkInv
  BY DEF NetInv, NetTypes
<1>2. m \in Message /\ To(y) \in Proc /\ To(y) \in {server, y[1]}
  BY <1>1, ChanTyped, HeldTail, LinkEnds DEF To
<1>3. UNCHANGED <<callCore, nextReq, status, made, loose>>
  BY DEF Receive, connVars, callCore
<1>4. /\ tree' \in [Proc -> SUBSET Event] /\ known' \in [Proc -> SUBSET Event]
      /\ IsFiniteSet(tree'[server])
      /\ \A p \in Proc : p # To(y) => known'[p] = known[p]
  <2>1. CASE m.sig = "Added"
    <3>1. /\ m.ev \in Event
          /\ tree' = [tree EXCEPT ![To(y)] = @ \cup {m.ev}]
          /\ known' = [known EXCEPT ![To(y)] = @ \cup {m.ev}]
      BY <1>2, <2>1, Messages DEF Receive
    <3>2. IsFiniteSet(tree[server] \cup {m.ev}) /\ IsFiniteSet(tree[server])
      BY <1>1, FS_AddElement DEF NetTypes
    <3>3. tree \in [Proc -> SUBSET Event] /\ known \in [Proc -> SUBSET Event] /\ server \in Proc
      BY <1>1 DEF TypeOK, Proc
    <3>4. QED BY <1>2, <3>1, <3>2, <3>3
  <2>2. CASE m.sig = "Removed"
    <3>1. /\ tree' = [tree EXCEPT ![To(y)] = @ \ {m.ev}] /\ known' = known
      BY <1>2, <2>2, Messages DEF Receive
    <3>2. IsFiniteSet(tree[server] \ {m.ev}) /\ IsFiniteSet(tree[server])
      BY <1>1, FS_Subset DEF NetTypes
    <3>3. tree \in [Proc -> SUBSET Event] /\ known \in [Proc -> SUBSET Event] /\ server \in Proc
      BY <1>1 DEF TypeOK, Proc
    <3>4. QED BY <1>2, <3>1, <3>2, <3>3
  <2>3. CASE m.sig \notin {"Added", "Removed"}
    <3>1. UNCHANGED <<tree, known>>
      BY <2>3 DEF Receive, connVars
    <3>2. QED BY <1>1, <3>1 DEF NetTypes, TypeOK
  <2>4. QED BY <2>1, <2>2, <2>3
<1>5. NetTypes'
  <2>1. /\ status' \in [Client -> {"new", "open", "closed"}] /\ made' \subseteq Event
        /\ \A w \in loose' : w.sig = "Event"
    BY <1>1, <1>3 DEF NetTypes, TypeOK
  <2>2. QED BY <1>1, <1>3, <1>4, <2>1, QuietTypes
<1>6. LinkInv'
  <2>1. \A c \in Client : c \in Proc /\ c # server
    BY NetworkEventBounds DEF Proc
  <2>2. \A c \in Client : c # y[1] => known'[c] = known[c]
    BY <1>2, <1>4, <2>1
  <2>3. QED BY <1>1, <1>3, <2>2 DEF LinkInv, Open
<1>7. ASSUME NEW k \in Call PROVE \E d \in [Link -> {0, 1}] : Moved(k, d)
  <2> DEFINE d == [x \in Link |-> IF x = y THEN 1 ELSE 0]
  <2>1. ~CallMessage(Head(Chan(y)), k)
    BY DEF CallMessage
  <2>2. d \in [Link -> {0, 1}] /\ Moved(k, d)
    BY <1>1, <2>1, MovedTail
  <2> HIDE DEF d
  <2>3. QED BY <2>2
<1>8. StatusMoves /\ UNCHANGED callCore
  BY <1>3 DEF StatusMoves
<1>9. QED BY <1>5, <1>6, <1>7, <1>8, QuietCalls DEF NetInv

(***************************************************************************)
(* Steps of calls.                                                         *)
(***************************************************************************)

\* Call k is not on its way; then it is, as far as the connection is open.
LEMMA NewPacket ==
    ASSUME NetTypes, NEW k \in Call, \A x \in Link : Held(Chan(x), k) = {},
           NEW z \in Link, NEW m \in Message, CallMessage(m, k), NEW p, NEW q,
           p = From(z), q = To(z), Fits(m, k, p, q)', NEW o \in BOOLEAN,
           \A y \in Link : Chan(y)' = IF y = z /\ o THEN Append(Chan(y), m) ELSE Chan(y),
           \A t \in Task : asked'[t] = k /\ ~Cut(t, k)' => o
    PROVE  CallPackets(k)'
<1>1. PICK s \in Seq(Message) : s = Chan(z)
  BY ChanTyped
<1>2. /\ Len(s) \in Nat
      /\ \A i : i \in Held(Append(s, m), k) <=> i = Len(s) + 1
      /\ Append(s, m)[Len(s) + 1] = m
  <2>1. Held(s, k) = {}
    BY <1>1
  <2>2. QED BY <2>1, HeldAppend
<1>3. \A x \in Link : \A i \in Held(Chan(x)', k) :
         x = z /\ o /\ i = Len(s) + 1 /\ Chan(x)'[i] = m
  BY <1>1, <1>2
<1>4. ASSUME NEW x \in Link, NEW i \in Held(Chan(x)', k)
      PROVE  Fits(Chan(x)[i], k, From(x), To(x))'
  <2>1. x = z /\ Chan(x)'[i] = m
    BY <1>3, <1>4
  <2>2. From(x)' = p /\ To(x)' = q
    BY <2>1 DEF From, To
  <2>3. QED BY <2>1, <2>2 DEF Fits, Asks
<1>5. ASSUME o PROVE Held(Chan(z)', k) # {}
  <2>1. Chan(z)' = Append(s, m)
    BY <1>1, <1>5
  <2>2. Len(s) + 1 \in Held(Chan(z)', k)
    BY <1>2, <2>1
  <2>3. QED BY <2>2
<1>6. ASSUME NEW x \in Link, NEW y \in Link, NEW i \in Held(Chan(x)', k), NEW j \in Held(Chan(y)', k)
      PROVE  x = y /\ i = j
  BY <1>3, <1>6
<1>7. ASSUME NEW t \in Task, asked'[t] = k, ~Cut(t, k)'
      PROVE  \E x \in Link : Held(Chan(x)', k) # {}
  BY <1>5, <1>7
<1>8. QED BY <1>4, <1>6, <1>7 DEF CallPackets

\* Nothing of call k is on its way, and nothing is due.
LEMMA NoPacket ==
    ASSUME NEW k \in Call, \A x \in Link : Held(Chan(x)', k) = {},
           \A t \in Task : asked'[t] = k => job'[k].state \notin {"none", "returned"}
    PROVE  CallPackets(k)'
  BY DEF CallPackets, Held

\* The packet of call k is read.
LEMMA PacketRead ==
    ASSUME NetTypes, NEW k \in Call, CallPackets(k), NEW y \in Link, Chan(y) # <<>>,
           CallMessage(Head(Chan(y)), k),
           \A x \in Link : Chan(x)' = IF x = y THEN Tail(Chan(x)) ELSE Chan(x)
    PROVE  /\ Fits(Head(Chan(y)), k, From(y), To(y))
           /\ \A x \in Link : Held(Chan(x)', k) = {}
<1>1. PICK s \in Seq(Message) : s = Chan(y)
  BY ChanTyped
<1>2. /\ Head(s) = s[1] /\ 1 \in Held(s, k) /\ Tail(s) \in Seq(Message)
      /\ \A i \in Nat \ {0} : i \in Held(Tail(s), k) <=> i + 1 \in Held(s, k)
  BY <1>1, HeldTail
<1>3. Fits(Head(Chan(y)), k, From(y), To(y))
  BY <1>1, <1>2 DEF CallPackets
<1>4. ASSUME NEW x \in Link, NEW i \in Held(Chan(x)', k) PROVE FALSE
  <2>1. CASE x = y
    <3>1. i \in Held(Tail(s), k) /\ i \in Nat \ {0}
      BY <1>1, <1>2, <1>4, <2>1, HeldPositive
    <3>2. i + 1 \in Held(Chan(y), k) /\ 1 \in Held(Chan(y), k)
      BY <1>1, <1>2, <3>1
    <3>3. i + 1 = 1
      BY <3>2 DEF CallPackets
    <3>4. QED BY <3>1, <3>3
  <2>2. CASE x # y
    <3>1. i \in Held(Chan(x), k) /\ 1 \in Held(Chan(y), k)
      BY <1>1, <1>2, <1>4, <2>2
    <3>2. QED BY <2>2, <3>1 DEF CallPackets
  <2>3. QED BY <2>1, <2>2
<1>5. QED BY <1>3, <1>4

\* What is sent is sent on an open connection.
LEMMA LinkSent ==
    ASSUME LinkInv, status' = status, known' = known,
           \A y \in Link : Chan(y)' = Chan(y) \/ y[1] \in Open
    PROVE  LinkInv'
<1>1. ASSUME NEW d \in Client, d \notin Open' PROVE up'[d] = <<>> /\ down'[d] = <<>>
  <2>1. d \notin Open /\ up[d] = <<>> /\ down[d] = <<>>
    BY <1>1 DEF LinkInv, Open
  <2>2. /\ <<d, "up">> \in Link /\ <<d, "down">> \in Link
        /\ Chan(<<d, "up">>) = up[d] /\ Chan(<<d, "down">>) = down[d]
        /\ Chan(<<d, "up">>)' = up'[d] /\ Chan(<<d, "down">>)' = down'[d]
    BY DEF Link, Chan
  <2>3. QED BY <2>1, <2>2
<1>2. QED BY <1>1 DEF LinkInv

\* A script makes a call.
LEMMA InvokeStep ==
    ASSUME NetInv, NEW t \in Task, NEW q \in Proc, NEW e \in Event, NEW c \in Client,
           {ProcOf(t), q} = {server, c}, status[c] # "new", Invoke(t, q, e)
    PROVE  NetInv'
<1>1. NetTypes /\ TypeOK /\ LinkInv /\ AskInv /\ JobInv /\ PacketInv
  BY DEF NetInv, NetTypes
<1>2. PICK p \in Proc : p = ProcOf(t)
  BY <1>1, ProcTyped
<1>3. /\ MaxCalls \in Nat /\ calls \in 0..MaxCalls /\ calls < MaxCalls
      /\ nextReq[p] <= calls + 1 /\ nextReq[p] \in 1..MaxCalls + 1
  BY <1>1, NetworkEventBounds DEF NetTypes, TypeOK, Invoke
<1>4. PICK k0 \in Call : k0 = calls + 1
  BY <1>3 DEF Call
<1>5. PICK r \in 1..MaxCalls : r = nextReq[p]
  BY <1>3
<1> DEFINE m == [sig |-> "Request", ev |-> e, req |-> r, arg |-> k0]
<1>6. /\ wait[t] = 0 /\ (t \in Call => job[t].state = "running")
      /\ nextReq' = [nextReq EXCEPT ![p] = r + 1]
      /\ wait' = [wait EXCEPT ![t] = r] /\ asked' = [asked EXCEPT ![t] = k0]
      /\ target' = [target EXCEPT ![k0] = q] /\ calls' = k0
      /\ UNCHANGED <<connVars, got, job, fireVars, loose>>
  BY <1>2, <1>4, <1>5 DEF Invoke, Ready
<1>7. Send(p, q, m)
  BY <1>2, <1>4, <1>5 DEF Invoke
<1>8. m \in Message /\ CallMessage(m, k0) /\ m.sig = "Request" /\ m.req = r
      /\ \A k \in Call : k # k0 => ~CallMessage(m, k)
  <2>1. r \in Nat
    BY <1>3
  <2>2. QED BY <2>1 DEF Message, CallMessage
<1> HIDE DEF m
<1>9. PICK z \in Link :
         /\ z[1] = c /\ From(z) = p /\ To(z) = q
         /\ \A y \in Link : Chan(y)' = IF y = z /\ c \in Open THEN Append(Chan(y), m) ELSE Chan(y)
         /\ up' \in [Client -> Seq(Message)] /\ down' \in [Client -> Seq(Message)]
  <2>1. up \in [Client -> Seq(Message)] /\ down \in [Client -> Seq(Message)]
    BY <1>1 DEF NetTypes
  <2>2. {p, q} = {server, c}
    BY <1>2
  <2>3. QED BY <1>7, <1>8, <2>1, <2>2, SendEffect
<1>10. \A u \in Task : ProcOf(u)' = ProcOf(u)
  BY <1>6 DEF ProcOf
<1>11. UNCHANGED <<status, made, tree, known>> /\ job' = job /\ got' = got /\ loose' = loose
  BY <1>6 DEF connVars
<1>12. /\ \A u \in Task : /\ wait'[u] = IF u = t THEN r ELSE wait[u]
                          /\ asked'[u] = IF u = t THEN k0 ELSE asked[u]
       /\ \A k \in Call : target'[k] = IF k = k0 THEN q ELSE target[k]
       /\ \A s \in Proc : nextReq'[s] = IF s = p THEN r + 1 ELSE nextReq[s]
       /\ wait \in [Task -> 0..MaxCalls] /\ asked \in [Task -> 0..MaxCalls]
       /\ nextReq \in [Proc -> 1..MaxCalls + 1]
  BY <1>1, <1>6 DEF TypeOK
<1>13. NetTypes'
  <2>1. /\ nextReq' \in [Proc -> 1..MaxCalls + 1] /\ wait' \in [Task -> 0..MaxCalls]
        /\ asked' \in [Task -> 0..MaxCalls] /\ target' \in [Call -> Proc]
        /\ calls' \in 0..MaxCalls
    <3>1. r + 1 \in 1..MaxCalls + 1 /\ r \in 0..MaxCalls /\ k0 \in 0..MaxCalls
      BY <1>3, <1>4
    <3>2. QED BY <1>1, <1>6, <3>1 DEF TypeOK
  <2>2. \A u \in Task : wait'[u] < nextReq'[ProcOf(u)']
    <3>1. \A u \in Task : ProcOf(u) \in Proc /\ wait[u] < nextReq[ProcOf(u)]
      BY <1>1, ProcTyped DEF TypeOK
    <3>2. QED BY <1>2, <1>5, <1>10, <1>12, <3>1
  <2>3. \A k \in Call :
           \/ job'[k] \in {NoJob, Over("returned"), Over("raised"), Over("refused")}
           \/ job'[k] \in [state : {"running"}, at : Proc, ev : Event, from : Proc,
                          req : 1..MaxCalls]
    BY <1>1, <1>11 DEF TypeOK
  <2>4. \A d \in Client : up'[d] \in Seq(Message) /\ down'[d] \in Seq(Message)
    BY <1>9
  <2>5. TypeOK'
    BY <1>1, <1>11, <2>1, <2>2, <2>3, <2>4 DEF TypeOK
  <2>6. \A s \in Proc : nextReq'[s] <= calls' + 1
    <3>1. \A s \in Proc : nextReq[s] <= calls + 1
      BY <1>1 DEF NetTypes
    <3>2. QED BY <1>3, <1>4, <1>5, <1>6, <1>12, <3>1
  <2>7. QED BY <1>1, <1>9, <1>11, <2>5, <2>6 DEF NetTypes
<1>14. LinkInv'
  <2>1. \A y \in Link : Chan(y)' = Chan(y) \/ y[1] \in Open
    BY <1>9
  <2>2. QED BY <1>1, <1>11, <2>1, LinkSent
<1>15. StatusMoves
  BY <1>11 DEF StatusMoves
<1>16. asked[t] = 0 /\ \A u \in Task : asked[u] # k0 /\ (asked[u] # 0 => asked[u] \in Call)
  <2>1. \A u \in Task : asked[u] <= calls /\ (asked[u] = 0 <=> wait[u] = 0)
    BY <1>1 DEF AskInv
  <2>2. QED BY <1>3, <1>4, <1>6, <1>12, <2>1 DEF Call
<1>17. \A k \in Call : k <= calls' <=> k <= calls \/ k = k0
  BY <1>3, <1>4, <1>6 DEF Call
<1>18. AskInv'
  <2>1. ASSUME NEW u \in Task
        PROVE  /\ asked'[u] = 0 <=> wait'[u] = 0
               /\ asked'[u] <= calls'
               /\ asked'[u] # 0 => got'[asked'[u]] = 0
               /\ asked'[u] # 0 => Linked(ProcOf(u), target[asked[u]])'
               /\ u \in Call /\ wait'[u] # 0 => job'[u].state = "running"
    <3>1. CASE u = t
      <4>1. wait'[u] = r /\ asked'[u] = k0 /\ r # 0 /\ k0 # 0 /\ got[k0] = 0
        <5>1. got[k0] = 0
          BY <1>1, <1>3, <1>4 DEF JobInv, JobOk
        <5>2. QED BY <1>3, <1>4, <1>12, <3>1, <5>1
      <4>2. Linked(ProcOf(u), target[asked[u]])'
        <5>1. {ProcOf(u)', target'[asked'[u]]} = {server, c} /\ status'[c] # "new"
          BY <1>10, <1>11, <1>12, <3>1, <4>1
        <5>2. QED BY <5>1 DEF Linked
      <4>3. QED BY <1>4, <1>3, <1>6, <1>11, <3>1, <4>1, <4>2
    <3>2. CASE u # t
      <4>1. /\ wait'[u] = wait[u] /\ asked'[u] = asked[u] /\ asked[u] # k0
            /\ asked[u] \in 0..MaxCalls
            /\ asked[u] # 0 => target'[asked[u]] = target[asked[u]]
        BY <1>12, <1>16, <3>2
      <4>2. /\ asked[u] = 0 <=> wait[u] = 0
            /\ asked[u] <= calls
            /\ asked[u] # 0 => got[asked[u]] = 0 /\ Linked(ProcOf(u), target[asked[u]])
            /\ u \in Call /\ wait[u] # 0 => job[u].state = "running"
        BY <1>1 DEF AskInv
      <4>3. asked'[u] # 0 => Linked(ProcOf(u), target[asked[u]])'
        BY <1>10, <1>11, <4>1, <4>2 DEF Linked
      <4>4. asked'[u] <= calls'
        BY <1>3, <1>4, <1>6, <4>1, <4>2
      <4>5. QED BY <1>11, <4>1, <4>2, <4>3, <4>4
    <3>3. QED BY <3>1, <3>2
  <2>2. \A u, v \in Task : asked'[u] = asked'[v] /\ asked'[u] # 0 => u = v
    BY <1>1, <1>12, <1>16 DEF AskInv
  <2>3. \A u, v \in Task :
          wait'[u] = wait'[v] /\ wait'[u] # 0 /\ ProcOf(u)' = ProcOf(v)' => u = v
    <3>1. \A u \in Task : ProcOf(u) = p => wait[u] # r
      <4>1. \A u \in Task : wait[u] < nextReq[ProcOf(u)]
        BY <1>1 DEF TypeOK
      <4>2. QED BY <1>3, <1>5, <1>12, <4>1
    <3>2. QED BY <1>1, <1>2, <1>10, <1>12, <3>1 DEF AskInv
  <2>4. ASSUME NEW k \in Call, k <= calls', got'[k] = 0
        PROVE  \E u \in Task : asked'[u] = k
    <3>1. CASE k = k0
      BY <1>12, <3>1
    <3>2. CASE k # k0
      <4>1. PICK u \in Task : asked[u] = k
        BY <1>1, <1>11, <1>17, <2>4, <3>2 DEF AskInv
      <4>2. u # t
        BY <1>16, <4>1 DEF Call
      <4>3. QED BY <1>12, <4>1, <4>2
    <3>3. QED BY <3>1, <3>2
  <2>5. QED BY <2>1, <2>2, <2>3, <2>4 DEF AskInv
<1>19. ASSUME NEW k \in Call, k # k0 PROVE JobOk(k)' /\ CallPackets(k)'
  <2>1. AskerKept(k)
    BY <1>10, <1>12, <1>19 DEF AskerKept
  <2>2. JobOk(k) /\ CallPackets(k)
    BY <1>1 DEF JobInv, PacketInv
  <2>3. /\ job'[k] = job[k] /\ got'[k] = got[k] /\ target'[k] = target[k]
        /\ k > calls' => k > calls
    BY <1>11, <1>12, <1>17, <1>19, <1>3, <1>6 DEF Call
  <2>4. JobOk(k)'
    BY <1>15, <2>1, <2>2, <2>3, JobKept
  <2> DEFINE L == {x \in Link : x = z /\ c \in Open}
  <2>5. \A x \in Link : Chan(x)' = IF x \in L THEN Append(Chan(x), m) ELSE Chan(x)
    BY <1>9
  <2>6. PICK d \in [Link -> {0, 1}] : Moved(k, d)
    <3> HIDE DEF L
    <3>1. [x \in Link |-> 0] \in [Link -> {0, 1}] /\ Moved(k, [x \in Link |-> 0])
      BY <1>1, <1>8, <1>19, <2>5, MovedAppend
    <3>2. QED BY <3>1
  <2>7. k <= calls => k <= calls'
    BY <1>17
  <2>8. CallPackets(k)'
    BY <1>1, <1>13, <1>15, <2>1, <2>2, <2>3, <2>6, <2>7, PacketsKept
  <2>9. QED BY <2>4, <2>8
<1>20. JobOk(k0)' /\ CallPackets(k0)'
  <2>1. JobOk(k0) /\ ~(k0 <= calls)
    BY <1>1, <1>3, <1>4 DEF JobInv
  <2>2. got'[k0] = 0 /\ job'[k0].state = "none"
    BY <1>3, <1>4, <1>11, <2>1 DEF JobOk
  <2>3. JobOk(k0)'
    BY <2>2 DEF JobOk
  <2>4. \A x \in Link : Held(Chan(x), k0) = {}
    BY <1>1, <2>1 DEF PacketInv, CallPackets, Fits
  <2>5. Fits(m, k0, p, q)'
    <3>1. \A u \in Task : asked'[u] = k0 => ProcOf(u)' = p /\ wait'[u] = r
      BY <1>2, <1>10, <1>12, <1>16
    <3>2. k0 <= calls' /\ target'[k0] = q
      BY <1>3, <1>4, <1>6, <1>12
    <3>3. QED BY <1>8, <2>2, <3>1, <3>2 DEF Fits, Asks
  <2>6. ASSUME NEW u \in Task, asked'[u] = k0, ~Cut(u, k0)' PROVE c \in Open
    <3>1. u = t /\ {ProcOf(u)', target'[k0]} = {server, c}
      BY <1>10, <1>12, <1>16, <2>6
    <3>2. status'[c] # "closed"
      BY <2>6, <3>1 DEF Cut
    <3>3. QED BY <1>1, <1>11, <3>2 DEF Open, TypeOK
  <2>7. CallPackets(k0)'
    <3>1. (c \in Open) \in BOOLEAN
      OBVIOUS
    <3>2. \A u \in Task : asked'[u] = k0 /\ ~Cut(u, k0)' => c \in Open
      BY <2>6
    <3>3. PICK o \in BOOLEAN : o <=> c \in Open
      OBVIOUS
    <3>4. /\ \A y \in Link : Chan(y)' = IF y = z /\ o THEN Append(Chan(y), m) ELSE Chan(y)
          /\ \A u \in Task : asked'[u] = k0 /\ ~Cut(u, k0)' => o
      BY <1>9, <3>2, <3>3
    <3>5. QED BY <1>1, <1>8, <1>9, <2>4, <2>5, <3>4, NewPacket
  <2>8. QED BY <2>3, <2>7
<1>21. QED BY <1>13, <1>14, <1>18, <1>19, <1>20 DEF NetInv, JobInv, PacketInv

\* The handler's task of call k0 changes, and is not a caller.
LEMMA JobStep ==
    ASSUME NetInv, NEW k0 \in Call, NEW j, wait[k0] = 0, job' = [job EXCEPT ![k0] = j],
           j.at \in Proc,
           \/ j \in {NoJob, Over("returned"), Over("raised"), Over("refused")}
           \/ j \in [state : {"running"}, at : Proc, ev : Event, from : Proc, req : 1..MaxCalls],
           UNCHANGED <<connVars, callVars, got, loose>>,
           up' \in [Client -> Seq(Message)], down' \in [Client -> Seq(Message)]
    PROVE  /\ NetTypes' /\ AskInv' /\ StatusMoves
           /\ \A k \in Call : AskerKept(k) /\ (k # k0 => job'[k] = job[k] /\ JobOk(k)')
           /\ job'[k0] = j
<1>1. NetTypes /\ TypeOK /\ AskInv /\ JobInv
  BY DEF NetInv, NetTypes
<1>2. /\ UNCHANGED <<nextReq, wait, asked, target, calls>> /\ got' = got /\ loose' = loose
      /\ UNCHANGED <<status, made, tree, known>>
  BY DEF callVars, connVars
<1>3. \A k \in Call : job'[k] = IF k = k0 THEN j ELSE job[k]
  BY <1>1 DEF NetTypes
<1>4. k0 \notin Proc
  BY NetworkEventBounds DEF Proc, Call
<1>5. \A u \in Task : u # k0 => ProcOf(u)' = ProcOf(u)
  BY <1>3 DEF ProcOf, Task
<1>6. ProcOf(k0)' \in Proc
  BY <1>3, <1>4 DEF ProcOf
<1>7. NetTypes'
  <2>1. ASSUME NEW u \in Task PROVE wait'[u] < nextReq'[ProcOf(u)']
    <3>1. CASE u = k0
      <4>1. PICK s \in Proc : s = ProcOf(u)'
        BY <1>6, <3>1
      <4>2. nextReq[s] \in Nat /\ nextReq[s] >= 1
        BY <1>1, NetworkEventBounds DEF TypeOK
      <4>3. wait'[u] = 0 /\ nextReq'[ProcOf(u)'] = nextReq[s]
        BY <1>2, <3>1, <4>1
      <4>4. QED BY <4>2, <4>3
    <3>2. CASE u # k0
      <4>1. wait[u] < nextReq[ProcOf(u)]
        BY <1>1 DEF TypeOK
      <4>2. QED BY <1>2, <1>5, <3>2, <4>1
    <3>3. QED BY <3>1, <3>2
  <2>2. \A k \in Call :
           \/ job'[k] \in {NoJob, Over("returned"), Over("raised"), Over("refused")}
           \/ job'[k] \in [state : {"running"}, at : Proc, ev : Event, from : Proc,
                          req : 1..MaxCalls]
    BY <1>1, <1>3 DEF TypeOK
  <2>3. \A d \in Client : up'[d] \in Seq(Message) /\ down'[d] \in Seq(Message)
    OBVIOUS
  <2>4. TypeOK'
    BY <1>1, <1>2, <2>1, <2>2, <2>3 DEF TypeOK
  <2>5. job' = [k \in Call |-> job'[k]]
    BY <1>1 DEF NetTypes
  <2>6. QED BY <1>1, <1>2, <2>4, <2>5 DEF NetTypes
<1>8. StatusMoves
  BY <1>2 DEF StatusMoves
<1>9. AskInv'
  <2>1. \A k \in Call : wait[k] # 0 => job'[k].state = "running" /\ job'[k].at = job[k].at
    BY <1>1, <1>3 DEF AskInv, Task
  <2>2. QED BY <1>1, <1>2, <1>8, <2>1, AskKept
<1>10. ASSUME NEW k \in Call PROVE AskerKept(k)
  <2>1. k # 0
    BY NetworkEventBounds DEF Call
  <2>2. \A u \in Task : asked[u] = k => u # k0
    BY <1>1, <2>1 DEF AskInv
  <2>3. QED BY <1>2, <1>5, <2>2 DEF AskerKept
<1>11. ASSUME NEW k \in Call, k # k0 PROVE JobOk(k)'
  <2>1. JobOk(k) /\ job'[k] = job[k]
    BY <1>1, <1>3, <1>11 DEF JobInv
  <2>2. QED BY <1>2, <1>8, <1>10, <2>1, JobKept
<1>12. QED BY <1>3, <1>7, <1>8, <1>9, <1>10, <1>11

\* What the end of a handler leaves behind, whether it returns or raises.
LEMMA HandlerEnds ==
    ASSUME NetInv, NEW k0 \in Call, NEW o \in {"returned", "raised"},
           job[k0].state = "running", wait[k0] = 0, job' = [job EXCEPT ![k0] = Over(o)],
           UNCHANGED <<connVars, callVars, got, loose>>,
           up' \in [Client -> Seq(Message)], down' \in [Client -> Seq(Message)]
    PROVE  /\ NetTypes' /\ AskInv' /\ JobInv' /\ StatusMoves
           /\ \A k \in Call : AskerKept(k) /\ (k # k0 => job'[k] = job[k])
           /\ \A x \in Link : Held(Chan(x), k0) = {}
           /\ job'[k0].state = o /\ k0 <= calls /\ got[k0] = 0
<1>1. NetTypes /\ TypeOK /\ JobInv /\ PacketInv /\ server \in Proc
  BY DEF NetInv, NetTypes, Proc
<1>2. PICK j : j = Over(o)
  OBVIOUS
<1>3. j.state = o /\ j.at \in Proc
  <2>1. o \in Stages
    BY DEF Stages
  <2>2. QED BY <1>1, <1>2, <2>1, OverFields
<1>4. /\ NetTypes' /\ AskInv' /\ StatusMoves
      /\ \A k \in Call : AskerKept(k) /\ (k # k0 => job'[k] = job[k] /\ JobOk(k)')
      /\ job'[k0] = j
  <2>1. j \in {NoJob, Over("returned"), Over("raised"), Over("refused")}
    BY <1>2
  <2>2. job' = [job EXCEPT ![k0] = j]
    BY <1>2
  <2>3. QED BY <1>3, <2>1, <2>2, JobStep
<1>5. job'[k0].state = o /\ k0 <= calls /\ got[k0] = 0
  <2>1. JobOk(k0) /\ calls \in Nat /\ k0 \in Nat
    BY <1>1, NetworkEventBounds DEF JobInv, TypeOK, Call
  <2>2. QED BY <1>3, <1>4, <2>1 DEF JobOk
<1>6. \A x \in Link : Held(Chan(x), k0) = {}
  BY <1>1 DEF PacketInv, CallPackets, Fits
<1>7. JobOk(k0)'
  <2>1. calls' = calls /\ got' = got /\ calls \in Nat /\ k0 \in Nat
    BY <1>1, NetworkEventBounds DEF callVars, TypeOK, Call
  <2>2. QED BY <1>5, <2>1 DEF JobOk
<1>8. JobInv'
  BY <1>4, <1>7 DEF JobInv
<1>9. QED BY <1>4, <1>5, <1>6, <1>8

\* A handler returns, and its answer is sent.
LEMMA ReturnStep ==
    ASSUME NetInv, NEW k0 \in Call, HandlerReturns(k0)
    PROVE  NetInv'
<1>1. NetTypes /\ TypeOK /\ LinkInv /\ JobInv /\ PacketInv
  BY DEF NetInv, NetTypes
<1>2. /\ job[k0].state = "running" /\ wait[k0] = 0
      /\ job' = [job EXCEPT ![k0] = Over("returned")]
      /\ Send(job[k0].at, job[k0].from,
              [sig |-> "Response", req |-> job[k0].req, arg |-> k0])
      /\ UNCHANGED <<connVars, callVars, got, fireVars, loose>>
  BY DEF HandlerReturns, Ready
<1>3. PICK p, q, r : p = job[k0].at /\ q = job[k0].from /\ r = job[k0].req
  OBVIOUS
<1>4. JobOk(k0) /\ r \in 1..MaxCalls /\ p \in Proc /\ q \in Proc
  BY <1>1, <1>2, <1>3, JobTyped DEF JobInv
<1>5. target[k0] = p /\ Asks(k0, q, r) /\ Linked(p, q)
  BY <1>2, <1>3, <1>4 DEF JobOk
<1>6. PICK c \in Client : status[c] # "new" /\ {p, q} = {server, c}
  BY <1>5 DEF Linked
<1> DEFINE m == [sig |-> "Response", req |-> r, arg |-> k0]
<1>7. m \in Message /\ CallMessage(m, k0) /\ m.sig = "Response" /\ m.req = r
      /\ \A k \in Call : k # k0 => ~CallMessage(m, k)
  <2>1. r \in Nat
    BY <1>4, NetworkEventBounds
  <2>2. QED BY <2>1 DEF Message, CallMessage
<1>8. Send(p, q, m)
  BY <1>2, <1>3
<1> HIDE DEF m
<1>9. PICK z \in Link :
         /\ z[1] = c /\ From(z) = p /\ To(z) = q
         /\ \A y \in Link : Chan(y)' = IF y = z /\ c \in Open THEN Append(Chan(y), m) ELSE Chan(y)
         /\ up' \in [Client -> Seq(Message)] /\ down' \in [Client -> Seq(Message)]
  <2>1. up \in [Client -> Seq(Message)] /\ down \in [Client -> Seq(Message)]
    BY <1>1 DEF NetTypes
  <2>2. QED BY <1>6, <1>7, <1>8, <2>1, SendEffect
<1>10. /\ UNCHANGED <<connVars, callVars, got, loose>>
       /\ UNCHANGED <<status, known, asked, wait, target, got, calls>>
  BY <1>2 DEF connVars, callVars
<1>11. /\ NetTypes' /\ AskInv' /\ JobInv' /\ StatusMoves
       /\ \A k \in Call : AskerKept(k) /\ (k # k0 => job'[k] = job[k])
       /\ \A x \in Link : Held(Chan(x), k0) = {}
       /\ job'[k0].state = "returned" /\ k0 <= calls /\ got[k0] = 0
  BY <1>2, <1>9, <1>10, HandlerEnds
<1>12. LinkInv'
  <2>1. \A y \in Link : Chan(y)' = Chan(y) \/ y[1] \in Open
    BY <1>9
  <2>2. QED BY <1>1, <1>10, <2>1, LinkSent
<1>13. ASSUME NEW k \in Call, k # k0 PROVE CallPackets(k)'
  <2>1. AskerKept(k) /\ CallPackets(k) /\ job'[k].state = job[k].state
    BY <1>1, <1>11, <1>13 DEF PacketInv
  <2> DEFINE L == {x \in Link : x = z /\ c \in Open}
  <2>2. \A x \in Link : Chan(x)' = IF x \in L THEN Append(Chan(x), m) ELSE Chan(x)
    BY <1>9
  <2>3. PICK d \in [Link -> {0, 1}] : Moved(k, d)
    <3> HIDE DEF L
    <3>1. [x \in Link |-> 0] \in [Link -> {0, 1}] /\ Moved(k, [x \in Link |-> 0])
      BY <1>1, <1>7, <1>13, <2>2, MovedAppend
    <3>2. QED BY <3>1
  <2>4. QED BY <1>1, <1>10, <1>11, <2>1, <2>3, PacketsKept
<1>14. CallPackets(k0)'
  <2>1. Fits(m, k0, p, q)'
    <3>1. \A u \in Task : asked'[u] = k0 => ProcOf(u)' = q /\ wait'[u] = r
      BY <1>5, <1>11 DEF Asks, AskerKept
    <3>2. QED BY <1>5, <1>7, <1>10, <1>11, <3>1 DEF Fits, Asks
  <2>2. ASSUME NEW u \in Task, asked'[u] = k0, ~Cut(u, k0)' PROVE c \in Open
    <3>1. ProcOf(u)' = q /\ target'[k0] = p
      BY <1>5, <1>10, <1>11, <2>2 DEF Asks, AskerKept
    <3>2. c \in {ProcOf(u)', target'[k0]} \cap Client
      BY <1>6, <3>1
    <3>3. status'[c] # "closed"
      BY <2>2, <3>2 DEF Cut
    <3>4. QED BY <1>1, <1>6, <1>10, <3>3 DEF Open, TypeOK
  <2>3. PICK o \in BOOLEAN : o <=> c \in Open
    OBVIOUS
  <2>4. /\ \A y \in Link : Chan(y)' = IF y = z /\ o THEN Append(Chan(y), m) ELSE Chan(y)
        /\ \A u \in Task : asked'[u] = k0 /\ ~Cut(u, k0)' => o
    BY <1>9, <2>2, <2>3
  <2>5. QED BY <1>1, <1>7, <1>9, <1>11, <2>1, <2>4, NewPacket
<1>15. QED BY <1>11, <1>12, <1>13, <1>14 DEF NetInv, PacketInv

\* A handler raises, and nothing is sent.
LEMMA RaiseStep ==
    ASSUME NetInv, NEW k0 \in Call, HandlerRaises(k0)
    PROVE  NetInv'
<1>1. NetTypes /\ TypeOK /\ LinkInv /\ JobInv /\ PacketInv
  BY DEF NetInv, NetTypes
<1>2. /\ job[k0].state = "running" /\ wait[k0] = 0
      /\ job' = [job EXCEPT ![k0] = Over("raised")]
      /\ UNCHANGED <<connVars, callVars, got, loose>> /\ up' = up /\ down' = down
      /\ UNCHANGED <<status, known, asked, wait, target, got, calls>>
  BY DEF HandlerRaises, Ready, netVars, connVars, callVars
<1>3. up' \in [Client -> Seq(Message)] /\ down' \in [Client -> Seq(Message)]
  BY <1>1, <1>2 DEF NetTypes
<1>4. /\ NetTypes' /\ AskInv' /\ JobInv' /\ StatusMoves
      /\ \A k \in Call : AskerKept(k) /\ (k # k0 => job'[k] = job[k])
      /\ \A x \in Link : Held(Chan(x), k0) = {}
      /\ job'[k0].state = "raised"
  BY <1>2, <1>3, HandlerEnds
<1>5. LinkInv'
  BY <1>1, <1>2 DEF LinkInv, Open
<1>6. \A x \in Link : Chan(x)' = Chan(x)
  BY <1>2 DEF Chan
<1>7. ASSUME NEW k \in Call, k # k0 PROVE CallPackets(k)'
  <2>1. AskerKept(k) /\ CallPackets(k) /\ job'[k].state = job[k].state
    BY <1>1, <1>4, <1>7 DEF PacketInv
  <2>2. PICK d \in [Link -> {0, 1}] : Moved(k, d)
    <3>1. [x \in Link |-> 0] \in [Link -> {0, 1}] /\ Moved(k, [x \in Link |-> 0])
      BY <1>1, <1>6, MovedSame
    <3>2. QED BY <3>1
  <2>3. QED BY <1>1, <1>2, <1>4, <2>1, <2>2, PacketsKept
<1>8. CallPackets(k0)'
  BY <1>4, <1>6, NoPacket
<1>9. QED BY <1>4, <1>5, <1>7, <1>8 DEF NetInv, PacketInv

(***************************************************************************)
(* Packets of calls that arrive.                                           *)
(***************************************************************************)

\* Reading the packet of one call does nothing to the packets of another.
LEMMA OthersKept ==
    ASSUME NetInv, NetTypes', NEW k0 \in Call, NEW k \in Call, k # k0, NEW y \in Link,
           Chan(y) # <<>>, Head(Chan(y)).arg = k0,
           \A x \in Link : Chan(x)' = IF x = y THEN Tail(Chan(x)) ELSE Chan(x),
           calls' = calls, got'[k] = got[k], target'[k] = target[k],
           job'[k].state = job[k].state, StatusMoves, AskerKept(k)
    PROVE  CallPackets(k)'
<1>1. NetTypes /\ CallPackets(k)
  BY DEF NetInv, PacketInv
<1>2. PICK d \in [Link -> {0, 1}] : Moved(k, d)
  <2> DEFINE d == [x \in Link |-> IF x = y THEN 1 ELSE 0]
  <2>1. ~CallMessage(Head(Chan(y)), k)
    BY DEF CallMessage
  <2>2. d \in [Link -> {0, 1}] /\ Moved(k, d)
    BY <1>1, <2>1, MovedTail
  <2> HIDE DEF d
  <2>3. QED BY <2>2
<1>3. k <= calls => k <= calls'
  OBVIOUS
<1>4. QED BY <1>1, <1>2, <1>3, PacketsKept

\* A request arrives: the handler runs, or nothing does.
LEMMA RequestStep ==
    ASSUME NetInv, NEW y \in Link, Chan(y) # <<>>, y[1] \in Open,
           NEW m, m = Head(Chan(y)), m.sig = "Request",
           Receive(To(y), From(y), m),
           \A x \in Link : Chan(x)' = IF x = y THEN Tail(Chan(x)) ELSE Chan(x),
           up' \in [Client -> Seq(Message)], down' \in [Client -> Seq(Message)],
           UNCHANGED <<nextReq, target, calls, fire, loose>>
    PROVE  NetInv'
<1>1. NetTypes /\ TypeOK /\ LinkInv /\ AskInv /\ JobInv /\ PacketInv /\ server \in Proc
  BY DEF NetInv, NetTypes, Proc
<1>2. PICK p \in Proc, q \in Proc : p = To(y) /\ q = From(y)
  BY LinkEnds
<1>3. m \in Message /\ m.ev \in Event /\ m.arg \in Call
  BY <1>1, ChanTyped, HeldTail, Messages
<1>4. PICK k0 \in Call : k0 = m.arg
  BY <1>3
<1>5. PICK r : r = m.req
  OBVIOUS
<1>6. /\ Fits(m, k0, q, p)
      /\ \A x \in Link : Held(Chan(x)', k0) = {}
  <2>1. CallMessage(Head(Chan(y)), k0) /\ CallPackets(k0)
    BY <1>1, <1>4 DEF CallMessage, PacketInv
  <2>2. QED BY <1>1, <1>2, <2>1, PacketRead
<1>7. /\ k0 <= calls /\ got[k0] = 0 /\ job[k0].state = "none"
      /\ target[k0] = p /\ Asks(k0, q, r)
  BY <1>5, <1>6 DEF Fits
<1>8. r \in 1..MaxCalls
  <2>1. PICK u \in Task : asked[u] = k0
    BY <1>1, <1>7 DEF AskInv
  <2>2. wait[u] = r /\ wait[u] # 0 /\ wait[u] \in 0..MaxCalls
    BY <1>1, <1>7, <2>1, NetworkEventBounds DEF Asks, AskInv, TypeOK, Call
  <2>3. QED BY <2>2, NetworkEventBounds
<1>9. wait[k0] = 0
  BY <1>1, <1>7 DEF AskInv, Task
<1>10. PICK j : /\ job' = [job EXCEPT ![k0] = j]
                /\ \/ j = [state |-> "running", at |-> p, ev |-> m.ev, from |-> q, req |-> r]
                   \/ j = Over("refused")
  <2>1. DispatchInvokeRequest(p, q, m)
    BY <1>2 DEF Receive
  <2>2. QED BY <1>4, <1>5, <2>1 DEF DispatchInvokeRequest
<1>11. /\ UNCHANGED <<connVars, callVars, got, loose>>
       /\ UNCHANGED <<status, known, wait, asked, target, calls, got>>
  BY DEF Receive, connVars, callVars
<1>12. /\ j.at \in Proc
       /\ \/ j \in {NoJob, Over("returned"), Over("raised"), Over("refused")}
          \/ j \in [state : {"running"}, at : Proc, ev : Event, from : Proc, req : 1..MaxCalls]
       /\ j.state \in {"running", "refused"}
       /\ j.state = "running" => j.at = p /\ j.from = q /\ j.req = r
  <2>1. CASE j = [state |-> "running", at |-> p, ev |-> m.ev, from |-> q, req |-> r]
    BY <1>3, <1>8, <2>1
  <2>2. CASE j = Over("refused")
    BY <1>1, <2>2, OverFields DEF Stages
  <2>3. QED BY <1>10, <2>1, <2>2
<1>13. /\ NetTypes' /\ AskInv' /\ StatusMoves
       /\ \A k \in Call : AskerKept(k) /\ (k # k0 => job'[k] = job[k] /\ JobOk(k)')
       /\ job'[k0] = j
  BY <1>9, <1>10, <1>11, <1>12, JobStep
<1>14. LinkInv'
  <2>1. \A x \in Link : Chan(x)' = Chan(x) \/ x[1] \in Open
    OBVIOUS
  <2>2. QED BY <1>1, <1>11, <2>1, LinkSent
<1>15. JobOk(k0)'
  <2>1. calls' = calls /\ got'[k0] = 0 /\ calls \in Nat /\ k0 \in Nat
    BY <1>1, <1>7, <1>11, NetworkEventBounds DEF TypeOK, Call
  <2>2. ASSUME j.state = "running"
        PROVE  Linked(job[k0].at, job[k0].from)' /\ Asks(k0, job[k0].from, job[k0].req)'
    <3>1. job'[k0].at = p /\ job'[k0].from = q /\ job'[k0].req = r
      BY <1>12, <1>13, <2>2
    <3>2. y[1] \in Client /\ status'[y[1]] # "new" /\ {p, q} = {server, y[1]}
      BY <1>2, <1>11, LinkEnds DEF Open
    <3>3. Linked(job[k0].at, job[k0].from)'
      BY <3>1, <3>2 DEF Linked
    <3>4. \A t \in Task : asked'[t] = k0 => ProcOf(t)' = q /\ wait'[t] = r
      BY <1>7, <1>13 DEF AskerKept, Asks
    <3>5. QED BY <3>1, <3>3, <3>4 DEF Asks
  <2>3. target'[k0] = p
    BY <1>7, <1>11
  <2>4. QED BY <1>7, <1>12, <1>13, <2>1, <2>2, <2>3 DEF JobOk
<1>16. CallPackets(k0)'
  <2>1. job'[k0].state \notin {"none", "returned"}
    BY <1>12, <1>13
  <2>2. QED BY <1>6, <2>1, NoPacket
<1>17. ASSUME NEW k \in Call, k # k0 PROVE CallPackets(k)'
  <2>1. job'[k].state = job[k].state /\ AskerKept(k)
    BY <1>13, <1>17
  <2>2. QED BY <1>4, <1>11, <1>13, <1>17, <2>1, OthersKept
<1>18. QED BY <1>13, <1>14, <1>15, <1>16, <1>17 DEF NetInv, JobInv, PacketInv

\* The caller of call k0, task u, is resumed by a packet that fits.
ResponseTaken(k0, u, p, q) ==
    /\ Fits([sig |-> "Response", req |-> wait[u]], k0, q, p)
    /\ asked[u] = k0 /\ ProcOf(u) = p
    /\ wait' = [wait EXCEPT ![u] = 0] /\ asked' = [asked EXCEPT ![u] = 0]
    /\ got' = [got EXCEPT ![k0] = k0]

\* A response finds the task that waits for it, and no other.
LEMMA ResponseFinds ==
    ASSUME NetInv, NEW k0 \in Call, NEW m, m.sig = "Response", m.arg = k0,
           NEW p, NEW q, Fits(m, k0, q, p), Receive(p, q, m)
    PROVE  \E u \in Task : ResponseTaken(k0, u, p, q)
<1>1. TypeOK /\ AskInv
  BY DEF NetInv, NetTypes
<1>2. PICK r : r = m.req
  OBVIOUS
<1>3. /\ k0 <= calls /\ got[k0] = 0 /\ job[k0].state = "returned"
      /\ target[k0] = q /\ Asks(k0, p, r)
  BY <1>2 DEF Fits
<1>4. PICK u \in Task : asked[u] = k0
  BY <1>1, <1>3 DEF AskInv
<1>5. k0 # 0
  BY NetworkEventBounds DEF Call
<1>6. ProcOf(u) = p /\ wait[u] = r /\ r # 0
  BY <1>1, <1>3, <1>4, <1>5 DEF Asks, AskInv
<1> DEFINE hits == {t \in Task : ProcOf(t) = p /\ wait[t] = m.req}
<1>7. \A t : t \in hits <=> t = u
  BY <1>1, <1>2, <1>6 DEF AskInv
<1>8. hits # {}
  BY <1>7
<1>9. DispatchInvokeResponse(p, m)
  BY DEF Receive
<1>10. PICK t \in hits : /\ wait' = [wait EXCEPT ![t] = 0]
                         /\ asked' = [asked EXCEPT ![t] = 0]
                         /\ got' = [got EXCEPT ![asked[t]] = m.arg]
  BY <1>8, <1>9 DEF DispatchInvokeResponse
<1>11. t = u
  BY <1>7
<1>12. /\ wait' = [wait EXCEPT ![u] = 0] /\ asked' = [asked EXCEPT ![u] = 0]
       /\ got' = [got EXCEPT ![k0] = k0]
  BY <1>4, <1>10, <1>11
<1>13. Fits([sig |-> "Response", req |-> wait[u]], k0, q, p)
  BY <1>3, <1>6 DEF Fits
<1>14. QED BY <1>4, <1>6, <1>12, <1>13 DEF ResponseTaken

\* A response arrives.
LEMMA ResponseStep ==
    ASSUME NetInv, NEW y \in Link, Chan(y) # <<>>, y[1] \in Open,
           NEW m, m = Head(Chan(y)), m.sig = "Response",
           Receive(To(y), From(y), m),
           \A x \in Link : Chan(x)' = IF x = y THEN Tail(Chan(x)) ELSE Chan(x),
           up' \in [Client -> Seq(Message)], down' \in [Client -> Seq(Message)],
           UNCHANGED <<nextReq, target, calls, fire, loose>>
    PROVE  NetInv'
<1>1. NetTypes /\ TypeOK /\ LinkInv /\ AskInv /\ JobInv /\ PacketInv
  BY DEF NetInv, NetTypes
<1>2. PICK p \in Proc, q \in Proc : p = To(y) /\ q = From(y)
  BY LinkEnds
<1>3. m \in Message /\ m.arg \in Call
  BY <1>1, ChanTyped, HeldTail, Messages
<1>4. PICK k0 \in Call : k0 = m.arg
  BY <1>3
<1>5. /\ Fits(m, k0, q, p)
      /\ \A x \in Link : Held(Chan(x)', k0) = {}
  <2>1. CallMessage(Head(Chan(y)), k0) /\ CallPackets(k0)
    BY <1>1, <1>4 DEF CallMessage, PacketInv
  <2>2. QED BY <1>1, <1>2, <2>1, PacketRead
<1>6. Receive(p, q, m)
  BY <1>2
<1>7. PICK u \in Task : ResponseTaken(k0, u, p, q)
  BY <1>4, <1>5, <1>6, ResponseFinds
<1>8. /\ k0 <= calls /\ got[k0] = 0 /\ job[k0].state = "returned"
      /\ asked[u] = k0 /\ k0 # 0
  BY <1>7, NetworkEventBounds DEF ResponseTaken, Fits, Call
<1>9. /\ UNCHANGED <<status, made, tree, known, target, calls, nextReq>>
      /\ job' = job /\ loose' = loose
  BY DEF Receive, connVars
<1>10. /\ wait' = [wait EXCEPT ![u] = 0] /\ asked' = [asked EXCEPT ![u] = 0]
       /\ got' = [got EXCEPT ![k0] = k0]
       /\ \A t \in Task : /\ wait'[t] = IF t = u THEN 0 ELSE wait[t]
                          /\ asked'[t] = IF t = u THEN 0 ELSE asked[t]
       /\ \A k \in Call : got'[k] = IF k = k0 THEN k0 ELSE got[k]
  BY <1>1, <1>7 DEF ResponseTaken, TypeOK
<1>11. \A t \in Task : ProcOf(t)' = ProcOf(t)
  BY <1>9 DEF ProcOf
<1>12. MaxCalls \in Nat /\ calls \in 0..MaxCalls /\ k0 \in 1..MaxCalls
  BY <1>1, NetworkEventBounds DEF TypeOK, Call
<1>13. NetTypes'
  <2>1. /\ wait' \in [Task -> 0..MaxCalls] /\ asked' \in [Task -> 0..MaxCalls]
        /\ got' \in [Call -> 0..MaxCalls]
    <3>1. 0 \in 0..MaxCalls /\ k0 \in 0..MaxCalls
      BY <1>12
    <3>2. QED BY <1>1, <1>10, <3>1 DEF TypeOK
  <2>2. ASSUME NEW t \in Task PROVE wait'[t] < nextReq'[ProcOf(t)']
    <3>1. PICK s \in Proc : s = ProcOf(t)
      BY <1>1, ProcTyped
    <3>2. wait[t] < nextReq[s] /\ nextReq[s] \in 1..MaxCalls + 1
      BY <1>1, <3>1 DEF TypeOK
    <3>3. nextReq'[ProcOf(t)'] = nextReq[s]
      BY <1>9, <1>11, <3>1
    <3>4. wait'[t] < nextReq[s]
      BY <1>10, <1>12, <3>2
    <3>5. QED BY <3>3, <3>4
  <2>3. \A k \in Call :
           \/ job'[k] \in {NoJob, Over("returned"), Over("raised"), Over("refused")}
           \/ job'[k] \in [state : {"running"}, at : Proc, ev : Event, from : Proc,
                          req : 1..MaxCalls]
    BY <1>1, <1>9 DEF TypeOK
  <2>4. \A d \in Client : up'[d] \in Seq(Message) /\ down'[d] \in Seq(Message)
    OBVIOUS
  <2>5. TypeOK'
    BY <1>1, <1>9, <2>1, <2>2, <2>3, <2>4 DEF TypeOK
  <2>6. QED BY <1>1, <1>9, <2>5 DEF NetTypes
<1>14. LinkInv'
  <2>1. \A x \in Link : Chan(x)' = Chan(x) \/ x[1] \in Open
    OBVIOUS
  <2>2. QED BY <1>1, <1>9, <2>1, LinkSent
<1>15. StatusMoves
  BY <1>9 DEF StatusMoves
<1>16. \A t \in Task : asked[t] = k0 => t = u
  BY <1>1, <1>8 DEF AskInv
<1>17. AskInv'
  <2>1. ASSUME NEW t \in Task
        PROVE  /\ asked'[t] = 0 <=> wait'[t] = 0
               /\ asked'[t] <= calls'
               /\ asked'[t] # 0 => got'[asked'[t]] = 0
               /\ asked'[t] # 0 => Linked(ProcOf(t), target[asked[t]])'
               /\ t \in Call /\ wait'[t] # 0 => job'[t].state = "running"
    <3>1. CASE t = u
      BY <1>9, <1>10, <1>12, <3>1
    <3>2. CASE t # u
      <4>1. /\ wait'[t] = wait[t] /\ asked'[t] = asked[t] /\ asked[t] # k0
            /\ asked[t] \in 0..MaxCalls
        BY <1>1, <1>10, <1>16, <3>2 DEF TypeOK
      <4>2. /\ asked[t] = 0 <=> wait[t] = 0
            /\ asked[t] <= calls
            /\ asked[t] # 0 => got[asked[t]] = 0 /\ Linked(ProcOf(t), target[asked[t]])
            /\ t \in Call /\ wait[t] # 0 => job[t].state = "running"
        BY <1>1 DEF AskInv
      <4>3. asked'[t] # 0 => Linked(ProcOf(t), target[asked[t]])'
        BY <1>9, <1>11, <4>1, <4>2 DEF Linked
      <4>4. asked'[t] # 0 => got'[asked'[t]] = 0
        BY <1>10, <4>1, <4>2 DEF Call
      <4>5. QED BY <1>9, <4>1, <4>2, <4>3, <4>4
    <3>3. QED BY <3>1, <3>2
  <2>2. \A t, v \in Task : asked'[t] = asked'[v] /\ asked'[t] # 0 => t = v
    BY <1>1, <1>10 DEF AskInv
  <2>3. \A t, v \in Task :
          wait'[t] = wait'[v] /\ wait'[t] # 0 /\ ProcOf(t)' = ProcOf(v)' => t = v
    BY <1>1, <1>10, <1>11 DEF AskInv
  <2>4. ASSUME NEW k \in Call, k <= calls', got'[k] = 0
        PROVE  \E t \in Task : asked'[t] = k
    <3>1. k # k0 /\ got[k] = 0
      BY <1>8, <1>10, <2>4
    <3>2. PICK t \in Task : asked[t] = k
      BY <1>1, <1>9, <2>4, <3>1 DEF AskInv
    <3>3. t # u
      BY <1>8, <3>1, <3>2
    <3>4. QED BY <1>10, <3>2, <3>3
  <2>5. QED BY <2>1, <2>2, <2>3, <2>4 DEF AskInv
<1>18. ASSUME NEW k \in Call PROVE AskerKept(k)
  <2>1. k # 0
    BY NetworkEventBounds DEF Call
  <2>2. QED BY <1>10, <1>11, <2>1 DEF AskerKept
<1>19. ASSUME NEW k \in Call, k # k0 PROVE JobOk(k)' /\ CallPackets(k)'
  <2>1. JobOk(k) /\ got'[k] = got[k] /\ AskerKept(k)
    BY <1>1, <1>10, <1>18, <1>19 DEF JobInv
  <2>2. JobOk(k)'
    BY <1>9, <1>15, <2>1, JobKept
  <2>3. job'[k].state = job[k].state
    BY <1>9
  <2>4. CallPackets(k)'
    BY <1>4, <1>9, <1>13, <1>15, <1>19, <2>1, <2>3, OthersKept
  <2>5. QED BY <2>2, <2>4
<1>20. JobOk(k0)' /\ CallPackets(k0)'
  <2>1. calls' = calls /\ got'[k0] = k0 /\ job'[k0].state = "returned"
    BY <1>8, <1>9, <1>10
  <2>2. JobOk(k0)'
    BY <1>8, <1>12, <2>1 DEF JobOk
  <2>3. \A t \in Task : asked'[t] # k0
    BY <1>8, <1>10, <1>16
  <2>4. QED BY <1>5, <2>2, <2>3, NoPacket
<1>21. QED BY <1>13, <1>14, <1>17, <1>19, <1>20 DEF NetInv, JobInv, PacketInv

(***************************************************************************)
(* The invariant holds of every behaviour.                                 *)
(***************************************************************************)

\* What reading a packet comes to: a call is handled, a caller is resumed, or
\* nothing that has to do with calls.
LEMMA PollStep ==
    ASSUME NetInv, NEW c \in Client, ServerPolls(c) \/ ClientPolls(c)
    PROVE  NetInv'
<1>1. PICK y \in Link :
              /\ Chan(y) # <<>> /\ y[1] \in Open
              /\ Receive(To(y), From(y), Head(Chan(y)))
              /\ \A x \in Link : Chan(x)' = IF x = y THEN Tail(Chan(x)) ELSE Chan(x)
              /\ up' \in [Client -> Seq(Message)] /\ down' \in [Client -> Seq(Message)]
              /\ \A d \in Client : d # y[1] => up'[d] = up[d] /\ down'[d] = down[d]
              /\ UNCHANGED <<nextReq, target, calls, fire, loose>>
  BY PollEffect
<1>2. PICK m : m = Head(Chan(y))
  OBVIOUS
<1>3. Receive(To(y), From(y), m)
  BY <1>1, <1>2
<1>4. CASE m.sig = "Request"
  BY <1>1, <1>2, <1>3, <1>4, RequestStep
<1>5. CASE m.sig = "Response"
  BY <1>1, <1>2, <1>3, <1>5, ResponseStep
<1>6. CASE m.sig \notin {"Request", "Response"}
  BY <1>1, <1>2, <1>3, <1>6, PollQuiet
<1>7. QED BY <1>4, <1>5, <1>6

\* The calls of InvokeServer and InvokeClient.
LEMMA InvokeSteps ==
    ASSUME NetInv, NEW t \in Task, NEW e \in Event,
           InvokeServer(t, e) \/ \E c \in Client : InvokeClient(t, c, e)
    PROVE  NetInv'
<1>1. LinkInv /\ server \in Proc /\ Client \subseteq Proc
  BY DEF NetInv, Proc
<1>2. CASE InvokeServer(t, e)
  <2>1. PICK c \in Client : c = ProcOf(t)
    BY <1>2 DEF InvokeServer
  <2>2. Invoke(t, server, e) /\ e \in known[c]
    BY <1>2, <2>1 DEF InvokeServer, Invoke
  <2>3. status[c] # "new" /\ {ProcOf(t), server} = {server, c}
    BY <1>1, <2>1, <2>2 DEF LinkInv
  <2>4. QED BY <1>1, <2>2, <2>3, InvokeStep
<1>3. ASSUME NEW c \in Client, InvokeClient(t, c, e) PROVE NetInv'
  <2>1. Invoke(t, c, e) /\ status[c] # "new" /\ {ProcOf(t), c} = {server, c} /\ c \in Proc
    BY <1>1, <1>3 DEF InvokeClient
  <2>2. QED BY <2>1, InvokeStep
<1>4. QED BY <1>2, <1>3

\* The calls of FireServer, FireClient and FireAllClients.
LEMMA FireSteps ==
    ASSUME NetInv, NEW e \in Event, NEW tcp \in BOOLEAN,
           \/ \E c \in Client : FireServer(c, e, tcp) \/ FireClient(c, e, tcp)
           \/ FireAllClients(e, tcp)
    PROVE  NetInv'
<1>1. CASE \E c \in Client : FireServer(c, e, tcp)
  BY <1>1, FiresStep DEF FireServer
<1>2. CASE \E c \in Client : FireClient(c, e, tcp)
  <2>1. PICK c \in Client : c \in Open /\ Fires(server, {c}, e, tcp)
    BY <1>2 DEF FireClient
  <2>2. {c} \subseteq Open
    BY <2>1
  <2>3. QED BY <2>1, <2>2, FiresStep
<1>3. CASE FireAllClients(e, tcp)
  BY <1>3, FiresStep DEF FireAllClients
<1>4. QED BY <1>1, <1>2, <1>3

LEMMA NetInit == Init => NetInv
<1> SUFFICES ASSUME Init PROVE NetInv
  OBVIOUS
<1>1. server \in Proc /\ server \notin Client /\ MaxCalls \in Nat
  BY NetworkEventBounds DEF Proc
<1>2. \A c \in Client : up[c] = <<>> /\ down[c] = <<>> /\ status[c] = "new"
  BY DEF Init
<1>3. \A p \in Proc : tree[p] = {} /\ known[p] = {} /\ nextReq[p] = 1
  BY DEF Init
<1>4. \A t \in Task : wait[t] = 0 /\ asked[t] = 0
  BY DEF Init
<1>5. \A k \in Call : /\ job[k] = NoJob /\ job[k].state = "none" /\ got[k] = 0
                      /\ k > calls /\ ~(k <= calls) /\ k # 0
  BY <1>1 DEF Init, NoJob, Call
<1>6. TypeOK
  <2>1. \A t \in Task : ProcOf(t) \in Proc
    BY <1>1, <1>5 DEF ProcOf, Task, NoJob
  <2>2. /\ nextReq \in [Proc -> 1..MaxCalls + 1] /\ wait \in [Task -> 0..MaxCalls]
        /\ asked \in [Task -> 0..MaxCalls] /\ got \in [Call -> 0..MaxCalls]
        /\ target \in [Call -> Proc] /\ calls \in 0..MaxCalls
    BY <1>1 DEF Init
  <2>3. \A t \in Task : wait[t] < nextReq[ProcOf(t)]
    BY <1>3, <1>4, <2>1
  <2>4. \A c \in Client : up[c] \in Seq(Message) /\ down[c] \in Seq(Message)
    BY <1>2, EmptySeq
  <2>5. /\ status \in [Client -> {"new", "open", "closed"}] /\ made \subseteq Event
        /\ tree \in [Proc -> SUBSET Event] /\ known \in [Proc -> SUBSET Event]
    BY DEF Init
  <2>6. QED BY <1>5, <2>2, <2>3, <2>4, <2>5 DEF TypeOK
<1>7. NetTypes
  <2>1. \A p \in Proc : nextReq[p] <= calls + 1
    BY <1>3 DEF Init
  <2>2. loose = {} /\ IsFiniteSet(tree[server])
    BY <1>1, <1>3, FS_EmptySet DEF Init
  <2>3. up \in [Client -> Seq(Message)] /\ down \in [Client -> Seq(Message)]
    BY EmptySeq DEF Init
  <2>4. job = [k \in Call |-> job[k]]
    BY DEF Init
  <2>5. QED BY <1>6, <2>1, <2>2, <2>3, <2>4 DEF NetTypes
<1>8. LinkInv
  BY <1>2, <1>3 DEF LinkInv, Proc
<1>9. AskInv
  <2>1. \A t \in Task : asked[t] <= calls
    BY <1>4 DEF Init
  <2>2. QED BY <1>4, <1>5, <2>1 DEF AskInv
<1>10. JobInv
  BY <1>5 DEF JobInv, JobOk
<1>11. ASSUME NEW k \in Call PROVE CallPackets(k)
  <2>1. \A x \in Link : Chan(x) = <<>>
    BY <1>2, LinkEnds DEF Chan
  <2>2. \A x \in Link : Held(Chan(x), k) = {}
    BY <2>1 DEF Held
  <2>3. QED BY <1>4, <1>5, <2>2 DEF CallPackets
<1>12. QED BY <1>7, <1>8, <1>9, <1>10, <1>11 DEF NetInv, PacketInv

LEMMA NetStep == NetInv /\ [Next]_vars => NetInv'
<1> SUFFICES ASSUME NetInv, [Next]_vars PROVE NetInv'
  OBVIOUS
<1>1. CASE \E c \in Client : Connect(c) \/ Disconnect(c)
  BY <1>1, ConnectStep, DisconnectStep
<1>2. CASE Scripts
  <2>1. CASE \E e \in Event : CreateEvent(e) \/ DestroyEvent(e)
    BY <2>1, EventSteps
  <2>2. CASE \E p \in Proc, e \in Event : Release(p, e)
    BY <2>2, StillSteps
  <2>3. CASE \/ \E t \in Task, e \in Event : InvokeServer(t, e)
             \/ \E t \in Task, c \in Client, e \in Event : InvokeClient(t, c, e)
    BY <2>3, InvokeSteps
  <2>4. CASE \/ \E c \in Client, e \in Event, tcp \in BOOLEAN :
                   FireServer(c, e, tcp) \/ FireClient(c, e, tcp)
             \/ \E e \in Event, tcp \in BOOLEAN : FireAllClients(e, tcp)
    BY <2>4, FireSteps
  <2>5. QED BY <1>2, <2>1, <2>2, <2>3, <2>4 DEF Scripts
<1>3. CASE \E k \in Call : Outcome(k)
  BY <1>3, ReturnStep, RaiseStep DEF Outcome
<1>4. CASE \E c \in Client : ServerPolls(c) \/ ClientPolls(c)
  BY <1>4, PollStep
<1>5. CASE \E m \in loose : LooseArrives(m) \/ LooseLost(m)
  BY <1>5, StillSteps
<1>6. CASE UNCHANGED vars
  <2>1. /\ UNCHANGED <<callCore, nextReq, status, made, tree, up, down>>
        /\ known' = known /\ loose' = loose
    BY <1>6 DEF vars, connVars, callVars, fireVars, netVars, callCore
  <2>2. NetTypes /\ TypeOK
    BY DEF NetInv, NetTypes
  <2>3. known \in [Proc -> SUBSET Event] /\ \A m \in loose : m.sig = "Event"
    BY <2>2 DEF TypeOK, NetTypes
  <2>4. QED BY <2>1, <2>3, StillStep
<1>7. QED BY <1>1, <1>2, <1>3, <1>4, <1>5, <1>6 DEF Next

LEMMA NetInvHolds == Spec => []NetInv
  BY NetInit, NetStep, PTL DEF Spec

(***************************************************************************)
(* What the invariant implies.                                             *)
(***************************************************************************)

\* Every variable keeps its type, for any number of processes, events, calls.
THEOREM NetworkTypes == Spec => []TypeOK
<1>1. NetInv => TypeOK
  BY DEF NetInv, NetTypes
<1>2. QED BY <1>1, NetInvHolds, PTL

\* A caller is resumed with the answer to its own call, whatever other
\* processes call each other meanwhile under the same request ids.
THEOREM AnswersAreMine == Spec => []AnswerIsMine
<1>1. NetInv => AnswerIsMine
  BY DEF NetInv, JobInv, JobOk, AnswerIsMine
<1>2. QED BY <1>1, NetInvHolds, PTL

\* The places of call k, one per packet.
LEMMA PacketPlaces ==
    ASSUME NEW k, NEW w
    PROVE  w \in Packets(k) <=> \E x \in Link : \E i \in Held(Chan(x), k) : w = <<x[1], x[2], i>>
<1>1. ASSUME NEW c \in Client
      PROVE  /\ <<c, "up">> \in Link /\ Chan(<<c, "up">>) = up[c]
             /\ <<c, "down">> \in Link /\ Chan(<<c, "down">>) = down[c]
  BY DEF Link, Chan
<1>2. w \in Packets(k) <=>
         \E c \in Client : \/ \E i \in Held(up[c], k) : w = <<c, "up", i>>
                           \/ \E i \in Held(down[c], k) : w = <<c, "down", i>>
  BY DEF Packets, Held
<1>3. ASSUME NEW c \in Client, NEW i \in Held(up[c], k), w = <<c, "up", i>>
      PROVE  \E x \in Link : \E j \in Held(Chan(x), k) : w = <<x[1], x[2], j>>
  <2>1. PICK x \in Link : x = <<c, "up">> /\ Chan(x) = up[c]
    BY <1>1
  <2>2. x[1] = c /\ x[2] = "up" /\ i \in Held(Chan(x), k)
    BY <1>3, <2>1
  <2>3. QED BY <1>3, <2>2
<1>4. ASSUME NEW c \in Client, NEW i \in Held(down[c], k), w = <<c, "down", i>>
      PROVE  \E x \in Link : \E j \in Held(Chan(x), k) : w = <<x[1], x[2], j>>
  <2>1. PICK x \in Link : x = <<c, "down">> /\ Chan(x) = down[c]
    BY <1>1
  <2>2. x[1] = c /\ x[2] = "down" /\ i \in Held(Chan(x), k)
    BY <1>4, <2>1
  <2>3. QED BY <1>4, <2>2
<1>5. ASSUME NEW x \in Link, NEW i \in Held(Chan(x), k), w = <<x[1], x[2], i>>
      PROVE  w \in Packets(k)
  <2>1. x[1] \in Client
    BY LinkEnds
  <2>2. CASE x[2] = "up"
    BY <1>2, <1>5, <2>1, <2>2 DEF Chan
  <2>3. CASE x[2] = "down"
    BY <1>2, <1>5, <2>1, <2>3 DEF Chan
  <2>4. QED BY <2>2, <2>3, LinkEnds
<1>6. QED BY <1>2, <1>3, <1>4, <1>5

\* A call that is on its way is on its way once.
LEMMA PacketCount ==
    ASSUME NetInv, NEW k \in Call
    PROVE  /\ (\A x \in Link : Held(Chan(x), k) = {}) => Cardinality(Packets(k)) = 0
           /\ (\E x \in Link : Held(Chan(x), k) # {}) => Cardinality(Packets(k)) = 1
           /\ Cardinality(Packets(k)) \in {0, 1}
<1>1. ASSUME \A x \in Link : Held(Chan(x), k) = {}
      PROVE  Cardinality(Packets(k)) = 0
  <2>1. Packets(k) = {}
    BY <1>1, PacketPlaces
  <2>2. QED BY <2>1, FS_EmptySet
<1>2. ASSUME NEW x \in Link, Held(Chan(x), k) # {}
      PROVE  Cardinality(Packets(k)) = 1
  <2>1. PICK i \in Held(Chan(x), k) : TRUE
    BY <1>2
  <2>2. PICK w : w = <<x[1], x[2], i>>
    OBVIOUS
  <2>3. \A y \in Link : \A j \in Held(Chan(y), k) : y = x /\ j = i
    BY <2>1 DEF NetInv, PacketInv, CallPackets
  <2>4. \A v : v \in Packets(k) <=> v = w
    BY <2>1, <2>2, <2>3, PacketPlaces
  <2>5. Packets(k) = {w}
    BY <2>4
  <2>6. QED BY <2>5, FS_Singleton
<1>3. QED BY <1>1, <1>2

\* A suspended caller's call is never duplicated, and it is not lost but with
\* its connection, or when the handler is missing or raises.
THEOREM CallsAreAccounted == Spec => []Accounted
<1>1. ASSUME NetInv PROVE Accounted
  <2> SUFFICES ASSUME NEW t \in Task, wait[t] # 0, NEW k, k = asked[t]
               PROVE  CASE Cut(t, k) -> Holders(k) <= 1
                        [] job[k].state \in {"raised", "refused"} -> Holders(k) = 0
                        [] OTHER -> Holders(k) = 1
    BY DEF Accounted
  <2>1. k \in Call /\ job[k].state \in Stages /\ CallPackets(k)
    <3>1. k # 0 /\ k \in 0..MaxCalls /\ MaxCalls \in Nat
      BY <1>1, NetworkEventBounds DEF NetInv, NetTypes, AskInv, TypeOK
    <3>2. k \in Call
      BY <3>1 DEF Call
    <3>3. QED BY <1>1, <3>2, JobTyped DEF NetInv, NetTypes, PacketInv
  <2>2. PICK n : n = Cardinality(Packets(k))
    OBVIOUS
  <2>3. Holders(k) = n + IF job[k].state = "running" THEN 1 ELSE 0
    BY <2>2 DEF Holders
  <2>4. n \in {0, 1} /\ ((\A x \in Link : Held(Chan(x), k) = {}) => n = 0)
        /\ ((\E x \in Link : Held(Chan(x), k) # {}) => n = 1)
    BY <1>1, <2>1, <2>2, PacketCount
  <2>5. CASE job[k].state \notin {"none", "returned"}
    <3>1. n = 0
      BY <2>1, <2>4, <2>5 DEF CallPackets, Fits
    <3>2. QED BY <2>1, <2>3, <2>5, <3>1 DEF Stages
  <2>6. CASE job[k].state \in {"none", "returned"}
    <3>1. ~Cut(t, k) => n = 1
      BY <2>1, <2>4, <2>6 DEF CallPackets
    <3>2. Holders(k) = n
      BY <2>3, <2>4, <2>6
    <3>3. QED BY <2>4, <2>6, <3>1, <3>2
  <2>7. QED BY <2>5, <2>6
<1>2. QED BY <1>1, NetInvHolds, PTL

(***************************************************************************)
(* The promise of module RemoteCalls.                                      *)
(***************************************************************************)

\* What has become of call k, as the promise sees it.
Became(k) ==
    IF got[k] # 0 THEN "answered"
    ELSE IF job[k].state = "none" THEN IF k <= calls THEN "called" ELSE "none"
    ELSE IF job[k].state \in {"raised", "refused"} THEN "failed"
    ELSE job[k].state

stages == [k \in Call |-> Became(k)]

\* One call moves on, and the promise lets it.
LEMMA PromiseMove ==
    ASSUME NEW k0 \in Call, \A k \in Call : k # k0 => Became(k)' = Became(k),
           NEW b, b = Became(k0), NEW a, a = Became(k0)',
           \/ b = "none" /\ a = "called"
           \/ b = "called" /\ a \in {"running", "failed"}
           \/ b = "running" /\ a \in {"returned", "failed"}
           \/ b = "returned" /\ a = "answered"
    PROVE  Promise!Next
<1> DEFINE st1 == [k \in Call |-> Became(k)]
           st2 == [k \in Call |-> Became(k)']
<1>1. st2 = [st1 EXCEPT ![k0] = a] /\ st1[k0] = b
  OBVIOUS
<1>2. CASE b = "none" /\ a = "called"
  <2>1. Promise!Invoke(k0)
    BY <1>1, <1>2 DEF Promise!Invoke, Promise!Move, Became
  <2>2. QED BY <2>1 DEF Promise!Next
<1>3. CASE b = "called" /\ a = "running"
  <2>1. Promise!Start(k0)
    BY <1>1, <1>3 DEF Promise!Start, Promise!Move, Became
  <2>2. QED BY <2>1 DEF Promise!Next
<1>4. CASE b \in {"called", "running"} /\ a = "failed"
  <2>1. Promise!Fail(k0)
    BY <1>1, <1>4 DEF Promise!Fail, Promise!Move, Became
  <2>2. QED BY <2>1 DEF Promise!Next
<1>5. CASE b = "running" /\ a = "returned"
  <2>1. Promise!Return(k0)
    BY <1>1, <1>5 DEF Promise!Return, Promise!Move, Became
  <2>2. QED BY <2>1 DEF Promise!Next
<1>6. CASE b = "returned" /\ a = "answered"
  <2>1. Promise!Answer(k0)
    BY <1>1, <1>6 DEF Promise!Answer, Promise!Move, Became
  <2>2. QED BY <2>1 DEF Promise!Next
<1>7. QED BY <1>2, <1>3, <1>4, <1>5, <1>6

\* The promise as an action of this module.
PromiseStep ==
    \/ Promise!Next
    \/ \A k \in Call : Became(k)' = Became(k)

\* A call is made.
LEMMA PromiseInvoke ==
    ASSUME NetInv, NEW t, NEW q, NEW e, Invoke(t, q, e)
    PROVE  PromiseStep
<1>1. /\ calls' = calls + 1 /\ calls < MaxCalls /\ calls \in 0..MaxCalls /\ MaxCalls \in Nat
      /\ job' = job /\ got' = got
  BY NetworkEventBounds DEF Invoke, NetInv, NetTypes, TypeOK
<1>2. PICK k0 \in Call : k0 = calls + 1
  BY <1>1 DEF Call
<1>3. got[k0] = 0 /\ job[k0].state = "none"
  BY <1>1, <1>2 DEF NetInv, JobInv, JobOk
<1>4. \A k \in Call : k # k0 => Became(k)' = Became(k)
  <2>1. \A k \in Call : k # k0 => (k <= calls' <=> k <= calls)
    BY <1>1, <1>2 DEF Call
  <2>2. QED BY <1>1, <2>1 DEF Became
<1>5. Became(k0) = "none" /\ Became(k0)' = "called"
  BY <1>1, <1>2, <1>3 DEF Became
<1>6. QED BY <1>4, <1>5, PromiseMove DEF PromiseStep

\* The handler's task of a call changes, and nothing else the promise sees.
LEMMA PromiseJob ==
    ASSUME NetInv, NEW k0 \in Call, NEW j, job' = [job EXCEPT ![k0] = j],
           got' = got, calls' = calls, got[k0] = 0, k0 <= calls,
           \/ job[k0].state = "none" /\ j.state \in {"running", "refused"}
           \/ job[k0].state = "running" /\ j.state \in {"returned", "raised"}
    PROVE  PromiseStep
<1>1. \A k \in Call : job'[k] = IF k = k0 THEN j ELSE job[k]
  BY DEF NetInv, NetTypes
<1>2. \A k \in Call : k # k0 => Became(k)' = Became(k)
  BY <1>1 DEF Became
<1>3. PICK b, a : b = Became(k0) /\ a = Became(k0)'
  OBVIOUS
<1>4. \/ b = "called" /\ a \in {"running", "failed"}
      \/ b = "running" /\ a \in {"returned", "failed"}
  BY <1>1, <1>3 DEF Became
<1>5. QED BY <1>2, <1>3, <1>4, PromiseMove DEF PromiseStep

\* A handler comes to its end.
LEMMA PromiseOutcome ==
    ASSUME NetInv, NEW k0 \in Call, Outcome(k0)
    PROVE  PromiseStep
<1>1. PICK o \in {"returned", "raised"} : job' = [job EXCEPT ![k0] = Over(o)]
  BY DEF Outcome, HandlerReturns, HandlerRaises
<1>2. job[k0].state = "running" /\ got' = got /\ calls' = calls
  BY DEF Outcome, HandlerReturns, HandlerRaises, callVars
<1>3. PICK j : j = Over(o)
  OBVIOUS
<1>4. j.state \in {"returned", "raised"}
  BY <1>3, OverFields DEF Stages
<1>5. got[k0] = 0 /\ k0 <= calls
  <2>1. JobOk(k0) /\ calls \in Nat /\ k0 \in Nat
    BY NetworkEventBounds DEF NetInv, NetTypes, JobInv, TypeOK, Call
  <2>2. QED BY <1>2, <2>1 DEF JobOk
<1>6. QED BY <1>1, <1>2, <1>3, <1>4, <1>5, PromiseJob

\* A packet is read.
LEMMA PromisePoll ==
    ASSUME NetInv, NEW c \in Client, ServerPolls(c) \/ ClientPolls(c)
    PROVE  PromiseStep
<1>1. PICK y \in Link :
              /\ Chan(y) # <<>>
              /\ Receive(To(y), From(y), Head(Chan(y)))
              /\ UNCHANGED <<nextReq, target, calls, fire, loose>>
              /\ \A x \in Link : Chan(x)' = IF x = y THEN Tail(Chan(x)) ELSE Chan(x)
  BY PollEffect
<1>2. PICK m, p, q : m = Head(Chan(y)) /\ p = To(y) /\ q = From(y)
  OBVIOUS
<1>3. Receive(p, q, m) /\ calls' = calls
  BY <1>1, <1>2
<1>4. CASE m.sig \in {"Request", "Response"}
  <2>1. m \in Message /\ NetTypes
    BY <1>1, <1>2, ChanTyped, HeldTail DEF NetInv
  <2>2. PICK k0 \in Call : k0 = m.arg
    BY <1>4, <2>1, Messages
  <2>3. CallPackets(k0) /\ CallMessage(m, k0)
    BY <1>4, <2>2 DEF NetInv, PacketInv, CallMessage
  <2>4. Fits(m, k0, q, p)
    BY <1>1, <1>2, <2>1, <2>3, PacketRead
  <2>5. CASE m.sig = "Request"
    <3>1. PICK j : /\ job' = [job EXCEPT ![k0] = j]
                   /\ \/ j = [state |-> "running", at |-> p, ev |-> m.ev, from |-> q, req |-> m.req]
                      \/ j = Over("refused")
      BY <1>3, <2>2, <2>5 DEF Receive, DispatchInvokeRequest
    <3>2. j.state \in {"running", "refused"}
      BY <3>1, OverFields DEF Stages
    <3>3. got' = got
      BY <1>3, <2>5 DEF Receive
    <3>4. got[k0] = 0 /\ k0 <= calls /\ job[k0].state = "none"
      BY <2>4, <2>5 DEF Fits
    <3>5. QED BY <1>3, <3>1, <3>2, <3>3, <3>4, PromiseJob
  <2>6. CASE m.sig = "Response"
    <3>1. PICK u \in Task : ResponseTaken(k0, u, p, q)
      BY <1>3, <2>2, <2>4, <2>6, ResponseFinds
    <3>2. got' = [got EXCEPT ![k0] = k0] /\ got[k0] = 0 /\ job[k0].state = "returned"
      BY <3>1 DEF ResponseTaken, Fits
    <3>3. job' = job
      BY <1>3, <2>6 DEF Receive
    <3>4. \A k \in Call : got'[k] = IF k = k0 THEN k0 ELSE got[k]
      BY <2>1, <3>2 DEF NetTypes, TypeOK
    <3>5. k0 # 0
      BY NetworkEventBounds DEF Call
    <3>6. \A k \in Call : k # k0 => Became(k)' = Became(k)
      BY <1>3, <3>3, <3>4 DEF Became
    <3>7. Became(k0) = "returned" /\ Became(k0)' = "answered"
      BY <3>2, <3>4, <3>5 DEF Became
    <3>8. QED BY <3>6, <3>7, PromiseMove DEF PromiseStep
  <2>7. QED BY <1>4, <2>5, <2>6
<1>5. CASE m.sig \notin {"Request", "Response"}
  <2>1. got' = got /\ job' = job
    BY <1>3, <1>5 DEF Receive
  <2>2. QED BY <1>3, <2>1 DEF PromiseStep, Became
<1>6. QED BY <1>4, <1>5

LEMMA PromiseStutter ==
    ASSUME UNCHANGED <<got, job, calls>>
    PROVE  PromiseStep
  BY DEF PromiseStep, Became

LEMMA PromiseSteps == NetInv /\ [Next]_vars => PromiseStep
<1> SUFFICES ASSUME NetInv, [Next]_vars PROVE PromiseStep
  OBVIOUS
<1>1. CASE \E c \in Client : Connect(c) \/ Disconnect(c)
  <2>1. UNCHANGED <<got, job, calls>>
    BY <1>1 DEF Connect, Disconnect, callVars
  <2>2. QED BY <2>1, PromiseStutter
<1>2. CASE Scripts
  <2>1. CASE \/ \E e \in Event : CreateEvent(e) \/ DestroyEvent(e)
             \/ \E p \in Proc, e \in Event : Release(p, e)
    <3>1. UNCHANGED <<got, job, calls>>
      BY <2>1 DEF CreateEvent, DestroyEvent, Release, callVars
    <3>2. QED BY <3>1, PromiseStutter
  <2>2. CASE \/ \E t \in Task, e \in Event : InvokeServer(t, e)
             \/ \E t \in Task, c \in Client, e \in Event : InvokeClient(t, c, e)
    BY <2>2, PromiseInvoke DEF InvokeServer, InvokeClient
  <2>3. CASE \/ \E c \in Client, e \in Event, tcp \in BOOLEAN :
                   FireServer(c, e, tcp) \/ FireClient(c, e, tcp)
             \/ \E e \in Event, tcp \in BOOLEAN : FireAllClients(e, tcp)
    <3>1. UNCHANGED <<got, job, calls>>
      BY <2>3 DEF FireServer, FireClient, FireAllClients, Fires, callVars
    <3>2. QED BY <3>1, PromiseStutter
  <2>4. QED BY <1>2, <2>1, <2>2, <2>3 DEF Scripts
<1>3. CASE \E k \in Call : Outcome(k)
  BY <1>3, PromiseOutcome
<1>4. CASE \E c \in Client : ServerPolls(c) \/ ClientPolls(c)
  BY <1>4, PromisePoll
<1>5. CASE \E m \in loose : LooseArrives(m) \/ LooseLost(m)
  <2>1. PICK m \in loose : m.sig = "Event" /\ (LooseArrives(m) \/ LooseLost(m))
    BY <1>5 DEF NetInv, NetTypes
  <2>2. UNCHANGED <<got, job, calls>>
    BY <2>1 DEF LooseArrives, LooseLost, Receive, callVars
  <2>3. QED BY <2>2, PromiseStutter
<1>6. CASE UNCHANGED vars
  BY <1>6, PromiseStutter DEF vars, callVars
<1>7. QED BY <1>1, <1>2, <1>3, <1>4, <1>5, <1>6 DEF Next

\* Remote calls keep the promise of module RemoteCalls: a call runs at most one
\* handler, once, and is answered only after that handler returned, whatever
\* the network, lost connections and destroyed events do.
THEOREM CallsKeepPromise == Spec => KeepsPromise
<1>1. Init => Promise!Init
  <2> SUFFICES ASSUME Init PROVE Promise!Init
    OBVIOUS
  <2>1. \A k \in Call : got[k] = 0 /\ job[k].state = "none" /\ ~(k <= calls)
    BY NetworkEventBounds DEF Init, NoJob, Call
  <2>2. QED BY <2>1 DEF Promise!Init
<1>2. NetInv /\ [Next]_vars => [Promise!Next]_stages
  <2> SUFFICES ASSUME PromiseStep PROVE [Promise!Next]_stages
    BY PromiseSteps
  <2>1. CASE \A k \in Call : Became(k)' = Became(k)
    BY <2>1 DEF stages
  <2>2. QED BY <2>1 DEF PromiseStep
<1>3. QED BY <1>1, <1>2, NetInvHolds, PTL
     DEF Spec, KeepsPromise, Promise!Spec, stages, Became
=============================================================================
