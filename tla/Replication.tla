---------------------------- MODULE Replication ----------------------------
(***************************************************************************)
(* The server and its clients: packets of ServerReplicator delivered one   *)
(* by one, in order, to the views of ClientReplicator.                     *)
(***************************************************************************)
EXTENDS ServerReplicator

VARIABLE view   \* the state of the client process behind each connection

vars == <<serverVars, chan, view>>

\* The client takes the next packet; a crashed one takes no more.
Poll(c) ==
    /\ status[c] = "open" /\ chan[c] # <<>> /\ ~view[c].crashed
    /\ chan' = [chan EXCEPT ![c] = Tail(@)]

\* ... and handles it.
Deliver(c) ==
    /\ Poll(c)
    /\ view' = [view EXCEPT ![c] = Received(@, Head(chan[c]))]
    /\ UNCHANGED serverVars

Init == ServerInit /\ view = [c \in Conns |-> FreshView]

\* The view of a lost connection is nobody's any more.
Forget ==
    view' = [c \in Conns |-> IF status'[c] = "closed" THEN FreshView ELSE view[c]]

Next ==
    \/ ServerNext /\ Forget
    \/ \E c \in Conns : Deliver(c)

Spec == Init /\ [][Next]_vars

\* Every client keeps polling.
FairSpec == Spec /\ \A c \in Conns : WF_chan(Poll(c))
-----------------------------------------------------------------------------
(* Properties. *)

ViewOK(v) ==
    /\ v.tree \in Tree(Object)
    /\ v.name \in [Object -> Instance \cup Names \cup {Nil}]
    /\ v.cls \in [Object -> Object \cup Creatable \cup {Nil}]
    /\ v.netId \in [Object -> 0..MaxNetId]
    /\ v.owner \in [Object -> Object \cup {Nil}]
    /\ v.localPlayer \in Object \cup {Nil}

\* Every variable keeps its type: there are never more ids than instances.
TypeOK == ServerTypeOK /\ \A c \in Conns : ViewOK(view[c])

\* The instances clients are meant to see: those below game that no
\* FilterMode::Server ancestor hides.
Replicated == ToSet(Tail(Walk(tree, game, Hidden)))

\* A client that has its snapshot and no packet left to poll.
UpToDate(c) == status[c] = "open" /\ chan[c] = <<>> /\ view[c].synced

\* The object of client c that stands for instance x.
Image(c, x) == IF x = game THEN game ELSE FindByNetId(view[c], netId[x])

\* Two instances never share an id, the destroyed ones included, so an id in
\* a packet never names the wrong instance (AllocateNetId).
NetIdsUnique ==
    \A x, y \in Instance : netId[x] = netId[y] /\ netId[x] # 0 => x = y

\* An id is for life: reparenting or destroying an instance keeps it.
NetIdStable == [][\A x \in Instance : netId[x] # 0 => netId'[x] = netId[x]]_vars

\* What the server shows is watched: a change to it reaches every client.
ShownIsWatched == started => Replicated \subseteq hooked

\* An up-to-date client has every replicated instance, alive, with its class
\* and name, whatever mix of snapshot and broadcasts told it.
Complete ==
    \A c \in Conns : UpToDate(c) =>
        \A x \in Replicated :
            LET o == Image(c, x)
            IN  /\ netId[x] # 0 /\ o # Nil
                /\ o \notin view[c].tree.dead
                /\ view[c].cls[o] = ClassOf(x)
                /\ view[c].name[o] = name[x]

\* The children of an instance on an up-to-date client are the server's, in
\* the server's order, so that FindFirstChild finds the same instance there.
SameChildren ==
    \A c \in Conns : UpToDate(c) =>
        \A x \in Replicated \cup {game} :
            LET mine   == KeepIn(tree.kids[x], Instance \ Hidden)
                theirs == KeepIn(view[c].tree.kids[Image(c, x)],
                                 {o \in Object : view[c].netId[o] # 0})
            IN  theirs = [i \in 1..Len(mine) |-> Image(c, mine[i])]

\* InstanceRemoved: "instance removed from tree" (PacketSignal.hpp:13).  No
\* replicated object of an up-to-date client has left the server's tree.
NoGhosts ==
    \A c \in Conns : UpToDate(c) =>
        \A o \in Object :
            (view[c].netId[o] # 0 /\ view[c].tree.parent[o] # Nil) =>
                \E x \in Replicated : netId[x] = view[c].netId[o]

\* An up-to-date client mirrors the server, whatever mix of snapshot and
\* broadcasts told it: nothing is missing, out of order or left over.
ClientMirrors == Complete /\ SameChildren /\ NoGhosts

\* The NetworkOwner of an instance on an up-to-date client is the server's or
\* nil, when the client missed the change or does not know the owner; never an
\* earlier owner, even when that Player has left and come to be destroyed.
NoStaleOwner ==
    \A c \in Conns : UpToDate(c) =>
        \A x \in Replicated :
            LET o == Image(c, x)
            IN  o # Nil /\ view[c].owner[o] # Nil =>
                    /\ owner[x] # Nil
                    /\ view[c].netId[view[c].owner[o]] = netId[owner[x]]

\* FilterMode::Server "means it never leaves the server, da whole subtree
\* included" (ServerReplicator.cpp:44-45): no packet is sent about an
\* instance that is below such a service.
Sent(c) == IF Len(chan'[c]) > Len(chan[c])
           THEN SubSeq(chan'[c], Len(chan[c]) + 1, Len(chan'[c])) ELSE <<>>
IdsIn(m) == CASE m.sig = "Snapshot" -> {e.id : e \in ToSet(m.entries)}
              [] m.sig = "SnapshotFinished" -> {}
              [] OTHER -> {m.id}
HiddenIds == {netId[x] : x \in UNION {Subtree(tree, h) : h \in Hidden}} \ {0}
ServerOnlyStays ==
    [][\A c \in Conns : \A m \in ToSet(Sent(c)) : IdsIn(m) \cap HiddenIds' = {}]_vars

\* game.Players lists exactly the open connections, except for Players some
\* script destroyed.
PlayersMirrorConnections ==
    /\ \A c \in Conns : tree.parent[c] # Nil => status[c] = "open"
    /\ \A c \in Conns : status[c] = "open" /\ netId[c] # 0 =>
           c \in ToSet(tree.kids[Players]) \/ c \in tree.dead

\* A client that connects gets its whole snapshot or loses the connection.
JoinCompletes ==
    \A c \in Conns : status[c] = "open" ~>
                     (view[c].synced \/ status[c] = "closed")

\* LocalPlayer is "server -> da connecting client only: NetId of their own
\* Player" (PacketSignal.hpp:27): a client that is up to date knows its Player.
LocalPlayerKnown ==
    \A c \in Conns : UpToDate(c) /\ c \in Replicated =>
        view[c].localPlayer = Image(c, c)

\* A reparent is harmless to a client: "just move it"
\* (ClientReplicator.cpp:40-42).
ClientsSurvive == \A c \in Conns : ~view[c].crashed
=============================================================================
