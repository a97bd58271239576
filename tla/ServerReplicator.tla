-------------------------- MODULE ServerReplicator --------------------------
(***************************************************************************)
(* Network/Replicator/ServerReplicator with the part of GNSTransport it    *)
(* uses: which instances of the server's tree are watched, the ids they    *)
(* get, and the packets every change sends to the connected clients.       *)
(*                                                                         *)
(* Scripts are abstracted to the calls they make on instances.  A part is  *)
(* an instance some script made with Instance.new (a NetworkEvent); it     *)
(* starts outside the tree.  The Player of connection c is the instance c. *)
(* NetworkOwner is the one replicated property of every instance.  Packets *)
(* to one client are delivered reliably and in order (SendTo's default).   *)
(***************************************************************************)
EXTENDS ClientReplicator

CONSTANTS
    Parts,     \* instances made by scripts
    Conns,     \* connections, each used once; also their Player objects
    Targets,   \* where scripts put parts: a subset of Instance \cup {Nil}
    Doomed,    \* what scripts destroy
    Names,     \* names scripts give
    Habits,    \* "leave": scripts move watched instances out of sight;
               \* "collide": they give two children of game the same name
    Owners,    \* Players that scripts make the NetworkOwner of parts
    MaxOps     \* bound: tree operations of scripts

Instance == {game} \cup Service \cup Parts \cup Conns
MaxNetId == Cardinality(Instance)

ASSUME ServerBounds ==
    /\ MaxOps \in Nat /\ Owners \subseteq Conns
    /\ IsFiniteSet(Parts) /\ IsFiniteSet(Conns) /\ Nil \notin Instance
    /\ Parts \cap Conns = {} /\ (Parts \cup Conns) \cap ({game} \cup Service) = {}
    /\ MaxMade >= Cardinality(Parts \cup Conns)
    /\ Targets \subseteq Instance \cup {Nil}
    /\ Doomed \subseteq Instance \ {game}
    /\ Habits \subseteq {"leave", "collide"}

VARIABLES
    started,    \* Start has called WatchRoot
    tree,       \* the server's instance tree
    name,       \* m_name
    owner,      \* m_networkOwner
    netId,      \* m_netId
    hooked,     \* instances with OnChildAdded / OnDestroyed / OnChanged set
    nextNetId,  \* m_nextNetId
    status,     \* of a connection; "open" is membership in m_clients
    chan,       \* packets on their way to each client
    ops         \* operations done by scripts

serverVars == <<started, tree, name, owner, netId, hooked, nextNetId, status, ops>>

Open == {c \in Conns : status[c] = "open"}

ClassOf(x) == IF x \in Parts THEN PartClass
              ELSE IF x \in Conns THEN PlayerClass ELSE x

\* OnChildAdded of x is set; game has no other hook and no id.
Watched(x) == x \in hooked \/ (x = game /\ started)
-----------------------------------------------------------------------------
(* Packets. *)

\* An instance in a packet.
IdOf(x) == IF x = Nil THEN 0 ELSE netId[x]

Entry(T, nm, ids, x) ==
    [sig |-> "InstanceAdded", id |-> ids[x],
     parent |-> IF T.parent[x] = Nil THEN 0 ELSE ids[T.parent[x]],
     cls |-> ClassOf(x), name |-> nm[x]]

Added(T, nm, ids, order) ==
    [i \in 1..Len(order) |-> Entry(T, nm, ids, order[i])]

Removed(order) ==
    LET told == KeepIn(order, {x \in hooked : netId[x] # 0})
    IN  [i \in 1..Len(told) |->
            [sig |-> "InstanceRemoved", id |-> netId[told[i]]]]

Changed(x, prop, value) ==
    IF x \in hooked /\ netId[x] # 0
    THEN <<[sig |-> "InstanceChanged", id |-> netId[x],
            prop |-> prop, value |-> value]>>
    ELSE <<>>

\* CollectSnapshot: every numbered descendant of game.
SnapshotEntries(T, nm, ids) ==
    Added(T, nm, ids,
          KeepIn(Tail(Walk(T, game, {})), {x \in Instance : ids[x] # 0}))

SendToAll(packets) ==
    chan' = [c \in Conns |-> IF c \in Open THEN chan[c] \o packets ELSE chan[c]]
-----------------------------------------------------------------------------
(* WatchAndMaybeBroadcast: the instances of `order' are watched. *)

\* Mutant of Watch: the id is allocated without asking for the old one.
WatchRenumbers(order) ==
    /\ netId' = [x \in Instance |->
                    IF x \in ToSet(order)
                    THEN nextNetId - 1 + CHOOSE i \in 1..Len(order) : order[i] = x
                    ELSE netId[x]]
    /\ nextNetId' = nextNetId + Len(order)
    /\ hooked' = hooked \cup ToSet(order)

\* Mutant of Watch: the counter is not advanced.
WatchReusesId(order) ==
    LET new == KeepIn(order, {x \in Instance : netId[x] = 0})
    IN  /\ netId' = [x \in Instance |->
                        IF x \in ToSet(new) THEN nextNetId ELSE netId[x]]
        /\ nextNetId' = nextNetId + (IF new = <<>> THEN 0 ELSE 1)
        /\ hooked' = hooked \cup ToSet(order)

Watch(order) ==
    LET new == KeepIn(order, {x \in Instance : netId[x] = 0})
    IN  /\ netId' = [x \in Instance |->
                        IF x \in ToSet(new)
                        THEN nextNetId - 1 + CHOOSE i \in 1..Len(new) : new[i] = x
                        ELSE netId[x]]
        /\ nextNetId' = nextNetId + Len(new)
        /\ hooked' = hooked \cup ToSet(order)

\* Mutant of Discovered: only the instance itself, not its children.
DiscoveredAlone(T, x, p) ==
    IF x \in T.dead \/ ~Watched(p) \/ x \in Hidden THEN <<>> ELSE <<x>>

\* Mutant of Discovered: FilterMode is not looked at and the parent not
\* tested for being watched.
DiscoveredAnywhere(T, x, p) ==
    IF x \in T.dead \/ p = Nil THEN <<>> ELSE Walk(T, x, {})

\* What OnChildAdded of p discovers when x is put under p: x and everything
\* already below it, except below instances of FilterMode::Server.
Discovered(T, x, p) ==
    IF x \in T.dead \/ ~Watched(p) THEN <<>> ELSE Walk(T, x, Hidden)

\* Start: WatchRoot watches what is there and broadcasts nothing.
Start ==
    /\ ~started
    /\ started' = TRUE
    /\ Watch(Tail(Walk(tree, game, Hidden)))
    /\ UNCHANGED <<tree, name, owner, status, chan, ops>>
-----------------------------------------------------------------------------
(* Operations of scripts on the server. *)

ScriptOp == ops < MaxOps /\ ops' = ops + 1

\* The part leaves what the clients see: it has an id, and its new parent
\* is not watched.
Leaves(x, p) == netId[x] # 0 /\ ~Watched(p)

Collides(x, n) ==
    \E y \in ToSet(tree.kids[game]) \ {x} : name[y] = n

\* x.Parent = p.  A part is not put below itself: SetParent would not return.
ScriptSetParent(x, p) ==
    /\ ScriptOp
    /\ p = Nil \/ p \notin Subtree(tree, x)
    /\ p \in Conns => netId[p] # 0
    /\ Leaves(x, p) => "leave" \in Habits
    /\ p = game /\ Collides(x, name[x]) => "collide" \in Habits
    /\ LET T     == SetParent(tree, x, p)
           order == Discovered(T, x, p)
       IN  /\ tree' = T
           /\ Watch(order)
           /\ SendToAll(Added(T, name, netId', order))
    /\ UNCHANGED <<started, name, owner, status>>

\* Destroy resets the hooks and NetworkOwner of the whole subtree.
Reset(order) ==
    /\ hooked' = hooked \ ToSet(order)
    /\ owner' = [x \in Instance |-> IF x \in ToSet(order) THEN Nil ELSE owner[x]]

\* x:Destroy(); OnDestroyed of the parent runs before that of its children.
DestroyInstance(x) ==
    LET order == IF x \in tree.dead THEN <<>> ELSE Walk(tree, x, {})
    IN  /\ tree' = Destroy(tree, x)
        /\ Reset(order)
        /\ SendToAll(Removed(order))
        /\ UNCHANGED <<netId, nextNetId>>

ScriptDestroy(x) ==
    /\ ScriptOp
    /\ x \in Conns => netId[x] # 0
    /\ DestroyInstance(x)
    /\ UNCHANGED <<started, name, status>>

\* x.Name = n; SetName notifies even when nothing changes.
ScriptSetName(x, n) ==
    /\ ScriptOp
    /\ tree.parent[x] = game /\ Collides(x, n) => "collide" \in Habits
    /\ name' = [name EXCEPT ![x] = n]
    /\ SendToAll(Changed(x, "Name", n))
    /\ UNCHANGED <<started, tree, owner, netId, hooked, nextNetId, status>>

\* Mutant of ScriptSetNetworkOwner: only the first change is broadcast.
SetNetworkOwnerOnce(x, p) ==
    /\ ScriptOp
    /\ p \in Conns => netId[p] # 0
    /\ owner' = [owner EXCEPT ![x] = p]
    /\ SendToAll(IF owner[x] = Nil THEN Changed(x, "NetworkOwner", IdOf(p))
                 ELSE <<>>)
    /\ UNCHANGED <<started, tree, name, netId, hooked, nextNetId, status>>

\* x.NetworkOwner = p, a Player that exists, or nil; sent as an id.
ScriptSetNetworkOwner(x, p) ==
    /\ ScriptOp
    /\ p \in Conns => netId[p] # 0
    /\ owner' = [owner EXCEPT ![x] = p]
    /\ SendToAll(Changed(x, "NetworkOwner", IdOf(p)))
    /\ UNCHANGED <<started, tree, name, netId, hooked, nextNetId, status>>
-----------------------------------------------------------------------------
(* Connections. *)

PlayersService == FindFirstChild(tree, name, game, Players)

\* Mutant of Greeting: SnapshotFinished is forgotten.
GreetingUnfinished(T, ids, player) ==
    (IF player = Nil THEN <<>>
     ELSE <<[sig |-> "LocalPlayer", id |-> ids[player]]>>)
    \o <<[sig |-> "Snapshot", entries |-> SnapshotEntries(T, name, ids)]>>

\* What only the new client gets: its Player's id, if there is a Player, and
\* the snapshot.
Greeting(T, ids, player) ==
    (IF player = Nil THEN <<>>
     ELSE <<[sig |-> "LocalPlayer", id |-> ids[player]]>>)
    \o <<[sig |-> "Snapshot", entries |-> SnapshotEntries(T, name, ids)],
         [sig |-> "SnapshotFinished"]>>

\* Mutant of Connect: only the new client hears of its Player.
ConnectQuietly(c) ==
    /\ started /\ status[c] = "new"
    /\ status' = [status EXCEPT ![c] = "open"]
    /\ LET player == IF PlayersService = Players THEN c ELSE Nil
           T      == IF player = Nil THEN tree ELSE SetParent(tree, c, Players)
       IN  /\ tree' = T
           /\ Watch(IF player = Nil THEN <<>> ELSE Discovered(T, c, Players))
           /\ chan' = [chan EXCEPT ![c] = Greeting(T, netId', player)]
    /\ UNCHANGED <<started, name, owner, ops>>

\* A connection is accepted: m_clients gets it first, so that the Player's
\* InstanceAdded also goes to the new client, ahead of the snapshot.
Connect(c) ==
    /\ started /\ status[c] = "new"
    /\ status' = [status EXCEPT ![c] = "open"]
    /\ LET player == IF PlayersService = Players THEN c ELSE Nil
           T      == IF player = Nil THEN tree ELSE SetParent(tree, c, Players)
           order  == IF player = Nil THEN <<>> ELSE Discovered(T, c, Players)
       IN  /\ tree' = T
           /\ Watch(order)
           /\ chan' = [d \in Conns |->
                  IF d = c
                  THEN Added(T, name, netId', order) \o Greeting(T, netId', player)
                  ELSE IF d \in Open THEN chan[d] \o Added(T, name, netId', order)
                  ELSE chan[d]]
    /\ UNCHANGED <<started, name, owner, ops>>

\* Mutant of Disconnect: the Player stays.
DisconnectKeepsPlayer(c) ==
    /\ status[c] = "open"
    /\ status' = [status EXCEPT ![c] = "closed"]
    /\ chan' = [chan EXCEPT ![c] = <<>>]
    /\ UNCHANGED <<started, tree, name, owner, netId, hooked, nextNetId, ops>>

\* The connection is lost: its Player is destroyed, which the others are told
\* about; packets still on their way are lost with it.
Disconnect(c) ==
    /\ status[c] = "open"
    /\ status' = [status EXCEPT ![c] = "closed"]
    /\ LET order == IF netId[c] = 0 \/ c \in tree.dead THEN <<>>
                    ELSE Walk(tree, c, {})
       IN  /\ tree' = IF netId[c] = 0 THEN tree ELSE Destroy(tree, c)
           /\ Reset(order)
           /\ chan' = [d \in Conns |->
                  IF d = c THEN <<>>
                  ELSE IF d \in Open THEN chan[d] \o Removed(order)
                  ELSE chan[d]]
    /\ UNCHANGED <<started, name, netId, nextNetId, ops>>
-----------------------------------------------------------------------------
ServerInit ==
    /\ started = FALSE
    /\ tree = FreshTree(Instance)
    /\ name \in {[x \in Instance |-> IF x \in Parts THEN given[x] ELSE x] :
                    given \in [Parts -> Names]}
    /\ owner = [x \in Instance |-> Nil]
    /\ netId = [x \in Instance |-> 0]
    /\ hooked = {}
    /\ nextNetId = 1
    /\ status = [c \in Conns |-> "new"]
    /\ chan = [c \in Conns |-> <<>>]
    /\ ops = 0

ServerNext ==
    \/ Start
    \/ \E x \in Parts, p \in Targets : ScriptSetParent(x, p)
    \/ \E x \in Doomed : ScriptDestroy(x)
    \/ \E x \in Parts, n \in Names : ScriptSetName(x, n)
    \/ \E x \in Parts, p \in Owners \cup {Nil} : ScriptSetNetworkOwner(x, p)
    \/ \E c \in Conns : Connect(c) \/ Disconnect(c)

\* Types of the server's state.
ServerTypeOK ==
    /\ started \in BOOLEAN
    /\ tree \in Tree(Instance)
    /\ name \in [Instance -> Instance \cup Names]
    /\ owner \in [Instance -> Conns \cup {Nil}]
    /\ netId \in [Instance -> 0..MaxNetId]
    /\ hooked \subseteq Instance
    /\ nextNetId \in 1..MaxNetId + 1
    /\ status \in [Conns -> {"new", "open", "closed"}]
    /\ DOMAIN chan = Conns
    /\ ops \in 0..MaxOps
=============================================================================
