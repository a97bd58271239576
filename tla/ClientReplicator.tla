-------------------------- MODULE ClientReplicator --------------------------
(***************************************************************************)
(* Network/Replicator/ClientReplicator: what a client does with the        *)
(* packets of the server, as operators on the client's state, a "view".    *)
(*                                                                         *)
(* A view holds the objects of the client process: `game', the default     *)
(* services CreateDefaultServices makes, and objects created for packets,  *)
(* numbered 1..MaxMade.  g_netIdRegistry maps ids to weak pointers; since  *)
(* no two objects of a client have the same id it is read off their        *)
(* m_netId.  An object whose last reference is gone has cls = Nil.         *)
(***************************************************************************)
EXTENDS InstanceTree

CONSTANTS
    game, Workspace, Players, ServerStorage,   \* the root and its services
    PartClass,    \* the class scripts make instances of: NetworkEvent
    PlayerClass,  \* Player
    MaxMade,      \* bound: objects a client can hold at once beside those
    Hold          \* objects of 1..MaxMade that a client script keeps alive

\* CreateDefaultServices; ServerStorage stands for the FilterMode::Server ones,
\* Workspace for the others.
Services == <<Workspace, Players, ServerStorage>>
Service  == ToSet(Services)
Hidden   == {ServerStorage}

ASSUME ClientBounds ==
    /\ MaxMade \in Nat /\ Hold \subseteq 1..MaxMade
    /\ IsInjective(Services) /\ game \notin Service
    /\ ({game} \cup Service) \cap (1..MaxMade) = {} /\ Nil \notin 1..MaxMade
    /\ Nil \notin {PartClass, PlayerClass}

Object == {game} \cup Service \cup 1..MaxMade

\* Classes with a factory, that ClassRegistry::Create makes.
Creatable == {PartClass, PlayerClass, Players}

\* The tree a process starts with: game and its services.
FreshTree(objects) ==
    [parent |-> [o \in objects |-> IF o \in Service THEN game ELSE Nil],
     kids   |-> [o \in objects |-> IF o = game THEN Services ELSE <<>>],
     dead   |-> {}]

FreshView ==
    [tree        |-> FreshTree(Object),
     name        |-> [o \in Object |-> IF o \in 1..MaxMade THEN Nil ELSE o],
     cls         |-> [o \in Object |-> IF o \in 1..MaxMade THEN Nil ELSE o],
     netId       |-> [o \in Object |-> 0],
     owner       |-> [o \in Object |-> Nil],
     localPlayer |-> Nil,
     synced      |-> FALSE,
     crashed     |-> FALSE]

FindByNetId(v, id) ==
    LET hits == {o \in Object : v.netId[o] = id /\ id # 0}
    IN  IF hits = {} THEN Nil ELSE CHOOSE o \in hits : TRUE

\* SetParent has no cycle check: FireDescendantAdded then never ends.
Move(v, o, p) ==
    IF o \notin v.tree.dead /\ p \in Subtree(v.tree, o)
    THEN [v EXCEPT !.crashed = TRUE]
    ELSE [v EXCEPT !.tree = SetParent(@, o, p)]

\* The object that the next make_shared yields.
Unused(v) == CHOOSE i \in 1..MaxMade : v.cls[i] = Nil

\* Create, SetName, SetNetId, SetParent on a new object.
Create(v, e, p) ==
    LET o == Unused(v)
    IN  [v EXCEPT !.cls[o] = e.cls, !.name[o] = e.name, !.netId[o] = e.id,
                  !.owner[o] = Nil,
                  !.tree = SetParent([v.tree EXCEPT !.dead = @ \ {o}], o, p)]

\* ApplyInstanceAdded: dropped without a parent; a known object is moved; an
\* object of that name at the top level takes the id; a class without factory
\* is dropped; anything else is created.
ApplyInstanceAdded(v, e) ==
    LET p     == IF e.parent = 0 THEN game ELSE FindByNetId(v, e.parent)
        known == FindByNetId(v, e.id)
        match == FindFirstChild(v.tree, v.name, game, e.name)
    IN  IF v.crashed \/ p = Nil THEN v
        ELSE IF known # Nil THEN Move(v, known, p)
        ELSE IF e.parent = 0 /\ match # Nil
             THEN [v EXCEPT !.netId[match] = e.id]
        ELSE IF e.cls \notin Creatable THEN v
        ELSE Create(v, e, p)

\* The entries of a snapshot, one after the other.
Applied(v, entries) ==
    LET after[n \in 0..Len(entries)] ==
            IF n = 0 THEN v ELSE ApplyInstanceAdded(after[n - 1], entries[n])
    IN  after

\* A destroyed object nothing refers to is freed, which empties its slot in the
\* registry; one that a script, LocalPlayer or the NetworkOwner of a living
\* object refers to stays known.  Owners are Players, which have no owner.
Release(v) ==
    LET used == (Object \ v.tree.dead) \cup Hold \cup {v.localPlayer}
        gone == v.tree.dead \ (used \cup {v.owner[o] : o \in used \ {Nil}})
    IN  [v EXCEPT !.netId = [o \in Object |-> IF o \in gone THEN 0 ELSE @[o]],
                  !.cls   = [o \in Object |-> IF o \in gone THEN Nil ELSE @[o]],
                  !.owner = [o \in Object |-> IF o \in gone THEN Nil ELSE @[o]]]

\* InstanceRemoved: the subtree is destroyed and forgets its owners.
ApplyInstanceRemoved(v, id) ==
    LET o == FindByNetId(v, id)
        T == Destroy(v.tree, o)
    IN  IF o = Nil THEN v
        ELSE Release([v EXCEPT !.tree  = T,
                               !.owner = [x \in Object |->
                                   IF x \in T.dead \ v.tree.dead THEN Nil ELSE @[x]]])

\* InstanceChanged: Name, or NetworkOwner, an instance sent as its id.
ApplyInstanceChanged(v, m) ==
    LET o == FindByNetId(v, m.id)
    IN  IF o = Nil THEN v
        ELSE IF m.prop = "Name" THEN [v EXCEPT !.name[o] = m.value]
        ELSE Release([v EXCEPT !.owner[o] = FindByNetId(v, m.value)])

\* LocalPlayer: the id must be a Player and game.Players must exist.
ApplyLocalPlayer(v, id) ==
    LET o == FindByNetId(v, id)
    IN  IF o = Nil \/ FindFirstChild(v.tree, v.name, game, Players) # Players
        THEN v
        ELSE IF v.cls[o] # PlayerClass THEN v
        ELSE Release([v EXCEPT !.localPlayer = o])

\* OnPacketReceived.
Received(v, m) ==
    CASE m.sig = "InstanceAdded"    -> ApplyInstanceAdded(v, m)
      [] m.sig = "InstanceRemoved"  -> ApplyInstanceRemoved(v, m.id)
      [] m.sig = "InstanceChanged"  -> ApplyInstanceChanged(v, m)
      [] m.sig = "LocalPlayer"      -> ApplyLocalPlayer(v, m.id)
      [] m.sig = "Snapshot"         -> Applied(v, m.entries)[Len(m.entries)]
      [] m.sig = "SnapshotFinished" -> [v EXCEPT !.synced = TRUE]
=============================================================================
