-------------------------- MODULE ReplicationProofs --------------------------
(***************************************************************************)
(* Theorems about the server of Replication, for any parts, connections    *)
(* and names and any number of operations: what the ids are, what is       *)
(* watched and which Players there are.                                    *)
(*                                                                         *)
(* A change of the tree, its hooks and its ids is one of three: a walk is  *)
(* watched (Start), an instance is moved and what it brings along is       *)
(* watched (ScriptSetParent, Connect), or a subtree is destroyed and no    *)
(* longer watched (ScriptDestroy, Disconnect).  A lemma each says that it  *)
(* keeps the invariant, and TreeLemmas says what each does to the tree.    *)
(***************************************************************************)
EXTENDS Replication, TreeLemmas

\* The tree is one; game is its root.
TreeInv == IsTree(tree, Instance) /\ tree.parent[game] = Nil

\* The ids that were given out are those below nextNetId, each to one instance.
IdInv ==
    /\ netId \in [Instance -> Nat] /\ nextNetId \in Nat \ {0}
    /\ \A x \in Instance : netId[x] < nextNetId
    /\ \A i \in 1..nextNetId - 1 : \E x \in Instance : netId[x] = i
    /\ \A x, y \in Instance : netId[x] = netId[y] /\ netId[x] # 0 => x = y

\* What is watched has an id, and its children are watched unless hidden.
HookInv ==
    /\ started \in BOOLEAN /\ hooked \in SUBSET Instance
    /\ \A x \in hooked : netId[x] # 0
    /\ started => \A x \in Instance \ Hidden :
                     tree.parent[x] \in hooked \cup {game} => x \in hooked
    /\ ~started => hooked = {} /\ \A x \in Instance : netId[x] = 0

\* The Player of a connection is nowhere before it opens and gone when it is
\* closed; in between it is in game.Players, or destroyed.
ConnInv ==
    /\ status \in [Conns -> {"new", "open", "closed"}]
    /\ ~started => \A c \in Conns : status[c] = "new"
    /\ \A c \in Conns :
          /\ status[c] = "new" => /\ netId[c] = 0 /\ tree.parent[c] = Nil
                                  /\ c \notin tree.dead
          /\ tree.parent[c] # Nil => status[c] = "open" /\ netId[c] # 0
          /\ status[c] = "open" /\ netId[c] # 0 =>
                tree.parent[c] = Players \/ c \in tree.dead

ServerInv == TreeInv /\ IdInv /\ HookInv /\ ConnInv

\* As long as scripts move nothing out of sight: what has an id is watched or
\* dead, below game, and never hidden.
SightInv ==
    /\ \A x \in Instance : netId[x] # 0 => x \in hooked \/ x \in tree.dead
    /\ \A x \in hooked : tree.parent[x] \in hooked \cup {game}
    /\ \A x \in Hidden : netId[x] = 0
-----------------------------------------------------------------------------
\* Who is who among the instances.
LEMMA InstanceFacts ==
    /\ IsFiniteSet(Instance) /\ Nil \notin Instance
    /\ game \in Instance /\ Service \subseteq Instance
    /\ Parts \subseteq Instance /\ Conns \subseteq Instance
    /\ Players \in Service /\ Players \notin Hidden
    /\ Hidden \subseteq Service /\ game \notin Service
    /\ (Parts \cup Conns) \cap ({game} \cup Service) = {} /\ Parts \cap Conns = {}
<1>1. Service = {Workspace, Players, ServerStorage}
  <2>1. DOMAIN Services = 1..3 /\ Services[1] = Workspace /\ Services[2] = Players
        /\ Services[3] = ServerStorage
    BY DEF Services
  <2>2. QED BY <2>1 DEF Service, ToSet
<1>2. Players # ServerStorage
  <2>1. Services[2] = Players /\ Services[3] = ServerStorage /\ DOMAIN Services = 1..3
    BY DEF Services
  <2>2. IsInjective(Services)
    BY ClientBounds
  <2>3. \A a, b \in 1..3 : Services[a] = Services[b] => a = b
    BY <2>1, <2>2 DEF IsInjective
  <2>4. QED BY <2>1, <2>3
<1>3. IsFiniteSet(Instance)
  <2>1. IsFiniteSet({}) /\ \A S, x : IsFiniteSet(S) => IsFiniteSet(S \cup {x})
    BY FS_EmptySet, FS_AddElement
  <2>2. IsFiniteSet({game} \cup Service)
    <3>1. {game} \cup Service = ((({} \cup {game}) \cup {Workspace}) \cup {Players}) \cup {ServerStorage}
      BY <1>1
    <3>2. QED BY <2>1, <3>1
  <2>3. IsFiniteSet(Parts) /\ IsFiniteSet(Conns)
    BY ServerBounds
  <2>4. QED BY <2>2, <2>3, FS_Union DEF Instance
<1>4. QED BY <1>1, <1>2, <1>3, ServerBounds, ClientBounds DEF Instance, Hidden

\* A process starts with a tree: game over its services.
LEMMA FreshTreeIsTree ==
    ASSUME NEW O, game \in O, Service \subseteq O, Nil \notin O
    PROVE  IsTree(FreshTree(O), O) /\ FreshTree(O).parent[game] = Nil
<1> DEFINE parent == [o \in O |-> IF o \in Service THEN game ELSE Nil]
           kids == [o \in O |-> IF o = game THEN Services ELSE <<>>]
           T == FreshTree(O)
<1>1. T.parent = parent /\ T.kids = kids /\ T.dead = {} /\
      T = [parent |-> parent, kids |-> kids, dead |-> {}]
  BY DEF FreshTree
<1> HIDE DEF T
<1>2. game \notin Service /\ IsInjective(Services)
  BY ClientBounds
<1>3. ToSet(Services) = Service /\ Services \in Seq(O)
  <2>1. /\ DOMAIN Services = 1..3 /\ Services[1] = Workspace /\ Services[2] = Players
        /\ Services[3] = ServerStorage
    BY DEF Services
  <2>2. Workspace \in O /\ Players \in O /\ ServerStorage \in O
    BY <2>1 DEF Service, ToSet
  <2>3. QED BY <2>2 DEF Service, Services
<1>4. ToSet(<<>>) = {} /\ IsInjective(<<>>) /\ <<>> \in Seq(O)
  BY EmptySeq DEF ToSet, IsInjective
<1>5. T \in Tree(O)
  <2>1. parent \in [O -> O \cup {Nil}] /\ kids \in [O -> Seq(O)]
    BY <1>3, <1>4
  <2>2. QED BY <1>1, <2>1 DEF Tree
<1>6. \A p \in O : IsInjective(kids[p])
  BY <1>2, <1>4
<1>7. ASSUME NEW p \in O, NEW k \in O PROVE k \in ToSet(kids[p]) <=> parent[k] = p
  <2>1. CASE p = game
    BY <1>3, <2>1
  <2>2. CASE p # game
    BY <1>4, <2>2
  <2>3. QED BY <2>1, <2>2
<1>8. ASSUME NEW S \in SUBSET O, S # {} PROVE \E y \in S : parent[y] \notin S
  <2>1. CASE game \in S
    <3>1. parent[game] \notin S
      BY <1>2
    <3>2. QED BY <2>1, <3>1
  <2>2. CASE game \notin S
    <3>1. \A y \in S : parent[y] \notin S
      BY <2>2
    <3>2. QED BY <1>8, <3>1
  <2>3. QED BY <2>1, <2>2
<1>9. parent[game] = Nil
  BY <1>2
<1> HIDE DEF parent, kids
<1>10. QED BY <1>1, <1>5, <1>6, <1>7, <1>8, <1>9 DEF IsTree, T

LEMMA InvInit == ServerInit => ServerInv
<1> SUFFICES ASSUME ServerInit PROVE ServerInv
  OBVIOUS
<1> USE InstanceFacts
<1>1. TreeInv
  BY FreshTreeIsTree DEF ServerInit, TreeInv
<1>2. IdInv
  <2>1. \A x \in Instance : netId[x] = 0
    BY DEF ServerInit
  <2>2. 1..nextNetId - 1 = {}
    BY DEF ServerInit
  <2>3. QED BY <2>1, <2>2 DEF ServerInit, IdInv
<1>3. HookInv
  BY DEF ServerInit, HookInv
<1>4. ConnInv
  <2>1. \A c \in Conns : netId[c] = 0 /\ status[c] = "new" /\ c \notin tree.dead
    BY DEF ServerInit, FreshTree
  <2>2. \A c \in Conns : tree.parent[c] = Nil
    BY DEF ServerInit, FreshTree
  <2>3. QED BY <2>1, <2>2 DEF ServerInit, ConnInv
<1>5. QED BY <1>1, <1>2, <1>3, <1>4 DEF ServerInv

\* Watching gives each instance that has none the next id, and changes no id.
LEMMA WatchEffect ==
    ASSUME IdInv, NEW order \in Seq(Instance), IsInjective(order), Watch(order)
    PROVE  /\ IdInv'
           /\ hooked' = hooked \cup ToSet(order)
           /\ \A x \in Instance : netId[x] # 0 => netId'[x] = netId[x]
           /\ \A x \in Instance \ ToSet(order) : netId'[x] = netId[x]
           /\ \A x \in ToSet(order) : netId'[x] # 0
<1> DEFINE none == {x \in Instance : netId[x] = 0}
<1>1. PICK new \in Seq(Instance) : /\ new = KeepIn(order, none)
                                   /\ ToSet(new) = ToSet(order) \cap none
                                   /\ IsInjective(new)
  BY KeepDistinct
<1>2. ToSet(order) \subseteq Instance
  BY ToSetTyped
<1>3. PICK n \in Nat : n = Len(new)
  OBVIOUS
<1> DEFINE at(x) == CHOOSE i \in 1..n : new[i] = x
<1>4. \A x \in ToSet(new) : at(x) \in 1..n /\ new[at(x)] = x
  <2>1. \A x \in ToSet(new) : \E i \in 1..n : new[i] = x
    BY <1>3 DEF ToSet
  <2>2. QED BY <2>1
<1>5. \A i \in 1..n : new[i] \in ToSet(new) /\ at(new[i]) = i
  <2>1. \A i \in 1..n : new[i] \in ToSet(new)
    BY <1>3 DEF ToSet
  <2>2. \A i, j \in 1..n : new[i] = new[j] => i = j
    BY <1>1, <1>3 DEF IsInjective
  <2> HIDE DEF at
  <2>3. QED BY <1>4, <2>1, <2>2
<1>6. /\ netId' = [x \in Instance |-> IF x \in ToSet(new) THEN nextNetId - 1 + at(x)
                                      ELSE netId[x]]
      /\ nextNetId' = nextNetId + n
      /\ hooked' = hooked \cup ToSet(order)
  BY <1>1, <1>3 DEF Watch
<1> HIDE DEF at
<1>7. /\ netId \in [Instance -> Nat] /\ nextNetId \in Nat \ {0}
      /\ \A x \in Instance : netId[x] < nextNetId
      /\ \A i \in 1..nextNetId - 1 : \E x \in Instance : netId[x] = i
      /\ \A x, y \in Instance : netId[x] = netId[y] /\ netId[x] # 0 => x = y
  BY DEF IdInv
<1>8. \A x \in ToSet(new) : /\ x \in Instance /\ netId[x] = 0
                            /\ netId'[x] = nextNetId - 1 + at(x)
                            /\ netId'[x] \in Nat
                            /\ nextNetId <= netId'[x] /\ netId'[x] < nextNetId'
  BY <1>1, <1>2, <1>3, <1>4, <1>6, <1>7
<1>9. \A x \in Instance \ ToSet(new) :
         netId'[x] = netId[x] /\ netId[x] \in Nat /\ netId[x] < nextNetId
  BY <1>6, <1>7
<1>10. IdInv'
  <2>1. netId' \in [Instance -> Nat] /\ nextNetId' \in Nat \ {0}
    <3>1. \A x \in Instance : netId'[x] \in Nat
      BY <1>8, <1>9
    <3>2. QED BY <1>6, <1>7, <3>1
  <2>2. ASSUME NEW x \in Instance PROVE netId'[x] < nextNetId'
    <3>1. nextNetId <= nextNetId' /\ nextNetId \in Nat /\ nextNetId' \in Nat
      BY <1>3, <1>6, <1>7
    <3>2. CASE x \in ToSet(new)
      BY <1>8, <3>2
    <3>3. CASE x \notin ToSet(new)
      BY <1>9, <3>1, <3>3
    <3>4. QED BY <3>2, <3>3
  <2>3. ASSUME NEW i \in 1..nextNetId' - 1 PROVE \E x \in Instance : netId'[x] = i
    <3>1. CASE i < nextNetId
      <4>1. PICK x \in Instance : netId[x] = i
        BY <1>7, <3>1
      <4>2. x \notin ToSet(new)
        BY <1>8, <4>1
      <4>3. QED BY <1>9, <4>1, <4>2
    <3>2. CASE ~(i < nextNetId)
      <4>1. i - nextNetId + 1 \in 1..n
        BY <1>6, <1>7, <3>2
      <4>2. PICK x \in ToSet(new) : at(x) = i - nextNetId + 1
        BY <1>5, <4>1
      <4>3. netId'[x] = i /\ x \in Instance
        BY <1>7, <1>8, <4>2
      <4>4. QED BY <4>3
    <3>3. QED BY <3>1, <3>2
  <2>4. ASSUME NEW x \in Instance, NEW y \in Instance,
               netId'[x] = netId'[y], netId'[x] # 0
        PROVE  x = y
    <3>1. CASE x \in ToSet(new) /\ y \in ToSet(new)
      <4>1. at(x) = at(y)
        BY <1>4, <1>7, <1>8, <2>4, <3>1
      <4>2. QED BY <1>4, <3>1, <4>1
    <3>2. CASE x \in ToSet(new) /\ y \notin ToSet(new)
      BY <1>7, <1>8, <1>9, <2>4, <3>2
    <3>3. CASE x \notin ToSet(new) /\ y \in ToSet(new)
      BY <1>7, <1>8, <1>9, <2>4, <3>3
    <3>4. CASE x \notin ToSet(new) /\ y \notin ToSet(new)
      BY <1>7, <1>9, <2>4, <3>4
    <3>5. QED BY <3>1, <3>2, <3>3, <3>4
  <2>5. QED BY <2>1, <2>2, <2>3, <2>4 DEF IdInv
<1>11. \A x \in Instance : netId[x] # 0 => netId'[x] = netId[x]
  BY <1>8, <1>9
<1>12. \A x \in Instance \ ToSet(order) : netId'[x] = netId[x]
  BY <1>1, <1>9
<1>13. \A x \in ToSet(order) : netId'[x] # 0
  <2>1. \A x \in ToSet(order) \ ToSet(new) : netId[x] # 0 /\ netId'[x] = netId[x]
    BY <1>1, <1>2, <1>9
  <2>2. \A x \in ToSet(new) : netId'[x] # 0
    BY <1>7, <1>8
  <2>3. QED BY <2>1, <2>2
<1>14. QED BY <1>6, <1>10, <1>11, <1>12, <1>13

\* What is discovered when x is moved: x and what is below it, or nothing.
LEMMA DiscoveredProperties ==
    ASSUME NEW T, IsTree(T, Instance), NEW x \in Instance \ Hidden, NEW p,
           NEW order, order = Discovered(T, x, p)
    PROVE  /\ order \in Seq(Instance) /\ IsInjective(order)
           /\ ToSet(order) \subseteq Instance \ Hidden
           /\ x \in T.dead \/ ~Watched(p) => ToSet(order) = {}
           /\ ~(x \in T.dead \/ ~Watched(p)) => x \in ToSet(order)
           /\ \A y \in ToSet(order) : y # x => T.parent[y] \in ToSet(order)
           /\ \A k \in Instance \ Hidden : T.parent[k] \in ToSet(order) => k \in ToSet(order)
<1>1. CASE x \in T.dead \/ ~Watched(p)
  <2>1. order = <<>>
    BY <1>1 DEF Discovered
  <2>2. <<>> \in Seq(Instance) /\ IsInjective(<<>>) /\ ToSet(<<>>) = {}
    BY EmptySeq DEF IsInjective, ToSet
  <2>3. QED BY <1>1, <2>1, <2>2
<1>2. CASE ~(x \in T.dead \/ ~Watched(p))
  <2>1. order = Walk(T, x, Hidden)
    BY <1>2 DEF Discovered
  <2>2. QED BY <1>2, <2>1, InstanceFacts, WalkByParents
<1>3. QED BY <1>1, <1>2

\* An instance is moved: the Player of a new connection to Players, or one that
\* is not a Player to where a script wants it.
Moved(T, order, x, p) ==
    /\ p \notin Subtree(tree, x) /\ T = SetParent(tree, x, p) /\ order = Discovered(T, x, p)
    /\ tree' = T /\ Watch(order) /\ started' = started
    /\ \/ x \notin Conns /\ status' = status
       \/ /\ x \in Conns /\ p = Players /\ Watched(p)
          /\ status[x] = "new" /\ status' = [status EXCEPT ![x] = "open"]

LEMMA MovedEffect ==
    ASSUME ServerInv, NEW x \in Instance \ Hidden, x # game, NEW p \in Instance \cup {Nil},
           NEW T, NEW order, Moved(T, order, x, p)
    PROVE  /\ IsTree(T, Instance) /\ T.dead = tree.dead
           /\ T.parent[game] = Nil
           /\ \A y \in Instance \ {x} : T.parent[y] = tree.parent[y]
           /\ x \notin tree.dead => T.parent[x] = p
           /\ x \in tree.dead => T.parent[x] = tree.parent[x]
<1> USE InstanceFacts
<1>1. IsTree(tree, Instance) /\ tree.parent[game] = Nil
  BY DEF ServerInv, TreeInv
<1>2. p \notin Subtree(tree, x) /\ T = SetParent(tree, x, p)
  BY DEF Moved
<1>3. PICK parent \in [Instance -> Instance \cup {Nil}] : tree.parent = parent
  BY <1>1 DEF IsTree, Tree
<1>4. CASE x \in tree.dead
  <2>1. T = tree
    BY <1>2, <1>4 DEF SetParent
  <2>2. QED BY <1>1, <1>4, <2>1
<1>5. CASE x \notin tree.dead
  <2>1. PICK S : S = tree
    OBVIOUS
  <2>2. IsTree(T, Instance) /\ T.parent = [S.parent EXCEPT ![x] = p] /\ T.dead = S.dead
    BY <1>1, <1>2, <1>5, <2>1, SetParentProperties
  <2>3. T.parent = [parent EXCEPT ![x] = p]
    BY <1>3, <2>1, <2>2
  <2>4. QED BY <1>1, <1>3, <1>5, <2>1, <2>2, <2>3
<1>6. QED BY <1>4, <1>5

\* A move keeps the invariant, and the ids that were given out.
LEMMA MovedKeeps ==
    ASSUME ServerInv, NEW x \in Instance \ Hidden, x # game, NEW p \in Instance \cup {Nil},
           NEW T, NEW order, Moved(T, order, x, p)
    PROVE  /\ ServerInv'
           /\ \A y \in Instance : netId[y] # 0 => netId'[y] = netId[y]
           /\ SightInv /\ (netId[x] # 0 => Watched(p)) => SightInv'
<1> USE InstanceFacts
<1> DEFINE W == ToSet(order)
<1>1. /\ IsTree(T, Instance) /\ T.dead = tree.dead /\ T.parent[game] = Nil
      /\ \A y \in Instance \ {x} : T.parent[y] = tree.parent[y]
      /\ x \notin tree.dead => T.parent[x] = p
      /\ x \in tree.dead => T.parent[x] = tree.parent[x]
  BY MovedEffect, SMT
<1>2. order = Discovered(T, x, p) /\ tree' = T /\ Watch(order) /\ started' = started
  BY DEF Moved
<1>3. \/ x \notin Conns /\ status' = status
      \/ /\ x \in Conns /\ p = Players /\ Watched(p)
         /\ status[x] = "new" /\ status' = [status EXCEPT ![x] = "open"]
  BY DEF Moved
<1>4. /\ order \in Seq(Instance) /\ IsInjective(order)
      /\ W \subseteq Instance \ Hidden
      /\ x \in T.dead \/ ~Watched(p) => W = {}
      /\ ~(x \in T.dead \/ ~Watched(p)) => x \in W
      /\ \A y \in W : y # x => T.parent[y] \in W
      /\ \A k \in Instance \ Hidden : T.parent[k] \in W => k \in W
  BY <1>1, <1>2, DiscoveredProperties
<1>5. TreeInv /\ IdInv /\ HookInv /\ ConnInv
  BY DEF ServerInv
<1>6. /\ IdInv' /\ hooked' = hooked \cup W
      /\ \A y \in Instance : netId[y] # 0 => netId'[y] = netId[y]
      /\ \A y \in Instance \ W : netId'[y] = netId[y]
      /\ \A y \in W : netId'[y] # 0
  BY <1>2, <1>4, <1>5, WatchEffect
<1>7. /\ started \in BOOLEAN /\ hooked \in SUBSET Instance
      /\ \A y \in hooked : netId[y] # 0
      /\ started => \A y \in Instance \ Hidden :
                       tree.parent[y] \in hooked \cup {game} => y \in hooked
      /\ ~started => hooked = {} /\ \A y \in Instance : netId[y] = 0
  BY <1>5 DEF HookInv
<1> HIDE DEF W
<1>8. TreeInv'
  <2>1. IsTree(tree', Instance) /\ tree'.parent[game] = Nil
    BY <1>1, <1>2
  <2>2. Instance' = Instance
    BY DEF Instance
  <2>3. QED BY <1>1, <1>2 DEF TreeInv, IsTree, Tree
<1>9. HookInv'
  <2>1. hooked' \in SUBSET Instance /\ \A y \in hooked' : netId'[y] # 0
    BY <1>4, <1>6, <1>7
  <2>2. ASSUME started, NEW k \in Instance \ Hidden, T.parent[k] \in hooked' \cup {game}
        PROVE  k \in hooked'
    <3>1. CASE T.parent[k] \in W
      BY <1>4, <1>6, <3>1
    <3>2. CASE T.parent[k] \in hooked \cup {game} /\ (k # x \/ x \in tree.dead)
      <4>1. T.parent[k] = tree.parent[k]
        BY <1>1, <3>2
      <4>2. QED BY <1>6, <1>7, <2>2, <3>2, <4>1
    <3>3. CASE T.parent[k] \in hooked \cup {game} /\ k = x /\ x \notin tree.dead
      <4>1. Watched(p)
        BY <1>1, <2>2, <3>3 DEF Watched
      <4>2. QED BY <1>1, <1>4, <1>6, <3>3, <4>1
    <3>4. QED BY <1>6, <2>2, <3>1, <3>2, <3>3
  <2>3. ASSUME ~started PROVE hooked' = {} /\ \A y \in Instance : netId'[y] = 0
    <3>1. ~Watched(p)
      BY <1>7, <2>3 DEF Watched
    <3>2. QED BY <1>4, <1>6, <1>7, <2>3, <3>1
  <2>4. QED BY <1>2, <1>7, <2>1, <2>2, <2>3 DEF HookInv
<1>10. ConnInv'
  <2>1. /\ status \in [Conns -> {"new", "open", "closed"}]
        /\ ~started => \A c \in Conns : status[c] = "new"
        /\ \A c \in Conns :
              /\ status[c] = "new" => /\ netId[c] = 0 /\ tree.parent[c] = Nil
                                      /\ c \notin tree.dead
              /\ tree.parent[c] # Nil => status[c] = "open" /\ netId[c] # 0
              /\ status[c] = "open" /\ netId[c] # 0 =>
                    tree.parent[c] = Players \/ c \in tree.dead
    BY <1>5 DEF ConnInv
  <2>2. status' \in [Conns -> {"new", "open", "closed"}]
    BY <1>3, <2>1
  <2>3. \A c \in Conns \ {x} : status'[c] = status[c]
    BY <1>3, <2>1
  <2>4. ~started => status' = status
    <3>1. ~started => ~Watched(p)
      BY <1>7 DEF Watched
    <3>2. QED BY <1>3, <3>1
  <2>5. \A c \in Conns \ {x} : tree.parent[c] = Nil => netId'[c] = netId[c]
    <3>1. \A c \in Conns \ {x} : tree.parent[c] = Nil => c \notin W
      BY <1>1, <1>4
    <3>2. QED BY <1>6, <3>1
  <2>6. ASSUME NEW c \in Conns \ {x}
        PROVE  /\ status'[c] = "new" => /\ netId'[c] = 0 /\ tree'.parent[c] = Nil
                                        /\ c \notin tree'.dead
               /\ tree'.parent[c] # Nil => status'[c] = "open" /\ netId'[c] # 0
               /\ status'[c] = "open" /\ netId'[c] # 0 =>
                     tree'.parent[c] = Players \/ c \in tree'.dead
    <3>1. tree'.parent[c] = tree.parent[c] /\ tree'.dead = tree.dead
      BY <1>1, <1>2
    <3>2. netId[c] # 0 => netId'[c] # 0
      BY <1>6
    <3>3. QED BY <2>1, <2>3, <2>5, <3>1, <3>2
  <2>7. ASSUME x \in Conns
        PROVE  /\ status'[x] = "open" /\ netId'[x] # 0
               /\ tree'.parent[x] = Players
    <3>1. p = Players /\ Watched(p) /\ status[x] = "new" /\ status'[x] = "open"
      BY <1>3, <2>1, <2>7
    <3>2. x \notin tree.dead
      BY <2>1, <2>7, <3>1
    <3>3. QED BY <1>1, <1>2, <1>4, <1>6, <3>1, <3>2
  <2>8. \A c \in Conns :
           /\ status'[c] = "new" => /\ netId'[c] = 0 /\ tree'.parent[c] = Nil
                                    /\ c \notin tree'.dead
           /\ tree'.parent[c] # Nil => status'[c] = "open" /\ netId'[c] # 0
           /\ status'[c] = "open" /\ netId'[c] # 0 =>
                 tree'.parent[c] = Players \/ c \in tree'.dead
    BY <2>6, <2>7
  <2>9. ~started' => \A c \in Conns : status'[c] = "new"
    BY <1>2, <2>1, <2>4
  <2>10. QED BY <2>2, <2>8, <2>9 DEF ConnInv
<1>11. ASSUME SightInv, netId[x] # 0 => Watched(p) PROVE SightInv'
  <2>1. /\ \A y \in Instance : netId[y] # 0 => y \in hooked \/ y \in tree.dead
        /\ \A y \in hooked : tree.parent[y] \in hooked \cup {game}
        /\ \A y \in Hidden : netId[y] = 0
    BY <1>11 DEF SightInv
  <2>2. \A y \in Instance : netId'[y] # 0 => y \in hooked' \/ y \in tree'.dead
    BY <1>1, <1>2, <1>6, <2>1
  <2>3. ASSUME NEW y \in hooked' PROVE tree'.parent[y] \in hooked' \cup {game}
    <3>1. CASE y \in W /\ y # x
      BY <1>2, <1>4, <1>6, <3>1
    <3>2. CASE y \in hooked /\ (y # x \/ x \in tree.dead)
      BY <1>1, <1>2, <1>6, <1>7, <2>1, <3>2
    <3>3. CASE y = x /\ x \notin tree.dead
      <4>1. Watched(p)
        <5>1. CASE x \in W
          BY <1>4, <5>1
        <5>2. CASE x \in hooked
          BY <1>7, <1>11, <5>2
        <5>3. QED BY <1>6, <3>3, <5>1, <5>2
      <4>2. QED BY <1>1, <1>2, <1>6, <3>3, <4>1 DEF Watched
    <3>4. CASE y = x /\ y \in W
      BY <1>1, <1>4, <3>3, <3>4
    <3>5. QED BY <1>6, <3>1, <3>2, <3>3, <3>4
  <2>4. \A y \in Hidden : netId'[y] = 0
    BY <1>4, <1>6, <2>1
  <2>5. QED BY <2>2, <2>3, <2>4 DEF SightInv
<1>12. QED BY <1>6, <1>8, <1>9, <1>10, <1>11 DEF ServerInv

\* Start watches what is below game and not hidden.
LEMMA StartKeeps ==
    ASSUME ServerInv, Start
    PROVE  /\ ServerInv'
           /\ \A y \in Instance : netId[y] # 0 => netId'[y] = netId[y]
           /\ SightInv => SightInv'
<1> USE InstanceFacts
<1>0. IsTree(tree, Instance) /\ game \notin Hidden
  BY DEF ServerInv, TreeInv
<1>1. PICK order \in Seq(Instance) : order = Tail(Walk(tree, game, Hidden)) /\ IsInjective(order)
  <2>1. /\ Tail(Walk(tree, game, Hidden)) \in Seq(Instance)
        /\ IsInjective(Tail(Walk(tree, game, Hidden)))
    BY <1>0, WalkByParents
  <2>2. QED BY <2>1
<1> DEFINE W == ToSet(order)
<1>2. /\ W \subseteq Instance \ (Hidden \cup {game})
      /\ \A y \in W : tree.parent[y] \in W \cup {game}
      /\ \A k \in Instance \ Hidden : tree.parent[k] \in W \cup {game} => k \in W
  <2>1. PICK V : V = ToSet(Walk(tree, game, Hidden))
    OBVIOUS
  <2>2. /\ W = V \ {game} /\ V \subseteq Instance \ Hidden /\ game \in V
        /\ \A y \in V : y # game => tree.parent[y] \in V
        /\ \A k \in Instance \ Hidden : tree.parent[k] \in V => k \in V
        /\ tree.parent[game] = Nil
    BY <1>1, <2>1, WalkByParents DEF ServerInv, TreeInv
  <2>3. \A k \in Instance : tree.parent[k] \in V => k # game
    BY <2>2
  <2> HIDE DEF W
  <2>4. QED BY <2>2, <2>3
<1>3. /\ ~started /\ started' = TRUE /\ tree' = tree /\ status' = status /\ Watch(order)
  BY <1>1 DEF Start
<1>4. TreeInv /\ IdInv /\ HookInv /\ ConnInv
  BY DEF ServerInv
<1>5. /\ IdInv' /\ hooked' = hooked \cup W
      /\ \A y \in Instance : netId[y] # 0 => netId'[y] = netId[y]
      /\ \A y \in Instance \ W : netId'[y] = netId[y]
      /\ \A y \in W : netId'[y] # 0
  BY <1>1, <1>3, <1>4, WatchEffect
<1>6. hooked = {} /\ \A y \in Instance : netId[y] = 0
  BY <1>3, <1>4 DEF HookInv
<1> HIDE DEF W
<1>7. TreeInv'
  BY <1>3, <1>4 DEF TreeInv, IsTree, Tree
<1>8. HookInv'
  BY <1>2, <1>3, <1>5, <1>6 DEF HookInv
<1>9. ConnInv'
  <2>1. \A c \in Conns : status[c] = "new" /\ tree.parent[c] = Nil /\ c \notin tree.dead
    BY <1>3, <1>4 DEF ConnInv
  <2>2. \A c \in Conns : c \notin W
    BY <1>2, <2>1
  <2>3. \A c \in Conns : netId'[c] = 0
    BY <1>5, <1>6, <2>2
  <2>4. QED BY <1>3, <1>4, <2>1, <2>3 DEF ConnInv
<1>10. SightInv'
  <2>1. \A y \in Instance : netId'[y] # 0 => y \in hooked'
    BY <1>5, <1>6
  <2>2. \A y \in hooked' : tree'.parent[y] \in hooked' \cup {game}
    BY <1>2, <1>3, <1>5, <1>6
  <2>3. \A y \in Hidden : netId'[y] = 0
    BY <1>2, <1>5, <1>6
  <2>4. QED BY <2>1, <2>2, <2>3 DEF SightInv
<1>11. QED BY <1>5, <1>7, <1>8, <1>9, <1>10 DEF ServerInv

\* An instance that is alive is destroyed with all below it; a connection whose
\* Player that is may close.
Destroyed(x) ==
    /\ x \notin tree.dead /\ tree' = Destroy(tree, x)
    /\ hooked' = hooked \ Subtree(tree, x)
    /\ netId' = netId /\ nextNetId' = nextNetId /\ started' = started
    /\ x \in Conns => netId[x] # 0
    /\ \/ status' = status
       \/ x \in Conns /\ status' = [status EXCEPT ![x] = "closed"]

LEMMA DestroyedKeeps ==
    ASSUME ServerInv, NEW x \in Instance \ {game}, Destroyed(x)
    PROVE  ServerInv' /\ (SightInv => SightInv')
<1> USE InstanceFacts
<1>1. TreeInv /\ IdInv /\ HookInv /\ ConnInv
  BY DEF ServerInv
<1>2. PICK D \in SUBSET Instance :
         /\ D = Subtree(tree, x) /\ x \in D
         /\ \A y \in D : y # x => tree.parent[y] \in D
         /\ \A k \in Instance : tree.parent[k] \in D => k \in D
  BY <1>1, SubtreeProperties DEF TreeInv
<1>3. PICK U : U = Destroy(tree, x)
  OBVIOUS
<1>4. /\ IsTree(U, Instance) /\ U.dead = tree.dead \cup D
      /\ U.parent = [y \in Instance |-> IF y \in D THEN Nil ELSE tree.parent[y]]
  <2>1. x \notin tree.dead /\ IsTree(tree, Instance)
    BY <1>1 DEF Destroyed, TreeInv
  <2>2. QED BY <1>2, <1>3, <2>1, DestroyProperties
<1>5. /\ \A y \in D : U.parent[y] = Nil
      /\ \A y \in Instance \ D : U.parent[y] = tree.parent[y]
  BY <1>4
<1>6. /\ tree' = U /\ hooked' = hooked \ D
      /\ netId' = netId /\ nextNetId' = nextNetId /\ started' = started
      /\ x \in Conns => netId[x] # 0
      /\ \/ status' = status
         \/ x \in Conns /\ status' = [status EXCEPT ![x] = "closed"]
  BY <1>2, <1>3 DEF Destroyed
<1>7. TreeInv'
  <2>1. U.parent[game] = Nil
    BY <1>1, <1>5 DEF TreeInv
  <2>2. QED BY <1>4, <1>6, <2>1 DEF TreeInv, IsTree, Tree
<1>8. IdInv'
  BY <1>1, <1>6 DEF IdInv
<1>9. /\ started \in BOOLEAN /\ hooked \in SUBSET Instance
      /\ \A y \in hooked : netId[y] # 0
      /\ started => \A y \in Instance \ Hidden :
                       tree.parent[y] \in hooked \cup {game} => y \in hooked
      /\ ~started => hooked = {} /\ \A y \in Instance : netId[y] = 0
  BY <1>1 DEF HookInv
<1>10. HookInv'
  <2>1. ASSUME started, NEW k \in Instance \ Hidden, U.parent[k] \in hooked' \cup {game}
        PROVE  k \in hooked'
    <3>1. k \notin D
      BY <1>5, <1>6, <1>9, <2>1
    <3>2. QED BY <1>5, <1>6, <1>9, <2>1, <3>1
  <2>2. hooked' \in SUBSET Instance /\ \A y \in hooked' : netId'[y] # 0
    BY <1>6, <1>9
  <2>3. QED BY <1>6, <1>9, <2>1, <2>2 DEF HookInv
<1>11. /\ status \in [Conns -> {"new", "open", "closed"}]
       /\ ~started => \A c \in Conns : status[c] = "new"
       /\ \A c \in Conns :
             /\ status[c] = "new" => /\ netId[c] = 0 /\ tree.parent[c] = Nil
                                     /\ c \notin tree.dead
             /\ tree.parent[c] # Nil => status[c] = "open" /\ netId[c] # 0
             /\ status[c] = "open" /\ netId[c] # 0 =>
                   tree.parent[c] = Players \/ c \in tree.dead
  BY <1>1 DEF ConnInv
<1>12. ConnInv'
  <2>1. /\ status' \in [Conns -> {"new", "open", "closed"}]
        /\ \A c \in Conns \ {x} : status'[c] = status[c]
        /\ x \in Conns => status'[x] = status[x] \/ status'[x] = "closed"
    BY <1>6, <1>11
  <2>2. ~started => status' = status
    BY <1>6, <1>9
  <2>3. ASSUME NEW c \in Conns
        PROVE  /\ status'[c] = "new" => /\ netId'[c] = 0 /\ tree'.parent[c] = Nil
                                        /\ c \notin tree'.dead
               /\ tree'.parent[c] # Nil => status'[c] = "open" /\ netId'[c] # 0
               /\ status'[c] = "open" /\ netId'[c] # 0 =>
                     tree'.parent[c] = Players \/ c \in tree'.dead
    <3>1. CASE c \in D
      <4>1. tree'.parent[c] = Nil /\ c \in tree'.dead
        BY <1>4, <1>5, <1>6, <3>1
      <4>2. status'[c] # "new"
        <5>1. CASE c = x
          BY <1>6, <1>11, <2>1, <5>1
        <5>2. CASE c # x
          BY <1>2, <1>11, <2>1, <3>1, <5>2
        <5>3. QED BY <5>1, <5>2
      <4>3. QED BY <4>1, <4>2
    <3>2. CASE c \notin D
      <4>1. tree'.parent[c] = tree.parent[c] /\ (c \in tree'.dead <=> c \in tree.dead)
        BY <1>4, <1>5, <1>6, <3>2
      <4>2. c # x /\ status'[c] = status[c] /\ netId'[c] = netId[c]
        BY <1>2, <1>6, <2>1, <3>2
      <4>3. QED BY <1>11, <4>1, <4>2
    <3>3. QED BY <3>1, <3>2
  <2>4. QED BY <1>6, <1>11, <2>1, <2>2, <2>3 DEF ConnInv
<1>13. ASSUME SightInv PROVE SightInv'
  <2>1. /\ \A y \in Instance : netId[y] # 0 => y \in hooked \/ y \in tree.dead
        /\ \A y \in hooked : tree.parent[y] \in hooked \cup {game}
        /\ \A y \in Hidden : netId[y] = 0
    BY <1>13 DEF SightInv
  <2>2. \A y \in Instance : netId'[y] # 0 => y \in hooked' \/ y \in tree'.dead
    BY <1>4, <1>6, <2>1
  <2>3. ASSUME NEW y \in hooked' PROVE tree'.parent[y] \in hooked' \cup {game}
    <3>1. y \in hooked /\ y \notin D /\ y \in Instance
      BY <1>6, <1>9
    <3>2. tree'.parent[y] = tree.parent[y] /\ tree.parent[y] \notin D
      BY <1>2, <1>5, <1>6, <3>1
    <3>3. QED BY <1>6, <2>1, <3>1, <3>2
  <2>4. \A y \in Hidden : netId'[y] = 0
    BY <1>6, <2>1
  <2>5. QED BY <2>2, <2>3, <2>4 DEF SightInv
<1>14. QED BY <1>7, <1>8, <1>10, <1>12, <1>13 DEF ServerInv

\* Nothing of the tree changes; a connection may open without a Player, or close
\* when its Player is nowhere.
LEMMA StillKeeps ==
    ASSUME ServerInv, UNCHANGED <<started, tree, netId, hooked, nextNetId>>,
           \/ status' = status
           \/ \E c \in Conns : /\ tree.parent[c] = Nil
                               /\ \/ /\ status[c] = "new" /\ started
                                     /\ status' = [status EXCEPT ![c] = "open"]
                                  \/ /\ status[c] = "open"
                                     /\ status' = [status EXCEPT ![c] = "closed"]
    PROVE  ServerInv' /\ (SightInv => SightInv')
<1> USE InstanceFacts
<1>1. TreeInv /\ IdInv /\ HookInv /\ ConnInv
  BY DEF ServerInv
<1>2. TreeInv'
  BY <1>1 DEF TreeInv, IsTree, Tree
<1>3. IdInv'
  BY <1>1 DEF IdInv
<1>4. HookInv'
  BY <1>1 DEF HookInv
<1>5. ConnInv'
  <2>1. CASE status' = status
    BY <1>1, <2>1 DEF ConnInv
  <2>2. ASSUME NEW c \in Conns, tree.parent[c] = Nil,
               \/ /\ status[c] = "new" /\ started
                  /\ status' = [status EXCEPT ![c] = "open"]
               \/ /\ status[c] = "open"
                  /\ status' = [status EXCEPT ![c] = "closed"]
        PROVE  ConnInv'
    BY <1>1, <2>2 DEF ConnInv
  <2>3. QED BY <2>1, <2>2
<1>6. SightInv => SightInv'
  BY DEF SightInv
<1>7. QED BY <1>2, <1>3, <1>4, <1>5, <1>6 DEF ServerInv

\* A part that a script moves is Moved.
LEMMA ScriptMoves ==
    ASSUME ServerInv, NEW x \in Parts, NEW p \in Targets, ScriptSetParent(x, p)
    PROVE  /\ x \in Instance \ Hidden /\ x # game /\ x \notin Conns /\ p \in Instance \cup {Nil}
           /\ \E T, order : /\ Moved(T, order, x, p)
                            /\ SendToAll(Added(T, name, netId', order))
<1> USE InstanceFacts
<1>1. IsTree(tree, Instance) /\ p \in Instance \cup {Nil}
  BY ServerBounds DEF ServerInv, TreeInv
<1>2. PICK T : T = SetParent(tree, x, p)
  OBVIOUS
<1>3. PICK order : order = Discovered(T, x, p)
  OBVIOUS
<1>4. p \notin Subtree(tree, x)
  <2>1. Subtree(tree, x) \subseteq Instance
    BY <1>1, SubtreeProperties
  <2>2. QED BY <2>1 DEF ScriptSetParent
<1>5. x \in Instance \ Hidden /\ x # game /\ x \notin Conns
  OBVIOUS
<1>6. Moved(T, order, x, p) /\ SendToAll(Added(T, name, netId', order))
  BY <1>2, <1>3, <1>4, <1>5 DEF ScriptSetParent, Moved
<1>7. QED BY <1>1, <1>5, <1>6

\* What happens to the server's instances when c is accepted: its Player is Moved
\* to Players, or nothing without a Players service.
LEMMA ConnectMoves ==
    ASSUME ServerInv, NEW c \in Conns, Connect(c)
    PROVE  /\ started /\ status[c] = "new" /\ started' = started
           /\ status' = [status EXCEPT ![c] = "open"]
           /\ c \in Instance \ Hidden /\ c # game /\ c \notin tree.dead
           /\ tree.parent[c] = Nil /\ netId[c] = 0
           /\ PlayersService # Players =>
                 /\ UNCHANGED <<tree, netId, hooked, nextNetId>>
                 /\ chan' = [d \in Conns |->
                       IF d = c THEN Added(tree, name, netId', <<>>) \o Greeting(tree, netId', Nil)
                       ELSE IF d \in Open THEN chan[d] \o Added(tree, name, netId', <<>>)
                       ELSE chan[d]]
           /\ PlayersService = Players => \E T, order :
                 /\ Players \in hooked /\ Moved(T, order, c, Players)
                 /\ chan' = [d \in Conns |->
                       IF d = c THEN Added(T, name, netId', order) \o Greeting(T, netId', c)
                       ELSE IF d \in Open THEN chan[d] \o Added(T, name, netId', order)
                       ELSE chan[d]]
<1> USE InstanceFacts
<1>1. IdInv /\ HookInv /\ ConnInv /\ IsTree(tree, Instance) /\ tree.parent[game] = Nil
  BY DEF ServerInv, TreeInv
<1>2. /\ started /\ status[c] = "new" /\ started' = started
      /\ status' = [status EXCEPT ![c] = "open"]
      /\ c \in Instance \ Hidden /\ c # game
  BY DEF Connect
<1>3. tree.parent[c] = Nil /\ netId[c] = 0 /\ c \notin tree.dead
  BY <1>1, <1>2 DEF ConnInv
<1>4. ASSUME PlayersService # Players
      PROVE  /\ UNCHANGED <<tree, netId, hooked, nextNetId>>
             /\ chan' = [d \in Conns |->
                   IF d = c THEN Added(tree, name, netId', <<>>) \o Greeting(tree, netId', Nil)
                   ELSE IF d \in Open THEN chan[d] \o Added(tree, name, netId', <<>>)
                   ELSE chan[d]]
  <2>1. tree' = tree /\ Watch(<<>>)
    BY <1>4 DEF Connect
  <2>2. <<>> \in Seq(Instance) /\ IsInjective(<<>>) /\ ToSet(<<>>) = {}
    BY EmptySeq DEF IsInjective, ToSet
  <2>3. hooked' = hooked /\ \A y \in Instance : netId'[y] = netId[y]
    BY <1>1, <2>1, <2>2, WatchEffect
  <2>4. KeepIn(<<>>, {x \in Instance : netId[x] = 0}) = <<>>
    <3>1. PICK none : none = {x \in Instance : netId[x] = 0}
      OBVIOUS
    <3>2. PICK empty \in Seq(Instance) : empty = <<>>
      BY <2>2
    <3>3. /\ KeepIn(empty, none) \in Seq(Instance)
          /\ ToSet(KeepIn(empty, none)) = ToSet(empty) \cap none
      BY KeepDistinct
    <3>4. KeepIn(empty, none) = <<>>
      BY <2>2, <3>2, <3>3, ToSetEmpty
    <3>5. QED BY <3>1, <3>2, <3>4
  <2>5. nextNetId' = nextNetId + Len(<<>>) /\ Len(<<>>) = 0
    BY <2>1, <2>4 DEF Watch
  <2>6. netId \in [Instance -> Nat] /\ nextNetId \in Nat
    BY <1>1 DEF IdInv
  <2>7. netId' = [y \in Instance |-> netId'[y]]
    BY <2>1 DEF Watch
  <2>8. netId' = netId /\ nextNetId' = nextNetId
    BY <2>3, <2>5, <2>6, <2>7
  <2>9. chan' = [d \in Conns |->
           IF d = c THEN Added(tree, name, netId', <<>>) \o Greeting(tree, netId', Nil)
           ELSE IF d \in Open THEN chan[d] \o Added(tree, name, netId', <<>>)
           ELSE chan[d]]
    BY <1>4 DEF Connect
  <2>10. QED BY <2>1, <2>3, <2>8, <2>9
<1>5. ASSUME PlayersService = Players
      PROVE  \E T, order :
                /\ Players \in hooked /\ Moved(T, order, c, Players)
                /\ chan' = [d \in Conns |->
                      IF d = c THEN Added(T, name, netId', order) \o Greeting(T, netId', c)
                      ELSE IF d \in Open THEN chan[d] \o Added(T, name, netId', order)
                      ELSE chan[d]]
  <2>1. PICK T : T = SetParent(tree, c, Players)
    OBVIOUS
  <2>2. PICK order : order = Discovered(T, c, Players)
    OBVIOUS
  <2>3. c # Nil
    OBVIOUS
  <2>4. /\ tree' = T /\ Watch(order)
        /\ chan' = [d \in Conns |->
              IF d = c THEN Added(T, name, netId', order) \o Greeting(T, netId', c)
              ELSE IF d \in Open THEN chan[d] \o Added(T, name, netId', order)
              ELSE chan[d]]
    BY <1>5, <2>1, <2>2, <2>3 DEF Connect
  <2>5. tree.parent[Players] = game
    <3>1. PICK hits \in Seq(Instance) :
             /\ hits = KeepIn(tree.kids[game], {k \in DOMAIN name : name[k] = Players})
             /\ ToSet(hits) \subseteq ToSet(tree.kids[game])
      <4>1. PICK kids \in Seq(Instance) : kids = tree.kids[game]
        BY <1>1 DEF IsTree, Tree
      <4>2. PICK called : called = {k \in DOMAIN name : name[k] = Players}
        OBVIOUS
      <4>3. /\ KeepIn(kids, called) \in Seq(Instance)
            /\ ToSet(KeepIn(kids, called)) = ToSet(kids) \cap called
        BY KeepDistinct
      <4>4. QED BY <4>1, <4>2, <4>3
    <3>2. PlayersService = IF hits = <<>> THEN Nil ELSE Head(hits)
      BY <3>1 DEF PlayersService, FindFirstChild
    <3>3. hits # <<>> /\ Head(hits) = Players
      BY <1>5, <3>2
    <3>4. Players \in ToSet(tree.kids[game])
      BY <3>1, <3>3, HeadAndTail
    <3>5. QED BY <1>1, <3>4 DEF IsTree
  <2>6. Players \in hooked /\ Watched(Players)
    BY <1>1, <1>2, <2>5 DEF HookInv, Watched
  <2>7. Players \notin Subtree(tree, c)
    <3>1. PICK D \in SUBSET Instance : /\ D = Subtree(tree, c)
                                       /\ \A y \in D : y # c => tree.parent[y] \in D
      BY <1>1, SubtreeProperties
    <3>2. game \notin D
      BY <1>1, <1>2, <3>1
    <3>3. QED BY <2>5, <3>1, <3>2
  <2>8. Moved(T, order, c, Players)
    BY <1>2, <2>1, <2>2, <2>4, <2>6, <2>7 DEF Moved
  <2>9. QED BY <2>4, <2>6, <2>8
<1>6. QED BY <1>2, <1>3, <1>4, <1>5

\* Every step of the server keeps the invariant and the ids that were given out;
\* and what has an id stays in sight, unless scripts move it away.
LEMMA ServerStep ==
    ASSUME ServerInv, ServerNext
    PROVE  /\ ServerInv'
           /\ \A y \in Instance : netId[y] # 0 => netId'[y] = netId[y]
           /\ SightInv /\ "leave" \notin Habits => SightInv'
<1> USE InstanceFacts
<1>1. TreeInv /\ IdInv /\ HookInv /\ ConnInv
  BY DEF ServerInv
<1>2. IsTree(tree, Instance) /\ tree.parent[game] = Nil
  BY <1>1 DEF TreeInv
<1>3. Targets \subseteq Instance \cup {Nil} /\ Doomed \subseteq Instance \ {game}
  BY ServerBounds
<1>4. CASE Start
  BY <1>4, StartKeeps
<1>5. ASSUME NEW x \in Parts, NEW p \in Targets, ScriptSetParent(x, p)
      PROVE  /\ ServerInv'
             /\ \A y \in Instance : netId[y] # 0 => netId'[y] = netId[y]
             /\ SightInv /\ "leave" \notin Habits => SightInv'
  <2>1. PICK T, order : Moved(T, order, x, p)
    BY <1>5, ScriptMoves
  <2>2. x \in Instance \ Hidden /\ x # game /\ p \in Instance \cup {Nil}
    BY <1>5, ScriptMoves
  <2>3. "leave" \notin Habits => (netId[x] # 0 => Watched(p))
    BY <1>5 DEF ScriptSetParent, Leaves
  <2>4. QED BY <2>1, <2>2, <2>3, MovedKeeps
<1>6. ASSUME NEW x \in Instance \ {game}, x \in Conns => netId[x] # 0,
             DestroyInstance(x), started' = started,
             status' = status \/ (x \in Conns /\ status[x] = "open" /\
                                  status' = [status EXCEPT ![x] = "closed"])
      PROVE  ServerInv' /\ (SightInv => SightInv') /\ netId' = netId
  <2>1. CASE x \in tree.dead
    <3>1. tree' = tree /\ hooked' = hooked
      <4>1. ToSet(<<>>) = {}
        BY DEF ToSet
      <4>2. QED BY <1>6, <2>1, <4>1 DEF DestroyInstance, Destroy, Reset
    <3>2. netId' = netId /\ nextNetId' = nextNetId
      BY <1>6 DEF DestroyInstance
    <3>3. tree.parent[x] = Nil
      BY <1>2, <2>1 DEF IsTree
    <3>4. QED BY <1>6, <3>1, <3>2, <3>3, StillKeeps
  <2>2. CASE x \notin tree.dead
    <3>1. ToSet(Walk(tree, x, {})) = Subtree(tree, x)
      BY DEF Subtree
    <3>2. Destroyed(x)
      BY <1>6, <2>2, <3>1 DEF DestroyInstance, Reset, Destroyed
    <3>3. QED BY <3>2, DestroyedKeeps DEF Destroyed
  <2>3. QED BY <2>1, <2>2
<1>7. ASSUME NEW x \in Doomed, ScriptDestroy(x)
      PROVE  ServerInv' /\ (SightInv => SightInv') /\ netId' = netId
  BY <1>3, <1>6, <1>7 DEF ScriptDestroy
<1>8. ASSUME NEW x \in Parts, \/ \E n \in Names : ScriptSetName(x, n)
                              \/ \E p \in Owners \cup {Nil} : ScriptSetNetworkOwner(x, p)
      PROVE  ServerInv' /\ (SightInv => SightInv') /\ netId' = netId
  <2>1. UNCHANGED <<started, tree, netId, hooked, nextNetId, status>>
    BY <1>8 DEF ScriptSetName, ScriptSetNetworkOwner
  <2>2. QED BY <2>1, StillKeeps
<1>9. ASSUME NEW c \in Conns, Connect(c)
      PROVE  /\ ServerInv'
             /\ \A y \in Instance : netId[y] # 0 => netId'[y] = netId[y]
             /\ SightInv => SightInv'
  <2>1. /\ started /\ status[c] = "new" /\ started' = started
        /\ status' = [status EXCEPT ![c] = "open"]
        /\ c \in Instance \ Hidden /\ c # game
        /\ tree.parent[c] = Nil /\ netId[c] = 0
    BY <1>9, ConnectMoves
  <2>2. CASE PlayersService # Players
    <3>1. UNCHANGED <<tree, netId, hooked, nextNetId>>
      BY <1>9, <2>2, ConnectMoves
    <3>2. QED BY <2>1, <3>1, StillKeeps
  <2>3. CASE PlayersService = Players
    <3>1. PICK T, order : Moved(T, order, c, Players)
      BY <1>9, <2>3, ConnectMoves
    <3>2. QED BY <2>1, <3>1, MovedKeeps
  <2>4. QED BY <2>2, <2>3
<1>10. ASSUME NEW c \in Conns, Disconnect(c)
      PROVE  ServerInv' /\ (SightInv => SightInv') /\ netId' = netId
  <2>1. /\ status[c] = "open" /\ status' = [status EXCEPT ![c] = "closed"]
        /\ netId' = netId /\ nextNetId' = nextNetId /\ started' = started
        /\ c \in Instance \ {game}
    BY <1>10 DEF Disconnect
  <2>2. CASE netId[c] = 0 \/ c \in tree.dead
    <3>1. tree' = tree
      BY <1>10, <2>2 DEF Disconnect, Destroy
    <3>2. hooked' = hooked
      <4>1. ToSet(<<>>) = {}
        BY DEF ToSet
      <4>2. QED BY <1>10, <2>2, <4>1 DEF Disconnect, Reset
    <3>3. tree.parent[c] = Nil
      BY <1>1, <1>2, <2>2 DEF IsTree, ConnInv
    <3>4. QED BY <2>1, <3>1, <3>2, <3>3, StillKeeps
  <2>3. CASE ~(netId[c] = 0 \/ c \in tree.dead)
    <3>1. ToSet(Walk(tree, c, {})) = Subtree(tree, c)
      BY DEF Subtree
    <3>2. Destroyed(c)
      BY <1>10, <2>1, <2>3, <3>1 DEF Disconnect, Reset, Destroyed
    <3>3. QED BY <2>1, <3>2, DestroyedKeeps
  <2>4. QED BY <2>2, <2>3
<1>11. QED BY <1>4, <1>5, <1>7, <1>8, <1>9, <1>10 DEF ServerNext

-----------------------------------------------------------------------------
(* The theorems. *)

LEMMA InvNext == ServerInv /\ [Next]_vars => ServerInv'
<1> SUFFICES ASSUME ServerInv, [Next]_vars PROVE ServerInv'
  OBVIOUS
<1>1. CASE ServerNext
  BY <1>1, ServerStep
<1>2. CASE UNCHANGED serverVars
  BY <1>2, StillKeeps DEF serverVars
<1>3. QED BY <1>1, <1>2 DEF Next, Deliver, vars

LEMMA InvAlways == Spec => []ServerInv
<1>1. Init => ServerInv
  BY InvInit DEF Init
<1>2. QED BY <1>1, InvNext, PTL DEF Spec

\* No two instances ever have the same id, the destroyed ones included, however
\* the tree is moved about, shown, hidden and destroyed (AllocateNetId).
THEOREM IdsAreUnique == Spec => []NetIdsUnique
<1>1. ServerInv => NetIdsUnique
  BY DEF ServerInv, IdInv, NetIdsUnique
<1>2. QED BY <1>1, InvAlways, PTL

\* An instance keeps its id for life: being watched again, moved or destroyed
\* never renumbers it (WatchAndMaybeBroadcast).
THEOREM IdsAreForLife == Spec => NetIdStable
<1> DEFINE Stable == \A x \in Instance : netId[x] # 0 => netId'[x] = netId[x]
<1>1. ServerInv /\ [Next]_vars => Stable
  <2> SUFFICES ASSUME ServerInv, [Next]_vars PROVE Stable
    OBVIOUS
  <2>1. CASE ServerNext
    BY <2>1, ServerStep
  <2>2. CASE UNCHANGED serverVars
    BY <2>2 DEF serverVars
  <2>3. QED BY <2>1, <2>2 DEF Next, Deliver, vars
<1>2. Stable => [Stable]_vars
  OBVIOUS
<1>3. ServerInv /\ [Next]_vars => [Stable]_vars
  BY <1>1, <1>2
<1> HIDE DEF Stable
<1>4. Spec => [][Stable]_vars
  BY <1>3, InvAlways, PTL DEF Spec
<1>5. QED BY <1>4 DEF NetIdStable, Stable

\* After Start, every instance below game that no FilterMode::Server instance
\* hides has its hooks, in whatever order a subtree was built, shown and moved:
\* none of its changes goes unsent (WatchRoot, WatchAndMaybeBroadcast).
THEOREM ShownStaysWatched == Spec => []ShownIsWatched
<1> USE InstanceFacts
<1>1. ASSUME ServerInv PROVE ShownIsWatched
  <2> SUFFICES ASSUME started PROVE Replicated \subseteq hooked
    BY DEF ShownIsWatched
  <2>1. IsTree(tree, Instance) /\ game \notin Hidden
    BY <1>1 DEF ServerInv, TreeInv
  <2>2. PICK S \in SUBSET Instance : S = hooked \cup {game}
    BY <1>1 DEF ServerInv, HookInv
  <2>3. \A k \in Instance \ Hidden : tree.parent[k] \in S => k \in S
    BY <1>1, <2>2 DEF ServerInv, HookInv
  <2>4. ToSet(Walk(tree, game, Hidden)) \subseteq S
    BY <2>1, <2>2, <2>3, WalkByParents
  <2>5. ToSet(Tail(Walk(tree, game, Hidden))) = ToSet(Walk(tree, game, Hidden)) \ {game}
    BY <2>1, WalkByParents
  <2>6. QED BY <2>2, <2>4, <2>5 DEF Replicated
<1>2. QED BY <1>1, InvAlways, PTL

\* A Player is in the tree only while its connection is open, and as long as it
\* is open its Player is in game.Players or was destroyed, whatever happens to
\* the Players service (OnClientConnected, OnClientDisconnected).
THEOREM PlayersAreConnections == Spec => []PlayersMirrorConnections
<1> USE InstanceFacts
<1>1. ASSUME ServerInv PROVE PlayersMirrorConnections
  <2>1. \A c \in Conns : c \in ToSet(tree.kids[Players]) <=> tree.parent[c] = Players
    BY <1>1 DEF ServerInv, TreeInv, IsTree
  <2>2. QED BY <1>1, <2>1 DEF ServerInv, ConnInv, PlayersMirrorConnections
<1>2. QED BY <1>1, InvAlways, PTL

\* As long as scripts do not move what the clients see out of their sight, no
\* packet is ever about an instance below a FilterMode::Server service: none of
\* these even has an id.
THEOREM HiddenStaysOnServer ==
    ASSUME "leave" \notin Habits
    PROVE  Spec => ServerOnlyStays
<1> USE InstanceFacts
<1>1. Init => SightInv
  <2> SUFFICES ASSUME Init PROVE SightInv
    OBVIOUS
  <2>1. \A x \in Instance : netId[x] = 0
    BY DEF Init, ServerInit
  <2>2. hooked = {}
    BY DEF Init, ServerInit
  <2>3. QED BY <2>1, <2>2 DEF SightInv
<1>2. ServerInv /\ SightInv /\ [Next]_vars => SightInv'
  <2> SUFFICES ASSUME ServerInv, SightInv, [Next]_vars PROVE SightInv'
    OBVIOUS
  <2>1. CASE ServerNext
    BY <2>1, ServerStep
  <2>2. CASE UNCHANGED serverVars
    BY <2>2, StillKeeps DEF serverVars
  <2>3. QED BY <2>1, <2>2 DEF Next, Deliver, vars
<1> DEFINE NoneHidden == HiddenIds = {}
<1>3. ServerInv /\ SightInv => NoneHidden
  <2> SUFFICES ASSUME ServerInv, SightInv, NEW h \in Hidden, NEW x \in Subtree(tree, h)
               PROVE  netId[x] = 0
    BY DEF HiddenIds
  <2>1. /\ IsTree(tree, Instance) /\ tree.parent[game] = Nil
        /\ \A y \in tree.dead : tree.parent[y] = Nil
    BY DEF ServerInv, TreeInv, IsTree
  <2>2. hooked \in SUBSET Instance /\ \A y \in hooked : netId[y] # 0
    BY DEF ServerInv, HookInv
  <2>3. PICK D \in SUBSET Instance :
           /\ D = Subtree(tree, h) /\ h \in D
           /\ \A y \in D : y # h => tree.parent[y] \in D
           /\ \A k \in Instance : tree.parent[k] \in D => k \in D
           /\ \A S \in SUBSET Instance :
                 h \in S /\ (\A k \in Instance : tree.parent[k] \in S => k \in S) =>
                    D \subseteq S
    BY <2>1, SubtreeProperties
  <2>4. D \ hooked \in SUBSET Instance /\ h \in D \ hooked
    BY <2>2, <2>3 DEF SightInv
  <2>5. game \notin D
    BY <2>1, <2>3
  <2>6. \A k \in Instance : tree.parent[k] \in D \ hooked => k \in D \ hooked
    BY <2>3, <2>5 DEF SightInv
  <2>7. D \subseteq D \ hooked
    BY <2>3, <2>4, <2>6
  <2>8. x \notin hooked /\ (x = h \/ x \notin tree.dead)
    BY <2>1, <2>3, <2>7
  <2>9. QED BY <2>3, <2>8 DEF SightInv
<1> DEFINE Stays == \A c \in Conns : \A m \in ToSet(Sent(c)) : IdsIn(m) \cap HiddenIds' = {}
<1>4. NoneHidden' => [Stays]_vars
  OBVIOUS
<1> HIDE DEF NoneHidden, Stays
<1>5. Spec => [][Stays]_vars
  BY <1>1, <1>2, <1>3, <1>4, InvAlways, PTL DEF Spec
<1>6. QED BY <1>5 DEF ServerOnlyStays, Stays

\* There are never more ids than instances.
LEMMA IdsBounded ==
    ASSUME IdInv
    PROVE  nextNetId \in 1..MaxNetId + 1 /\ netId \in [Instance -> 0..MaxNetId]
<1> DEFINE S == {x \in Instance : netId[x] # 0}
           m == nextNetId - 1
           f == [x \in S |-> netId[x]]
<1>1. /\ netId \in [Instance -> Nat] /\ nextNetId \in Nat \ {0} /\ m \in Nat
      /\ \A x \in Instance : netId[x] < nextNetId
      /\ \A i \in 1..m : \E x \in Instance : netId[x] = i
  BY DEF IdInv
<1>2. IsFiniteSet(S) /\ Cardinality(S) <= MaxNetId /\ MaxNetId \in Nat
  <2>1. S \in SUBSET Instance
    OBVIOUS
  <2> HIDE DEF S
  <2>2. QED BY <2>1, InstanceFacts, FS_Subset, FS_CardinalityType DEF MaxNetId
<1>3. f \in Surjection(S, 1..m)
  <2>1. f \in [S -> 1..m]
    BY <1>1
  <2>2. \A i \in 1..m : \E x \in S : f[x] = i
    BY <1>1
  <2> HIDE DEF f, S, m
  <2>3. QED BY <2>1, <2>2 DEF Surjection
<1>4. Cardinality(1..m) <= Cardinality(S)
  <2> HIDE DEF f, S, m
  <2>1. QED BY <1>2, <1>3, FS_Surjection
<1>5. Cardinality(1..m) = m
  <2> HIDE DEF m
  <2>1. 1 \in Int /\ m \in Int
    BY <1>1
  <2>2. Cardinality(1..m) = IF 1 > m THEN 0 ELSE m - 1 + 1
    BY <2>1, FS_Interval
  <2>3. QED BY <1>1, <2>2
<1>6. Cardinality(S) \in Nat
  <2> HIDE DEF S
  <2>1. QED BY <1>2, FS_CardinalityType
<1> HIDE DEF S, f
<1>7. m <= MaxNetId
  BY <1>1, <1>2, <1>4, <1>5, <1>6
<1>8. QED BY <1>1, <1>2, <1>7

\* The variables that the other invariants do not speak of.
RestTypes ==
    /\ name \in [Instance -> Instance \cup Names]
    /\ owner \in [Instance -> Conns \cup {Nil}]
    /\ DOMAIN chan = Conns
    /\ ops \in 0..MaxOps

LEMMA RestTypesNext == RestTypes /\ [Next]_vars => RestTypes'
<1> USE InstanceFacts
<1> SUFFICES ASSUME RestTypes, [Next]_vars PROVE RestTypes'
  OBVIOUS
<1>1. /\ name \in [Instance -> Instance \cup Names]
      /\ owner \in [Instance -> Conns \cup {Nil}]
      /\ DOMAIN chan = Conns /\ ops \in 0..MaxOps
  BY DEF RestTypes
<1>2. Owners \subseteq Conns /\ MaxOps \in Nat
  BY ServerBounds
<1>3. ASSUME ScriptOp PROVE ops' \in 0..MaxOps
  BY <1>1, <1>2, <1>3 DEF ScriptOp
<1>4. ASSUME NEW packets, SendToAll(packets) PROVE DOMAIN chan' = Conns
  BY <1>4 DEF SendToAll
<1>5. ASSUME NEW order, Reset(order) PROVE owner' \in [Instance -> Conns \cup {Nil}]
  BY <1>1, <1>5 DEF Reset
<1>6. CASE Start
  BY <1>1, <1>6 DEF Start, RestTypes
<1>7. ASSUME NEW x \in Parts, NEW p \in Targets, ScriptSetParent(x, p) PROVE RestTypes'
  BY <1>1, <1>3, <1>4, <1>7 DEF ScriptSetParent, RestTypes
<1>8. ASSUME NEW x \in Doomed, ScriptDestroy(x) PROVE RestTypes'
  BY <1>1, <1>3, <1>4, <1>5, <1>8 DEF ScriptDestroy, DestroyInstance, RestTypes
<1>9. ASSUME NEW x \in Parts, NEW n \in Names, ScriptSetName(x, n) PROVE RestTypes'
  BY <1>1, <1>3, <1>4, <1>9 DEF ScriptSetName, RestTypes
<1>10. ASSUME NEW x \in Parts, NEW p \in Owners \cup {Nil}, ScriptSetNetworkOwner(x, p)
       PROVE  RestTypes'
  <2>1. p \in Conns \cup {Nil}
    BY <1>2
  <2>2. QED BY <1>1, <1>3, <1>4, <1>10, <2>1 DEF ScriptSetNetworkOwner, RestTypes
<1>11. ASSUME NEW c \in Conns, Connect(c) PROVE RestTypes'
  <2>1. DOMAIN chan' = Conns
    BY <1>11 DEF Connect
  <2>2. QED BY <1>1, <1>11, <2>1 DEF Connect, RestTypes
<1>12. ASSUME NEW c \in Conns, Disconnect(c) PROVE RestTypes'
  <2>1. DOMAIN chan' = Conns
    BY <1>12 DEF Disconnect
  <2>2. QED BY <1>1, <1>5, <1>12, <2>1 DEF Disconnect, RestTypes
<1>13. ASSUME NEW c \in Conns, Deliver(c) PROVE RestTypes'
  BY <1>1, <1>13 DEF Deliver, Poll, serverVars, RestTypes
<1>14. CASE UNCHANGED vars
  BY <1>1, <1>14 DEF vars, serverVars, RestTypes
<1>15. QED BY <1>6, <1>7, <1>8, <1>9, <1>10, <1>11, <1>12, <1>13, <1>14 DEF Next, ServerNext

\* The server's variables keep their types; above all, there are never more ids
\* than instances, so that the counter of AllocateNetId is bounded by what
\* exists and not by what happens.
THEOREM ServerTypes == Spec => []ServerTypeOK
<1> USE InstanceFacts
<1>1. Init => RestTypes
  <2> SUFFICES ASSUME Init PROVE RestTypes
    OBVIOUS
  <2>1. PICK given \in [Parts -> Names] :
           name = [x \in Instance |-> IF x \in Parts THEN given[x] ELSE x]
    BY DEF Init, ServerInit
  <2>2. name \in [Instance -> Instance \cup Names]
    BY <2>1
  <2>3. QED BY <2>2, ServerBounds DEF Init, ServerInit, RestTypes
<1>2. ServerInv /\ RestTypes => ServerTypeOK
  <2> SUFFICES ASSUME ServerInv, RestTypes PROVE ServerTypeOK
    OBVIOUS
  <2>1. tree \in Tree(Instance)
    BY DEF ServerInv, TreeInv, IsTree
  <2>2. QED BY <2>1, IdsBounded DEF ServerInv, HookInv, ConnInv, RestTypes, ServerTypeOK
<1>3. QED BY <1>1, <1>2, RestTypesNext, InvAlways, PTL DEF Spec
=============================================================================
