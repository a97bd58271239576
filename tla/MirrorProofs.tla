----------------------------- MODULE MirrorProofs -----------------------------
(***************************************************************************)
(* Machine-checked proofs about Replication, continued: the clients.  For  *)
(* every number of instances, connections and packets in flight, a client  *)
(* with no packet left to poll mirrors the server.                         *)
(***************************************************************************)
EXTENDS ReplicationProofs

(***************************************************************************)
(* What a client mirrors.                                                  *)
(*                                                                         *)
(* MirrorsAll(v, f, H, par, ids, nm, own, G, lt): the object f[x] of       *)
(* client v stands for instance x, for the instances H the server watches, *)
(* with the parents par, the ids ids, the names nm, the owners own, the    *)
(* destroyed instances G and the order lt of siblings.  H, par and the     *)
(* others need not be those of the server as it is now: packets say what   *)
(* was so when they were sent.                                             *)
(***************************************************************************)

\* What a client is, its flags included.
Views == [tree : Tree(Object), name : [Object -> Instance \cup Names \cup {Nil}],
          cls : [Object -> Object \cup Creatable \cup {Nil}],
          netId : [Object -> 0..MaxNetId], owner : [Object -> Object \cup {Nil}],
          localPlayer : Object \cup {Nil}, synced : BOOLEAN, crashed : BOOLEAN]

\* The objects that packets make.
Made == 1..MaxMade

\* A client that is well.
ClientOK(v) ==
    /\ v \in Views /\ ~v.crashed
    /\ IsTree(v.tree, Object) /\ v.tree.parent[game] = Nil /\ game \notin v.tree.dead
    /\ v.netId[game] = 0
    /\ \A o, q \in Object : v.netId[o] = v.netId[q] /\ v.netId[o] # 0 => o = q
    /\ \A o \in Made : v.cls[o] = Nil <=> v.netId[o] = 0
    /\ \A o \in Made : v.netId[o] = 0 => v.tree.parent[o] = Nil
    /\ \A o, k \in Object : o # game /\ v.netId[o] = 0 => v.tree.parent[k] # o
    /\ \A k \in Object : v.tree.parent[k] \notin v.tree.dead
    /\ \A s \in Service : v.owner[s] = Nil
    /\ \A s \in Service \ v.tree.dead :
          v.tree.parent[s] = game /\ v.name[s] = s /\ v.cls[s] = s

\* Services come first among the children of game, in the order of their creation.
ServicesFirst(T) ==
    \A a \in Service, b \in DOMAIN T.parent : T.parent[a] = game /\ T.parent[b] = game =>
        (Before(T.kids[game], a, b) <=> (b \in Service => Before(Services, a, b)))

\* The object f[x] stands for x: for the instances H, with parents par, ids ids; G are
\* those destroyed.
Mirrors(v, f, H, par, ids, G) ==
    /\ f \in [H \cup {game} -> Object] /\ f[game] = game
    /\ \A x \in H : /\ par[x] \in H \cup {game} /\ ids[x] # 0
                    /\ v.netId[f[x]] = ids[x] /\ f[x] \notin v.tree.dead
                    /\ v.cls[f[x]] = ClassOf(x)
                    /\ v.tree.parent[f[x]] = f[par[x]]
    /\ \A o \in Object : v.netId[o] # 0 =>
          \/ o \notin v.tree.dead /\ \E x \in H : o = f[x]
          \/ o \in v.tree.dead /\ \E x \in G : v.netId[o] = ids[x]
    /\ \A o \in Object, x \in Instance :
          v.netId[o] = ids[x] /\ ids[x] # 0 /\ (o \in Service \/ x \in Service) => o = x
    /\ Service \cap v.tree.dead \subseteq G

\* Objects have the names of their instances; their owners, if any, are the
\* objects of the owners; they stand in the order lt.
Named(v, f, H, nm) == \A x \in H : v.name[f[x]] = nm[x]

Owned(v, f, H, own, ids) ==
    \A x \in H : v.owner[f[x]] # Nil =>
        own[x] \in Conns /\ ids[own[x]] # 0 /\ v.netId[v.owner[f[x]]] = ids[own[x]]

Ordered(v, f, H, par, lt) ==
    \A x, y \in H : par[x] = par[y] =>
        (Before(v.tree.kids[f[par[x]]], f[x], f[y]) <=> <<x, y>> \in lt)

\* What the server says of its instances.
Sane(H, ids, nm, G) ==
    /\ H \subseteq Instance \ {game} /\ G \subseteq Instance /\ H \cap G = {}
    /\ ids \in [Instance -> 0..MaxNetId] /\ ids[game] = 0
    /\ \A x, y \in Instance : ids[x] = ids[y] /\ ids[x] # 0 => x = y
    /\ nm \in [Instance -> Instance \cup Names]
    /\ \A x \in Instance \ Parts : nm[x] = x
    /\ \A x \in Parts : nm[x] \notin Service

\* All of it: what a client that has heard everything is like.
MirrorsAll(v, f, H, par, ids, nm, own, G, lt) ==
    /\ ClientOK(v) /\ ServicesFirst(v.tree)
    /\ Mirrors(v, f, H, par, ids, G)
    /\ Named(v, f, H, nm)
    /\ Owned(v, f, H, own, ids)
    /\ Ordered(v, f, H, par, lt)

\* y, and nothing else, has the parent q now ...
Reparented(H, par, y, q, par2) == par2[y] = q /\ \A k \in H \ {y} : par2[k] = par[k]

\* ... and is the last of its siblings.
MadeLast(K, par2, y, lt, lt2) ==
    \A a, b \in K : par2[a] = par2[b] =>
        (<<a, b>> \in lt2 <=> \/ b = y /\ a # y
                              \/ a # y /\ b # y /\ <<a, b>> \in lt)

\* D is closed under children and has y, but neither game nor q.
Branch(H, par, y, q, D) ==
    y \in D /\ game \notin D /\ q \notin D /\ \A k \in H : par[k] \in D => k \in D

\* The objects of a client are finitely many, and apart from each other.
LEMMA ObjectFacts ==
    /\ IsFiniteSet(Object) /\ Nil \notin Object /\ game \in Object
    /\ Service \subseteq Object /\ Made \subseteq Object /\ game \notin Made
    /\ Service \cap Made = {} /\ Object = {game} \cup Service \cup Made
    /\ MaxMade \in Nat /\ MaxNetId \in Nat
<1>1. IsFiniteSet(Made)
  BY ClientBounds, FS_Interval DEF Made
<1>2. IsFiniteSet({game} \cup Service)
  <2>1. {game} \cup Service \in SUBSET Instance
    BY DEF Instance
  <2>2. QED BY <2>1, InstanceFacts, FS_Subset
<1>3. IsFiniteSet(Object)
  BY <1>1, <1>2, FS_Union DEF Object, Made
<1>4. MaxNetId \in Nat
  BY InstanceFacts, FS_CardinalityType DEF MaxNetId
<1>5. Nil \notin Object
  BY ClientBounds, InstanceFacts DEF Object, Made
<1>6. QED BY <1>3, <1>4, <1>5, ClientBounds DEF Object, Made

\* Different instances have different objects.
LEMMA ImagesDiffer ==
    ASSUME NEW v, ClientOK(v), NEW f, NEW H, NEW par, NEW ids, NEW nm, NEW G,
           Sane(H, ids, nm, G), Mirrors(v, f, H, par, ids, G),
           NEW x \in H \cup {game}, NEW y \in H \cup {game}, f[x] = f[y]
    PROVE  x = y
<1>1. v.netId[game] = 0
  BY DEF ClientOK
<1>2. f[game] = game /\ \A z \in H : ids[z] # 0 /\ v.netId[f[z]] = ids[z]
  BY DEF Mirrors
<1>3. \A a, b \in H : ids[a] = ids[b] => a = b
  BY <1>2 DEF Sane
<1>4. CASE x = game \/ y = game
  BY <1>1, <1>2, <1>4
<1>5. CASE x \in H /\ y \in H
  BY <1>2, <1>3, <1>5
<1>6. QED BY <1>4, <1>5

\* What FindByNetId finds.
LEMMA FindById ==
    ASSUME NEW v, ClientOK(v), NEW id
    PROVE  /\ \A o \in Object : v.netId[o] = id /\ id # 0 => FindByNetId(v, id) = o
           /\ (id = 0 \/ \A o \in Object : v.netId[o] # id) => FindByNetId(v, id) = Nil
           /\ FindByNetId(v, id) \in Object \cup {Nil}
           /\ FindByNetId(v, id) # Nil => /\ FindByNetId(v, id) \in Object /\ id # 0
                                          /\ v.netId[FindByNetId(v, id)] = id
<1> DEFINE hits == {o \in Object : v.netId[o] = id /\ id # 0}
<1>1. \A o, q \in Object : v.netId[o] = v.netId[q] /\ v.netId[o] # 0 => o = q
  BY DEF ClientOK
<1>2. CASE hits = {}
  <2>1. FindByNetId(v, id) = Nil
    BY <1>2 DEF FindByNetId
  <2>2. QED BY <1>2, <2>1
<1>3. ASSUME NEW o \in hits PROVE FindByNetId(v, id) = o
  <2>1. hits = {o}
    BY <1>1, <1>3
  <2>2. FindByNetId(v, id) = CHOOSE q \in {o} : TRUE
    BY <2>1 DEF FindByNetId
  <2>3. QED BY <2>2
<1>4. CASE hits # {}
  <2>1. PICK o \in hits : TRUE
    BY <1>4
  <2>2. FindByNetId(v, id) = o /\ o \in Object /\ v.netId[o] = id /\ id # 0
    BY <1>3, <2>1
  <2>3. QED BY <1>1, <2>2, ObjectFacts
<1>5. QED BY <1>2, <1>4

\* A part of the client's tree is the image of a part of the server's.
LEMMA BelowImage ==
    ASSUME NEW v, ClientOK(v), NEW f, NEW H, NEW par, NEW ids, NEW nm, NEW G,
           Sane(H, ids, nm, G), Mirrors(v, f, H, par, ids, G),
           NEW y \in H, NEW D, y \in D, game \notin D,
           \A k \in H : par[k] \in D => k \in D
    PROVE  \A o \in Subtree(v.tree, f[y]) : \E z \in H \cap D : o = f[z]
<1>1. /\ IsTree(v.tree, Object) /\ v.tree.parent[game] = Nil /\ v.netId[game] = 0
      /\ \A o \in Made : v.netId[o] = 0 => v.tree.parent[o] = Nil
      /\ \A s \in Service \ v.tree.dead : v.tree.parent[s] = game
  BY DEF ClientOK
<1>2. /\ f \in [H \cup {game} -> Object] /\ f[game] = game
      /\ \A x \in H : /\ par[x] \in H \cup {game} /\ ids[x] # 0 /\ v.netId[f[x]] = ids[x]
                      /\ v.tree.parent[f[x]] = f[par[x]]
      /\ \A o \in Object : v.netId[o] # 0 /\ o \notin v.tree.dead => \E x \in H : o = f[x]
  BY DEF Mirrors
<1>3. \A o \in v.tree.dead : v.tree.parent[o] = Nil
  BY <1>1 DEF IsTree
<1>4. PICK S \in SUBSET Object : S = {o \in Object : \E z \in H \cap D : o = f[z]}
  OBVIOUS
<1>5. f[y] \in S
  BY <1>2, <1>4
<1>6. ASSUME NEW k \in Object, v.tree.parent[k] \in S PROVE k \in S
  <2>1. PICK z \in H \cap D : v.tree.parent[k] = f[z]
    BY <1>4, <1>6
  <2>2. f[z] # Nil /\ f[z] # game
    BY <1>1, <1>2, <2>1, ObjectFacts
  <2>3. k \notin v.tree.dead /\ k # game
    BY <1>1, <1>3, <2>1, <2>2
  <2>4. v.netId[k] # 0
    BY <1>1, <2>1, <2>2, <2>3, ObjectFacts
  <2>5. PICK w \in H : k = f[w]
    BY <1>2, <2>3, <2>4
  <2>6. par[w] \in H \cup {game} /\ f[par[w]] = f[z]
    BY <1>2, <2>1, <2>5
  <2>7. par[w] = z
    BY <2>6, ImagesDiffer
  <2>8. QED BY <1>4, <2>5, <2>7
<1>7. f[y] \in Object
  BY <1>2
<1>8. Subtree(v.tree, f[y]) \subseteq S
  BY <1>1, <1>5, <1>6, <1>7, ObjectFacts, SubtreeProperties
<1>9. QED BY <1>4, <1>8

(***************************************************************************)
(* One instance is added.                                                  *)
(*                                                                         *)
(* ApplyInstanceAdded in each of its cases: the instance is known to the   *)
(* client and moves; it is a service the client made for itself; it is     *)
(* new.                                                                    *)
(***************************************************************************)

\* The tree of a client is changed, and nothing else.
LEMMA WithTree ==
    ASSUME NEW v \in Views, NEW T \in Tree(Object)
    PROVE  /\ [v EXCEPT !.tree = T] \in Views
           /\ [v EXCEPT !.tree = T].tree = T
           /\ [v EXCEPT !.tree = T].name = v.name /\ [v EXCEPT !.tree = T].cls = v.cls
           /\ [v EXCEPT !.tree = T].netId = v.netId /\ [v EXCEPT !.tree = T].owner = v.owner
           /\ [v EXCEPT !.tree = T].localPlayer = v.localPlayer
           /\ [v EXCEPT !.tree = T].synced = v.synced
           /\ [v EXCEPT !.tree = T].crashed = v.crashed
BY DEF Views

\* A known object moves: the packet of an instance the client knows.
LEMMA MoveStep ==
    ASSUME NEW v, NEW f, NEW H, NEW par, NEW ids, NEW nm, NEW own, NEW G, NEW lt,
           Sane(H, ids, nm, G), MirrorsAll(v, f, H, par, ids, nm, own, G, lt),
           NEW y \in H, y \notin Service, NEW q \in H \cup {game}, NEW D, Branch(H, par, y, q, D),
           NEW par2, Reparented(H, par, y, q, par2),
           NEW lt2, MadeLast(H, par2, y, lt, lt2)
    PROVE  /\ MirrorsAll(Move(v, f[y], f[q]), f, H, par2, ids, nm, own, G, lt2)
           /\ Move(v, f[y], f[q]).synced = v.synced
<1> USE DEF Reparented, MadeLast, Branch
<1>1. /\ ClientOK(v) /\ ServicesFirst(v.tree) /\ Mirrors(v, f, H, par, ids, G)
      /\ Named(v, f, H, nm) /\ Owned(v, f, H, own, ids) /\ Ordered(v, f, H, par, lt)
  BY DEF MirrorsAll
<1>2. /\ f \in [H \cup {game} -> Object] /\ f[game] = game
      /\ \A x \in H : /\ par[x] \in H \cup {game} /\ ids[x] # 0 /\ v.netId[f[x]] = ids[x]
                      /\ f[x] \notin v.tree.dead /\ v.cls[f[x]] = ClassOf(x)
                      /\ v.tree.parent[f[x]] = f[par[x]]
      /\ \A o \in Object : v.netId[o] # 0 =>
            \/ o \notin v.tree.dead /\ \E x \in H : o = f[x]
            \/ o \in v.tree.dead /\ \E x \in G : v.netId[o] = ids[x]
      /\ \A o \in Object, x \in Instance :
            v.netId[o] = ids[x] /\ ids[x] # 0 /\ (o \in Service \/ x \in Service) => o = x
      /\ Service \cap v.tree.dead \subseteq G
  BY <1>1 DEF Mirrors
<1>3. \A x, z \in H \cup {game} : f[x] = f[z] => x = z
  BY <1>1, ImagesDiffer
<1>4. /\ v \in Views /\ ~v.crashed /\ IsTree(v.tree, Object)
      /\ v.tree.parent[game] = Nil /\ game \notin v.tree.dead /\ v.netId[game] = 0
      /\ \A o, k \in Object : o # game /\ v.netId[o] = 0 => v.tree.parent[k] # o
      /\ \A k \in Object : v.tree.parent[k] \notin v.tree.dead
      /\ \A s \in Service \ v.tree.dead : v.tree.parent[s] = game
  BY <1>1 DEF ClientOK
<1>5. PICK o \in Object : o = f[y]
  BY <1>2
<1>6. PICK p \in Object : p = f[q]
  BY <1>2
<1>7. p \notin Subtree(v.tree, o) /\ o \notin v.tree.dead /\ o # game /\ p \notin v.tree.dead
  <2>1. \A z \in H \cap D : f[z] # f[q]
    BY <1>3
  <2>2. p \notin Subtree(v.tree, o)
    BY <1>1, <1>5, <1>6, <2>1, BelowImage
  <2>3. QED BY <1>2, <1>4, <1>5, <1>6, <2>2
<1>8. o \notin Service
  <2>1. y \in Instance
    BY DEF Sane
  <2>2. QED BY <1>2, <1>5, <2>1
<1>9. PICK t : t = v.tree
  OBVIOUS
<1>9a. IsTree(t, Object) /\ o \notin t.dead /\ p \notin Subtree(t, o) /\ p \in Object \cup {Nil}
  BY <1>4, <1>7, <1>9
<1>9b. PICK T : T = SetParent(t, o, p)
  OBVIOUS
<1>9c. IsTree(T, Object) /\ T.parent = [t.parent EXCEPT ![o] = p] /\ T.dead = t.dead
  BY <1>9a, <1>9b, ObjectFacts, SetParentProperties
<1>9d. T \in Tree(Object)
  BY <1>9c DEF IsTree
<1>10. /\ T.parent[o] = p
       /\ \A k \in Object \ {o} : T.parent[k] = v.tree.parent[k]
       /\ DOMAIN T.parent = Object /\ DOMAIN v.tree.parent = Object
  <2>1. DOMAIN v.tree.parent = Object
    BY <1>4 DEF IsTree, Tree
  <2>2. DOMAIN t.parent = Object
    BY <1>9, <2>1
  <2>3. QED BY <1>9, <1>9c, <2>1, <2>2
<1>11. \A r \in Object : \A a, b : Before(T.kids[r], a, b) <=>
          \/ Before(v.tree.kids[r], a, b) /\ a # o /\ b # o
          \/ r = p /\ b = o /\ a # o /\ a \in ToSet(v.tree.kids[p])
  <2> SUFFICES ASSUME NEW r \in Object, NEW a, NEW b
               PROVE  Before(T.kids[r], a, b) <=>
                         \/ Before(t.kids[r], a, b) /\ a # o /\ b # o
                         \/ r = p /\ b = o /\ a # o /\ a \in ToSet(t.kids[p])
    BY <1>9
  <2>0. PICK P : P = p
    OBVIOUS
  <2>a. PICK O : O = Object
    OBVIOUS
  <2>1. /\ IsFiniteSet(O) /\ Nil \notin O /\ IsTree(t, O) /\ o \in O /\ P \in O \cup {Nil}
        /\ o \notin t.dead /\ P \notin Subtree(t, o) /\ r \in O
    BY <1>9a, <2>0, <2>a, ObjectFacts
  <2>2. Before(SetParent(t, o, P).kids[r], a, b) <=>
           \/ Before(t.kids[r], a, b) /\ a # o /\ b # o
           \/ r = P /\ b = o /\ a # o /\ a \in ToSet(t.kids[P])
    BY <2>1, SetParentOrder
  <2>3. QED BY <1>9b, <2>0, <2>2
<1>12. PICK w \in Views :
          /\ w = Move(v, f[y], f[q])
          /\ w.tree = T /\ w.name = v.name /\ w.cls = v.cls /\ w.netId = v.netId
          /\ w.owner = v.owner /\ w.localPlayer = v.localPlayer
          /\ w.synced = v.synced /\ w.crashed = v.crashed
  <2>1. Move(v, o, p) = [v EXCEPT !.tree = SetParent(v.tree, o, p)]
    BY <1>7 DEF Move
  <2>2. PICK w : w = [v EXCEPT !.tree = T]
    OBVIOUS
  <2>3. w = Move(v, f[y], f[q])
    BY <1>5, <1>6, <1>9, <1>9b, <2>1, <2>2
  <2>4. v \in Views /\ T \in Tree(Object)
    BY <1>4, <1>9d
  <2>5. w \in Views /\ w.tree = T /\ w.name = v.name /\ w.cls = v.cls /\ w.netId = v.netId
        /\ w.owner = v.owner /\ w.localPlayer = v.localPlayer
        /\ w.synced = v.synced /\ w.crashed = v.crashed
    BY <2>2, <2>4, WithTree
  <2>6. QED BY <2>3, <2>5
<1>13. ClientOK(w)
  <2>1. \A k \in Object : T.parent[k] \notin T.dead
    BY <1>4, <1>7, <1>9, <1>9c, <1>10
  <2>2. \A u, k \in Object : u # game /\ w.netId[u] = 0 => T.parent[k] # u
    <3>1. p = game \/ v.netId[p] # 0
      BY <1>2, <1>6
    <3>2. QED BY <1>4, <1>10, <1>12, <3>1
  <2>3. \A s \in Service \ T.dead : T.parent[s] = game
    BY <1>4, <1>8, <1>9, <1>9c, <1>10, ObjectFacts
  <2>4. T.parent[game] = Nil
    BY <1>4, <1>7, <1>10, ObjectFacts
  <2>5. \A u \in Made : w.netId[u] = 0 => T.parent[u] = Nil
    <3>1. w.netId[o] # 0
      BY <1>2, <1>5, <1>12
    <3>2. \A u \in Made : v.netId[u] = 0 => v.tree.parent[u] = Nil
      BY <1>1 DEF ClientOK
    <3>3. QED BY <1>10, <1>12, <3>1, <3>2, ObjectFacts
  <2>6. /\ \A u, k \in Object : v.netId[u] = v.netId[k] /\ v.netId[u] # 0 => u = k
        /\ \A u \in Made : v.cls[u] = Nil <=> v.netId[u] = 0
        /\ \A s \in Service : v.owner[s] = Nil
        /\ \A s \in Service \ v.tree.dead : v.name[s] = s /\ v.cls[s] = s
    BY <1>1 DEF ClientOK
  <2>7. w \in Views /\ w.tree.dead = v.tree.dead /\ w.tree.parent = T.parent
    BY <1>9, <1>9c, <1>12
  <2>8. IsTree(w.tree, Object)
    BY <1>9c, <1>12
  <2>9. QED BY <1>4, <1>12, <2>1, <2>2, <2>3, <2>4, <2>5, <2>6, <2>7, <2>8 DEF ClientOK
<1>14. ServicesFirst(w.tree)
  <2> SUFFICES ASSUME NEW a \in Service, NEW b \in Object, T.parent[a] = game, T.parent[b] = game
               PROVE  Before(T.kids[game], a, b) <=> (b \in Service => Before(Services, a, b))
    BY <1>10, <1>12 DEF ServicesFirst
  <2>1. a # o /\ v.tree.parent[a] = game
    BY <1>8, <1>10, ObjectFacts
  <2>2. CASE b = o
    <3>1. p = game
      BY <1>10, <2>2
    <3>2. a \in ToSet(v.tree.kids[game])
      BY <1>4, <2>1, ObjectFacts DEF IsTree
    <3>3. QED BY <1>8, <1>11, <2>1, <2>2, <3>1, <3>2
  <2>3. CASE b # o
    <3>1. v.tree.parent[b] = game
      BY <1>10, <2>3
    <3>2. Before(v.tree.kids[game], a, b) <=> (b \in Service => Before(Services, a, b))
      BY <1>1, <1>10, <2>1, <3>1 DEF ServicesFirst
    <3>3. QED BY <1>11, <2>1, <2>3, <3>2, ObjectFacts
  <2>4. QED BY <2>2, <2>3
<1>15. Mirrors(w, f, H, par2, ids, G)
  <2>1. ASSUME NEW x \in H
        PROVE  par2[x] \in H \cup {game} /\ w.tree.parent[f[x]] = f[par2[x]]
    <3>1. CASE x = y
      BY <1>5, <1>6, <1>10, <1>12, <3>1
    <3>2. CASE x # y
      <4>1. f[x] # o /\ f[x] \in Object
        BY <1>2, <1>3, <1>5, <3>2
      <4>2. QED BY <1>2, <1>10, <1>12, <3>2, <4>1
    <3>3. QED BY <3>1, <3>2
  <2>2. w.tree.dead = v.tree.dead
    BY <1>9, <1>9c, <1>12
  <2>3. QED BY <1>2, <1>12, <2>1, <2>2 DEF Mirrors
<1>16. Named(w, f, H, nm) /\ Owned(w, f, H, own, ids)
  BY <1>1, <1>12 DEF Named, Owned
<1>17. Ordered(w, f, H, par2, lt2)
  <2> SUFFICES ASSUME NEW a \in H, NEW b \in H, par2[a] = par2[b]
               PROVE  Before(T.kids[f[par2[a]]], f[a], f[b]) <=> <<a, b>> \in lt2
    BY <1>12 DEF Ordered
  <2>0. par2[a] \in H \cup {game} /\ f[par2[a]] \in Object
    BY <1>2, <1>15 DEF Mirrors
  <2>1. /\ f[a] = o <=> a = y
        /\ f[b] = o <=> b = y
    BY <1>3, <1>5
  <2>2. CASE a = y
    BY <1>11, <2>0, <2>1, <2>2
  <2>3. CASE a # y /\ b = y
    <3>1. f[par2[a]] = p /\ v.tree.parent[f[a]] = p
      BY <1>2, <1>6, <2>3
    <3>2. f[a] \in ToSet(v.tree.kids[p])
      BY <1>2, <1>4, <3>1 DEF IsTree
    <3>3. QED BY <1>11, <2>0, <2>1, <2>3, <3>1, <3>2
  <2>4. CASE a # y /\ b # y
    <3>1. par2[a] = par[a] /\ par[a] = par[b]
      BY <2>4
    <3>2. Before(v.tree.kids[f[par[a]]], f[a], f[b]) <=> <<a, b>> \in lt
      BY <1>1, <3>1 DEF Ordered
    <3>3. QED BY <1>11, <2>0, <2>1, <2>4, <3>1, <3>2
  <2>5. QED BY <2>2, <2>3, <2>4
<1>18. QED BY <1>12, <1>13, <1>14, <1>15, <1>16, <1>17 DEF MirrorsAll

\* What a packet's ids are for a client: the objects of the instances it has, and
\* nothing for an instance that is new to it.
LEMMA Lookup ==
    ASSUME NEW v, ClientOK(v), NEW f, NEW H, NEW par, NEW ids, NEW nm, NEW G,
           Sane(H, ids, nm, G), Mirrors(v, f, H, par, ids, G)
    PROVE  /\ \A x \in H : FindByNetId(v, ids[x]) = f[x] /\ f[x] # Nil /\ f[x] \in Object
           /\ \A y \in Instance : ids[y] # 0 /\ y \notin H /\ y \notin G =>
                 /\ FindByNetId(v, ids[y]) = Nil
                 /\ \A o \in Object : v.netId[o] # ids[y]
<1>1. /\ f \in [H \cup {game} -> Object]
      /\ \A x \in H : ids[x] # 0 /\ v.netId[f[x]] = ids[x]
      /\ \A o \in Object : v.netId[o] # 0 =>
            \/ \E x \in H : o = f[x]
            \/ \E x \in G : v.netId[o] = ids[x]
  BY DEF Mirrors
<1>2. /\ H \subseteq Instance /\ G \subseteq Instance
      /\ \A x, y \in Instance : ids[x] = ids[y] /\ ids[x] # 0 => x = y
  BY DEF Sane
<1>3. ASSUME NEW x \in H
      PROVE  FindByNetId(v, ids[x]) = f[x] /\ f[x] # Nil /\ f[x] \in Object
  BY <1>1, FindById, ObjectFacts
<1>4. ASSUME NEW y \in Instance, ids[y] # 0, y \notin H, y \notin G
      PROVE  FindByNetId(v, ids[y]) = Nil /\ \A o \in Object : v.netId[o] # ids[y]
  <2>1. ASSUME NEW o \in Object, v.netId[o] = ids[y] PROVE FALSE
    <3>1. \E x \in H \cup G : ids[x] = ids[y]
      BY <1>1, <1>4, <2>1
    <3>2. QED BY <1>2, <1>4, <3>1
  <2>2. QED BY <2>1, FindById
<1>5. QED BY <1>3, <1>4

\* There is an object left for an instance that is new to a client.
LEMMA FreeSlot ==
    ASSUME NEW v, ClientOK(v), NEW f, NEW H, NEW par, NEW ids, NEW nm, NEW G,
           Sane(H, ids, nm, G), Mirrors(v, f, H, par, ids, G),
           NEW y \in Parts \cup Conns, y \notin H, y \notin G, ids[y] # 0
    PROVE  \E o \in Made : v.cls[o] = Nil
<1> SUFFICES ASSUME \A o \in Made : v.cls[o] # Nil PROVE FALSE
  OBVIOUS
<1> DEFINE C == Parts \cup Conns
           g == [o \in Made |-> CHOOSE x \in C \ {y} : ids[x] = v.netId[o]]
<1>1. \A o \in Made : v.netId[o] # 0 /\ o \in Object /\ o \notin Service
  BY ObjectFacts DEF ClientOK
<1>2. ASSUME NEW o \in Made PROVE \E x \in C \ {y} : ids[x] = v.netId[o]
  <2>1. PICK x \in H \cup G : v.netId[o] = ids[x]
    BY <1>1, <1>2 DEF Mirrors
  <2>2. x \in Instance /\ x # y
    BY <2>1 DEF Sane
  <2>3. x # game
    BY <1>1, <2>1 DEF Sane
  <2>4. x \notin Service
    BY <1>1, <2>1, <2>2 DEF Mirrors
  <2>5. QED BY <2>1, <2>2, <2>3, <2>4 DEF Instance
<1>3. ASSUME NEW o \in Made PROVE g[o] \in C \ {y} /\ ids[g[o]] = v.netId[o]
  BY <1>2
<1>4. g \in [Made -> C \ {y}]
  BY <1>3
<1>5. \A a, b \in Made : g[a] = g[b] => a = b
  <2>1. \A a, b \in Object : v.netId[a] = v.netId[b] /\ v.netId[a] # 0 => a = b
    BY DEF ClientOK
  <2>2. QED BY <1>1, <1>3, <2>1
<1> HIDE DEF g
<1>6. IsFiniteSet(C) /\ IsFiniteSet(C \ {y}) /\ Cardinality(C) \in Nat
      /\ Cardinality(C \ {y}) = Cardinality(C) - 1
  <2>1. IsFiniteSet(C)
    BY ServerBounds, FS_Union
  <2>2. QED BY <2>1, FS_RemoveElement, FS_CardinalityType
<1>7. PICK S : S = Made
  OBVIOUS
<1>8. PICK R : R = C \ {y}
  OBVIOUS
<1>9. g \in Injection(S, R)
  <2>1. g \in [S -> R] /\ \A a, b \in S : g[a] = g[b] => a = b
    BY <1>4, <1>5, <1>7, <1>8
  <2>2. QED BY <2>1 DEF Injection, IsInjective
<1>10. Cardinality(S) <= Cardinality(R)
  BY <1>6, <1>8, <1>9, FS_Injection
<1>11. Cardinality(S) = MaxMade
  BY <1>7, ObjectFacts, FS_Interval DEF Made
<1>12. MaxMade >= Cardinality(C)
  BY ServerBounds
<1>13. QED BY <1>6, <1>8, <1>10, <1>11, <1>12, ObjectFacts

\* The service of a client's process that has the name of a child of game.
LEMMA TopLevelName ==
    ASSUME NEW v, ClientOK(v), NEW f, NEW H, NEW par, NEW ids, NEW nm, NEW G,
           Sane(H, ids, nm, G), Mirrors(v, f, H, par, ids, G), Named(v, f, H, nm),
           NEW n
    PROVE  /\ n \in Service /\ n \notin v.tree.dead =>
                 FindFirstChild(v.tree, v.name, game, n) = n
           /\ n \notin Service /\ (\A z \in H : par[z] = game => nm[z] # n) =>
                 FindFirstChild(v.tree, v.name, game, n) = Nil
<1>1. /\ IsTree(v.tree, Object) /\ v \in Views /\ v.tree.parent[game] = Nil
      /\ \A o \in Made : v.netId[o] = 0 => v.tree.parent[o] = Nil
      /\ \A s \in Service \ v.tree.dead : v.tree.parent[s] = game /\ v.name[s] = s
  BY DEF ClientOK
<1>2. /\ f \in [H \cup {game} -> Object] /\ f[game] = game
      /\ \A x \in H : /\ par[x] \in H \cup {game} /\ ids[x] # 0 /\ v.netId[f[x]] = ids[x]
                      /\ v.tree.parent[f[x]] = f[par[x]]
      /\ \A o \in Object : v.netId[o] # 0 /\ o \notin v.tree.dead => \E x \in H : o = f[x]
      /\ \A o \in Object, x \in Instance :
            v.netId[o] = ids[x] /\ ids[x] # 0 /\ (o \in Service \/ x \in Service) => o = x
  BY DEF Mirrors
<1>3. H \subseteq Instance \ {game} /\ \A x \in Instance \ Parts : nm[x] = x
  BY DEF Sane
<1>4. \A x \in Parts : nm[x] \notin Service
  BY DEF Sane
<1>5. \A o \in v.tree.dead : v.tree.parent[o] = Nil
  BY <1>1 DEF IsTree
\* A child of game is a service, named itself, or the object of a part or Player.
<1>6. ASSUME NEW k \in Object, v.tree.parent[k] = game, k \notin Service
      PROVE  \E z \in H : par[z] = game /\ v.name[k] = nm[z] /\ nm[z] \notin Service
  <2>1. k \in Made /\ k \notin v.tree.dead
    BY <1>1, <1>5, <1>6, ObjectFacts
  <2>2. v.netId[k] # 0
    BY <1>1, <1>6, <2>1, ObjectFacts
  <2>3. PICK z \in H : k = f[z]
    BY <1>2, <2>1, <2>2
  <2>4. par[z] \in H \cup {game} /\ f[par[z]] = f[game]
    BY <1>2, <1>6, <2>3
  <2>5. par[z] = game
    BY <2>4, ImagesDiffer
  <2>6. z \notin Service
    BY <1>2, <1>3, <1>6, <2>3
  <2>7. nm[z] \notin Service
    <3>1. CASE z \in Parts
      BY <1>4, <3>1
    <3>2. CASE z \notin Parts
      BY <1>3, <2>6, <3>2
    <3>3. QED BY <3>1, <3>2
  <2>8. QED BY <2>3, <2>5, <2>7 DEF Named
<1>7. PICK kids \in Seq(Object) : kids = v.tree.kids[game]
  BY <1>1, ObjectFacts DEF IsTree, Tree
<1>8. DOMAIN v.name = Object
  BY <1>1 DEF Views
<1>9. PICK P : P = {k \in DOMAIN v.name : v.name[k] = n}
  OBVIOUS
<1>10. PICK hits \in Seq(Object) :
          /\ hits = KeepIn(kids, P) /\ ToSet(hits) = ToSet(kids) \cap P
  BY KeepDistinct
<1>11. FindFirstChild(v.tree, v.name, game, n) = IF hits = <<>> THEN Nil ELSE Head(hits)
  BY <1>7, <1>9, <1>10 DEF FindFirstChild
<1>12. \A k \in Object : k \in ToSet(kids) <=> v.tree.parent[k] = game
  BY <1>1, <1>7, ObjectFacts DEF IsTree
<1>13. \A k \in Object : k \in ToSet(hits) <=> v.tree.parent[k] = game /\ v.name[k] = n
  BY <1>8, <1>9, <1>10, <1>12
<1>14. hits = <<>> <=> ToSet(hits) = {}
  BY ToSetEmpty
<1>15. hits # <<>> => Head(hits) \in Object /\ Head(hits) \in ToSet(hits)
  BY HeadAndTail
<1>16. ASSUME n \in Service, n \notin v.tree.dead
       PROVE  FindFirstChild(v.tree, v.name, game, n) = n
  <2>1. n \in ToSet(hits)
    BY <1>1, <1>13, <1>16, ObjectFacts
  <2>2. hits # <<>>
    BY <1>14, <2>1
  <2>3. Head(hits) \in Object /\ v.tree.parent[Head(hits)] = game /\ v.name[Head(hits)] = n
    BY <1>13, <1>15, <2>2
  <2>4. PICK h \in Object : h = Head(hits)
    BY <2>3
  <2>5. h \in Service
    BY <1>6, <1>16, <2>3, <2>4
  <2>6. h \notin v.tree.dead
    BY <1>5, <2>3, <2>4, ObjectFacts
  <2>7. h = n
    BY <1>1, <2>3, <2>4, <2>5, <2>6
  <2>8. QED BY <1>11, <2>2, <2>4, <2>7
<1>17. ASSUME n \notin Service, \A z \in H : par[z] = game => nm[z] # n
       PROVE  FindFirstChild(v.tree, v.name, game, n) = Nil
  <2>1. ASSUME hits # <<>> PROVE FALSE
    <3>1. PICK h \in Object : h = Head(hits) /\ v.tree.parent[h] = game /\ v.name[h] = n
      BY <1>13, <1>15, <2>1
    <3>2. h \notin v.tree.dead
      BY <1>5, <3>1, ObjectFacts
    <3>3. CASE h \in Service
      BY <1>1, <1>17, <3>1, <3>2, <3>3
    <3>4. CASE h \notin Service
      BY <1>6, <1>17, <3>1, <3>4
    <3>5. QED BY <3>3, <3>4
  <2>2. QED BY <1>11, <2>1
<1>18. QED BY <1>16, <1>17

\* An object is given an id, and nothing else changes.
LEMMA WithId ==
    ASSUME NEW v \in Views, NEW y \in Object, NEW i \in 0..MaxNetId,
           NEW w, w = [v EXCEPT !.netId[y] = i]
    PROVE  /\ w \in Views /\ w.tree = v.tree /\ w.name = v.name /\ w.cls = v.cls
           /\ w.netId = [v.netId EXCEPT ![y] = i] /\ w.owner = v.owner
           /\ w.localPlayer = v.localPlayer /\ w.synced = v.synced /\ w.crashed = v.crashed
BY DEF Views

\* A service the client made itself takes the id of the server's.
LEMMA TakeStep ==
    ASSUME NEW v, NEW f, NEW H, NEW par, NEW ids, NEW nm, NEW own, NEW G, NEW lt,
           Sane(H, ids, nm, G), MirrorsAll(v, f, H, par, ids, nm, own, G, lt),
           NEW y \in Service, y \notin H, y \notin G, ids[y] # 0,
           \A z \in H : par[z] = game => z \in Service /\ Before(Services, z, y),
           NEW par2, Reparented(H, par, y, game, par2),
           NEW lt2, MadeLast(H \cup {y}, par2, y, lt, lt2),
           NEW w, w = [v EXCEPT !.netId[y] = ids[y]]
    PROVE  \E g : MirrorsAll(w, g, H \cup {y}, par2, ids, nm, own, G, lt2)
<1> USE DEF Reparented, MadeLast, Branch
<1>1. /\ ClientOK(v) /\ ServicesFirst(v.tree) /\ Mirrors(v, f, H, par, ids, G)
      /\ Named(v, f, H, nm) /\ Owned(v, f, H, own, ids) /\ Ordered(v, f, H, par, lt)
  BY DEF MirrorsAll
<1>2. /\ f \in [H \cup {game} -> Object] /\ f[game] = game
      /\ \A x \in H : /\ par[x] \in H \cup {game} /\ ids[x] # 0 /\ v.netId[f[x]] = ids[x]
                      /\ f[x] \notin v.tree.dead /\ v.cls[f[x]] = ClassOf(x)
                      /\ v.tree.parent[f[x]] = f[par[x]]
      /\ \A o \in Object : v.netId[o] # 0 =>
            \/ o \notin v.tree.dead /\ \E x \in H : o = f[x]
            \/ o \in v.tree.dead /\ \E x \in G : v.netId[o] = ids[x]
      /\ \A o \in Object, x \in Instance :
            v.netId[o] = ids[x] /\ ids[x] # 0 /\ (o \in Service \/ x \in Service) => o = x
      /\ Service \cap v.tree.dead \subseteq G
  BY <1>1 DEF Mirrors
<1>3. \A x, z \in H \cup {game} : f[x] = f[z] => x = z
  BY <1>1, ImagesDiffer
<1>4. /\ v \in Views /\ ~v.crashed /\ IsTree(v.tree, Object)
      /\ v.tree.parent[game] = Nil /\ game \notin v.tree.dead /\ v.netId[game] = 0
      /\ \A o, q \in Object : v.netId[o] = v.netId[q] /\ v.netId[o] # 0 => o = q
      /\ \A o \in Made : v.cls[o] = Nil <=> v.netId[o] = 0
      /\ \A o \in Made : v.netId[o] = 0 => v.tree.parent[o] = Nil
      /\ \A o, k \in Object : o # game /\ v.netId[o] = 0 => v.tree.parent[k] # o
      /\ \A k \in Object : v.tree.parent[k] \notin v.tree.dead
      /\ \A s \in Service : v.owner[s] = Nil
      /\ \A s \in Service \ v.tree.dead :
            v.tree.parent[s] = game /\ v.name[s] = s /\ v.cls[s] = s
  BY <1>1 DEF ClientOK
<1>5. /\ y \in Object /\ y \notin Made /\ y # game /\ y \in Instance /\ y \notin Parts
      /\ y \notin Conns /\ ids[y] \in 0..MaxNetId /\ y \notin v.tree.dead
      /\ nm[y] = y /\ ClassOf(y) = y
  BY <1>2, ObjectFacts, InstanceFacts DEF Sane, ClassOf
<1>6. \A o \in Object : v.netId[o] # ids[y]
  BY <1>1, <1>5, Lookup
<1>7. v.netId[y] = 0
  <2>1. ASSUME v.netId[y] # 0 PROVE FALSE
    <3>1. PICK x \in H : y = f[x]
      BY <1>2, <1>5, <2>1
    <3>2. x \in Instance /\ v.netId[y] = ids[x] /\ ids[x] # 0
      BY <1>2, <3>1 DEF Sane
    <3>3. y = x
      BY <1>2, <1>5, <3>2
    <3>4. QED BY <3>1, <3>3
  <2>2. QED BY <2>1
<1>8. /\ w \in Views /\ w.tree = v.tree /\ w.name = v.name /\ w.cls = v.cls
      /\ w.netId = [v.netId EXCEPT ![y] = ids[y]] /\ w.owner = v.owner /\ w.crashed = v.crashed
  <2>1. PICK i \in 0..MaxNetId : i = ids[y]
    BY <1>5
  <2>2. w = [v EXCEPT !.netId[y] = i]
    BY <2>1
  <2>3. /\ w \in Views /\ w.tree = v.tree /\ w.name = v.name /\ w.cls = v.cls
        /\ w.netId = [v.netId EXCEPT ![y] = i] /\ w.owner = v.owner /\ w.crashed = v.crashed
    BY <1>4, <1>5, <2>2, WithId
  <2>4. QED BY <2>1, <2>3
<1>9. /\ \A o \in Object \ {y} : w.netId[o] = v.netId[o]
      /\ w.netId[y] = ids[y]
  <2>1. DOMAIN v.netId = Object
    BY <1>4 DEF Views
  <2>2. QED BY <1>5, <1>8, <2>1
<1>10. PICK g : g = [x \in H \cup {y} \cup {game} |-> IF x = y THEN y ELSE f[x]]
  OBVIOUS
<1>11. /\ g \in [H \cup {y} \cup {game} -> Object] /\ g[game] = game /\ g[y] = y
       /\ \A x \in H \cup {game} : g[x] = f[x] /\ f[x] # y /\ x # y
  <2>1. \A x \in H \cup {game} : f[x] # y
    BY <1>2, <1>5, <1>7
  <2>2. QED BY <1>2, <1>5, <1>10, <2>1
<1>12. ClientOK(w)
  <2>1. \A o, q \in Object : w.netId[o] = w.netId[q] /\ w.netId[o] # 0 => o = q
    BY <1>4, <1>6, <1>9
  <2>2. /\ \A o \in Made : w.cls[o] = Nil <=> w.netId[o] = 0
        /\ \A o \in Made : w.netId[o] = 0 => w.tree.parent[o] = Nil
    BY <1>4, <1>5, <1>8, <1>9, ObjectFacts
  <2>3. \A o, k \in Object : o # game /\ w.netId[o] = 0 => w.tree.parent[k] # o
    BY <1>4, <1>7, <1>8, <1>9
  <2>4. w.netId[game] = 0
    BY <1>4, <1>5, <1>9, ObjectFacts
  <2>5. QED BY <1>4, <1>8, <2>1, <2>2, <2>3, <2>4 DEF ClientOK
<1>13. Mirrors(w, g, H \cup {y}, par2, ids, G)
  <2>1. ASSUME NEW x \in H \cup {y}
        PROVE  /\ par2[x] \in H \cup {y} \cup {game} /\ ids[x] # 0
               /\ w.netId[g[x]] = ids[x] /\ g[x] \notin w.tree.dead
               /\ w.cls[g[x]] = ClassOf(x) /\ w.tree.parent[g[x]] = g[par2[x]]
    <3>1. CASE x = y
      BY <1>4, <1>5, <1>8, <1>9, <1>11, <3>1
    <3>2. CASE x # y
      <4>1. x \in H /\ par2[x] = par[x] /\ g[x] = f[x] /\ f[x] \in Object \ {y}
        BY <1>2, <1>11, <3>2
      <4>2. par[x] \in H \cup {game} /\ g[par[x]] = f[par[x]]
        BY <1>2, <1>11, <4>1
      <4>3. QED BY <1>2, <1>8, <1>9, <4>1, <4>2
    <3>3. QED BY <3>1, <3>2
  <2>2. ASSUME NEW o \in Object, w.netId[o] # 0
        PROVE  \/ o \notin w.tree.dead /\ \E x \in H \cup {y} : o = g[x]
               \/ o \in w.tree.dead /\ \E x \in G : w.netId[o] = ids[x]
    <3>1. CASE o = y
      BY <1>5, <1>8, <1>11, <3>1
    <3>2. CASE o # y
      BY <1>2, <1>8, <1>9, <1>11, <2>2, <3>2
    <3>3. QED BY <3>1, <3>2
  <2>3. ASSUME NEW o \in Object, NEW x \in Instance, w.netId[o] = ids[x], ids[x] # 0,
               o \in Service \/ x \in Service
        PROVE  o = x
    <3>1. CASE o = y
      BY <1>5, <1>9, <2>3, <3>1 DEF Sane
    <3>2. CASE o # y
      BY <1>2, <1>9, <2>3, <3>2
    <3>3. QED BY <3>1, <3>2
  <2>4. QED BY <1>2, <1>8, <1>11, <2>1, <2>2, <2>3 DEF Mirrors
<1>14. Named(w, g, H \cup {y}, nm)
  BY <1>1, <1>4, <1>5, <1>8, <1>11 DEF Named
<1>15. Owned(w, g, H \cup {y}, own, ids)
  <2> SUFFICES ASSUME NEW x \in H \cup {y}, w.owner[g[x]] # Nil
               PROVE  /\ own[x] \in Conns /\ ids[own[x]] # 0
                      /\ w.netId[w.owner[g[x]]] = ids[own[x]]
    BY DEF Owned
  <2>1. x \in H /\ g[x] = f[x] /\ f[x] \in Object
    BY <1>2, <1>4, <1>8, <1>11
  <2>2. own[x] \in Conns /\ ids[own[x]] # 0 /\ v.netId[v.owner[f[x]]] = ids[own[x]]
    BY <1>1, <1>8, <2>1 DEF Owned
  <2>3. v.owner[f[x]] \in Object
    BY <1>4, <1>8, <2>1 DEF Views
  <2>4. v.owner[f[x]] # y
    BY <1>7, <2>2
  <2>5. QED BY <1>8, <1>9, <2>1, <2>2, <2>3, <2>4
<1>16. Ordered(w, g, H \cup {y}, par2, lt2)
  <2> SUFFICES ASSUME NEW a \in H \cup {y}, NEW b \in H \cup {y}, par2[a] = par2[b]
               PROVE  Before(v.tree.kids[g[par2[a]]], g[a], g[b]) <=> <<a, b>> \in lt2
    BY <1>8 DEF Ordered
  <2>1. v.tree.kids[game] \in Seq(Object) /\ IsInjective(v.tree.kids[game])
        /\ DOMAIN v.tree.parent = Object
    BY <1>4, ObjectFacts DEF IsTree, Tree
  <2>3. CASE a = y /\ b = y
    BY <1>11, <2>1, <2>3, BeforeIsOrder
  <2>4. ASSUME NEW z \in H, par2[z] = game
        PROVE  /\ Before(v.tree.kids[game], g[z], y)
               /\ ~Before(v.tree.kids[game], y, g[z])
    <3>1. par[z] = game /\ z \in Service /\ Before(Services, z, y)
      BY <1>11, <2>4
    <3>2. z \in Instance /\ z \in Object /\ g[z] = f[z] /\ f[z] \in Object
      BY <1>2, <1>11, <3>1, ObjectFacts DEF Sane
    <3>3. f[z] = z
      BY <1>2, <3>1, <3>2
    <3>4. v.tree.parent[z] = game /\ v.tree.parent[y] = game
      BY <1>2, <1>4, <1>5, <3>1, <3>3
    <3>5. Before(v.tree.kids[game], z, y)
      BY <1>1, <1>5, <2>1, <3>1, <3>2, <3>4 DEF ServicesFirst
    <3>6. QED BY <2>1, <3>2, <3>3, <3>5, BeforeIsOrder
  <2>5. CASE a # y /\ b = y
    BY <1>11, <2>4, <2>5
  <2>6. CASE a = y /\ b # y
    BY <1>11, <2>4, <2>6
  <2>7. CASE a # y /\ b # y
    <3>1. a \in H /\ b \in H /\ par2[a] = par[a] /\ par[a] = par[b]
      BY <2>7
    <3>2. g[par[a]] = f[par[a]] /\ g[a] = f[a] /\ g[b] = f[b]
      BY <1>2, <1>11, <3>1
    <3>3. Before(v.tree.kids[f[par[a]]], f[a], f[b]) <=> <<a, b>> \in lt
      BY <1>1, <3>1 DEF Ordered
    <3>4. QED BY <2>7, <3>1, <3>2, <3>3
  <2>8. QED BY <2>3, <2>5, <2>6, <2>7
<1>17. ServicesFirst(w.tree)
  BY <1>1, <1>8
<1>18. QED BY <1>12, <1>13, <1>14, <1>15, <1>16, <1>17 DEF MirrorsAll

\* A client with a new object.
Newly(v, o, c, n, i, T) ==
    [v EXCEPT !.cls[o] = c, !.name[o] = n, !.netId[o] = i, !.owner[o] = Nil, !.tree = T]

\* What Create leaves.
LEMMA CreateIs ==
    ASSUME NEW v \in Views, NEW e, NEW p
    PROVE  Create(v, e, p) = Newly(v, Unused(v), e.cls, e.name, e.id,
                  SetParent([v.tree EXCEPT !.dead = @ \ {Unused(v)}], Unused(v), p))
BY DEF Create, Newly, Views

\* Such a client has its types.
LEMMA WithNew ==
    ASSUME NEW v \in Views, NEW o \in Object, NEW c \in Creatable, NEW n \in Instance \cup Names,
           NEW i \in 0..MaxNetId, NEW T \in Tree(Object),
           NEW w, w = Newly(v, o, c, n, i, T)
    PROVE  /\ w \in Views /\ w.tree = T
           /\ w.name = [v.name EXCEPT ![o] = n] /\ w.cls = [v.cls EXCEPT ![o] = c]
           /\ w.netId = [v.netId EXCEPT ![o] = i] /\ w.owner = [v.owner EXCEPT ![o] = Nil]
           /\ w.localPlayer = v.localPlayer /\ w.synced = v.synced /\ w.crashed = v.crashed
BY DEF Views, Newly

\* An object that was not in use becomes a child of p.
LEMMA PutNew ==
    ASSUME NEW t, IsTree(t, Object), NEW o \in Object, NEW p \in Object, o # p, t.parent[o] = Nil,
           \A k \in Object : t.parent[k] # o,
           NEW T, T = SetParent([t EXCEPT !.dead = @ \ {o}], o, p)
    PROVE  /\ IsTree(T, Object) /\ T.dead = t.dead \ {o}
           /\ T.parent = [t.parent EXCEPT ![o] = p]
           /\ \A r \in Object : \A a, b :
                 Before(T.kids[r], a, b) <=>
                    \/ Before(t.kids[r], a, b)
                    \/ r = p /\ b = o /\ a \in ToSet(t.kids[p])
           /\ \A r \in Object : o \notin ToSet(t.kids[r])
<1>1. PICK O : O = Object
  OBVIOUS
<1>2. IsFiniteSet(O) /\ Nil \notin O
  BY <1>1, ObjectFacts
<1>3. PICK dead : dead = t.dead \ {o}
  OBVIOUS
<1>4. PICK u : u = [t EXCEPT !.dead = dead]
  OBVIOUS
<1>5. /\ t \in Tree(O)
      /\ \A q \in O : t.kids[q] \in Seq(O) /\ IsInjective(t.kids[q])
      /\ \A q, k \in O : k \in ToSet(t.kids[q]) <=> t.parent[k] = q
      /\ \A S \in SUBSET O : S # {} => \E y \in S : t.parent[y] \notin S
      /\ \A y \in t.dead : t.parent[y] = Nil
  BY <1>1 DEF IsTree, Tree
<1>6. u \in Tree(O) /\ u.parent = t.parent /\ u.kids = t.kids /\ u.dead = dead
  BY <1>3, <1>4, <1>5 DEF Tree
<1>7. IsTree(u, O)
  BY <1>3, <1>5, <1>6 DEF IsTree
<1>8. p \notin Subtree(u, o)
  <2>1. PICK S \in SUBSET O : S = {o}
    BY <1>1
  <2>2. \A k \in O : u.parent[k] \in S => k \in S
    BY <1>1, <1>6, <2>1
  <2>3. Subtree(u, o) \subseteq S
    BY <1>1, <1>2, <1>7, <2>1, <2>2, SubtreeProperties
  <2>4. QED BY <2>1, <2>3
<1>9. o \notin u.dead /\ o \in O /\ p \in O /\ p \in O \cup {Nil}
  BY <1>1, <1>3, <1>6
<1>10. T = SetParent(u, o, p)
  BY <1>3, <1>4
<1>11. IsTree(T, O) /\ T.parent = [u.parent EXCEPT ![o] = p] /\ T.dead = u.dead
  BY <1>2, <1>7, <1>8, <1>9, <1>10, SetParentProperties
<1>12. \A r \in O : o \notin ToSet(t.kids[r])
  BY <1>2, <1>5, <1>9
<1>13. ASSUME NEW r \in O, NEW a, NEW b
       PROVE  Before(T.kids[r], a, b) <=>
                 \/ Before(t.kids[r], a, b)
                 \/ r = p /\ b = o /\ a \in ToSet(t.kids[p])
  <2>1. Before(SetParent(u, o, p).kids[r], a, b) <=>
           \/ Before(u.kids[r], a, b) /\ a # o /\ b # o
           \/ r = p /\ b = o /\ a # o /\ a \in ToSet(u.kids[p])
    BY <1>2, <1>7, <1>8, <1>9, SetParentOrder
  <2>2. Before(t.kids[r], a, b) => a \in ToSet(t.kids[r]) /\ b \in ToSet(t.kids[r])
    BY <1>5, BeforeIsOrder
  <2>3. QED BY <1>6, <1>9, <1>10, <1>12, <2>1, <2>2
<1>14. QED BY <1>1, <1>3, <1>6, <1>11, <1>12, <1>13

\* An instance that is new to a client becomes an object of its own.
LEMMA CreateStep ==
    ASSUME NEW v, NEW f, NEW H, NEW par, NEW ids, NEW nm, NEW own, NEW G, NEW lt,
           NEW y, NEW q, NEW par2, NEW L, NEW lt2, NEW e, NEW w,
           /\ Sane(H, ids, nm, G) /\ MirrorsAll(v, f, H, par, ids, nm, own, G, lt)
           /\ y \in Parts \cup Conns /\ y \notin H /\ y \notin G /\ ids[y] # 0
           /\ q \in H \cup {game} /\ Reparented(H, par, y, q, par2)
           /\ L = H \cup {y} /\ MadeLast(L, par2, y, lt, lt2)
           /\ e.id = ids[y] /\ e.cls = ClassOf(y) /\ e.name = nm[y]
           /\ w = Create(v, e, f[q])
    PROVE  /\ w.synced = v.synced
           /\ \E g : MirrorsAll(w, g, L, par2, ids, nm, own, G, lt2)
<1> SUFFICES /\ w.synced = v.synced
             /\ \E g : MirrorsAll(w, g, H \cup {y}, par2, ids, nm, own, G, lt2)
  OBVIOUS
<1> USE DEF Reparented, MadeLast, Branch
<1>1. /\ ClientOK(v) /\ ServicesFirst(v.tree) /\ Mirrors(v, f, H, par, ids, G)
      /\ Named(v, f, H, nm) /\ Owned(v, f, H, own, ids) /\ Ordered(v, f, H, par, lt)
  BY DEF MirrorsAll
<1>2. /\ f \in [H \cup {game} -> Object] /\ f[game] = game
      /\ \A x \in H : /\ par[x] \in H \cup {game} /\ ids[x] # 0 /\ v.netId[f[x]] = ids[x]
                      /\ f[x] \notin v.tree.dead /\ v.cls[f[x]] = ClassOf(x)
                      /\ v.tree.parent[f[x]] = f[par[x]]
      /\ \A o \in Object : v.netId[o] # 0 =>
            \/ o \notin v.tree.dead /\ \E x \in H : o = f[x]
            \/ o \in v.tree.dead /\ \E x \in G : v.netId[o] = ids[x]
      /\ \A o \in Object, x \in Instance :
            v.netId[o] = ids[x] /\ ids[x] # 0 /\ (o \in Service \/ x \in Service) => o = x
      /\ Service \cap v.tree.dead \subseteq G
  BY <1>1 DEF Mirrors
<1>3. \A x, z \in H \cup {game} : f[x] = f[z] => x = z
  BY <1>1, ImagesDiffer
<1>4. /\ v \in Views /\ ~v.crashed /\ IsTree(v.tree, Object)
      /\ v.tree.parent[game] = Nil /\ game \notin v.tree.dead /\ v.netId[game] = 0
      /\ \A o, k \in Object : v.netId[o] = v.netId[k] /\ v.netId[o] # 0 => o = k
      /\ \A o \in Made : v.cls[o] = Nil <=> v.netId[o] = 0
      /\ \A o \in Made : v.netId[o] = 0 => v.tree.parent[o] = Nil
      /\ \A o, k \in Object : o # game /\ v.netId[o] = 0 => v.tree.parent[k] # o
      /\ \A k \in Object : v.tree.parent[k] \notin v.tree.dead
      /\ \A s \in Service : v.owner[s] = Nil
      /\ \A s \in Service \ v.tree.dead :
            v.tree.parent[s] = game /\ v.name[s] = s /\ v.cls[s] = s
  BY <1>1 DEF ClientOK
<1>5. /\ y \in Instance /\ y # game /\ y \notin Service /\ ids[y] \in 0..MaxNetId
      /\ nm[y] \in Instance \cup Names /\ ClassOf(y) \in Creatable /\ ClassOf(y) # Nil
  <2>1. y \in Instance /\ y # game /\ y \notin Service
    BY InstanceFacts
  <2>2. QED BY <2>1, ClientBounds DEF Sane, ClassOf, Creatable
<1>6. \A o \in Object : v.netId[o] # ids[y]
  BY <1>1, <1>5, Lookup
<1>7. PICK o \in Made : o = Unused(v) /\ v.cls[o] = Nil
  <2>1. \E i \in 1..MaxMade : v.cls[i] = Nil
    BY <1>1, FreeSlot DEF Made
  <2>2. QED BY <2>1 DEF Made, Unused
<1>8. v.cls[o] = Nil
  BY <1>7
<1>9. /\ o \in Object /\ o # game /\ o \notin Service /\ v.netId[o] = 0
      /\ v.tree.parent[o] = Nil /\ \A k \in Object : v.tree.parent[k] # o
  BY <1>4, <1>8, ObjectFacts
<1>10. PICK p \in Object : p = f[q]
  BY <1>2
<1>11. p # o /\ p \notin v.tree.dead /\ (p = game \/ v.netId[p] # 0)
  BY <1>2, <1>4, <1>9, <1>10
<1>12. PICK t : t = v.tree
  OBVIOUS
<1>13. PICK T : T = SetParent([t EXCEPT !.dead = @ \ {o}], o, p)
  OBVIOUS
<1>14. /\ IsTree(T, Object) /\ T.dead = t.dead \ {o}
       /\ T.parent = [t.parent EXCEPT ![o] = p]
       /\ \A r \in Object : \A a, b :
             Before(T.kids[r], a, b) <=>
                \/ Before(t.kids[r], a, b)
                \/ r = p /\ b = o /\ a \in ToSet(t.kids[p])
       /\ \A r \in Object : o \notin ToSet(t.kids[r])
  <2>1. IsTree(t, Object) /\ o # p /\ t.parent[o] = Nil /\ \A k \in Object : t.parent[k] # o
    BY <1>4, <1>9, <1>11, <1>12
  <2>2. QED BY <1>9, <1>13, <2>1, PutNew, SMTT(60)
<1>15. /\ T.parent[o] = p
       /\ \A k \in Object \ {o} : T.parent[k] = t.parent[k]
       /\ DOMAIN T.parent = Object /\ DOMAIN t.parent = Object
  <2>1. DOMAIN t.parent = Object
    BY <1>4, <1>12 DEF IsTree, Tree
  <2>2. QED BY <1>9, <1>14, <2>1
<1>16. PICK i \in 0..MaxNetId : i = ids[y]
  BY <1>5
<1>17. PICK c \in Creatable : c = ClassOf(y)
  BY <1>5
<1>18. PICK n \in Instance \cup Names : n = nm[y]
  BY <1>5
<1>19. w = Newly(v, o, c, n, i, T)
  <2>1. Create(v, e, p) =
           Newly(v, o, e.cls, e.name, e.id, SetParent([v.tree EXCEPT !.dead = @ \ {o}], o, p))
    BY <1>4, <1>7, CreateIs
  <2>2. e.cls = c /\ e.name = n /\ e.id = i
    BY <1>16, <1>17, <1>18
  <2>3. SetParent([v.tree EXCEPT !.dead = @ \ {o}], o, p) = T
    BY <1>12, <1>13
  <2>4. QED BY <1>10, <2>1, <2>2, <2>3
<1>20. /\ w \in Views /\ w.tree = T
       /\ w.name = [v.name EXCEPT ![o] = n] /\ w.cls = [v.cls EXCEPT ![o] = c]
       /\ w.netId = [v.netId EXCEPT ![o] = i] /\ w.owner = [v.owner EXCEPT ![o] = Nil]
       /\ w.localPlayer = v.localPlayer /\ w.synced = v.synced /\ w.crashed = v.crashed
  <2>1. T \in Tree(Object)
    BY <1>14 DEF IsTree
  <2>2. v \in Views /\ o \in Object
    BY <1>4, <1>9
  <2>3. QED BY <1>19, <2>1, <2>2, WithNew, SMTT(60)
<1>21. /\ \A k \in Object \ {o} : /\ w.netId[k] = v.netId[k] /\ w.cls[k] = v.cls[k]
                                  /\ w.name[k] = v.name[k] /\ w.owner[k] = v.owner[k]
       /\ w.netId[o] = ids[y] /\ w.cls[o] = ClassOf(y) /\ w.name[o] = nm[y] /\ w.owner[o] = Nil
  <2>1. /\ DOMAIN v.netId = Object /\ DOMAIN v.cls = Object
        /\ DOMAIN v.name = Object /\ DOMAIN v.owner = Object
    BY <1>4 DEF Views
  <2>2. QED BY <1>9, <1>16, <1>17, <1>18, <1>20, <2>1
<1>22. PICK g : g = [x \in H \cup {y} \cup {game} |-> IF x = y THEN o ELSE f[x]]
  OBVIOUS
<1>23. /\ g \in [H \cup {y} \cup {game} -> Object] /\ g[game] = game /\ g[y] = o
       /\ \A x \in H \cup {game} : g[x] = f[x] /\ f[x] # o /\ x # y /\ f[x] \in Object
  <2>1. \A x \in H \cup {game} : f[x] # o
    BY <1>2, <1>9
  <2>2. QED BY <1>2, <1>5, <1>9, <1>22, <2>1
<1>24. ClientOK(w)
  <2>1. \A a, b \in Object : w.netId[a] = w.netId[b] /\ w.netId[a] # 0 => a = b
    BY <1>4, <1>6, <1>21
  <2>2. \A a \in Made : w.cls[a] = Nil <=> w.netId[a] = 0
    BY <1>4, <1>5, <1>21, ObjectFacts
  <2>3. \A a \in Made : w.netId[a] = 0 => w.tree.parent[a] = Nil
    BY <1>4, <1>12, <1>15, <1>20, <1>21, ObjectFacts
  <2>4. \A a, k \in Object : a # game /\ w.netId[a] = 0 => w.tree.parent[k] # a
    BY <1>4, <1>11, <1>12, <1>15, <1>20, <1>21
  <2>5. w.netId[game] = 0 /\ w.tree.parent[game] = Nil /\ game \notin w.tree.dead
    BY <1>4, <1>9, <1>12, <1>14, <1>15, <1>20, <1>21, ObjectFacts
  <2>6. \A k \in Object : w.tree.parent[k] \notin w.tree.dead
    BY <1>4, <1>11, <1>12, <1>14, <1>15, <1>20
  <2>7. /\ \A s \in Service : w.owner[s] = Nil
        /\ \A s \in Service \ w.tree.dead :
              w.tree.parent[s] = game /\ w.name[s] = s /\ w.cls[s] = s
    BY <1>4, <1>9, <1>12, <1>14, <1>15, <1>20, <1>21, ObjectFacts
  <2>8. QED BY <1>4, <1>14, <1>20, <2>1, <2>2, <2>3, <2>4, <2>5, <2>6, <2>7 DEF ClientOK
<1>25. ServicesFirst(w.tree)
  <2> SUFFICES ASSUME NEW a \in Service, NEW b \in Object, T.parent[a] = game, T.parent[b] = game
               PROVE  Before(T.kids[game], a, b) <=> (b \in Service => Before(Services, a, b))
    BY <1>15, <1>20 DEF ServicesFirst
  <2>1. a # o /\ t.parent[a] = game
    BY <1>9, <1>15, ObjectFacts
  <2>2. CASE b = o
    <3>1. p = game
      BY <1>15, <2>2
    <3>2. a \in ToSet(t.kids[game])
      BY <1>4, <1>12, <2>1, ObjectFacts DEF IsTree
    <3>3. QED BY <1>9, <1>14, <2>1, <2>2, <3>1, <3>2, ObjectFacts
  <2>3. CASE b # o
    <3>1. t.parent[b] = game
      BY <1>15, <2>3
    <3>2. Before(t.kids[game], a, b) <=> (b \in Service => Before(Services, a, b))
      BY <1>1, <1>12, <1>15, <2>1, <3>1 DEF ServicesFirst
    <3>3. QED BY <1>14, <2>1, <2>3, <3>2, ObjectFacts
  <2>4. QED BY <2>2, <2>3
<1>26. Mirrors(w, g, H \cup {y}, par2, ids, G)
  <2>1. ASSUME NEW x \in H \cup {y}
        PROVE  /\ par2[x] \in H \cup {y} \cup {game} /\ ids[x] # 0
               /\ w.netId[g[x]] = ids[x] /\ g[x] \notin w.tree.dead
               /\ w.cls[g[x]] = ClassOf(x) /\ w.tree.parent[g[x]] = g[par2[x]]
    <3>1. CASE x = y
      <4>1. q # y /\ g[q] = p
        BY <1>10, <1>23
      <4>2. QED BY <1>14, <1>15, <1>20, <1>21, <1>23, <3>1, <4>1
    <3>2. CASE x # y
      <4>1. x \in H /\ par2[x] = par[x] /\ g[x] = f[x] /\ f[x] \in Object \ {o}
        BY <1>2, <1>23, <3>2
      <4>2. par[x] \in H \cup {game} /\ g[par[x]] = f[par[x]]
        BY <1>2, <1>23, <4>1
      <4>3. QED BY <1>2, <1>12, <1>14, <1>15, <1>20, <1>21, <4>1, <4>2
    <3>3. QED BY <3>1, <3>2
  <2>2. ASSUME NEW a \in Object, w.netId[a] # 0
        PROVE  \/ a \notin w.tree.dead /\ \E x \in H \cup {y} : a = g[x]
               \/ a \in w.tree.dead /\ \E x \in G : w.netId[a] = ids[x]
    <3>1. CASE a = o
      BY <1>14, <1>20, <1>23, <3>1
    <3>2. CASE a # o
      BY <1>2, <1>12, <1>14, <1>20, <1>21, <1>23, <2>2, <3>2
    <3>3. QED BY <3>1, <3>2
  <2>3. ASSUME NEW a \in Object, NEW x \in Instance, w.netId[a] = ids[x], ids[x] # 0,
               a \in Service \/ x \in Service
        PROVE  a = x
    <3>1. CASE a = o
      BY <1>5, <1>9, <1>21, <2>3, <3>1 DEF Sane
    <3>2. CASE a # o
      BY <1>2, <1>21, <2>3, <3>2
    <3>3. QED BY <3>1, <3>2
  <2>4. Service \cap w.tree.dead \subseteq G
    BY <1>2, <1>12, <1>14, <1>20
  <2>5. QED BY <1>23, <2>1, <2>2, <2>3, <2>4 DEF Mirrors
<1>27. Named(w, g, H \cup {y}, nm)
  BY <1>1, <1>21, <1>23 DEF Named
<1>28. Owned(w, g, H \cup {y}, own, ids)
  <2> SUFFICES ASSUME NEW x \in H \cup {y}, w.owner[g[x]] # Nil
               PROVE  /\ own[x] \in Conns /\ ids[own[x]] # 0
                      /\ w.netId[w.owner[g[x]]] = ids[own[x]]
    BY DEF Owned
  <2>1. x \in H /\ g[x] = f[x] /\ f[x] \in Object \ {o}
    BY <1>21, <1>23
  <2>2. own[x] \in Conns /\ ids[own[x]] # 0 /\ v.netId[v.owner[f[x]]] = ids[own[x]]
    BY <1>1, <1>21, <2>1 DEF Owned
  <2>3. v.owner[f[x]] \in Object
    BY <1>4, <1>21, <2>1 DEF Views
  <2>4. v.owner[f[x]] # o
    BY <1>9, <2>2
  <2>5. QED BY <1>21, <2>1, <2>2, <2>3, <2>4
<1>29. Ordered(w, g, H \cup {y}, par2, lt2)
  <2> SUFFICES ASSUME NEW a \in H \cup {y}, NEW b \in H \cup {y}, par2[a] = par2[b]
               PROVE  Before(T.kids[g[par2[a]]], g[a], g[b]) <=> <<a, b>> \in lt2
    BY <1>20 DEF Ordered
  <2>0. g[par2[a]] \in Object /\ \A r \in Object : t.kids[r] \in Seq(Object) /\ IsInjective(t.kids[r])
    <3>1. par2[a] \in H \cup {y} \cup {game}
      BY <1>26 DEF Mirrors
    <3>2. QED BY <1>4, <1>12, <1>23, <3>1 DEF IsTree, Tree
  <2>1. \A r \in Object : \A k : ~Before(t.kids[r], o, k) /\ ~Before(t.kids[r], k, o)
    BY <1>14, <2>0, BeforeIsOrder
  <2>2. CASE a = y /\ b = y
    BY <1>14, <1>23, <2>0, <2>1, <2>2
  <2>3. CASE a = y /\ b # y
    BY <1>14, <1>23, <2>0, <2>1, <2>3
  <2>4. CASE a # y /\ b = y
    <3>1. a \in H /\ g[a] = f[a] /\ f[a] \in Object /\ par[a] = q /\ q # y
      BY <1>23, <2>4
    <3>2. t.parent[f[a]] = p /\ g[par2[a]] = p
      BY <1>2, <1>10, <1>12, <1>23, <2>4, <3>1
    <3>3. f[a] \in ToSet(t.kids[p])
      BY <1>4, <1>12, <3>1, <3>2 DEF IsTree
    <3>4. QED BY <1>14, <1>23, <2>4, <3>1, <3>2, <3>3
  <2>5. CASE a # y /\ b # y
    <3>1. a \in H /\ b \in H /\ par2[a] = par[a] /\ par[a] = par[b]
      BY <2>5
    <3>2. /\ g[par[a]] = f[par[a]] /\ f[par[a]] \in Object
          /\ g[a] = f[a] /\ g[b] = f[b] /\ f[b] # o
      BY <1>2, <1>23, <3>1
    <3>3. Before(t.kids[f[par[a]]], f[a], f[b]) <=> <<a, b>> \in lt
      BY <1>1, <1>12, <3>1 DEF Ordered
    <3>4. QED BY <1>14, <2>5, <3>1, <3>2, <3>3
  <2>6. QED BY <2>2, <2>3, <2>4, <2>5
<1>30. QED BY <1>20, <1>24, <1>25, <1>26, <1>27, <1>28, <1>29 DEF MirrorsAll

\* What makes y fit to be put under q: only parts and Players move, services come
\* in the order of the client's own, and siblings of game have different names.
Addable(y, q, H, par, ids, nm, G) ==
    /\ y \in Instance \ {game} /\ q \in H \cup {game} /\ y \notin G /\ ids[y] # 0
    /\ y \in Service => /\ y \notin H /\ q = game
                        /\ \A z \in H : par[z] = game => z \in Service /\ Before(Services, z, y)
    /\ y \in H => \E D : Branch(H, par, y, q, D)
    /\ y \notin H /\ q = game => \A z \in H : par[z] = game => nm[z] # nm[y]

\* The entry of a packet that says so.
Tells(e, y, q, ids, nm) ==
    e.id = ids[y] /\ e.cls = ClassOf(y) /\ e.name = nm[y] /\ e.parent = ids[q]

\* The packet of an instance does to a client what putting it where it is did to
\* the server, for known and new instances and for services.
LEMMA AddStep ==
    ASSUME NEW v, NEW f, NEW H, NEW par, NEW ids, NEW nm, NEW own, NEW G, NEW lt,
           NEW y, NEW q, NEW par2, NEW L, NEW lt2, NEW e, NEW w,
           /\ Sane(H, ids, nm, G) /\ MirrorsAll(v, f, H, par, ids, nm, own, G, lt)
           /\ Addable(y, q, H, par, ids, nm, G) /\ Reparented(H, par, y, q, par2)
           /\ L = H \cup {y} /\ MadeLast(L, par2, y, lt, lt2)
           /\ Tells(e, y, q, ids, nm) /\ w = ApplyInstanceAdded(v, e)
    PROVE  /\ w.synced = v.synced
           /\ \E g : MirrorsAll(w, g, L, par2, ids, nm, own, G, lt2)
<1> SUFFICES /\ w.synced = v.synced
             /\ \E g : MirrorsAll(w, g, H \cup {y}, par2, ids, nm, own, G, lt2)
  OBVIOUS
<1>c. MadeLast(H \cup {y}, par2, y, lt, lt2)
  OBVIOUS
<1>d. PICK D : y \in H => Branch(H, par, y, q, D)
  BY DEF Addable
<1>a. /\ y \in Instance \ {game} /\ q \in H \cup {game} /\ y \notin G /\ ids[y] # 0
      /\ y \in Service => /\ y \notin H /\ q = game
                          /\ \A z \in H : par[z] = game => z \in Service /\ Before(Services, z, y)
      /\ y \notin H /\ q = game => \A z \in H : par[z] = game => nm[z] # nm[y]
  BY DEF Addable
<1>b. e.id = ids[y] /\ e.cls = ClassOf(y) /\ e.name = nm[y] /\ e.parent = ids[q]
  BY DEF Tells
<1>1. /\ ClientOK(v) /\ Mirrors(v, f, H, par, ids, G) /\ Named(v, f, H, nm)
  BY DEF MirrorsAll
<1>2. /\ f \in [H \cup {game} -> Object] /\ f[game] = game
      /\ Service \cap v.tree.dead \subseteq G
  BY <1>a, <1>b, <1>c, <1>d, <1>1 DEF Mirrors
<1>3. v \in Views /\ ~v.crashed
  BY <1>a, <1>b, <1>c, <1>d, <1>1 DEF ClientOK
<1>4. ids[game] = 0 /\ \A z \in H : ids[z] # 0
  BY <1>a, <1>b, <1>c, <1>d, <1>1 DEF Sane, Mirrors
<1>5. PICK p \in Object : p = f[q] /\ p # Nil
  BY <1>a, <1>b, <1>c, <1>d, <1>2, ObjectFacts
<1>6. (IF e.parent = 0 THEN game ELSE FindByNetId(v, e.parent)) = p
  <2>1. CASE q = game
    BY <1>a, <1>b, <1>c, <1>d, <1>2, <1>4, <1>5, <2>1
  <2>2. CASE q \in H
    BY <1>a, <1>b, <1>c, <1>d, <1>1, <1>4, <1>5, <2>2, Lookup
  <2>3. QED BY <1>a, <2>1, <2>2
<1>7. PICK known : known = FindByNetId(v, e.id)
  OBVIOUS
<1>8. PICK match : match = FindFirstChild(v.tree, v.name, game, e.name)
  OBVIOUS
<1>9. w = IF known # Nil THEN Move(v, known, p)
          ELSE IF e.parent = 0 /\ match # Nil THEN [v EXCEPT !.netId[match] = e.id]
          ELSE IF e.cls \notin Creatable THEN v ELSE Create(v, e, p)
  BY <1>a, <1>b, <1>c, <1>d, <1>3, <1>5, <1>6, <1>7, <1>8 DEF ApplyInstanceAdded
<1>10. CASE y \in H
  <2>1. known = f[y] /\ known # Nil
    BY <1>a, <1>b, <1>c, <1>d, <1>1, <1>7, <1>10, Lookup
  <2>2. w = Move(v, f[y], f[q])
    BY <1>a, <1>b, <1>c, <1>d, <1>5, <1>9, <2>1
  <2>3. y \notin Service
    BY <1>a, <1>b, <1>c, <1>d, <1>10
  <2>4. H \cup {y} = H
    BY <1>a, <1>b, <1>c, <1>d, <1>10
  <2>5. MadeLast(H, par2, y, lt, lt2) /\ Branch(H, par, y, q, D)
    BY <1>a, <1>b, <1>c, <1>d, <1>10, <2>4
  <2>6. /\ MirrorsAll(Move(v, f[y], f[q]), f, H, par2, ids, nm, own, G, lt2)
        /\ Move(v, f[y], f[q]).synced = v.synced
    BY <1>a, <1>b, <1>c, <1>d, <1>10, <2>3, <2>5, MoveStep
  <2>7. QED BY <2>2, <2>4, <2>6
<1>11. CASE y \notin H
  <2>1. known = Nil
    BY <1>a, <1>b, <1>c, <1>d, <1>1, <1>7, <1>11, Lookup
  <2>2. y \in Service => match = y /\ match # Nil
    <3>1. y \in Service => y \notin v.tree.dead /\ nm[y] = y /\ y # Nil
      BY <1>a, <1>b, <1>c, <1>d, <1>2, InstanceFacts, ObjectFacts DEF Sane
    <3>2. QED BY <1>a, <1>b, <1>c, <1>d, <1>1, <1>8, <3>1, TopLevelName
  <2>3. y \notin Service => ~(e.parent = 0 /\ match # Nil)
    <3>1. e.parent = 0 => q = game
      BY <1>a, <1>b, <1>c, <1>d, <1>4
    <3>2. y \notin Service => nm[y] \notin Service
      BY <1>a, <1>b, <1>c, <1>d, <1>11 DEF Sane
    <3>3. QED BY <1>a, <1>b, <1>c, <1>d, <1>1, <1>8, <1>11, <3>1, <3>2, TopLevelName
  <2>4. CASE y \in Service
    <3>1. e.parent = 0
      BY <1>a, <1>b, <1>c, <1>d, <1>4, <2>4
    <3>2. w = [v EXCEPT !.netId[y] = ids[y]]
      BY <1>a, <1>b, <1>c, <1>d, <1>9, <2>1, <2>2, <2>4, <3>1
    <3>3. \E g : MirrorsAll(w, g, H \cup {y}, par2, ids, nm, own, G, lt2)
      <4>1. /\ Reparented(H, par, y, game, par2) /\ y \notin H
            /\ \A z \in H : par[z] = game => z \in Service /\ Before(Services, z, y)
        BY <1>a, <1>b, <1>c, <1>d, <1>11, <2>4
      <4>2. QED BY <1>a, <2>4, <3>2, <4>1, TakeStep
    <3>4. w.synced = v.synced
      BY <1>a, <1>b, <1>c, <1>d, <1>3, <3>2 DEF Views
    <3>5. QED BY <3>3, <3>4
  <2>5. CASE y \notin Service
    <3>1. y \in Parts \cup Conns
      BY <1>a, <2>5 DEF Instance
    <3>2. e.cls \in Creatable
      BY <1>b, <3>1 DEF ClassOf, Creatable
    <3>3. w = Create(v, e, f[q])
      BY <1>a, <1>b, <1>c, <1>d, <1>5, <1>9, <2>1, <2>3, <2>5, <3>2
    <3>4. y \notin H /\ y \notin G /\ ids[y] # 0 /\ q \in H \cup {game}
      BY <1>a, <1>11
    <3>5. e.id = ids[y] /\ e.cls = ClassOf(y) /\ e.name = nm[y]
      BY <1>b
    <3>6. PICK L2 : L2 = H \cup {y}
      OBVIOUS
    <3>7. /\ Sane(H, ids, nm, G) /\ MirrorsAll(v, f, H, par, ids, nm, own, G, lt)
          /\ y \in Parts \cup Conns /\ y \notin H /\ y \notin G /\ ids[y] # 0
          /\ q \in H \cup {game} /\ Reparented(H, par, y, q, par2)
          /\ L2 = H \cup {y} /\ MadeLast(L2, par2, y, lt, lt2)
          /\ e.id = ids[y] /\ e.cls = ClassOf(y) /\ e.name = nm[y]
          /\ w = Create(v, e, f[q])
      BY <1>c, <3>1, <3>3, <3>4, <3>5, <3>6
    <3>8. /\ w.synced = v.synced
          /\ \E g : MirrorsAll(w, g, L2, par2, ids, nm, own, G, lt2)
      BY <3>7, CreateStep
    <3>9. QED BY <3>6, <3>8
  <2>6. QED BY <2>4, <2>5
<1>12. QED BY <1>a, <1>b, <1>c, <1>d, <1>10, <1>11

\* Nothing is below itself.
LEMMA ParentNotBelow ==
    ASSUME NEW O, IsFiniteSet(O), Nil \notin O, NEW T, IsTree(T, O), NEW x \in O
    PROVE  T.parent[x] \notin Subtree(T, x)
<1>1. PICK S \in SUBSET O : S = Subtree(T, x)
  BY SubtreeProperties
<1>2. x \in S /\ \A y \in S : y # x => T.parent[y] \in S
  BY <1>1, SubtreeProperties
<1>3. PICK y \in S : T.parent[y] \notin S
  BY <1>2 DEF IsTree
<1>4. QED BY <1>1, <1>2, <1>3

(***************************************************************************)
(* Many instances are added.                                               *)
(*                                                                         *)
(* A snapshot, or the packets of a subtree, entry by entry: each is put    *)
(* under what came before it, last of its siblings.                        *)
(***************************************************************************)

\* The first k of a list, and the order in which siblings stand when these were
\* added, each as the last of its siblings.
FirstOf(order, k) == {order[i] : i \in 1..k}

Rank(order, k, lt) ==
    {z \in Instance \X Instance :
        \/ z[2] \in FirstOf(order, k)
           /\ (z[1] \in FirstOf(order, k) => Before(order, z[1], z[2]))
        \/ z[1] \notin FirstOf(order, k) /\ z[2] \notin FirstOf(order, k) /\ z \in lt}

ParentsAfter(k, par, T) == IF k = 0 THEN par ELSE T.parent

\* The instances of order are put where T has them, parents first, to what a
\* client has, H with parents par.  Only the first can be known and elsewhere.
Arrives(T, order, H, par, ids, nm, G, D) ==
    /\ IsTree(T, Instance) /\ T.parent[game] = Nil
    /\ order \in Seq(Instance) /\ IsInjective(order)
    /\ \A i \in 1..Len(order) :
          /\ order[i] \notin G /\ order[i] # game /\ ids[order[i]] # 0
          /\ T.parent[order[i]] \in H \cup {game} \cup FirstOf(order, i - 1)
          /\ order[i] \in Service =>
                /\ H = {} /\ T.parent[order[i]] = game
                /\ \A j \in 1..i - 1 : T.parent[order[j]] = game =>
                      order[j] \in Service /\ Before(Services, order[j], order[i])
    /\ order # <<>> =>
          /\ \A k \in H \ {order[1]} : par[k] = T.parent[k]
          /\ order[1] \in H => Branch(H, par, order[1], T.parent[order[1]], D)
    /\ \A a, b \in Instance :
          T.parent[a] = game /\ T.parent[b] = game /\ nm[a] = nm[b] => a = b

\* h is the client after each of the instances of order was added.
Adds(h, v, T, nm, ids, order) ==
    /\ h[0] = v
    /\ \A k \in 1..Len(order) : h[k] = ApplyInstanceAdded(h[k - 1], Entry(T, nm, ids, order[k]))

\* One more instance of the list is added.
LEMMA ListStep ==
    ASSUME NEW v, NEW f, NEW H, NEW par, NEW ids, NEW nm, NEW own, NEW G, NEW lt,
           NEW T, NEW order, NEW D, NEW h,
           /\ Sane(H, ids, nm, G) /\ MirrorsAll(v, f, H, par, ids, nm, own, G, lt)
           /\ Arrives(T, order, H, par, ids, nm, G, D)
           /\ Adds(h, v, T, nm, ids, order)
    PROVE  \A k \in 0..Len(order) :
              /\ h[k].synced = v.synced
              /\ \E g : MirrorsAll(h[k], g, H \cup FirstOf(order, k), ParentsAfter(k, par, T), ids, nm, own,
                                   G, Rank(order, k, lt))
<1> USE DEF Adds
<1>0. PICK N \in Nat : N = Len(order)
  BY DEF Arrives
<1>1. /\ \A i \in 1..N : order[i] \in Instance
      /\ \A i, j \in 1..N : order[i] = order[j] => i = j
  BY <1>0 DEF Arrives, IsInjective
<1> DEFINE P(k) == /\ h[k].synced = v.synced
                   /\ \E g : MirrorsAll(h[k], g, H \cup FirstOf(order, k), ParentsAfter(k, par, T),
                                        ids, nm, own, G, Rank(order, k, lt))
           Good == {k \in 0..N : P(k)}
<1>2. 0 \in Good
  <2>1. FirstOf(order, 0) = {} /\ H \cup FirstOf(order, 0) = H
    BY DEF FirstOf
  <2>2. ParentsAfter(0, par, T) = par
    BY DEF ParentsAfter
  <2>3. Ordered(v, f, H, par, Rank(order, 0, lt))
    <3>1. H \subseteq Instance
      BY DEF Sane
    <3>2. \A x, y \in H : <<x, y>> \in Rank(order, 0, lt) <=> <<x, y>> \in lt
      BY <2>1, <3>1 DEF Rank
    <3>3. QED BY <3>2 DEF MirrorsAll, Ordered
  <2>4. MirrorsAll(v, f, H, par, ids, nm, own, G, Rank(order, 0, lt))
    BY <2>3 DEF MirrorsAll
  <2>5. P(0)
    BY <2>1, <2>2, <2>4
  <2>6. QED BY <2>5
<1>3. ASSUME NEW k \in 1..N, k - 1 \in Good PROVE k \in Good
  <2>1. PICK K : K = H \cup FirstOf(order, k - 1)
    OBVIOUS
  <2>2. PICK pk : pk = ParentsAfter(k - 1, par, T)
    OBVIOUS
  <2>3. PICK rk : rk = Rank(order, k - 1, lt)
    OBVIOUS
  <2>4. PICK g : MirrorsAll(h[k - 1], g, K, pk, ids, nm, own, G, rk)
    BY <1>3, <2>1, <2>2, <2>3
  <2>5. PICK y \in Instance : y = order[k]
    BY <1>1, <1>3
  <2>6. /\ y \notin G /\ y # game /\ ids[y] # 0
        /\ T.parent[y] \in K \cup {game}
        /\ y \in Service =>
                /\ H = {} /\ T.parent[y] = game
                /\ \A j \in 1..k - 1 : T.parent[order[j]] = game =>
                      order[j] \in Service /\ Before(Services, order[j], y)
    BY <1>0, <1>3, <2>1, <2>5 DEF Arrives
  <2>7. PICK q \in K \cup {game} : q = T.parent[y]
    BY <2>6
  <2>8. FirstOf(order, k) = FirstOf(order, k - 1) \cup {y} /\ y \notin FirstOf(order, k - 1)
        /\ FirstOf(order, k - 1) \subseteq Instance
    <3>1. 1..k = (1..k - 1) \cup {k} /\ \A i \in 1..k - 1 : i # k /\ i \in 1..N
      BY <1>3
    <3>2. QED BY <1>1, <1>3, <2>5, <3>1 DEF FirstOf
  <2>9. K \cup {y} = H \cup FirstOf(order, k) /\ K \subseteq Instance /\ H \subseteq K
    BY <2>1, <2>8 DEF Sane
  <2>10. Sane(K, ids, nm, G)
    <3>1. ASSUME NEW x \in FirstOf(order, k - 1) PROVE x \notin G /\ x # game
      <4>1. PICK i \in 1..k - 1 : x = order[i]
        BY <3>1 DEF FirstOf
      <4>2. i \in 1..N
        BY <1>3
      <4>3. QED BY <1>0, <4>1, <4>2 DEF Arrives
    <3>2. QED BY <2>1, <2>9, <3>1 DEF Sane
  <2>11. ParentsAfter(k, par, T) = T.parent
    BY <1>3 DEF ParentsAfter
  <2>12. \A z \in K \ {y} : pk[z] = T.parent[z]
    <3>1. CASE k = 1
      <4>1. FirstOf(order, 0) = {}
        BY DEF FirstOf
      <4>2. order # <<>>
        BY <1>0, <1>3
      <4>3. QED BY <2>1, <2>2, <2>5, <3>1, <4>1, <4>2 DEF Arrives, ParentsAfter
    <3>2. CASE k # 1
      BY <1>3, <2>2, <3>2 DEF ParentsAfter
    <3>3. QED BY <3>1, <3>2
  <2>13. Reparented(K, pk, y, q, T.parent)
    BY <2>7, <2>12 DEF Reparented
  <2>14. y \in Service => /\ y \notin K /\ q = game
                          /\ \A z \in K : pk[z] = game =>
                                z \in Service /\ Before(Services, z, y)
    <3> SUFFICES ASSUME y \in Service
                 PROVE  /\ y \notin K /\ q = game
                        /\ \A z \in K : pk[z] = game => z \in Service /\ Before(Services, z, y)
      OBVIOUS
    <3>1. K = FirstOf(order, k - 1) /\ y \notin K
      BY <2>1, <2>6, <2>8
    <3>2. ASSUME NEW z \in K, pk[z] = game PROVE z \in Service /\ Before(Services, z, y)
      <4>1. PICK i \in 1..k - 1 : z = order[i]
        BY <3>1, <3>2 DEF FirstOf
      <4>2. T.parent[z] = game
        BY <2>12, <3>1, <3>2
      <4>3. QED BY <2>6, <4>1, <4>2
    <3>3. QED BY <2>6, <2>7, <3>1, <3>2
  <2>15. PICK B : y \in K => Branch(K, pk, y, q, B)
    <3>1. CASE k = 1
      <4>1. FirstOf(order, 0) = {}
        BY DEF FirstOf
      <4>2. order # <<>> /\ K = H /\ pk = par
        BY <1>0, <1>3, <2>1, <2>2, <3>1, <4>1 DEF ParentsAfter
      <4>3. y \in K => Branch(K, pk, y, q, D)
        BY <2>5, <2>7, <3>1, <4>2 DEF Arrives
      <4>4. QED BY <4>3
    <3>2. CASE k # 1
      <4>1. pk = T.parent
        BY <1>3, <2>2, <3>2 DEF ParentsAfter
      <4>2. IsTree(T, Instance) /\ T.parent[game] = Nil
        BY DEF Arrives
      <4>3. PICK S : S = Subtree(T, y)
        OBVIOUS
      <4>4. y \in S /\ S \subseteq Instance /\ q \notin S
            /\ (\A x \in S : x # y => T.parent[x] \in S)
            /\ (\A x \in Instance : T.parent[x] \in S => x \in S)
        BY <2>7, <4>2, <4>3, InstanceFacts, SubtreeProperties, ParentNotBelow
      <4>5. game \notin S
        BY <2>6, <4>2, <4>4, InstanceFacts
      <4>6. Branch(K, pk, y, q, S)
        BY <2>9, <4>1, <4>4, <4>5 DEF Branch
      <4>7. QED BY <4>6
    <3>3. QED BY <3>1, <3>2
  <2>16. y \notin K /\ q = game => \A z \in K : pk[z] = game => nm[z] # nm[y]
    BY <2>7, <2>9, <2>12 DEF Arrives
  <2>17. PICK r2 : r2 = Rank(order, k, lt)
    OBVIOUS
  <2>18. MadeLast(K \cup {y}, T.parent, y, rk, r2)
    <3> SUFFICES ASSUME NEW a \in K \cup {y}, NEW b \in K \cup {y}
                 PROVE  <<a, b>> \in r2 <=> \/ b = y /\ a # y
                                            \/ a # y /\ b # y /\ <<a, b>> \in rk
      BY DEF MadeLast
    <3>1. PICK S : S = FirstOf(order, k - 1)
      OBVIOUS
    <3>2. a \in Instance /\ b \in Instance /\ y \notin S /\ FirstOf(order, k) = S \cup {y}
      BY <2>8, <2>9, <3>1
    <3>3. <<a, b>> \in r2 <=>
             \/ b \in S \cup {y} /\ (a \in S \cup {y} => Before(order, a, b))
             \/ a \notin S \cup {y} /\ b \notin S \cup {y} /\ <<a, b>> \in lt
      BY <2>17, <3>2 DEF Rank
    <3>4. <<a, b>> \in rk <=>
             \/ b \in S /\ (a \in S => Before(order, a, b))
             \/ a \notin S /\ b \notin S /\ <<a, b>> \in lt
      BY <2>3, <3>1, <3>2 DEF Rank
    <3>5. order \in Seq(Instance) /\ IsInjective(order)
      BY DEF Arrives
    <3>6. ASSUME NEW c \in S PROVE Before(order, c, y) /\ ~Before(order, y, c)
      <4>1. PICK i \in 1..k - 1 : c = order[i]
        BY <3>1, <3>6 DEF FirstOf
      <4>2. i \in DOMAIN order /\ k \in DOMAIN order /\ i < k
        BY <1>0, <1>3, <3>5
      <4>3. Before(order, c, y)
        BY <2>5, <4>1, <4>2 DEF Before
      <4>4. QED BY <3>5, <4>3, BeforeIsOrder
    <3>7. ~Before(order, y, y)
      BY <3>5, BeforeIsOrder
    <3>8. QED BY <3>2, <3>3, <3>4, <3>6, <3>7
  <2>19. PICK e : e = Entry(T, nm, ids, y)
    OBVIOUS
  <2>20. Tells(e, y, q, ids, nm)
    <3>1. q # Nil
      BY <2>7, <2>9, InstanceFacts
    <3>2. QED BY <2>7, <2>19, <3>1 DEF Entry, Tells
  <2>21. h[k] = ApplyInstanceAdded(h[k - 1], e)
    BY <1>0, <1>3, <2>5, <2>19
  <2>22. /\ h[k].synced = h[k - 1].synced
         /\ \E z : MirrorsAll(h[k], z, K \cup {y}, T.parent, ids, nm, own, G, r2)
    <3>2. PICK u : u = h[k - 1]
      OBVIOUS
    <3>3. PICK w : w = h[k]
      OBVIOUS
    <3>4. PICK p2 : p2 = T.parent
      OBVIOUS
    <3>5. PICK L : L = K \cup {y}
      OBVIOUS
    <3>6. /\ Sane(K, ids, nm, G) /\ MirrorsAll(u, g, K, pk, ids, nm, own, G, rk)
          /\ Addable(y, q, K, pk, ids, nm, G) /\ Reparented(K, pk, y, q, p2)
          /\ L = K \cup {y} /\ MadeLast(L, p2, y, rk, r2)
          /\ Tells(e, y, q, ids, nm) /\ w = ApplyInstanceAdded(u, e)
      <4>1. Addable(y, q, K, pk, ids, nm, G)
        BY <2>6, <2>14, <2>15, <2>16 DEF Addable
      <4>2. QED BY <2>4, <2>10, <2>13, <2>18, <2>20, <2>21, <3>2, <3>3, <3>4, <3>5, <4>1
    <3>7. /\ w.synced = u.synced
          /\ \E z : MirrorsAll(w, z, L, p2, ids, nm, own, G, r2)
      BY <3>6, AddStep
    <3>8. QED BY <3>2, <3>3, <3>4, <3>5, <3>7
  <2>23. h[k - 1].synced = v.synced
    BY <1>3
  <2>24. \E z : MirrorsAll(h[k], z, H \cup FirstOf(order, k), ParentsAfter(k, par, T), ids, nm, own, G,
                           Rank(order, k, lt))
    BY <2>9, <2>11, <2>17, <2>22
  <2>25. k \in 0..N
    BY <1>3
  <2>26. QED BY <2>22, <2>23, <2>24, <2>25
<1> HIDE DEF Good
<1>4. 0..N \subseteq Good
  BY <1>2, <1>3, UpTo
<1>5. QED BY <1>0, <1>4 DEF Good

\* What Applied is after each entry.
LEMMA AppliedSteps ==
    ASSUME NEW v, NEW entries, Len(entries) \in Nat
    PROVE  /\ Applied(v, entries)[0] = v
           /\ \A n \in 1..Len(entries) :
                 Applied(v, entries)[n] = ApplyInstanceAdded(Applied(v, entries)[n - 1], entries[n])
<1> DEFINE N == Len(entries)
           Step(f, n) == IF n = 0 THEN v ELSE ApplyInstanceAdded(f[n - 1], entries[n])
           Rec(f) == f = [n \in 0..N |-> Step(f, n)]
           F == CHOOSE h : Rec(h)
<1>1. Applied(v, entries) = F
  BY DEF Applied
<1>2. PICK M \in Nat : M = N
  OBVIOUS
<1> DEFINE Ok(n, f) == DOMAIN f = 0..n /\ \A i \in 0..n : f[i] = Step(f, i)
           Good == {n \in 0..M : \E f : Ok(n, f)}
<1> HIDE DEF F
<1>3. 0 \in Good
  <2>1. PICK f : f = [i \in 0..0 |-> v]
    OBVIOUS
  <2>2. DOMAIN f = 0..0 /\ \A i \in 0..0 : f[i] = v /\ i = 0
    BY <2>1
  <2>3. Ok(0, f)
    BY <2>2
  <2>4. QED BY <2>3
<1>4. ASSUME NEW n \in 1..M, n - 1 \in Good PROVE n \in Good
  <2>1. PICK f : Ok(n - 1, f)
    BY <1>4
  <2>2. PICK e : e = ApplyInstanceAdded(f[n - 1], entries[n])
    OBVIOUS
  <2>3. PICK g : g = [i \in 0..n |-> IF i = n THEN e ELSE f[i]]
    OBVIOUS
  <2>4. DOMAIN g = 0..n /\ g[n] = e /\ \A i \in 0..n - 1 : g[i] = f[i]
    BY <2>3
  <2>5. ASSUME NEW i \in 0..n PROVE g[i] = Step(g, i)
    <3>1. CASE i = n
      <4>1. g[n - 1] = f[n - 1] /\ n # 0
        BY <1>4, <2>4
      <4>2. QED BY <2>2, <2>4, <3>1, <4>1
    <3>2. CASE i # n /\ i # 0
      <4>1. i \in 0..n - 1 /\ i - 1 \in 0..n - 1
        BY <1>4, <2>5, <3>2
      <4>2. g[i] = f[i] /\ g[i - 1] = f[i - 1]
        BY <2>4, <4>1
      <4>3. f[i] = ApplyInstanceAdded(f[i - 1], entries[i])
        BY <2>1, <3>2, <4>1
      <4>4. QED BY <3>2, <4>2, <4>3
    <3>3. CASE i # n /\ i = 0
      <4>1. 0 \in 0..n - 1
        BY <1>4
      <4>2. g[0] = f[0] /\ f[0] = v
        BY <2>1, <2>4, <4>1
      <4>3. QED BY <3>3, <4>2
    <3>4. QED BY <3>1, <3>2, <3>3
  <2>6. Ok(n, g)
    BY <2>4, <2>5
  <2>7. n \in 0..M
    BY <1>4
  <2>8. QED BY <2>6, <2>7
<1>5. M \in Good
  <2> HIDE DEF Good
  <2>1. 0..M \subseteq Good
    BY <1>3, <1>4, UpTo
  <2>2. QED BY <2>1
<1>6. PICK f : Ok(M, f)
  BY <1>5
<1>7. PICK g : g = [n \in 0..M |-> f[n]]
  OBVIOUS
<1>8. \A n \in 0..M : g[n] = Step(g, n)
  <2> TAKE n \in 0..M
  <2>1. g[n] = f[n] /\ f[n] = Step(f, n)
    BY <1>6, <1>7
  <2>2. n # 0 => n - 1 \in 0..M
    OBVIOUS
  <2>3. n # 0 => g[n - 1] = f[n - 1]
    BY <1>7, <2>2
  <2>4. QED BY <2>1, <2>3
<1>9. Rec(g)
  BY <1>2, <1>7, <1>8
<1>10. Rec(F)
  <2> HIDE DEF Rec
  <2>1. QED BY <1>9 DEF F
<1>11. F = [n \in 0..M |-> Step(F, n)]
  BY <1>2, <1>10
<1>12. F[0] = v
  <2>1. 0 \in 0..M
    OBVIOUS
  <2>2. QED BY <1>11, <2>1
<1>13. \A n \in 1..M : F[n] = ApplyInstanceAdded(F[n - 1], entries[n])
  <2> TAKE n \in 1..M
  <2>1. n \in 0..M /\ n # 0
    OBVIOUS
  <2>2. QED BY <1>11, <2>1
<1>14. QED BY <1>1, <1>2, <1>12, <1>13

\* A client as the invariant of Replication wants it.
Fine(v) == v \in Views /\ ~v.crashed

\* A list of something.
IsList(s) == \E S : s \in Seq(S)

\* The packets s take a client from v to w, and nothing goes wrong on the way.
Leads(v, s, w) ==
    /\ IsList(s)
    /\ \E h : /\ h[0] = v /\ h[Len(s)] = w
              /\ \A k \in 1..Len(s) : h[k] = Received(h[k - 1], s[k])
              /\ \A k \in 0..Len(s) : Fine(h[k])

\* No packet leads nowhere else.
LEMMA LeadsEmpty ==
    ASSUME NEW v
    PROVE  /\ Fine(v) => Leads(v, <<>>, v)
           /\ \A w : Leads(v, <<>>, w) => w = v /\ Fine(v)
<1>1. <<>> \in Seq({}) /\ Len(<<>>) = 0
  BY EmptySeq
<1>2. ASSUME Fine(v) PROVE Leads(v, <<>>, v)
  <2>1. PICK h : h = [i \in 0..0 |-> v]
    OBVIOUS
  <2>2. h[0] = v
    BY <2>1
  <2>3. \A k \in 0..0 : h[k] = v
    BY <2>1
  <2>4. PICK n : n = Len(<<>>)
    OBVIOUS
  <2>5. \A k \in 1..0 : FALSE
    OBVIOUS
  <2>6. QED BY <1>1, <1>2, <2>2, <2>3, <2>5 DEF Leads, IsList
<1>3. ASSUME NEW w, Leads(v, <<>>, w) PROVE w = v /\ Fine(v)
  BY <1>1, <1>3 DEF Leads
<1>4. QED BY <1>2, <1>3

\* A packet is received.
LEMMA LeadsTail ==
    ASSUME NEW v, NEW s, NEW w, Leads(v, s, w), s # <<>>
    PROVE  /\ Leads(Received(v, Head(s)), Tail(s), w)
           /\ Fine(v) /\ Fine(Received(v, Head(s)))
<1>1. PICK S : s \in Seq(S)
  BY DEF Leads, IsList
<1>2. PICK h : /\ h[0] = v /\ h[Len(s)] = w
               /\ \A k \in 1..Len(s) : h[k] = Received(h[k - 1], s[k])
               /\ \A k \in 0..Len(s) : Fine(h[k])
  BY DEF Leads
<1>3. PICK n \in Nat : n = Len(s) /\ n >= 1
  BY <1>1, EmptySeq
<1>4. PICK t \in Seq(S) : /\ t = Tail(s) /\ Len(t) = n - 1
                          /\ \A i \in 1..n - 1 : t[i] = s[i + 1]
  <2>1. PICK t : t = Tail(s)
    OBVIOUS
  <2>2. t \in Seq(S)
    BY <1>1, <1>3, <2>1, HeadTailProperties
  <2>3. Len(t) = n - 1 /\ \A i \in 1..n - 1 : t[i] = s[i + 1]
    BY <1>1, <1>3, <2>1, HeadTailProperties
  <2>4. QED BY <2>1, <2>2, <2>3
<1>5. Head(s) = s[1]
  BY <1>1, HeadAndTail
<1>6. PICK g : g = [k \in 0..n - 1 |-> h[k + 1]]
  OBVIOUS
<1>7. \A k \in 0..n - 1 : g[k] = h[k + 1] /\ k + 1 \in 0..n /\ k + 1 \in 1..n
  BY <1>3, <1>6
<1>8. h[1] = Received(v, Head(s)) /\ g[0] = h[1]
  <2>1. 1 \in 1..n /\ 0 \in 0..n - 1 /\ 1 - 1 = 0 /\ 0 + 1 = 1
    BY <1>3
  <2>2. QED BY <1>2, <1>3, <1>5, <1>7, <2>1
<1>9. g[n - 1] = w
  <2>1. n - 1 \in 0..n - 1 /\ (n - 1) + 1 = n
    BY <1>3
  <2>2. QED BY <1>2, <1>3, <1>7, <2>1
<1>10. \A k \in 1..n - 1 : g[k] = Received(g[k - 1], t[k])
  <2> TAKE k \in 1..n - 1
  <2>1. k \in 0..n - 1 /\ k - 1 \in 0..n - 1 /\ (k - 1) + 1 = k /\ (k + 1) - 1 = k /\ k + 1 \in 1..n
    BY <1>3
  <2>2. g[k] = h[k + 1] /\ g[k - 1] = h[k]
    BY <1>7, <2>1
  <2>3. h[k + 1] = Received(h[k], s[k + 1])
    BY <1>2, <1>3, <2>1
  <2>4. QED BY <1>4, <2>2, <2>3
<1>11. \A k \in 0..n - 1 : Fine(g[k])
  BY <1>2, <1>3, <1>7
<1>12. Leads(h[1], t, w)
  BY <1>4, <1>8, <1>9, <1>10, <1>11 DEF Leads, IsList
<1>13. Fine(v) /\ Fine(h[1])
  <2>1. 0 \in 0..n /\ 1 \in 0..n
    BY <1>3
  <2>2. QED BY <1>2, <1>3, <2>1
<1>14. QED BY <1>4, <1>8, <1>12, <1>13

\* A packet is sent.
LEMMA LeadsAppend ==
    ASSUME NEW v, NEW s, NEW w, Leads(v, s, w), NEW m, Fine(Received(w, m))
    PROVE  Leads(v, Append(s, m), Received(w, m))
<1>1. PICK R : s \in Seq(R)
  BY DEF Leads, IsList
<1>1a. PICK S : S = R \cup {m}
  OBVIOUS
<1>1b. s \in Seq(S) /\ m \in S
  BY <1>1, <1>1a
<1>2. PICK h : /\ h[0] = v /\ h[Len(s)] = w
               /\ \A k \in 1..Len(s) : h[k] = Received(h[k - 1], s[k])
               /\ \A k \in 0..Len(s) : Fine(h[k])
  BY DEF Leads
<1>3. PICK n \in Nat : n = Len(s)
  BY <1>1b
<1>4. PICK t \in Seq(S) : /\ t = Append(s, m) /\ Len(t) = n + 1
                          /\ t[n + 1] = m /\ \A i \in 1..n : t[i] = s[i]
  <2>1. PICK t : t = Append(s, m)
    OBVIOUS
  <2>2. t \in Seq(S)
    BY <1>1b, <2>1, AppendProperties
  <2>3. Len(t) = n + 1 /\ t[n + 1] = m /\ \A i \in 1..n : t[i] = s[i]
    BY <1>1b, <1>3, <2>1, AppendProperties
  <2>4. QED BY <2>1, <2>2, <2>3
<1>5. PICK u : u = Received(w, m)
  OBVIOUS
<1>6. PICK g : g = [k \in 0..n + 1 |-> IF k = n + 1 THEN u ELSE h[k]]
  OBVIOUS
<1>7. g[n + 1] = u /\ \A k \in 0..n : g[k] = h[k]
  BY <1>6
<1>8. g[0] = v
  BY <1>2, <1>7
<1>9. ASSUME NEW k \in 1..n + 1 PROVE g[k] = Received(g[k - 1], t[k])
  <2>1. CASE k = n + 1
    <3>1. k - 1 = n /\ n \in 0..n
      BY <2>1
    <3>2. g[k - 1] = w
      BY <1>2, <1>3, <1>7, <3>1
    <3>3. QED BY <1>4, <1>5, <1>7, <2>1, <3>2
  <2>2. CASE k # n + 1
    <3>1. k \in 1..n /\ k \in 0..n /\ k - 1 \in 0..n
      BY <2>2
    <3>2. QED BY <1>2, <1>3, <1>4, <1>7, <3>1
  <2>3. QED BY <2>1, <2>2
<1>10. ASSUME NEW k \in 0..n + 1 PROVE Fine(g[k])
  <2>1. CASE k = n + 1
    BY <1>5, <1>7, <2>1
  <2>2. CASE k # n + 1
    <3>1. k \in 0..n
      BY <2>2
    <3>2. QED BY <1>2, <1>3, <1>7, <3>1
  <2>3. QED BY <2>1, <2>2
<1>11. Leads(v, t, u)
  BY <1>4, <1>7, <1>8, <1>9, <1>10 DEF Leads, IsList
<1>12. QED BY <1>4, <1>5, <1>11

\* Packets are sent, one after the other.
LEMMA LeadsConcat ==
    ASSUME NEW v, NEW s, NEW w, Leads(v, s, w), NEW t, NEW u, Leads(w, t, u)
    PROVE  Leads(v, s \o t, u)
<1>1. PICK R : s \in Seq(R)
  BY DEF Leads, IsList
<1>2. PICK Q : t \in Seq(Q)
  BY DEF Leads, IsList
<1>3. PICK S : S = R \cup Q
  OBVIOUS
<1>4. s \in Seq(S) /\ t \in Seq(S)
  BY <1>1, <1>2, <1>3
<1>5. PICK h : /\ h[0] = v /\ h[Len(s)] = w
               /\ \A k \in 1..Len(s) : h[k] = Received(h[k - 1], s[k])
               /\ \A k \in 0..Len(s) : Fine(h[k])
  BY DEF Leads
<1>6. PICK g : /\ g[0] = w /\ g[Len(t)] = u
               /\ \A k \in 1..Len(t) : g[k] = Received(g[k - 1], t[k])
               /\ \A k \in 0..Len(t) : Fine(g[k])
  BY DEF Leads
<1>7. PICK n \in Nat : n = Len(s)
  BY <1>4
<1>8. PICK m \in Nat : m = Len(t)
  BY <1>4
<1>9. PICK c \in Seq(S) : /\ c = s \o t /\ Len(c) = n + m
                          /\ \A i \in 1..n : c[i] = s[i]
                          /\ \A i \in 1..m : c[n + i] = t[i]
  <2>1. PICK d : d = s \o t
    OBVIOUS
  <2>2. d \in Seq(S) /\ Len(d) = n + m
    BY <1>4, <1>7, <1>8, <2>1, ConcatProperties
  <2>3. \A i \in 1..n + m : d[i] = IF i <= n THEN s[i] ELSE t[i - n]
    BY <1>4, <1>7, <1>8, <2>1, ConcatProperties
  <2>4. \A i \in 1..n : d[i] = s[i]
    <3>1. \A i \in 1..n : i \in 1..n + m /\ i <= n
      OBVIOUS
    <3>2. QED BY <2>3, <3>1
  <2>5. \A i \in 1..m : d[n + i] = t[i]
    <3>1. \A i \in 1..m : n + i \in 1..n + m /\ ~(n + i <= n) /\ (n + i) - n = i
      OBVIOUS
    <3>2. QED BY <2>3, <3>1
  <2>6. QED BY <2>1, <2>2, <2>4, <2>5
<1>10. PICK f : f = [k \in 0..n + m |-> IF k <= n THEN h[k] ELSE g[k - n]]
  OBVIOUS
<1>11. /\ \A k \in 0..n : f[k] = h[k] /\ Fine(f[k])
       /\ \A k \in 1..m : f[n + k] = g[k] /\ Fine(f[n + k])
  <2>1. ASSUME NEW k \in 0..n PROVE f[k] = h[k] /\ Fine(f[k])
    <3>1. k \in 0..n + m /\ k <= n
      OBVIOUS
    <3>2. QED BY <1>5, <1>7, <1>10, <3>1
  <2>2. ASSUME NEW k \in 1..m PROVE f[n + k] = g[k] /\ Fine(f[n + k])
    <3>1. n + k \in 0..n + m /\ ~(n + k <= n) /\ (n + k) - n = k /\ k \in 0..m
      OBVIOUS
    <3>2. QED BY <1>6, <1>8, <1>10, <3>1
  <2>3. QED BY <2>1, <2>2
<1>12. f[n] = g[0] /\ f[0] = v
  BY <1>5, <1>6, <1>7, <1>11
<1>13. f[n + m] = u
  <2>1. CASE m = 0
    BY <1>6, <1>8, <1>12, <2>1
  <2>2. CASE m # 0
    <3>1. m \in 1..m
      BY <2>2
    <3>2. QED BY <1>6, <1>8, <1>11, <3>1
  <2>3. QED BY <2>1, <2>2
<1>14. ASSUME NEW k \in 1..n + m PROVE f[k] = Received(f[k - 1], c[k]) /\ Fine(f[k])
  <2>1. CASE k <= n
    <3>1. k \in 1..n /\ k \in 0..n /\ k - 1 \in 0..n
      BY <2>1
    <3>2. QED BY <1>5, <1>7, <1>9, <1>11, <3>1
  <2>2. CASE ~(k <= n)
    <3>1. PICK j \in 1..m : j = k - n
      BY <2>2
    <3>2. k = n + j
      BY <3>1
    <3>3. f[k - 1] = g[j - 1]
      <4>1. CASE j = 1
        <5>1. k - 1 = n
          BY <3>2, <4>1
        <5>2. QED BY <1>12, <4>1, <5>1
      <4>2. CASE j # 1
        <5>1. j - 1 \in 1..m /\ k - 1 = n + (j - 1)
          BY <3>2, <4>2
        <5>2. QED BY <1>11, <5>1
      <4>3. QED BY <4>1, <4>2
    <3>4. QED BY <1>6, <1>8, <1>9, <1>11, <3>2, <3>3
  <2>3. QED BY <2>1, <2>2
<1>15. \A k \in 0..n + m : Fine(f[k])
  <2>1. Fine(f[0])
    BY <1>11
  <2>2. \A k \in 0..n + m : k = 0 \/ k \in 1..n + m
    OBVIOUS
  <2>3. QED BY <1>14, <2>1, <2>2
<1>16. Leads(v, c, u)
  <2>1. IsList(c)
    BY <1>9 DEF IsList
  <2>2. PICK l \in Nat : l = n + m
    OBVIOUS
  <2>3. /\ Len(c) = l /\ f[0] = v /\ f[l] = u
        /\ \A k \in 1..l : f[k] = Received(f[k - 1], c[k])
        /\ \A k \in 0..l : Fine(f[k])
    BY <1>9, <1>12, <1>13, <1>14, <1>15, <2>2
  <2>4. QED BY <2>1, <2>3 DEF Leads
<1>17. QED BY <1>9, <1>16

\* A packet leads to what it makes of the client.
LEMMA LeadsOne ==
    ASSUME NEW v, NEW m, Fine(v), Fine(Received(v, m))
    PROVE  Leads(v, <<m>>, Received(v, m))
<1>1. Leads(v, Append(<<>>, m), Received(v, m))
  BY LeadsEmpty, LeadsAppend
<1>2. QED BY <1>1

(***************************************************************************)
(* Instances are destroyed.                                                *)
(*                                                                         *)
(* ApplyInstanceRemoved destroys the object and what is below it, clears   *)
(* the owners that have gone, and releases what nothing refers to.         *)
(***************************************************************************)

\* What is released: destroyed objects that nothing refers to.
Gone(v) ==
    v.tree.dead \ (((Object \ v.tree.dead) \cup Hold \cup {v.localPlayer})
                   \cup {v.owner[o] : o \in ((Object \ v.tree.dead) \cup Hold \cup {v.localPlayer}) \ {Nil}})

\* What Release leaves.
LEMMA ReleaseIs ==
    ASSUME NEW v \in Views
    PROVE  /\ Release(v) \in Views
           /\ Release(v).tree = v.tree /\ Release(v).name = v.name
           /\ Release(v).localPlayer = v.localPlayer
           /\ Release(v).synced = v.synced /\ Release(v).crashed = v.crashed
           /\ \A o \in Object :
                 /\ Release(v).netId[o] = IF o \in Gone(v) THEN 0 ELSE v.netId[o]
                 /\ Release(v).cls[o] = IF o \in Gone(v) THEN Nil ELSE v.cls[o]
                 /\ Release(v).owner[o] = IF o \in Gone(v) THEN Nil ELSE v.owner[o]
<1>1. PICK gone : gone = Gone(v)
  OBVIOUS
<1>2. PICK r : r = Release(v)
  OBVIOUS
<1>3. r = [v EXCEPT !.netId = [o \in Object |-> IF o \in gone THEN 0 ELSE v.netId[o]],
                    !.cls   = [o \in Object |-> IF o \in gone THEN Nil ELSE v.cls[o]],
                    !.owner = [o \in Object |-> IF o \in gone THEN Nil ELSE v.owner[o]]]
  BY <1>1, <1>2 DEF Release, Gone, Views
<1>4. PICK a : a = [o \in Object |-> IF o \in gone THEN 0 ELSE v.netId[o]]
  OBVIOUS
<1>5. PICK b : b = [o \in Object |-> IF o \in gone THEN Nil ELSE v.cls[o]]
  OBVIOUS
<1>6. PICK c : c = [o \in Object |-> IF o \in gone THEN Nil ELSE v.owner[o]]
  OBVIOUS
<1>7. r = [v EXCEPT !.netId = a, !.cls = b, !.owner = c]
  BY <1>3, <1>4, <1>5, <1>6
<1>8. a \in [Object -> 0..MaxNetId]
  BY <1>4, ObjectFacts DEF Views
<1>9. b \in [Object -> Object \cup Creatable \cup {Nil}]
  BY <1>5 DEF Views
<1>10. c \in [Object -> Object \cup {Nil}]
  BY <1>6 DEF Views
<1>11. /\ r \in Views /\ r.netId = a /\ r.cls = b /\ r.owner = c /\ r.tree = v.tree
       /\ r.name = v.name /\ r.localPlayer = v.localPlayer /\ r.synced = v.synced
       /\ r.crashed = v.crashed
  BY <1>7, <1>8, <1>9, <1>10 DEF Views
<1>12. QED BY <1>1, <1>2, <1>4, <1>5, <1>6, <1>11

\* Freeing what nothing refers to loses nothing that stands for an instance.
LEMMA ReleaseStep ==
    ASSUME NEW v, NEW f, NEW H, NEW par, NEW ids, NEW nm, NEW own, NEW G, NEW lt,
           Sane(H, ids, nm, G) /\ MirrorsAll(v, f, H, par, ids, nm, own, G, lt)
    PROVE  /\ MirrorsAll(Release(v), f, H, par, ids, nm, own, G, lt)
           /\ Release(v).synced = v.synced
<1>1. /\ ClientOK(v) /\ ServicesFirst(v.tree) /\ Mirrors(v, f, H, par, ids, G)
      /\ Named(v, f, H, nm) /\ Owned(v, f, H, own, ids) /\ Ordered(v, f, H, par, lt)
  BY DEF MirrorsAll
<1>2. /\ f \in [H \cup {game} -> Object] /\ f[game] = game
      /\ \A x \in H : /\ par[x] \in H \cup {game} /\ ids[x] # 0 /\ v.netId[f[x]] = ids[x]
                      /\ f[x] \notin v.tree.dead /\ v.cls[f[x]] = ClassOf(x)
                      /\ v.tree.parent[f[x]] = f[par[x]]
      /\ \A o \in Object : v.netId[o] # 0 =>
            \/ o \notin v.tree.dead /\ \E x \in H : o = f[x]
            \/ o \in v.tree.dead /\ \E x \in G : v.netId[o] = ids[x]
      /\ \A o \in Object, x \in Instance :
            v.netId[o] = ids[x] /\ ids[x] # 0 /\ (o \in Service \/ x \in Service) => o = x
      /\ Service \cap v.tree.dead \subseteq G
  BY <1>1 DEF Mirrors
<1>4. /\ v \in Views /\ ~v.crashed /\ IsTree(v.tree, Object)
      /\ v.tree.parent[game] = Nil /\ game \notin v.tree.dead /\ v.netId[game] = 0
      /\ \A o, q \in Object : v.netId[o] = v.netId[q] /\ v.netId[o] # 0 => o = q
      /\ \A o \in Made : v.cls[o] = Nil <=> v.netId[o] = 0
      /\ \A o \in Made : v.netId[o] = 0 => v.tree.parent[o] = Nil
      /\ \A o, k \in Object : o # game /\ v.netId[o] = 0 => v.tree.parent[k] # o
      /\ \A k \in Object : v.tree.parent[k] \notin v.tree.dead
      /\ \A s \in Service : v.owner[s] = Nil
      /\ \A s \in Service \ v.tree.dead :
            v.tree.parent[s] = game /\ v.name[s] = s /\ v.cls[s] = s
  BY <1>1 DEF ClientOK
<1>5. PICK gone : gone = Gone(v)
  OBVIOUS
<1>6. /\ gone \subseteq v.tree.dead
      /\ \A o \in Object \ v.tree.dead : v.owner[o] \notin gone
  BY <1>5, ObjectFacts DEF Gone
<1>7. PICK w : w = Release(v)
  OBVIOUS
<1>8. /\ w \in Views /\ w.tree = v.tree /\ w.name = v.name
      /\ w.synced = v.synced /\ w.crashed = v.crashed
      /\ \A o \in Object : /\ w.netId[o] = IF o \in gone THEN 0 ELSE v.netId[o]
                           /\ w.cls[o] = IF o \in gone THEN Nil ELSE v.cls[o]
                           /\ w.owner[o] = IF o \in gone THEN Nil ELSE v.owner[o]
  BY <1>4, <1>5, <1>7, ReleaseIs
<1>9. \A o \in Object \ gone : w.netId[o] = v.netId[o] /\ w.cls[o] = v.cls[o] /\ w.owner[o] = v.owner[o]
  BY <1>8
<1>10. \A o \in Object \cap gone : w.netId[o] = 0 /\ w.cls[o] = Nil /\ w.owner[o] = Nil
  BY <1>8
<1>11. \A o \in gone : v.tree.parent[o] = Nil
  BY <1>4, <1>6 DEF IsTree
<1>12. \A x \in H : f[x] \in Object \ gone
  BY <1>2, <1>6
<1>13. ClientOK(w)
  <2>1. \A o, q \in Object : w.netId[o] = w.netId[q] /\ w.netId[o] # 0 => o = q
    BY <1>4, <1>9, <1>10
  <2>2. \A o \in Made : w.cls[o] = Nil <=> w.netId[o] = 0
    BY <1>4, <1>9, <1>10, ObjectFacts
  <2>3. \A o \in Made : w.netId[o] = 0 => w.tree.parent[o] = Nil
    BY <1>4, <1>8, <1>9, <1>11, ObjectFacts
  <2>4. \A o, k \in Object : o # game /\ w.netId[o] = 0 => w.tree.parent[k] # o
    BY <1>4, <1>6, <1>8, <1>9
  <2>5. w.netId[game] = 0
    BY <1>4, <1>8, ObjectFacts
  <2>6. \A s \in Service : w.owner[s] = Nil
    BY <1>4, <1>9, <1>10, ObjectFacts
  <2>7. \A s \in Service \ w.tree.dead :
            w.tree.parent[s] = game /\ w.name[s] = s /\ w.cls[s] = s
    BY <1>4, <1>6, <1>8, <1>9, ObjectFacts
  <2>8. QED BY <1>4, <1>8, <2>1, <2>2, <2>3, <2>4, <2>5, <2>6, <2>7 DEF ClientOK
<1>14. Mirrors(w, f, H, par, ids, G)
  <2>1. \A o \in Object : w.netId[o] # 0 =>
            \/ o \notin w.tree.dead /\ \E x \in H : o = f[x]
            \/ o \in w.tree.dead /\ \E x \in G : w.netId[o] = ids[x]
    BY <1>2, <1>8, <1>9, <1>10
  <2>2. \A o \in Object, x \in Instance :
            w.netId[o] = ids[x] /\ ids[x] # 0 /\ (o \in Service \/ x \in Service) => o = x
    BY <1>2, <1>9, <1>10
  <2>3. \A x \in H : w.netId[f[x]] = ids[x] /\ w.cls[f[x]] = ClassOf(x)
    BY <1>2, <1>9, <1>12
  <2>4. QED BY <1>2, <1>8, <2>1, <2>2, <2>3 DEF Mirrors
<1>15. Owned(w, f, H, own, ids)
  <2> SUFFICES ASSUME NEW x \in H, w.owner[f[x]] # Nil
               PROVE  own[x] \in Conns /\ ids[own[x]] # 0 /\ w.netId[w.owner[f[x]]] = ids[own[x]]
    BY DEF Owned
  <2>1. w.owner[f[x]] = v.owner[f[x]] /\ v.owner[f[x]] \notin gone
    BY <1>2, <1>6, <1>9, <1>12
  <2>2. v.owner[f[x]] \in Object
    BY <1>4, <1>12, <2>1 DEF Views
  <2>3. QED BY <1>1, <1>9, <2>1, <2>2 DEF Owned
<1>16. Named(w, f, H, nm) /\ Ordered(w, f, H, par, lt) /\ ServicesFirst(w.tree)
  BY <1>1, <1>8 DEF Named, Ordered
<1>17. QED BY <1>7, <1>8, <1>13, <1>14, <1>15, <1>16 DEF MirrorsAll

\* A client with another tree and other owners.
Replanted(v, T, a) == [v EXCEPT !.tree = T, !.owner = a]

\* Such a client has its types.
LEMMA WithTreeOwners ==
    ASSUME NEW v, NEW T, NEW a, NEW w,
           /\ v \in Views /\ T \in Tree(Object) /\ a \in [Object -> Object \cup {Nil}]
           /\ w = Replanted(v, T, a)
    PROVE  /\ w \in Views /\ w.tree = T /\ w.name = v.name /\ w.cls = v.cls
           /\ w.netId = v.netId /\ w.owner = a /\ w.localPlayer = v.localPlayer
           /\ w.synced = v.synced /\ w.crashed = v.crashed
BY DEF Views, Replanted

\* A client without its object for y and those below, but before it releases any.
Uprooted(v, o) ==
    [v EXCEPT !.tree = Destroy(v.tree, o),
              !.owner = [x \in Object |->
                  IF x \in Destroy(v.tree, o).dead \ v.tree.dead THEN Nil ELSE v.owner[x]]]

\* S is y and what is below y; without S, K is left of H.
Cut(H, par, y, S, K, G, G2) ==
    /\ K = H \ S /\ G2 = G \cup S
    /\ y \in H /\ y \in S /\ game \notin S
    /\ \A k \in H : par[k] \in S => k \in S
    /\ \A k \in H \cap S : k # y => par[k] \in H \cap S

\* a and b are the same on K.
Agree(K, a, b) == \A k \in K : b[k] = a[k]

\* The part of a client's tree that stands for S is destroyed.
LEMMA DestroyStep ==
    ASSUME NEW v, NEW f, NEW H, NEW par, NEW ids, NEW nm, NEW own, NEW G, NEW lt,
           NEW y, NEW S, NEW K, NEW G2, NEW own2, NEW w,
           /\ Sane(H, ids, nm, G) /\ MirrorsAll(v, f, H, par, ids, nm, own, G, lt)
           /\ Cut(H, par, y, S, K, G, G2) /\ Agree(K, own, own2)
           /\ w = Uprooted(v, f[y])
    PROVE  /\ w.synced = v.synced
           /\ \E g : MirrorsAll(w, g, K, par, ids, nm, own2, G2, lt)
<1>0. /\ y \in H /\ y \in S /\ game \notin S
      /\ \A k \in H : par[k] \in S => k \in S
      /\ \A k \in H \cap S : k # y => par[k] \in H \cap S
      /\ \A k \in K : own2[k] = own[k]
      /\ K = H \ S /\ G2 = G \cup S
  BY DEF Cut, Agree
<1> USE <1>0
<1>1. /\ ClientOK(v) /\ ServicesFirst(v.tree) /\ Mirrors(v, f, H, par, ids, G)
      /\ Named(v, f, H, nm) /\ Owned(v, f, H, own, ids) /\ Ordered(v, f, H, par, lt)
  BY DEF MirrorsAll
<1>2. /\ f \in [H \cup {game} -> Object] /\ f[game] = game
      /\ \A x \in H : /\ par[x] \in H \cup {game} /\ ids[x] # 0 /\ v.netId[f[x]] = ids[x]
                      /\ f[x] \notin v.tree.dead /\ v.cls[f[x]] = ClassOf(x)
                      /\ v.tree.parent[f[x]] = f[par[x]]
      /\ \A o \in Object : v.netId[o] # 0 =>
            \/ o \notin v.tree.dead /\ \E x \in H : o = f[x]
            \/ o \in v.tree.dead /\ \E x \in G : v.netId[o] = ids[x]
      /\ \A o \in Object, x \in Instance :
            v.netId[o] = ids[x] /\ ids[x] # 0 /\ (o \in Service \/ x \in Service) => o = x
      /\ Service \cap v.tree.dead \subseteq G
  BY <1>1 DEF Mirrors
<1>3. \A x, z \in H \cup {game} : f[x] = f[z] => x = z
  BY <1>1, ImagesDiffer
<1>4. /\ v \in Views /\ ~v.crashed /\ IsTree(v.tree, Object)
      /\ v.tree.parent[game] = Nil /\ game \notin v.tree.dead /\ v.netId[game] = 0
      /\ \A o, q \in Object : v.netId[o] = v.netId[q] /\ v.netId[o] # 0 => o = q
      /\ \A o \in Made : v.cls[o] = Nil <=> v.netId[o] = 0
      /\ \A o \in Made : v.netId[o] = 0 => v.tree.parent[o] = Nil
      /\ \A o, k \in Object : o # game /\ v.netId[o] = 0 => v.tree.parent[k] # o
      /\ \A k \in Object : v.tree.parent[k] \notin v.tree.dead
      /\ \A s \in Service : v.owner[s] = Nil
      /\ \A s \in Service \ v.tree.dead :
            v.tree.parent[s] = game /\ v.name[s] = s /\ v.cls[s] = s
  BY <1>1 DEF ClientOK
<1>5. H \subseteq Instance \ {game} /\ K \subseteq H
  BY DEF Sane
<1>6. PICK o \in Object : o = f[y]
  BY <1>2
<1>7. PICK t : t = v.tree
  OBVIOUS
<1>8. PICK O : O = Object
  OBVIOUS
<1>9. IsFiniteSet(O) /\ Nil \notin O /\ IsTree(t, O) /\ o \in O /\ o \notin t.dead
  BY <1>2, <1>4, <1>6, <1>7, <1>8, ObjectFacts
<1>10. PICK B \in SUBSET O : B = Subtree(t, o)
  BY <1>9, SubtreeProperties
<1>11. o \in B /\ \A k \in O : t.parent[k] \in B => k \in B
  BY <1>9, <1>10, SubtreeProperties
<1>12. \A k \in B : \E z \in H \cap S : k = f[z]
  <2>1. \A k \in Subtree(v.tree, f[y]) : \E z \in H \cap S : k = f[z]
    BY <1>1, BelowImage
  <2>2. QED BY <1>6, <1>7, <1>10, <2>1
\* What stands for S is below the object of y.
<1>13. \A z \in H \cap S : f[z] \in B
  <2>1. PICK R \in SUBSET Instance : R = {z \in H \cap S : f[z] \notin B}
    BY <1>5
  <2>2. CASE R = {}
    BY <2>1, <2>2
  <2>3. CASE R # {}
    <3>0. \A z \in R : f[z] \in O
      BY <1>2, <1>8, <2>1
    <3>1. PICK Q \in SUBSET O : Q = {k \in O : \E z \in R : k = f[z]}
      OBVIOUS
    <3>2. Q # {}
      BY <2>3, <3>0, <3>1
    <3>3. PICK k \in Q : t.parent[k] \notin Q
      BY <1>9, <3>2 DEF IsTree
    <3>4. PICK z \in R : k = f[z]
      BY <3>1
    <3>5. z # y /\ z \in H \cap S
      BY <1>6, <1>11, <2>1, <3>4
    <3>6. par[z] \in H \cap S /\ t.parent[k] = f[par[z]]
      BY <1>2, <1>7, <3>4, <3>5
    <3>7. f[par[z]] \in B
      <4>1. f[par[z]] \notin Q /\ par[z] \in Instance
        BY <1>5, <3>3, <3>6
      <4>2. par[z] \notin R
        BY <3>0, <3>1, <4>1
      <4>3. QED BY <2>1, <3>6, <4>2
    <3>8. k \in B
      BY <1>8, <1>11, <3>3, <3>6, <3>7
    <3>9. QED BY <2>1, <3>4, <3>8
  <2>4. QED BY <2>2, <2>3
<1>14. \A k \in K : f[k] \notin B
  <2> SUFFICES ASSUME NEW k \in K, f[k] \in B PROVE FALSE
    OBVIOUS
  <2>1. PICK z \in H \cap S : f[k] = f[z]
    BY <1>12
  <2>2. QED BY <1>3, <1>5, <2>1
<1>15. game \notin B
  <2> SUFFICES ASSUME game \in B PROVE FALSE
    OBVIOUS
  <2>1. PICK z \in H \cap S : f[game] = f[z]
    BY <1>2, <1>12
  <2>2. QED BY <1>3, <2>1
<1>16. PICK T : T = Destroy(t, o)
  OBVIOUS
<1>17. /\ IsTree(T, O) /\ T.dead = t.dead \cup B
       /\ T.parent = [k \in O |-> IF k \in B THEN Nil ELSE t.parent[k]]
  BY <1>9, <1>10, <1>16, DestroyProperties
<1>18. /\ \A k \in Object \ B : T.parent[k] = t.parent[k]
       /\ \A k \in B : T.parent[k] = Nil
  BY <1>8, <1>17
<1>19. \A q \in O \ B : \A a, b :
          Before(T.kids[q], a, b) <=> Before(t.kids[q], a, b) /\ a # o /\ b # o
  BY <1>9, <1>10, <1>16, DestroyOrder
<1>20. B \cap t.dead = {}
  <2>1. \A k \in B : k \notin t.dead
    BY <1>2, <1>7, <1>12
  <2>2. QED BY <2>1
<1>21. PICK a : a = [x \in Object |-> IF x \in B THEN Nil ELSE v.owner[x]]
  OBVIOUS
<1>22. a \in [Object -> Object \cup {Nil}]
  BY <1>4, <1>21 DEF Views
<1>23. w = [v EXCEPT !.tree = T, !.owner = a]
  <2>1. [x \in Object |-> IF x \in T.dead \ t.dead THEN Nil ELSE v.owner[x]] = a
    BY <1>17, <1>20, <1>21
  <2>2. QED BY <1>6, <1>7, <1>16, <2>1 DEF Uprooted
<1>24. /\ w \in Views /\ w.tree = T /\ w.name = v.name /\ w.cls = v.cls
       /\ w.netId = v.netId /\ w.owner = a
       /\ w.synced = v.synced /\ w.crashed = v.crashed
  <2>1. T \in Tree(Object)
    BY <1>8, <1>17 DEF IsTree
  <2>2. /\ v \in Views /\ T \in Tree(Object) /\ a \in [Object -> Object \cup {Nil}]
        /\ w = Replanted(v, T, a)
    BY <1>4, <1>22, <1>23, <2>1 DEF Replanted
  <2>3. QED BY <2>2, WithTreeOwners
<1>25. PICK g : g = [x \in K \cup {game} |-> f[x]]
  OBVIOUS
<1>26. /\ g \in [K \cup {game} -> Object] /\ \A x \in K \cup {game} : g[x] = f[x] /\ f[x] \in Object \ B
  BY <1>2, <1>5, <1>14, <1>15, <1>25
<1>27. \A x \in K : par[x] \in K \cup {game}
  BY <1>2, <1>5
<1>28. ClientOK(w)
  <2>1. \A k \in Made : w.netId[k] = 0 => w.tree.parent[k] = Nil
    BY <1>4, <1>7, <1>18, <1>24, ObjectFacts
  <2>2. \A u, k \in Object : u # game /\ w.netId[u] = 0 => w.tree.parent[k] # u
    BY <1>4, <1>7, <1>18, <1>24, ObjectFacts
  <2>3. \A k \in Object : w.tree.parent[k] \notin w.tree.dead
    <3> TAKE k \in Object
    <3>1. CASE k \in B
      <4>1. Nil \notin t.dead /\ Nil \notin B
        BY <1>9 DEF IsTree, Tree
      <4>2. QED BY <1>17, <1>18, <1>24, <3>1, <4>1
    <3>2. CASE k \notin B
      <4>1. t.parent[k] \notin B
        BY <1>8, <1>11, <3>2
      <4>2. QED BY <1>4, <1>7, <1>17, <1>18, <1>24, <3>2, <4>1
    <3>3. QED BY <3>1, <3>2
  <2>4. w.tree.parent[game] = Nil /\ game \notin w.tree.dead
    BY <1>4, <1>7, <1>15, <1>17, <1>18, <1>24, ObjectFacts
  <2>5. \A s \in Service : w.owner[s] = Nil
    BY <1>4, <1>21, <1>24, ObjectFacts
  <2>6. \A s \in Service \ w.tree.dead :
            w.tree.parent[s] = game /\ w.name[s] = s /\ w.cls[s] = s
    BY <1>4, <1>7, <1>17, <1>18, <1>24, ObjectFacts
  <2>7. IsTree(w.tree, Object)
    BY <1>8, <1>17, <1>24
  <2>8. QED BY <1>4, <1>24, <2>1, <2>2, <2>3, <2>4, <2>5, <2>6, <2>7 DEF ClientOK
<1>29. ServicesFirst(w.tree)
  <2> SUFFICES ASSUME NEW s \in Service, NEW b \in Object, T.parent[s] = game, T.parent[b] = game
               PROVE  Before(T.kids[game], s, b) <=> (b \in Service => Before(Services, s, b))
    BY <1>8, <1>17, <1>24 DEF ServicesFirst
  <2>1. s \notin B /\ b \notin B /\ t.parent[s] = game /\ t.parent[b] = game
    BY <1>18, ObjectFacts
  <2>2. DOMAIN t.parent = Object
    BY <1>8, <1>9 DEF IsTree, Tree
  <2>3. Before(t.kids[game], s, b) <=> (b \in Service => Before(Services, s, b))
    BY <1>1, <1>7, <2>1, <2>2 DEF ServicesFirst
  <2>4. s # o /\ b # o /\ game \in O \ B
    BY <1>8, <1>11, <1>15, <2>1, ObjectFacts
  <2>5. QED BY <1>19, <2>3, <2>4
<1>30. Mirrors(w, g, K, par, ids, G2)
  <2>1. ASSUME NEW x \in K
        PROVE  /\ par[x] \in K \cup {game} /\ ids[x] # 0
               /\ w.netId[g[x]] = ids[x] /\ g[x] \notin w.tree.dead
               /\ w.cls[g[x]] = ClassOf(x) /\ w.tree.parent[g[x]] = g[par[x]]
    <3>1. g[x] = f[x] /\ f[x] \in Object \ B /\ g[par[x]] = f[par[x]] /\ x \in H
      BY <1>5, <1>26, <1>27
    <3>2. QED BY <1>2, <1>7, <1>17, <1>18, <1>24, <1>27, <3>1
  <2>2. ASSUME NEW u \in Object, w.netId[u] # 0
        PROVE  \/ u \notin w.tree.dead /\ \E x \in K : u = g[x]
               \/ u \in w.tree.dead /\ \E x \in G2 : w.netId[u] = ids[x]
    <3>1. CASE u \in t.dead
      BY <1>2, <1>7, <1>17, <1>24, <2>2, <3>1
    <3>2. CASE u \notin t.dead
      <4>1. PICK x \in H : u = f[x]
        BY <1>2, <1>7, <1>24, <2>2, <3>2
      <4>2. CASE x \in S
        <5>1. u \in w.tree.dead
          BY <1>13, <1>17, <1>24, <4>1, <4>2
        <5>2. w.netId[u] = ids[x] /\ x \in G2
          BY <1>2, <1>24, <4>1, <4>2
        <5>3. QED BY <5>1, <5>2
      <4>3. CASE x \notin S
        <5>1. x \in K
          BY <4>3
        <5>2. QED BY <1>14, <1>17, <1>24, <1>26, <3>2, <4>1, <5>1
      <4>4. QED BY <4>2, <4>3
    <3>3. QED BY <3>1, <3>2
  <2>3. Service \cap w.tree.dead \subseteq G2
    <3> SUFFICES ASSUME NEW s \in Service, s \in B PROVE s \in G2
      BY <1>2, <1>7, <1>17, <1>24
    <3>1. PICK z \in H \cap S : s = f[z]
      BY <1>12
    <3>2. s \in Object /\ z \in Instance /\ v.netId[s] = ids[z] /\ ids[z] # 0
      BY <1>2, <1>5, <3>1
    <3>3. QED BY <1>2, <3>1, <3>2
  <2>4. g[game] = game
    BY <1>2, <1>26
  <2>5. QED BY <1>2, <1>24, <1>26, <2>1, <2>2, <2>3, <2>4 DEF Mirrors
<1>31. Named(w, g, K, nm)
  BY <1>1, <1>5, <1>24, <1>26 DEF Named
<1>32. Owned(w, g, K, own2, ids)
  <2> SUFFICES ASSUME NEW x \in K, w.owner[g[x]] # Nil
               PROVE  own2[x] \in Conns /\ ids[own2[x]] # 0 /\ w.netId[w.owner[g[x]]] = ids[own2[x]]
    BY DEF Owned
  <2>1. x \in H /\ own2[x] = own[x] /\ w.owner[g[x]] = v.owner[f[x]]
    BY <1>5, <1>21, <1>24, <1>26
  <2>2. QED BY <1>1, <1>24, <2>1 DEF Owned
<1>33. Ordered(w, g, K, par, lt)
  <2> SUFFICES ASSUME NEW x \in K, NEW z \in K, par[x] = par[z]
               PROVE  Before(T.kids[g[par[x]]], g[x], g[z]) <=> <<x, z>> \in lt
    BY <1>24 DEF Ordered
  <2>1. /\ g[x] = f[x] /\ g[z] = f[z] /\ g[par[x]] = f[par[x]] /\ f[par[x]] \in O \ B
        /\ f[x] # o /\ f[z] # o /\ x \in H /\ z \in H
    BY <1>5, <1>8, <1>11, <1>26, <1>27
  <2>2. Before(t.kids[f[par[x]]], f[x], f[z]) <=> <<x, z>> \in lt
    BY <1>1, <1>7, <2>1 DEF Ordered
  <2>3. QED BY <1>19, <2>1, <2>2
<1>34. QED BY <1>24, <1>28, <1>29, <1>30, <1>31, <1>32, <1>33 DEF MirrorsAll

(***************************************************************************)
(* The handlers of the other packets.                                      *)
(*                                                                         *)
(* A name, a NetworkOwner, the end of the snapshot: what each does to a    *)
(* mirror.                                                                 *)
(***************************************************************************)

\* The handler of each packet.
LEMMA ReceivedIs ==
    ASSUME NEW v, NEW m
    PROVE  /\ m.sig = "InstanceAdded" => Received(v, m) = ApplyInstanceAdded(v, m)
           /\ m.sig = "InstanceRemoved" => Received(v, m) = ApplyInstanceRemoved(v, m.id)
           /\ m.sig = "InstanceChanged" => Received(v, m) = ApplyInstanceChanged(v, m)
           /\ m.sig = "LocalPlayer" => Received(v, m) = ApplyLocalPlayer(v, m.id)
           /\ m.sig = "Snapshot" => Received(v, m) = Applied(v, m.entries)[Len(m.entries)]
           /\ m.sig = "SnapshotFinished" => Received(v, m) = [v EXCEPT !.synced = TRUE]
BY DEF Received

\* What stands for parts is no service.
LEMMA PartImage ==
    ASSUME NEW v, NEW f, NEW H, NEW par, NEW ids, NEW nm, NEW own, NEW G, NEW lt, NEW x,
           /\ Sane(H, ids, nm, G) /\ MirrorsAll(v, f, H, par, ids, nm, own, G, lt)
           /\ x \in H /\ x \in Parts
    PROVE  f[x] \in Object \ Service /\ f[x] # Nil /\ FindByNetId(v, ids[x]) = f[x]
<1>1. ClientOK(v) /\ Mirrors(v, f, H, par, ids, G)
  BY DEF MirrorsAll
<1>2. /\ FindByNetId(v, ids[x]) = f[x] /\ f[x] # Nil /\ f[x] \in Object
  BY <1>1, Lookup
<1>3. /\ ids[x] # 0 /\ v.netId[f[x]] = ids[x]
      /\ \A o \in Object, z \in Instance :
            v.netId[o] = ids[z] /\ ids[z] # 0 /\ (o \in Service \/ z \in Service) => o = z
  BY <1>1 DEF Mirrors
<1>4. x \in Instance /\ x \notin Service
  BY InstanceFacts
<1>5. QED BY <1>2, <1>3, <1>4

\* InstanceRemoved of something the client knows.
LEMMA RemovedStep ==
    ASSUME NEW v, NEW f, NEW H, NEW par, NEW ids, NEW nm, NEW own, NEW G, NEW lt,
           NEW y, NEW S, NEW K, NEW G2, NEW own2, NEW w,
           /\ Sane(H, ids, nm, G) /\ MirrorsAll(v, f, H, par, ids, nm, own, G, lt)
           /\ Cut(H, par, y, S, K, G, G2) /\ Agree(K, own, own2)
           /\ Sane(K, ids, nm, G2)
           /\ w = ApplyInstanceRemoved(v, ids[y])
    PROVE  /\ w.synced = v.synced
           /\ \E g : MirrorsAll(w, g, K, par, ids, nm, own2, G2, lt)
<1>1. ClientOK(v) /\ Mirrors(v, f, H, par, ids, G)
  BY DEF MirrorsAll
<1>2. FindByNetId(v, ids[y]) = f[y] /\ f[y] # Nil
  BY <1>1, Lookup DEF Cut
<1>3. PICK u : u = Uprooted(v, f[y])
  OBVIOUS
<1>4. w = Release(u)
  <2>1. v \in Views
    BY <1>1 DEF ClientOK
  <2>2. QED BY <1>2, <1>3, <2>1 DEF ApplyInstanceRemoved, Uprooted, Views
<1>5. u.synced = v.synced /\ \E g : MirrorsAll(u, g, K, par, ids, nm, own2, G2, lt)
  <2>1. /\ Sane(H, ids, nm, G) /\ MirrorsAll(v, f, H, par, ids, nm, own, G, lt)
        /\ Cut(H, par, y, S, K, G, G2) /\ Agree(K, own, own2)
        /\ u = Uprooted(v, f[y])
    BY <1>3
  <2>2. QED BY <2>1, DestroyStep
<1>6. PICK g : MirrorsAll(u, g, K, par, ids, nm, own2, G2, lt)
  BY <1>5
<1>7. Sane(K, ids, nm, G2) /\ MirrorsAll(u, g, K, par, ids, nm, own2, G2, lt)
  BY <1>6
<1>8. /\ MirrorsAll(Release(u), g, K, par, ids, nm, own2, G2, lt)
      /\ Release(u).synced = u.synced
  BY <1>7, ReleaseStep
<1>9. QED BY <1>4, <1>5, <1>8

\* InstanceRemoved of what is gone with its ancestor.
LEMMA RemovedAgain ==
    ASSUME NEW v, NEW f, NEW H, NEW par, NEW ids, NEW nm, NEW own, NEW G, NEW lt, NEW y, NEW w,
           /\ Sane(H, ids, nm, G) /\ MirrorsAll(v, f, H, par, ids, nm, own, G, lt)
           /\ y \in G /\ ids[y] # 0
           /\ w = ApplyInstanceRemoved(v, ids[y])
    PROVE  /\ w.synced = v.synced
           /\ MirrorsAll(w, f, H, par, ids, nm, own, G, lt)
<1>1. ClientOK(v) /\ Mirrors(v, f, H, par, ids, G)
  BY DEF MirrorsAll
<1>2. PICK o : o = FindByNetId(v, ids[y])
  OBVIOUS
<1>3. CASE o = Nil
  <2>1. w = v
    BY <1>2, <1>3 DEF ApplyInstanceRemoved
  <2>2. QED BY <2>1
<1>4. CASE o # Nil
  <2>1. o \in Object /\ v.netId[o] = ids[y]
    BY <1>1, <1>2, <1>4, FindById
  <2>2. o \in v.tree.dead
    <3>1. ASSUME NEW x \in H, o = f[x] PROVE FALSE
      <4>1. ids[x] = ids[y] /\ x \in Instance /\ y \in Instance
        BY <1>1, <2>1, <3>1 DEF Mirrors, Sane
      <4>2. x = y
        BY <4>1 DEF Sane
      <4>3. QED BY <4>2 DEF Sane
    <3>2. QED BY <1>1, <2>1, <3>1 DEF Mirrors
  <2>3. v \in Views
    BY <1>1 DEF ClientOK
  <2>4. Destroy(v.tree, o) = v.tree
    BY <2>2 DEF Destroy
  <2>5. PICK t : t = v.tree
    OBVIOUS
  <2>6. PICK a : a = v.owner
    OBVIOUS
  <2>7. [x \in Object |-> IF x \in t.dead \ t.dead THEN Nil ELSE a[x]] = a
    BY <2>3, <2>6 DEF Views
  <2>8. w = Release([v EXCEPT !.tree = t, !.owner = a])
    <3>1. w = Release([v EXCEPT !.tree = t, !.owner =
                          [x \in Object |-> IF x \in t.dead \ t.dead THEN Nil ELSE a[x]]])
      BY <1>2, <1>4, <2>3, <2>4, <2>5, <2>6 DEF ApplyInstanceRemoved, Views
    <3>2. QED BY <2>7, <3>1
  <2>9. [v EXCEPT !.tree = t, !.owner = a] = v
    BY <2>3, <2>5, <2>6 DEF Views
  <2>10. QED BY <2>8, <2>9, ReleaseStep
<1>5. QED BY <1>3, <1>4

\* m tells that the part x has the name n now ...
Renames(m, x, n, nm, nm2, ids) ==
    /\ x \in Parts /\ n \in Names /\ nm2 = [nm EXCEPT ![x] = n]
    /\ m.sig = "InstanceChanged" /\ m.id = ids[x] /\ m.prop = "Name" /\ m.value = n

\* ... or the NetworkOwner p, or none.
Reowns(m, x, p, own, own2, ids) ==
    /\ x \in Parts /\ p \in Conns \cup {Nil}
    /\ own \in [Instance -> Conns \cup {Nil}] /\ own2 = [own EXCEPT ![x] = p]
    /\ m.sig = "InstanceChanged" /\ m.id = ids[x] /\ m.prop = "NetworkOwner"
    /\ p = Nil => m.value = 0
    /\ p # Nil => m.value = ids[p] /\ ids[p] # 0

\* InstanceChanged with a name.
LEMMA NameStep ==
    ASSUME NEW v, NEW f, NEW H, NEW par, NEW ids, NEW nm, NEW own, NEW G, NEW lt,
           NEW x, NEW n, NEW nm2, NEW m, NEW w,
           /\ Sane(H, ids, nm, G) /\ MirrorsAll(v, f, H, par, ids, nm, own, G, lt)
           /\ x \in H /\ Renames(m, x, n, nm, nm2, ids)
           /\ w = ApplyInstanceChanged(v, m)
    PROVE  /\ w.synced = v.synced
           /\ MirrorsAll(w, f, H, par, ids, nm2, own, G, lt)
<1>0. /\ x \in Parts /\ n \in Names /\ nm2 = [nm EXCEPT ![x] = n]
      /\ m.sig = "InstanceChanged" /\ m.id = ids[x] /\ m.prop = "Name" /\ m.value = n
  BY DEF Renames
<1> USE <1>0
<1>1. /\ ClientOK(v) /\ ServicesFirst(v.tree) /\ Mirrors(v, f, H, par, ids, G)
      /\ Named(v, f, H, nm) /\ Owned(v, f, H, own, ids) /\ Ordered(v, f, H, par, lt)
  BY DEF MirrorsAll
<1>2. PICK o : o = f[x]
  OBVIOUS
<1>3. o \in Object \ Service /\ o # Nil /\ FindByNetId(v, ids[x]) = o
  BY <1>2, PartImage
<1>4. w = [v EXCEPT !.name[o] = n]
  BY <1>3 DEF ApplyInstanceChanged
<1>5. v \in Views
  BY <1>1 DEF ClientOK
<1>6. /\ w \in Views /\ w.tree = v.tree /\ w.cls = v.cls
      /\ w.name = [v.name EXCEPT ![o] = n] /\ w.netId = v.netId /\ w.owner = v.owner
      /\ w.synced = v.synced /\ w.crashed = v.crashed
  BY <1>3, <1>4, <1>5 DEF Views
<1>7. v.name \in [Object -> Instance \cup Names \cup {Nil}]
  BY <1>5 DEF Views
<1>8. \A k \in Object : k # o => w.name[k] = v.name[k]
  BY <1>6, <1>7
<1>9. w.name[o] = n
  BY <1>3, <1>6, <1>7
<1>10. ClientOK(w)
  <2>1. \A s \in Service \ v.tree.dead :
            v.tree.parent[s] = game /\ w.name[s] = s /\ v.cls[s] = s
    BY <1>1, <1>3, <1>8, ObjectFacts DEF ClientOK
  <2>2. QED BY <1>1, <1>6, <2>1 DEF ClientOK
<1>11. Named(w, f, H, nm2)
  <2> SUFFICES ASSUME NEW k \in H PROVE w.name[f[k]] = nm2[k]
    BY DEF Named
  <2>1. k \in Instance /\ x \in Instance /\ nm \in [Instance -> Instance \cup Names]
    BY DEF Sane
  <2>2. f[k] \in Object
    BY <1>1 DEF Mirrors
  <2>3. CASE k = x
    BY <1>2, <1>9, <2>1, <2>3
  <2>4. CASE k # x
    <3>1. f[k] # f[x]
      BY <1>1, <2>4, ImagesDiffer
    <3>2. nm2[k] = nm[k]
      BY <2>1, <2>4
    <3>3. QED BY <1>1, <1>2, <1>8, <2>2, <3>1, <3>2 DEF Named
  <2>5. QED BY <2>3, <2>4
<1>12. Mirrors(w, f, H, par, ids, G)
  BY <1>1, <1>6 DEF Mirrors
<1>13. Owned(w, f, H, own, ids) /\ Ordered(w, f, H, par, lt) /\ ServicesFirst(w.tree)
  BY <1>1, <1>6 DEF Owned, Ordered
<1>14. QED BY <1>6, <1>10, <1>11, <1>12, <1>13 DEF MirrorsAll

\* InstanceChanged with a NetworkOwner: p, or nil.
LEMMA OwnerStep ==
    ASSUME NEW v, NEW f, NEW H, NEW par, NEW ids, NEW nm, NEW own, NEW G, NEW lt,
           NEW x, NEW p, NEW own2, NEW m, NEW w,
           /\ Sane(H, ids, nm, G) /\ MirrorsAll(v, f, H, par, ids, nm, own, G, lt)
           /\ x \in H /\ Reowns(m, x, p, own, own2, ids)
           /\ w = ApplyInstanceChanged(v, m)
    PROVE  /\ w.synced = v.synced
           /\ MirrorsAll(w, f, H, par, ids, nm, own2, G, lt)
<1>0. /\ x \in Parts /\ p \in Conns \cup {Nil}
      /\ own \in [Instance -> Conns \cup {Nil}] /\ own2 = [own EXCEPT ![x] = p]
      /\ m.sig = "InstanceChanged" /\ m.id = ids[x] /\ m.prop = "NetworkOwner"
      /\ p = Nil => m.value = 0
      /\ p # Nil => m.value = ids[p] /\ ids[p] # 0
  BY DEF Reowns
<1> USE <1>0
<1>1. /\ ClientOK(v) /\ ServicesFirst(v.tree) /\ Mirrors(v, f, H, par, ids, G)
      /\ Named(v, f, H, nm) /\ Owned(v, f, H, own, ids) /\ Ordered(v, f, H, par, lt)
  BY DEF MirrorsAll
<1>2. PICK o : o = f[x]
  OBVIOUS
<1>3. o \in Object \ Service /\ o # Nil /\ FindByNetId(v, ids[x]) = o
  BY <1>2, PartImage
<1>4. PICK q : q = FindByNetId(v, m.value)
  OBVIOUS
<1>5. /\ q \in Object \cup {Nil}
      /\ q # Nil => m.value # 0 /\ v.netId[q] = m.value
  BY <1>1, <1>4, FindById
<1>6. PICK u : u = [v EXCEPT !.owner[o] = q]
  OBVIOUS
<1>7. w = Release(u)
  BY <1>3, <1>4, <1>6 DEF ApplyInstanceChanged
<1>8. v \in Views
  BY <1>1 DEF ClientOK
<1>9. /\ u \in Views /\ u.tree = v.tree /\ u.cls = v.cls
      /\ u.name = v.name /\ u.netId = v.netId /\ u.owner = [v.owner EXCEPT ![o] = q]
      /\ u.synced = v.synced /\ u.crashed = v.crashed
  BY <1>3, <1>5, <1>6, <1>8 DEF Views
<1>10. v.owner \in [Object -> Object \cup {Nil}]
  BY <1>8 DEF Views
<1>11. \A k \in Object : k # o => u.owner[k] = v.owner[k]
  BY <1>9, <1>10
<1>12. u.owner[o] = q
  BY <1>3, <1>9, <1>10
<1>13. ClientOK(u)
  <2>1. \A s \in Service : u.owner[s] = Nil
    BY <1>1, <1>3, <1>11, ObjectFacts DEF ClientOK
  <2>2. QED BY <1>1, <1>9, <2>1 DEF ClientOK
<1>14. Owned(u, f, H, own2, ids)
  <2> SUFFICES ASSUME NEW k \in H, u.owner[f[k]] # Nil
               PROVE  /\ own2[k] \in Conns /\ ids[own2[k]] # 0
                      /\ u.netId[u.owner[f[k]]] = ids[own2[k]]
    BY DEF Owned
  <2>1. k \in Instance /\ x \in Instance
    BY DEF Sane
  <2>2. f[k] \in Object
    BY <1>1 DEF Mirrors
  <2>3. CASE k = x
    <3>1. u.owner[f[k]] = q /\ own2[k] = p
      BY <1>2, <1>12, <2>1, <2>3
    <3>2. p # Nil /\ p \in Conns
      BY <1>5, <3>1
    <3>3. QED BY <1>5, <1>9, <3>1, <3>2
  <2>4. CASE k # x
    <3>1. f[k] # f[x]
      BY <1>1, <2>4, ImagesDiffer
    <3>2. own2[k] = own[k] /\ u.owner[f[k]] = v.owner[f[k]]
      BY <1>2, <1>11, <2>1, <2>2, <2>4, <3>1
    <3>3. QED BY <1>1, <1>9, <3>2 DEF Owned
  <2>5. QED BY <2>3, <2>4
<1>15. Mirrors(u, f, H, par, ids, G)
  BY <1>1, <1>9 DEF Mirrors
<1>16. Named(u, f, H, nm) /\ Ordered(u, f, H, par, lt) /\ ServicesFirst(u.tree)
  BY <1>1, <1>9 DEF Named, Ordered
<1>17. Sane(H, ids, nm, G) /\ MirrorsAll(u, f, H, par, ids, nm, own2, G, lt)
  BY <1>13, <1>14, <1>15, <1>16 DEF MirrorsAll
<1>18. MirrorsAll(Release(u), f, H, par, ids, nm, own2, G, lt) /\ Release(u).synced = u.synced
  BY <1>17, ReleaseStep
<1>19. QED BY <1>7, <1>9, <1>18

\* SnapshotFinished.
LEMMA FinishStep ==
    ASSUME NEW v, NEW f, NEW H, NEW par, NEW ids, NEW nm, NEW own, NEW G, NEW lt, NEW w,
           MirrorsAll(v, f, H, par, ids, nm, own, G, lt) /\ w = [v EXCEPT !.synced = TRUE]
    PROVE  w.synced = TRUE /\ MirrorsAll(w, f, H, par, ids, nm, own, G, lt)
<1>1. /\ ClientOK(v) /\ ServicesFirst(v.tree) /\ Mirrors(v, f, H, par, ids, G)
      /\ Named(v, f, H, nm) /\ Owned(v, f, H, own, ids) /\ Ordered(v, f, H, par, lt)
  BY DEF MirrorsAll
<1>2. v \in Views
  BY <1>1 DEF ClientOK
<1>3. /\ w \in Views /\ w.tree = v.tree /\ w.cls = v.cls
      /\ w.name = v.name /\ w.netId = v.netId /\ w.owner = v.owner
      /\ w.synced = TRUE /\ w.crashed = v.crashed
  BY <1>2 DEF Views
<1>4. ClientOK(w)
  BY <1>1, <1>3 DEF ClientOK
<1>5. Mirrors(w, f, H, par, ids, G)
  BY <1>1, <1>3 DEF Mirrors
<1>6. Named(w, f, H, nm) /\ Owned(w, f, H, own, ids) /\ Ordered(w, f, H, par, lt)
      /\ ServicesFirst(w.tree)
  BY <1>1, <1>3 DEF Named, Owned, Ordered
<1>7. QED BY <1>3, <1>4, <1>5, <1>6 DEF MirrorsAll

\* What the server says changes where the client knows nothing of it: parents,
\* owners and orders of others, and ids that were not given out.
Recast(H, par, par2, ids, ids2, own, own2, lt, lt2) ==
    /\ Agree(H, par, par2) /\ Agree(H, own, own2)
    /\ ids2 \in [Instance -> 0..MaxNetId]
    /\ \A x, y \in Instance : ids2[x] = ids2[y] /\ ids2[x] # 0 => x = y
    /\ \A x \in Instance : ids[x] # 0 => ids2[x] = ids[x]
    /\ ids2[game] = 0
    /\ \A x, y \in H : par2[x] = par2[y] => (<<x, y>> \in lt <=> <<x, y>> \in lt2)

\* That leaves a mirror a mirror.
LEMMA RecastStep ==
    ASSUME NEW v, NEW f, NEW H, NEW par, NEW ids, NEW nm, NEW own, NEW G, NEW lt,
           NEW par2, NEW ids2, NEW own2, NEW lt2,
           /\ Sane(H, ids, nm, G) /\ MirrorsAll(v, f, H, par, ids, nm, own, G, lt)
           /\ Recast(H, par, par2, ids, ids2, own, own2, lt, lt2)
    PROVE  Sane(H, ids2, nm, G) /\ MirrorsAll(v, f, H, par2, ids2, nm, own2, G, lt2)
<1>1. /\ ClientOK(v) /\ ServicesFirst(v.tree) /\ Mirrors(v, f, H, par, ids, G)
      /\ Named(v, f, H, nm) /\ Owned(v, f, H, own, ids) /\ Ordered(v, f, H, par, lt)
  BY DEF MirrorsAll
<1>2. /\ \A x \in H : par2[x] = par[x] /\ own2[x] = own[x]
      /\ ids2 \in [Instance -> 0..MaxNetId] /\ ids2[game] = 0
      /\ \A x, y \in Instance : ids2[x] = ids2[y] /\ ids2[x] # 0 => x = y
      /\ \A x \in Instance : ids[x] # 0 => ids2[x] = ids[x]
      /\ \A x, y \in H : par2[x] = par2[y] => (<<x, y>> \in lt <=> <<x, y>> \in lt2)
  BY DEF Recast, Agree
<1>3. /\ H \subseteq Instance \ {game} /\ G \subseteq Instance
      /\ ids \in [Instance -> 0..MaxNetId]
  BY DEF Sane
<1>4. Sane(H, ids2, nm, G)
  BY <1>2 DEF Sane
<1>5. Mirrors(v, f, H, par2, ids2, G)
  <2>1. /\ f \in [H \cup {game} -> Object] /\ f[game] = game
        /\ \A x \in H : /\ par[x] \in H \cup {game} /\ ids[x] # 0 /\ v.netId[f[x]] = ids[x]
                        /\ f[x] \notin v.tree.dead /\ v.cls[f[x]] = ClassOf(x)
                        /\ v.tree.parent[f[x]] = f[par[x]]
        /\ \A o \in Object : v.netId[o] # 0 =>
              \/ o \notin v.tree.dead /\ \E x \in H : o = f[x]
              \/ o \in v.tree.dead /\ \E x \in G : v.netId[o] = ids[x]
        /\ \A o \in Object, x \in Instance :
              v.netId[o] = ids[x] /\ ids[x] # 0 /\ (o \in Service \/ x \in Service) => o = x
        /\ Service \cap v.tree.dead \subseteq G
    BY <1>1 DEF Mirrors
  <2>2. \A x \in H : /\ par2[x] \in H \cup {game} /\ ids2[x] # 0 /\ v.netId[f[x]] = ids2[x]
                     /\ f[x] \notin v.tree.dead /\ v.cls[f[x]] = ClassOf(x)
                     /\ v.tree.parent[f[x]] = f[par2[x]]
    BY <1>2, <1>3, <2>1
  <2>3. \A o \in Object : v.netId[o] # 0 => \E x \in Instance : v.netId[o] = ids[x]
    BY <1>3, <2>1
  <2>4. \A o \in Object : v.netId[o] # 0 =>
              \/ o \notin v.tree.dead /\ \E x \in H : o = f[x]
              \/ o \in v.tree.dead /\ \E x \in G : v.netId[o] = ids2[x]
    <3> SUFFICES ASSUME NEW o \in Object, v.netId[o] # 0, o \in v.tree.dead
                 PROVE  \E x \in G : v.netId[o] = ids2[x]
      BY <2>1
    <3>1. PICK x \in G : v.netId[o] = ids[x]
      BY <2>1
    <3>2. QED BY <1>2, <1>3, <3>1
  <2>5. ASSUME NEW o \in Object, NEW x \in Instance, v.netId[o] = ids2[x], ids2[x] # 0,
               o \in Service \/ x \in Service
        PROVE  o = x
    <3>1. PICK z \in Instance : v.netId[o] = ids[z]
      BY <2>3, <2>5
    <3>2. ids[z] # 0 /\ ids2[z] = ids[z]
      BY <1>2, <2>5, <3>1
    <3>3. x = z
      BY <1>2, <2>5, <3>1, <3>2
    <3>4. QED BY <2>1, <2>5, <3>1, <3>2, <3>3
  <2>6. QED BY <2>1, <2>2, <2>4, <2>5 DEF Mirrors
<1>6. Owned(v, f, H, own2, ids2)
  <2> SUFFICES ASSUME NEW x \in H, v.owner[f[x]] # Nil
               PROVE  /\ own2[x] \in Conns /\ ids2[own2[x]] # 0
                      /\ v.netId[v.owner[f[x]]] = ids2[own2[x]]
    BY DEF Owned
  <2>1. own[x] \in Conns /\ ids[own[x]] # 0 /\ v.netId[v.owner[f[x]]] = ids[own[x]]
    BY <1>1 DEF Owned
  <2>2. own[x] \in Instance /\ own2[x] = own[x]
    BY <1>2, <2>1, InstanceFacts
  <2>3. ids2[own[x]] = ids[own[x]]
    BY <1>2, <2>1, <2>2
  <2>4. QED BY <2>1, <2>2, <2>3
<1>7. Ordered(v, f, H, par2, lt2)
  BY <1>1, <1>2 DEF Ordered
<1>8. QED BY <1>1, <1>4, <1>5, <1>6, <1>7 DEF MirrorsAll

(***************************************************************************)
(* Lists of packets.                                                       *)
(*                                                                         *)
(* What takes a client from one view to another, packet by packet, and     *)
(* what a client that has just connected makes of packets it does not      *)
(* understand.                                                             *)
(***************************************************************************)

\* How many packets add the instances of a list.
LEMMA AddedIs ==
    ASSUME NEW T, NEW nm, NEW ids, NEW order \in Seq(Instance), NEW s, s = Added(T, nm, ids, order)
    PROVE  /\ Len(s) = Len(order) /\ Len(order) \in Nat /\ IsList(s)
           /\ \A k \in 1..Len(order) : /\ s[k] = Entry(T, nm, ids, order[k])
                                       /\ s[k].sig = "InstanceAdded"
<1>1. PICK n \in Nat : n = Len(order)
  OBVIOUS
<1>2. s = [k \in 1..n |-> Entry(T, nm, ids, order[k])]
  BY <1>1 DEF Added
<1>3. PICK E : E = {Entry(T, nm, ids, order[k]) : k \in 1..n}
  OBVIOUS
<1>4. s \in Seq(E) /\ Len(s) = n
  <2>1. \A k \in 1..n : s[k] \in E
    BY <1>2, <1>3
  <2>2. s \in [1..n -> E]
    BY <1>2, <2>1
  <2>3. QED BY <1>1, <2>2
<1>5. ASSUME NEW k \in 1..n PROVE s[k] = Entry(T, nm, ids, order[k]) /\ s[k].sig = "InstanceAdded"
  <2>1. s[k] = Entry(T, nm, ids, order[k])
    BY <1>2
  <2>2. Entry(T, nm, ids, order[k]).sig = "InstanceAdded"
    BY DEF Entry
  <2>3. QED BY <2>1, <2>2
<1>6. QED BY <1>1, <1>4, <1>5 DEF IsList

\* The last element of a list is added last.
LEMMA PrefixAppend ==
    ASSUME NEW n \in Nat, NEW F, NEW s, NEW t,
           s = [i \in 1..n |-> F[i]], t = [i \in 1..n + 1 |-> F[i]]
    PROVE  t = Append(s, F[n + 1])
<1>1. PICK E : E = {F[i] : i \in 1..n + 1}
  OBVIOUS
<1>2. s \in Seq(E) /\ Len(s) = n
  <2>1. \A i \in 1..n : i \in 1..n + 1 /\ s[i] \in E
    BY <1>1
  <2>2. s \in [1..n -> E]
    BY <2>1
  <2>3. QED BY <2>2
<1>3. t \in Seq(E) /\ Len(t) = n + 1
  <2>1. \A i \in 1..n + 1 : t[i] \in E
    BY <1>1
  <2>2. t \in [1..n + 1 -> E]
    BY <2>1
  <2>3. QED BY <2>2
<1>4. PICK e \in E : e = F[n + 1] /\ e = t[n + 1]
  <2>1. n + 1 \in 1..n + 1
    OBVIOUS
  <2>2. QED BY <1>1, <2>1
<1>5. PICK u \in Seq(E) : /\ u = Append(s, e) /\ Len(u) = n + 1 /\ u[n + 1] = e
                          /\ \A i \in 1..n : u[i] = s[i]
  <2>1. PICK u : u = Append(s, e)
    OBVIOUS
  <2>2. u \in Seq(E) /\ Len(u) = n + 1 /\ u[n + 1] = e /\ \A i \in 1..n : u[i] = s[i]
    BY <1>2, <2>1, AppendProperties
  <2>3. QED BY <2>1, <2>2
<1>6. \A i \in 1..n + 1 : t[i] = u[i]
  <2> TAKE i \in 1..n + 1
  <2>1. i = n + 1 \/ i \in 1..n
    OBVIOUS
  <2>2. i \in 1..n => t[i] = s[i]
    OBVIOUS
  <2>3. QED BY <1>4, <1>5, <2>1, <2>2
<1>7. t = u
  BY <1>3, <1>5, <1>6
<1>8. QED BY <1>4, <1>5, <1>7

\* What a client has when the instances of order were added to H.
After(order, T, H, par, lt, L, par2, lt2) ==
    /\ L = H \cup FirstOf(order, Len(order))
    /\ par2 = ParentsAfter(Len(order), par, T)
    /\ lt2 = Rank(order, Len(order), lt)

\* A list of instances is added to a client that has what these are put under.
LEMMA AddedLeads ==
    ASSUME NEW v, NEW f, NEW H, NEW par, NEW ids, NEW nm, NEW own, NEW G, NEW lt,
           NEW T, NEW order, NEW D, NEW s, NEW L, NEW par2, NEW lt2,
           /\ Sane(H, ids, nm, G) /\ MirrorsAll(v, f, H, par, ids, nm, own, G, lt)
           /\ Arrives(T, order, H, par, ids, nm, G, D)
           /\ After(order, T, H, par, lt, L, par2, lt2)
           /\ s = Added(T, nm, ids, order)
    PROVE  \E w, g : /\ Leads(v, s, w) /\ Applied(v, s)[Len(order)] = w /\ w.synced = v.synced
                     /\ MirrorsAll(w, g, L, par2, ids, nm, own, G, lt2)
<1>0. PICK N : N = Len(order)
  OBVIOUS
<1>1. order \in Seq(Instance)
  BY DEF Arrives
<1>2. /\ Len(s) = N /\ N \in Nat /\ IsList(s)
      /\ \A k \in 1..N : s[k] = Entry(T, nm, ids, order[k]) /\ s[k].sig = "InstanceAdded"
  BY <1>0, <1>1, AddedIs
<1>3. PICK h : h = Applied(v, s)
  OBVIOUS
<1>4. h[0] = v /\ \A k \in 1..N : h[k] = ApplyInstanceAdded(h[k - 1], s[k])
  BY <1>2, <1>3, AppliedSteps
<1>5. \A k \in 1..Len(order) : h[k] = ApplyInstanceAdded(h[k - 1], Entry(T, nm, ids, order[k]))
  BY <1>0, <1>2, <1>4
<1>6. \A k \in 0..N :
              /\ h[k].synced = v.synced
              /\ \E g : MirrorsAll(h[k], g, H \cup FirstOf(order, k), ParentsAfter(k, par, T), ids, nm, own,
                                   G, Rank(order, k, lt))
  <2>1. /\ Sane(H, ids, nm, G) /\ MirrorsAll(v, f, H, par, ids, nm, own, G, lt)
        /\ Arrives(T, order, H, par, ids, nm, G, D)
        /\ Adds(h, v, T, nm, ids, order)
    BY <1>4, <1>5 DEF Adds
  <2>2. QED BY <1>0, <2>1, ListStep
<1>7. \A k \in 0..N : Fine(h[k])
  BY <1>6 DEF MirrorsAll, ClientOK, Fine
<1>8. \A k \in 1..N : h[k] = Received(h[k - 1], s[k])
  BY <1>2, <1>4, ReceivedIs
<1>9. Leads(v, s, h[N])
  BY <1>2, <1>4, <1>7, <1>8 DEF Leads
<1>10. N \in 0..N
  BY <1>2
<1>11. PICK g : MirrorsAll(h[N], g, H \cup FirstOf(order, N), ParentsAfter(N, par, T), ids, nm, own,
                                   G, Rank(order, N, lt))
  BY <1>6, <1>10
<1>12. h[N].synced = v.synced
  BY <1>6, <1>10
<1>13. QED BY <1>0, <1>3, <1>9, <1>11, <1>12 DEF After

\* The packets about what is destroyed.
Farewell(told, ids) == [i \in 1..Len(told) |-> [sig |-> "InstanceRemoved", id |-> ids[told[i]]]]

\* told starts with y; all of it is in S.
Told(told, y, S, ids) ==
    /\ told \in Seq(Instance) /\ told # <<>> /\ told[1] = y
    /\ \A i \in 1..Len(told) : told[i] \in S /\ ids[told[i]] # 0

\* A subtree is destroyed on a client: the first packet does it.
LEMMA RemovedLeads ==
    ASSUME NEW v, NEW f, NEW H, NEW par, NEW ids, NEW nm, NEW own, NEW G, NEW lt,
           NEW y, NEW S, NEW K, NEW G2, NEW own2, NEW told, NEW s,
           /\ Sane(H, ids, nm, G) /\ MirrorsAll(v, f, H, par, ids, nm, own, G, lt)
           /\ Cut(H, par, y, S, K, G, G2) /\ Agree(K, own, own2)
           /\ Sane(K, ids, nm, G2)
           /\ Told(told, y, S, ids) /\ s = Farewell(told, ids)
    PROVE  \E w, g : /\ Leads(v, s, w) /\ w.synced = v.synced
                     /\ MirrorsAll(w, g, K, par, ids, nm, own2, G2, lt)
<1>1. PICK N \in Nat : N = Len(told) /\ N >= 1
  BY EmptySeq DEF Told
<1>2. PICK F : F = [i \in 1..N |-> [sig |-> "InstanceRemoved", id |-> ids[told[i]]]]
  OBVIOUS
<1>3. \A i \in 1..N : F[i].sig = "InstanceRemoved" /\ F[i].id = ids[told[i]]
  BY <1>2
<1> DEFINE pre(k) == [i \in 1..k |-> F[i]]
           Ok(k) == \E w, g : /\ Leads(v, pre(k), w) /\ w.synced = v.synced
                              /\ MirrorsAll(w, g, K, par, ids, nm, own2, G2, lt)
<1>4. pre(0) = <<>> /\ Leads(v, pre(0), v)
  <2>1. pre(0) = <<>>
    OBVIOUS
  <2>2. Fine(v)
    BY DEF MirrorsAll, ClientOK, Fine
  <2>3. QED BY <2>1, <2>2, LeadsEmpty
<1>5. \A k \in 0..N : pre(k + 1) = Append(pre(k), F[k + 1])
  <2> TAKE k \in 0..N
  <2>1. PICK a : a = pre(k)
    OBVIOUS
  <2>2. PICK b : b = pre(k + 1)
    OBVIOUS
  <2>3. b = Append(a, F[k + 1])
    BY <2>1, <2>2, PrefixAppend
  <2>4. QED BY <2>1, <2>2, <2>3
<1>6. Ok(1)
  <2>1. PICK w : w = Received(v, F[1])
    OBVIOUS
  <2>2. 1 \in 1..N /\ 0 \in 0..N /\ 0 + 1 = 1
    BY <1>1
  <2>3. w = ApplyInstanceRemoved(v, ids[y])
    <3>1. F[1].sig = "InstanceRemoved" /\ F[1].id = ids[y]
      BY <1>3, <2>2 DEF Told
    <3>2. QED BY <2>1, <3>1, ReceivedIs
  <2>4. /\ Sane(H, ids, nm, G) /\ MirrorsAll(v, f, H, par, ids, nm, own, G, lt)
        /\ Cut(H, par, y, S, K, G, G2) /\ Agree(K, own, own2)
        /\ Sane(K, ids, nm, G2)
        /\ w = ApplyInstanceRemoved(v, ids[y])
    BY <2>3
  <2>5. /\ w.synced = v.synced
        /\ \E g : MirrorsAll(w, g, K, par, ids, nm, own2, G2, lt)
    BY <2>4, RemovedStep
  <2>6. Fine(w)
    BY <2>5 DEF MirrorsAll, ClientOK, Fine
  <2>7. pre(1) = Append(pre(0), F[1])
    BY <1>5, <2>2
  <2>8. PICK a : a = pre(0)
    OBVIOUS
  <2>9. Leads(v, Append(a, F[1]), w)
    BY <1>4, <2>1, <2>6, <2>8, LeadsAppend
  <2>10. Leads(v, pre(1), w)
    BY <2>7, <2>8, <2>9
  <2>11. QED BY <2>5, <2>10
<1> HIDE DEF pre
<1>7. ASSUME NEW k \in 1..N, k < N, Ok(k) PROVE Ok(k + 1)
  <2>1. PICK u, g : /\ Leads(v, pre(k), u) /\ u.synced = v.synced
                    /\ MirrorsAll(u, g, K, par, ids, nm, own2, G2, lt)
    BY <1>7
  <2>2. PICK m : m = F[k + 1]
    OBVIOUS
  <2>3. PICK w : w = Received(u, m)
    OBVIOUS
  <2>4. PICK x : x = told[k + 1]
    OBVIOUS
  <2>5. x \in S /\ ids[x] # 0 /\ m.sig = "InstanceRemoved" /\ m.id = ids[x]
    <3>1. k + 1 \in 1..N
      BY <1>7
    <3>2. QED BY <1>1, <1>3, <2>2, <2>4, <3>1 DEF Told
  <2>6. /\ Sane(K, ids, nm, G2) /\ MirrorsAll(u, g, K, par, ids, nm, own2, G2, lt)
        /\ x \in G2 /\ ids[x] # 0
        /\ w = ApplyInstanceRemoved(u, ids[x])
    BY <2>1, <2>3, <2>5, ReceivedIs DEF Cut
  <2>7. w.synced = u.synced /\ MirrorsAll(w, g, K, par, ids, nm, own2, G2, lt)
    BY <2>6, RemovedAgain
  <2>8. Fine(w)
    BY <2>7 DEF MirrorsAll, ClientOK, Fine
  <2>9. PICK a : a = pre(k)
    OBVIOUS
  <2>10. Leads(v, Append(a, m), w)
    BY <2>1, <2>3, <2>8, <2>9, LeadsAppend
  <2>11. pre(k + 1) = Append(a, m)
    <3>1. k \in 0..N
      OBVIOUS
    <3>2. QED BY <1>5, <2>2, <2>9, <3>1
  <2>12. QED BY <2>1, <2>7, <2>10, <2>11
<1> HIDE DEF Ok
<1> DEFINE Good == {k \in 0..N : k # 0 => Ok(k)}
<1>8. 0..N \subseteq Good
  <2>1. 0 \in Good
    OBVIOUS
  <2>2. ASSUME NEW n \in 1..N, n - 1 \in Good PROVE n \in Good
    <3>1. CASE n = 1
      BY <1>6, <3>1
    <3>2. CASE n # 1
      <4>1. PICK k \in 1..N : k = n - 1 /\ k < N /\ k + 1 = n
        BY <3>2
      <4>2. Ok(k)
        BY <2>2, <4>1
      <4>3. Ok(k + 1)
        BY <1>7, <4>1, <4>2
      <4>4. QED BY <4>1, <4>3
    <3>3. QED BY <3>1, <3>2
  <2> HIDE DEF Good
  <2>3. QED BY <2>1, <2>2, UpTo
<1>9. Ok(N)
  <2>1. N \in 0..N /\ N # 0
    BY <1>1
  <2>2. QED BY <1>8, <2>1
<1>10. pre(N) = s
  BY <1>1, <1>2 DEF pre, Farewell
<1>11. QED BY <1>9, <1>10 DEF Ok

\* Who has just started knows nothing.
LEMMA FreshFacts ==
    /\ FreshView \in Views /\ FreshView.synced = FALSE
    /\ \A o \in Object : FreshView.netId[o] = 0
    /\ \A id : FindByNetId(FreshView, id) = Nil
    /\ ~FreshView.crashed
    /\ FreshView.tree = FreshTree(Object)
    /\ \A o \in Object : FreshView.owner[o] = Nil
    /\ \A o \in Made : FreshView.cls[o] = Nil
    /\ \A s \in Service : FreshView.name[s] = s /\ FreshView.cls[s] = s
<1>1. PICK T : T = FreshTree(Object)
  OBVIOUS
<1>2. T \in Tree(Object)
  BY <1>1, ObjectFacts, FreshTreeIsTree DEF IsTree
<1>3. PICK name0 : name0 = [o \in Object |-> IF o \in 1..MaxMade THEN Nil ELSE o]
  OBVIOUS
<1>4. PICK id0 : id0 = [o \in Object |-> 0]
  OBVIOUS
<1>5. PICK own0 : own0 = [o \in Object |-> Nil]
  OBVIOUS
<1>6. FreshView = [tree |-> T, name |-> name0, cls |-> name0, netId |-> id0, owner |-> own0,
                   localPlayer |-> Nil, synced |-> FALSE, crashed |-> FALSE]
  BY <1>1, <1>3, <1>4, <1>5 DEF FreshView
<1>7. name0 \in [Object -> Instance \cup Names \cup {Nil}]
  BY <1>3, ObjectFacts DEF Made, Instance
<1>8. name0 \in [Object -> Object \cup Creatable \cup {Nil}]
  BY <1>3
<1>9. id0 \in [Object -> 0..MaxNetId] /\ own0 \in [Object -> Object \cup {Nil}]
  BY <1>4, <1>5, ObjectFacts
<1>10. PICK v : v = FreshView
  OBVIOUS
<1>11. /\ v.tree = T /\ v.name = name0 /\ v.cls = name0 /\ v.netId = id0 /\ v.owner = own0
       /\ v.synced = FALSE /\ v.crashed = FALSE /\ v \in Views
  BY <1>2, <1>6, <1>7, <1>8, <1>9, <1>10 DEF Views
<1>12. \A id : FindByNetId(v, id) = Nil
  <2> SUFFICES ASSUME NEW id PROVE FindByNetId(v, id) = Nil
    OBVIOUS
  <2>1. {o \in Object : v.netId[o] = id /\ id # 0} = {}
    BY <1>4, <1>11
  <2>2. QED BY <2>1 DEF FindByNetId
<1>13. \A o \in Made : name0[o] = Nil
  BY <1>3, ObjectFacts DEF Made
<1>14. \A s \in Service : name0[s] = s
  BY <1>3, ObjectFacts DEF Made
<1>15. QED BY <1>1, <1>4, <1>5, <1>10, <1>11, <1>12, <1>13, <1>14

\* ... and is well.
LEMMA FreshMirrors ==
    ASSUME NEW f, f = [x \in {game} |-> game], NEW H, H = {},
           NEW par, NEW ids, NEW nm, NEW own, NEW G, NEW lt
    PROVE  MirrorsAll(FreshView, f, H, par, ids, nm, own, G, lt)
<1>1. PICK v : v = FreshView
  OBVIOUS
<1>2. PICK T : T = FreshTree(Object)
  OBVIOUS
<1>3. /\ v \in Views /\ v.synced = FALSE /\ ~v.crashed /\ v.tree = T
      /\ \A o \in Object : v.netId[o] = 0
      /\ \A o \in Object : v.owner[o] = Nil
      /\ \A o \in Made : v.cls[o] = Nil
      /\ \A s \in Service : v.name[s] = s /\ v.cls[s] = s
  BY <1>1, <1>2, FreshFacts
<1>4. IsTree(T, Object) /\ T.parent[game] = Nil
  BY <1>2, ObjectFacts, FreshTreeIsTree
<1>5. /\ T.dead = {} /\ T.parent = [o \in Object |-> IF o \in Service THEN game ELSE Nil]
      /\ T.kids = [o \in Object |-> IF o = game THEN Services ELSE <<>>]
  BY <1>2 DEF FreshTree
<1>6. ClientOK(v)
  <2>1. \A o \in Object : v.netId[o] = 0 /\ T.parent[o] \in {game, Nil}
    BY <1>3, <1>5
  <2>2. \A o \in Made : T.parent[o] = Nil
    BY <1>5, ObjectFacts
  <2>3. \A o, k \in Object : o # game => T.parent[k] # o
    BY <2>1, ObjectFacts
  <2>4. \A s \in Service : T.parent[s] = game /\ v.owner[s] = Nil
    BY <1>3, <1>5, ObjectFacts
  <2>5. v.netId[game] = 0
    BY <2>1, ObjectFacts
  <2>6. \A o \in Made : v.cls[o] = Nil <=> v.netId[o] = 0
    BY <1>3, <2>1, ObjectFacts
  <2>7. QED BY <1>3, <1>4, <1>5, <2>1, <2>2, <2>3, <2>4, <2>5, <2>6 DEF ClientOK
<1>7. ServicesFirst(T)
  <2> SUFFICES ASSUME NEW a \in Service, NEW b \in DOMAIN T.parent, T.parent[b] = game
               PROVE  Before(T.kids[game], a, b) <=> (b \in Service => Before(Services, a, b))
    BY DEF ServicesFirst
  <2>1. b \in Service
    BY <1>5, ObjectFacts
  <2>2. T.kids[game] = Services
    BY <1>5, ObjectFacts
  <2>3. QED BY <2>1, <2>2
<1>8. Mirrors(v, f, H, par, ids, G)
  <2>1. H \cup {game} = {game} /\ f \in [{game} -> Object] /\ f[game] = game
    BY ObjectFacts
  <2>2. QED BY <1>3, <1>5, <2>1, ObjectFacts DEF Mirrors
<1>9. Named(v, f, H, nm) /\ Owned(v, f, H, own, ids) /\ Ordered(v, f, H, par, lt)
  BY DEF Named, Owned, Ordered
<1>10. QED BY <1>1, <1>3, <1>6, <1>7, <1>8, <1>9 DEF MirrorsAll

\* Packets about instances whose parent is not game are lost on a new client.
LEMMA FreshDrops ==
    ASSUME NEW T, NEW nm, NEW ids, NEW order \in Seq(Instance), NEW s, s = Added(T, nm, ids, order),
           \A i \in 1..Len(order) : T.parent[order[i]] # Nil /\ ids[T.parent[order[i]]] # 0
    PROVE  Leads(FreshView, s, FreshView)
<1>1. PICK N \in Nat : N = Len(order)
  OBVIOUS
<1>2. /\ Len(s) = N /\ IsList(s)
      /\ \A k \in 1..N : s[k] = Entry(T, nm, ids, order[k]) /\ s[k].sig = "InstanceAdded"
  BY <1>1, AddedIs
<1>3. PICK v : v = FreshView
  OBVIOUS
<1>4. PICK h : h = [k \in 0..N |-> v]
  OBVIOUS
<1>5. \A k \in 0..N : h[k] = v
  BY <1>4
<1>6. ASSUME NEW k \in 1..N PROVE h[k] = Received(h[k - 1], s[k])
  <2>1. h[k] = v /\ h[k - 1] = v
    BY <1>5
  <2>2. PICK e : e = s[k]
    OBVIOUS
  <2>3. e.parent # 0 /\ e.sig = "InstanceAdded"
    <3>1. PICK x : x = order[k] /\ T.parent[x] # Nil /\ ids[T.parent[x]] # 0
      BY <1>1
    <3>2. e = Entry(T, nm, ids, x) /\ e.sig = "InstanceAdded"
      BY <1>2, <2>2, <3>1
    <3>3. Entry(T, nm, ids, x).parent = ids[T.parent[x]]
      BY <3>1 DEF Entry
    <3>4. QED BY <3>1, <3>2, <3>3
  <2>4. FindByNetId(v, e.parent) = Nil
    BY <1>3, FreshFacts
  <2>5. ApplyInstanceAdded(v, e) = v
    BY <2>3, <2>4 DEF ApplyInstanceAdded
  <2>6. QED BY <2>1, <2>2, <2>3, <2>5, ReceivedIs
<1>7. Fine(v)
  BY <1>3, FreshFacts DEF Fine
<1>8. h[0] = v /\ h[N] = v
  BY <1>5
<1>9. QED BY <1>2, <1>3, <1>5, <1>6, <1>7, <1>8 DEF Leads

\* LocalPlayer, too, is lost on a new client.
LEMMA FreshIgnores ==
    ASSUME NEW m, m.sig = "LocalPlayer"
    PROVE  Received(FreshView, m) = FreshView
<1>1. PICK v : v = FreshView
  OBVIOUS
<1>2. FindByNetId(v, m.id) = Nil
  BY <1>1, FreshFacts
<1>3. QED BY <1>1, <1>2, ReceivedIs DEF ApplyLocalPlayer

(***************************************************************************)
(* What the server sends.                                                  *)
(*                                                                         *)
(* A snapshot has every watched instance, parents first and siblings in    *)
(* their order; so a greeting makes a mirror of a fresh client.            *)
(***************************************************************************)

\* The server's order of siblings.
Siblings(T) == {z \in Instance \X Instance : Before(T.kids[T.parent[z[1]]], z[1], z[2])}

\* The server's instances when nothing was moved out of sight: H are watched.
Settled(T, H, ids, nm) ==
    /\ IsTree(T, Instance) /\ T.parent[game] = Nil /\ game \notin T.dead
    /\ H \in SUBSET Instance /\ ids \in [Instance -> 0..MaxNetId] /\ ids[game] = 0
    /\ \A x \in Instance : ids[x] # 0 => x \in H \/ x \in T.dead
    /\ \A x \in H : ids[x] # 0 /\ T.parent[x] \in H \cup {game}
    /\ \A s \in Service : T.parent[s] \in {game, Nil}
    /\ ServicesFirst(T)
    /\ \A a, b \in Instance :
          T.parent[a] = game /\ T.parent[b] = game /\ nm[a] = nm[b] => a = b

\* What is watched is alive.
LEMMA WatchedAlive ==
    ASSUME NEW T, NEW H, NEW ids, NEW nm, Settled(T, H, ids, nm)
    PROVE  H \cap T.dead = {} /\ game \notin H
<1>1. \A x \in H : T.parent[x] \in Instance
  BY InstanceFacts DEF Settled
<1>2. \A x \in T.dead : T.parent[x] = Nil
  BY DEF Settled, IsTree
<1>3. QED BY <1>1, <1>2, InstanceFacts DEF Settled

\* The instances of a snapshot.
Shot(T, ids) == KeepIn(Tail(Walk(T, game, {})), {x \in Instance : ids[x] # 0})

\* A snapshot has what is watched, parents first, siblings in their order.
LEMMA SnapshotArrives ==
    ASSUME NEW T, NEW H, NEW ids, NEW nm, Settled(T, H, ids, nm),
           NEW order, order = Shot(T, ids), NEW N, N = Len(order),
           NEW none, none = {}
    PROVE  /\ Arrives(T, order, none, T.parent, ids, nm, T.dead, none)
           /\ FirstOf(order, N) = H
           /\ \A a, b \in H : T.parent[a] = T.parent[b] =>
                 (<<a, b>> \in Rank(order, N, none) <=> <<a, b>> \in Siblings(T))
<1>1. /\ IsTree(T, Instance) /\ T.parent[game] = Nil /\ game \notin T.dead
      /\ H \in SUBSET Instance /\ ids \in [Instance -> 0..MaxNetId] /\ ids[game] = 0
      /\ \A x \in Instance : ids[x] # 0 => x \in H \/ x \in T.dead
      /\ \A x \in H : ids[x] # 0 /\ T.parent[x] \in H \cup {game}
      /\ \A s \in Service : T.parent[s] \in {game, Nil}
      /\ ServicesFirst(T)
      /\ \A a, b \in Instance :
            T.parent[a] = game /\ T.parent[b] = game /\ nm[a] = nm[b] => a = b
  BY DEF Settled
<1>2. H \cap T.dead = {} /\ game \notin H
  BY WatchedAlive
<1>3. PICK W : W = Walk(T, game, {})
  OBVIOUS
<1>4. PICK V : V = ToSet(W)
  OBVIOUS
<1>5. PICK t : t = Tail(W)
  OBVIOUS
<1>6. game \notin {} /\ game \in Instance /\ IsFiniteSet(Instance)
  BY InstanceFacts
<1>7. /\ W \in Seq(Instance) /\ IsInjective(W) /\ t \in Seq(Instance) /\ IsInjective(t)
      /\ ToSet(t) = V \ {game} /\ V \in SUBSET Instance /\ game \in V
      /\ \A y \in V : y # game => T.parent[y] \in V
      /\ \A k \in Instance : T.parent[k] \in V => k \in V
  <2>1. /\ Walk(T, game, {}) \in Seq(Instance) /\ IsInjective(Walk(T, game, {}))
        /\ Tail(Walk(T, game, {})) \in Seq(Instance) /\ IsInjective(Tail(Walk(T, game, {})))
        /\ ToSet(Tail(Walk(T, game, {}))) = ToSet(Walk(T, game, {})) \ {game}
        /\ ToSet(Walk(T, game, {})) \subseteq Instance \ {}
        /\ game \in ToSet(Walk(T, game, {}))
        /\ \A y \in ToSet(Walk(T, game, {})) : y # game => T.parent[y] \in ToSet(Walk(T, game, {}))
        /\ \A k \in Instance \ {} : T.parent[k] \in ToSet(Walk(T, game, {})) =>
                                        k \in ToSet(Walk(T, game, {}))
    BY <1>1, <1>6, WalkByParents
  <2>2. QED BY <1>3, <1>4, <1>5, <2>1
<1>8. W # <<>> /\ Head(W) = game
  <2>1. W # <<>> /\ W[1] = game
    BY <1>1, <1>3, <1>6, WalkProperties
  <2>2. QED BY <1>7, <2>1, HeadAndTail
<1>9. PICK num : num = {x \in Instance : ids[x] # 0}
  OBVIOUS
<1>10. order = KeepIn(t, num)
  BY <1>3, <1>5, <1>9 DEF Shot
<1>11. order \in Seq(Instance) /\ ToSet(order) = (V \ {game}) \cap num /\ IsInjective(order)
  <2>1. /\ KeepIn(t, num) \in Seq(Instance) /\ ToSet(KeepIn(t, num)) = ToSet(t) \cap num
        /\ IsInjective(KeepIn(t, num))
    BY <1>7, KeepDistinct
  <2>2. QED BY <1>7, <1>10, <2>1
\* What has an id and is below game is watched, and the other way round.
<1>12. ToSet(order) = H
  <2>1. ASSUME NEW y \in ToSet(order) PROVE y \in H
    <3>1. y \in V /\ y # game /\ ids[y] # 0 /\ y \in Instance
      BY <1>7, <1>9, <1>11, <2>1
    <3>2. T.parent[y] \in Instance
      BY <1>7, <3>1
    <3>3. y \notin T.dead
      BY <1>1, <3>2, InstanceFacts DEF IsTree
    <3>4. QED BY <1>1, <3>1, <3>3
  <2>2. H \subseteq V
    <3>1. PICK R \in SUBSET Instance : R = H \ V
      BY <1>1
    <3>2. CASE R = {}
      BY <3>1, <3>2
    <3>3. CASE R # {}
      <4>1. PICK y \in R : T.parent[y] \notin R
        BY <1>1, <3>3 DEF IsTree
      <4>2. T.parent[y] \in V
        BY <1>1, <1>7, <3>1, <4>1
      <4>3. QED BY <1>7, <3>1, <4>1, <4>2
    <3>4. QED BY <3>2, <3>3
  <2>3. H \subseteq num
    BY <1>1, <1>9
  <2>4. QED BY <1>2, <1>11, <2>1, <2>2, <2>3
<1>13. N \in Nat /\ FirstOf(order, N) = H
  <2>1. N \in Nat
    BY <1>11
  <2>2. ToSet(order) = {order[i] : i \in 1..N}
    BY <1>11 DEF ToSet
  <2>3. QED BY <1>12, <2>1, <2>2 DEF FirstOf
<1>14. \A a, b \in H : Before(order, a, b) <=> Before(W, a, b)
  <2> TAKE a, b \in H
  <2>1. Before(order, a, b) <=> Before(t, a, b) /\ a \in num /\ b \in num
    BY <1>7, <1>10, BeforeKeep
  <2>2. Before(W, a, b) <=> Before(t, a, b) \/ (a = Head(W) /\ b \in ToSet(Tail(W)))
    BY <1>5, <1>7, <1>8, BeforeTail
  <2>3. a # game /\ a \in num /\ b \in num
    BY <1>1, <1>2, <1>9
  <2>4. QED BY <1>8, <2>1, <2>2, <2>3
<1>15. H \subseteq V
  BY <1>11, <1>12
<1>16. \A a, b \in H : T.parent[a] = T.parent[b] =>
          (Before(order, a, b) <=> Before(T.kids[T.parent[a]], a, b))
  <2> SUFFICES ASSUME NEW a \in H, NEW b \in H, T.parent[a] = T.parent[b]
               PROVE  Before(order, a, b) <=> Before(T.kids[T.parent[a]], a, b)
    OBVIOUS
  <2>1. a \in V /\ b \in V /\ a # game /\ b # game
    BY <1>2, <1>15
  <2>2. Before(W, a, b) <=> Before(T.kids[T.parent[a]], a, b)
    BY <1>1, <1>3, <1>4, <1>6, <2>1, WalkOrder
  <2>3. QED BY <1>14, <2>2
<1>17. ASSUME NEW i \in 1..N
       PROVE  /\ order[i] \in H /\ order[i] \notin T.dead /\ order[i] # game /\ ids[order[i]] # 0
              /\ T.parent[order[i]] \in {game} \cup FirstOf(order, i - 1)
              /\ order[i] \in Service =>
                    /\ T.parent[order[i]] = game
                    /\ \A j \in 1..i - 1 : T.parent[order[j]] = game =>
                          order[j] \in Service /\ Before(Services, order[j], order[i])
  <2>1. PICK y : y = order[i]
    OBVIOUS
  <2>2. \A j \in 1..N : order[j] \in H
    BY <1>13 DEF FirstOf
  <2>3. y \in H /\ y \notin T.dead /\ y # game /\ ids[y] # 0
    BY <1>1, <1>2, <2>1, <2>2
  <2>4. i \in DOMAIN order /\ N = Len(order) /\ DOMAIN order = 1..N
    BY <1>11, <1>13
  <2>5. T.parent[y] \in {game} \cup FirstOf(order, i - 1)
    <3>1. CASE T.parent[y] = game
      BY <3>1
    <3>2. CASE T.parent[y] # game
      <4>1. PICK q \in H : q = T.parent[y]
        BY <1>1, <2>3, <3>2
      <4>2. Before(W, T.parent[y], y)
        <5>1. y \in V /\ y # game
          BY <1>15, <2>3
        <5>2. QED BY <1>1, <1>3, <1>4, <1>6, <5>1, WalkOrder
      <4>3. Before(order, q, y)
        BY <1>14, <2>3, <4>1, <4>2
      <4>4. PICK j, k \in DOMAIN order : j < k /\ order[j] = q /\ order[k] = y
        BY <4>3 DEF Before
      <4>5. k = i
        BY <1>11, <2>1, <2>4, <4>4 DEF IsInjective
      <4>6. j \in 1..i - 1
        BY <2>4, <4>4, <4>5
      <4>7. QED BY <4>1, <4>4, <4>6 DEF FirstOf
    <3>3. QED BY <3>1, <3>2
  <2>6. ASSUME y \in Service
        PROVE  /\ T.parent[y] = game
               /\ \A j \in 1..i - 1 : T.parent[order[j]] = game =>
                     order[j] \in Service /\ Before(Services, order[j], y)
    <3>1. T.parent[y] = game
      BY <1>1, <2>3, <2>6, InstanceFacts
    <3>2. ASSUME NEW j \in 1..i - 1, T.parent[order[j]] = game
          PROVE  order[j] \in Service /\ Before(Services, order[j], y)
      <4>1. PICK z \in H : z = order[j]
        <5>1. j \in 1..N
          BY <1>13
        <5>2. QED BY <2>2, <5>1
      <4>2. Before(order, z, y)
        <5>1. j \in DOMAIN order /\ i \in DOMAIN order /\ j < i
          BY <1>13, <2>4
        <5>2. QED BY <2>1, <4>1, <5>1 DEF Before
      <4>3. T.parent[z] = T.parent[y] /\ T.parent[z] = game
        BY <3>1, <3>2, <4>1
      <4>4. Before(T.kids[game], z, y)
        BY <1>16, <2>3, <4>2, <4>3
      <4>5. PICK l : l = T.kids[game]
        OBVIOUS
      <4>6. l \in Seq(Instance) /\ IsInjective(l)
        BY <1>1, <1>6, <4>5 DEF IsTree, Tree
      <4>7. ~Before(l, y, z)
        BY <4>4, <4>5, <4>6, BeforeIsOrder
      <4>8. DOMAIN T.parent = Instance /\ y \in Instance /\ z \in Instance
        BY <1>1, <2>3 DEF IsTree, Tree
      <4>9. \A a \in Service, b \in Instance : T.parent[a] = game /\ T.parent[b] = game =>
               (Before(l, a, b) <=> (b \in Service => Before(Services, a, b)))
        BY <1>1, <4>5, <4>8 DEF ServicesFirst
      <4>10. z \in Service
        BY <2>6, <3>1, <4>3, <4>7, <4>8, <4>9
      <4>11. Before(Services, z, y)
        BY <2>6, <3>1, <4>3, <4>4, <4>5, <4>8, <4>9, <4>10
      <4>12. QED BY <4>1, <4>10, <4>11
    <3>3. QED BY <3>1, <3>2
  <2>7. QED BY <2>1, <2>3, <2>5, <2>6
<1>18. Arrives(T, order, none, T.parent, ids, nm, T.dead, none)
  <2>1. ASSUME NEW i \in 1..Len(order)
        PROVE  /\ order[i] \notin T.dead /\ order[i] # game /\ ids[order[i]] # 0
               /\ T.parent[order[i]] \in none \cup {game} \cup FirstOf(order, i - 1)
               /\ order[i] \in Service =>
                     /\ none = {} /\ T.parent[order[i]] = game
                     /\ \A j \in 1..i - 1 : T.parent[order[j]] = game =>
                           order[j] \in Service /\ Before(Services, order[j], order[i])
    BY <1>17
  <2>2. \A k \in none \ {order[1]} : T.parent[k] = T.parent[k]
    OBVIOUS
  <2>3. order[1] \notin none
    OBVIOUS
  <2>4. QED BY <1>1, <1>11, <2>1, <2>3 DEF Arrives
<1>19. ASSUME NEW a \in H, NEW b \in H, T.parent[a] = T.parent[b]
       PROVE  <<a, b>> \in Rank(order, N, none) <=> <<a, b>> \in Siblings(T)
  <2>1. a \in Instance /\ b \in Instance /\ a \in FirstOf(order, N) /\ b \in FirstOf(order, N)
    BY <1>1, <1>13
  <2>2. <<a, b>> \in Rank(order, N, none) <=> Before(order, a, b)
    BY <2>1 DEF Rank
  <2>3. <<a, b>> \in Siblings(T) <=> Before(T.kids[T.parent[a]], a, b)
    BY <2>1 DEF Siblings
  <2>4. QED BY <1>16, <1>19, <2>2, <2>3
<1>20. QED BY <1>13, <1>18, <1>19

\* What a new client is sent makes it a mirror.
LEMMA GreetingLeads ==
    ASSUME NEW T, NEW H, NEW ids, NEW nm, NEW own, NEW G, NEW s,
           /\ Settled(T, H, ids, nm) /\ G = T.dead /\ Sane(H, ids, nm, G)
           /\ s = <<[sig |-> "Snapshot", entries |-> SnapshotEntries(T, nm, ids)],
                    [sig |-> "SnapshotFinished"]>>
    PROVE  \E w, g : /\ Leads(FreshView, s, w) /\ w.synced = TRUE
                     /\ MirrorsAll(w, g, H, T.parent, ids, nm, own, G, Siblings(T))
<1>1. PICK order : order = Shot(T, ids)
  OBVIOUS
<1>2. PICK N : N = Len(order)
  OBVIOUS
<1>3. PICK none : none = {}
  OBVIOUS
<1>4. /\ Arrives(T, order, none, T.parent, ids, nm, G, none)
      /\ FirstOf(order, N) = H
      /\ \A a, b \in H : T.parent[a] = T.parent[b] =>
            (<<a, b>> \in Rank(order, N, none) <=> <<a, b>> \in Siblings(T))
  BY <1>1, <1>2, <1>3, SnapshotArrives
<1>5. PICK v : v = FreshView
  OBVIOUS
<1>6. PICK f : f = [x \in {game} |-> game]
  OBVIOUS
<1>7. PICK par : par = T.parent
  OBVIOUS
<1>8. PICK es : es = Added(T, nm, ids, order)
  OBVIOUS
<1>9. Sane(none, ids, nm, G)
  BY <1>3 DEF Sane
<1>10. PICK rk : rk = Rank(order, N, none)
  OBVIOUS
<1>11. After(order, T, none, par, none, H, par, rk)
  BY <1>2, <1>3, <1>4, <1>7, <1>10 DEF After, ParentsAfter
<1>12. /\ Sane(none, ids, nm, G) /\ MirrorsAll(v, f, none, par, ids, nm, own, G, none)
       /\ Arrives(T, order, none, par, ids, nm, G, none)
       /\ After(order, T, none, par, none, H, par, rk)
       /\ es = Added(T, nm, ids, order)
  <2>1. MirrorsAll(v, f, none, par, ids, nm, own, G, none)
    BY <1>3, <1>5, <1>6, FreshMirrors
  <2>2. QED BY <1>4, <1>7, <1>8, <1>9, <1>11, <2>1
<1>13. PICK u, g : /\ Leads(v, es, u) /\ Applied(v, es)[Len(order)] = u /\ u.synced = v.synced
                   /\ MirrorsAll(u, g, H, par, ids, nm, own, G, rk)
  BY <1>12, AddedLeads
<1>14. PICK sb : sb = Siblings(T)
  OBVIOUS
<1>15. Recast(H, par, par, ids, ids, own, own, rk, sb)
  BY <1>4, <1>7, <1>10, <1>14 DEF Recast, Agree, Sane
<1>16. MirrorsAll(u, g, H, par, ids, nm, own, G, sb)
  BY <1>13, <1>15, RecastStep
<1>17. PICK w : w = [u EXCEPT !.synced = TRUE]
  OBVIOUS
<1>18. w.synced = TRUE /\ MirrorsAll(w, g, H, par, ids, nm, own, G, sb)
  BY <1>16, <1>17, FinishStep
<1>19. PICK a : a = [sig |-> "Snapshot", entries |-> es]
  OBVIOUS
<1>20. PICK b : b = [sig |-> "SnapshotFinished"]
  OBVIOUS
<1>21. s = <<a>> \o <<b>>
  <2>1. SnapshotEntries(T, nm, ids) = es
    BY <1>1, <1>8 DEF SnapshotEntries, Shot
  <2>2. s = <<a, b>>
    BY <1>19, <1>20, <2>1
  <2>3. QED BY <2>2
<1>22. u = Received(v, a)
  <2>1. order \in Seq(Instance)
    BY <1>4 DEF Arrives
  <2>2. Len(es) = N
    BY <1>2, <1>8, <2>1, AddedIs
  <2>3. a.sig = "Snapshot" /\ a.entries = es
    BY <1>19
  <2>4. QED BY <1>2, <1>13, <2>2, <2>3, ReceivedIs
<1>23. w = Received(u, b)
  <2>1. b.sig = "SnapshotFinished"
    BY <1>20
  <2>2. QED BY <1>17, <2>1, ReceivedIs
<1>24. Fine(v) /\ Fine(u) /\ Fine(w)
  BY <1>12, <1>13, <1>18 DEF MirrorsAll, ClientOK, Fine
<1>25. Leads(v, <<a>>, u)
  BY <1>22, <1>24, LeadsOne
<1>26. Leads(u, <<b>>, w)
  BY <1>23, <1>24, LeadsOne
<1>27. Leads(v, s, w)
  BY <1>21, <1>25, <1>26, LeadsConcat
<1>28. QED BY <1>5, <1>7, <1>14, <1>18, <1>27

\* An instance moves out of the clients' sight, or stays out of it.
LEMMA UnseenMove ==
    ASSUME NEW T, NEW H, NEW ids, NEW nm, NEW own, NEW x \in Instance,
           NEW p \in Instance \cup {Nil}, NEW U, NEW ids2, NEW own2,
           Settled(T, H, ids, nm), x \notin T.dead, x \notin H, p \notin Subtree(T, x),
           U = SetParent(T, x, p), Agree(H, own, own2), Agree(Instance, ids, ids2),
           ids2 \in [Instance -> 0..MaxNetId],
           \A y, z \in Instance : ids[y] = ids[z] /\ ids[y] # 0 => y = z
    PROVE  Recast(H, T.parent, U.parent, ids, ids2, own, own2, Siblings(T), Siblings(U))
<1>1. /\ IsTree(T, Instance) /\ H \in SUBSET Instance /\ ids[game] = 0
      /\ \A y \in H : T.parent[y] \in H \cup {game}
  BY DEF Settled
<1>2. PICK O : O = Instance
  OBVIOUS
<1>3. IsFiniteSet(O) /\ Nil \notin O /\ IsTree(T, O) /\ x \in O /\ p \in O \cup {Nil}
  BY <1>1, <1>2, InstanceFacts
<1>4. U.parent = [T.parent EXCEPT ![x] = p]
  BY <1>3, SetParentProperties
<1>5. \A y \in H : U.parent[y] = T.parent[y]
  BY <1>1, <1>2, <1>3, <1>4 DEF IsTree, Tree
<1>6. ASSUME NEW a \in H, NEW b \in H
      PROVE  <<a, b>> \in Siblings(T) <=> <<a, b>> \in Siblings(U)
  <2>1. PICK q \in O : q = T.parent[a] /\ q = U.parent[a]
    BY <1>1, <1>2, <1>5, InstanceFacts
  <2>2. Before(U.kids[q], a, b) <=> \/ Before(T.kids[q], a, b) /\ a # x /\ b # x
                                    \/ q = p /\ b = x /\ a # x /\ a \in ToSet(T.kids[p])
    BY <1>3, SetParentOrder
  <2>3. a # x /\ b # x /\ a \in Instance /\ b \in Instance
    BY <1>1
  <2>4. QED BY <2>1, <2>2, <2>3 DEF Siblings
<1>7. Agree(H, T.parent, U.parent)
  BY <1>5 DEF Agree
<1>8. /\ \A y \in Instance : ids2[y] = ids[y]
      /\ game \in Instance
  BY InstanceFacts DEF Agree
<1>9. QED BY <1>1, <1>6, <1>7, <1>8 DEF Recast

\* An instance is put where clients see it, with the subtree it brings along.
SeenAt(T, U, H, H2, ids, ids2, x, p, order) ==
    /\ x \in Instance \ Service /\ x # game /\ x \notin T.dead /\ x \notin Hidden
    /\ p \in H \cup {game} /\ p \notin Subtree(T, x) /\ U = SetParent(T, x, p)
    /\ order = Walk(U, x, Hidden) /\ H2 = H \cup ToSet(order) /\ H2 \cap Hidden = {}
    /\ \A y \in Instance : ids[y] # 0 => ids2[y] = ids[y]
    /\ \A y, z \in Instance : ids2[y] = ids2[z] /\ ids2[y] # 0 => y = z

\* The packet of such a move makes a mirror of the server before it a mirror of
\* the server after it.
LEMMA SeenMove ==
    ASSUME NEW T, NEW H, NEW ids, NEW nm, NEW x, NEW p, NEW U, NEW order, NEW H2, NEW ids2,
           NEW D,
           /\ Settled(T, H, ids, nm) /\ Settled(U, H2, ids2, nm)
           /\ SeenAt(T, U, H, H2, ids, ids2, x, p, order)
           /\ D = Subtree(T, x)
    PROVE  /\ Arrives(U, order, H, T.parent, ids2, nm, T.dead, D)
           /\ After(order, U, H, T.parent, Siblings(T), H2, U.parent,
                    Rank(order, Len(order), Siblings(T)))
           /\ \A a, b \in H2 : U.parent[a] = U.parent[b] =>
                 (<<a, b>> \in Rank(order, Len(order), Siblings(T)) <=> <<a, b>> \in Siblings(U))
<1>1. /\ IsTree(T, Instance) /\ T.parent[game] = Nil /\ game \notin T.dead
      /\ H \in SUBSET Instance
      /\ \A y \in H : T.parent[y] \in H \cup {game}
      /\ \A s \in Service : T.parent[s] \in {game, Nil}
  BY DEF Settled
<1>2. /\ IsTree(U, Instance) /\ U.parent[game] = Nil /\ game \notin U.dead
      /\ H2 \in SUBSET Instance /\ \A y \in H2 : ids2[y] # 0 /\ U.parent[y] \in H2 \cup {game}
      /\ \A s \in Service : U.parent[s] \in {game, Nil}
      /\ \A a, b \in Instance :
            U.parent[a] = game /\ U.parent[b] = game /\ nm[a] = nm[b] => a = b
  BY DEF Settled
<1>3. /\ x \in Instance \ Service /\ x # game /\ x \notin T.dead /\ x \notin Hidden
      /\ p \in H \cup {game} /\ p \notin Subtree(T, x) /\ U = SetParent(T, x, p)
      /\ order = Walk(U, x, Hidden) /\ H2 = H \cup ToSet(order) /\ H2 \cap Hidden = {}
  BY DEF SeenAt
<1>4. PICK O : O = Instance
  OBVIOUS
<1>5. /\ IsFiniteSet(O) /\ Nil \notin O /\ IsTree(T, O) /\ IsTree(U, O)
      /\ x \in O /\ p \in O /\ game \in O
  BY <1>1, <1>2, <1>3, <1>4, InstanceFacts
<1>6. U.parent = [T.parent EXCEPT ![x] = p] /\ U.dead = T.dead
  BY <1>3, <1>5, SetParentProperties
<1>7. /\ \A y \in O : y # x => U.parent[y] = T.parent[y]
      /\ U.parent[x] = p
  BY <1>5, <1>6 DEF IsTree, Tree
<1>8. PICK S : S = ToSet(order)
  OBVIOUS
<1>9. /\ order \in Seq(O) /\ IsInjective(order) /\ S \in SUBSET O /\ x \in S
      /\ \A y \in S : y # x => U.parent[y] \in S
      /\ \A k \in O \ Hidden : U.parent[k] \in S => k \in S
  <2>1. /\ Walk(U, x, Hidden) \in Seq(O) /\ IsInjective(Walk(U, x, Hidden))
        /\ ToSet(Walk(U, x, Hidden)) \subseteq O \ Hidden
        /\ x \in ToSet(Walk(U, x, Hidden))
        /\ \A y \in ToSet(Walk(U, x, Hidden)) :
              y # x => U.parent[y] \in ToSet(Walk(U, x, Hidden))
        /\ \A k \in O \ Hidden : U.parent[k] \in ToSet(Walk(U, x, Hidden)) =>
                                    k \in ToSet(Walk(U, x, Hidden))
    BY <1>3, <1>5, WalkByParents
  <2>2. QED BY <1>3, <1>8, <2>1
<1>10. order # <<>> /\ order[1] = x
  BY <1>3, <1>5, WalkProperties
<1>11. PICK N \in Nat : N = Len(order) /\ N # 0
  BY <1>9, <1>10, EmptySeq
<1>12. FirstOf(order, N) = S /\ \A i \in 1..N : order[i] \in S
  <2>1. S = {order[i] : i \in 1..N}
    BY <1>8, <1>9, <1>11 DEF ToSet
  <2>2. QED BY <2>1 DEF FirstOf
<1>13. p \notin S
  <2>1. PICK B \in SUBSET O : /\ B = Subtree(U, x) /\ x \in B
                              /\ \A k \in O : U.parent[k] \in B => k \in B
                              /\ \A Q \in SUBSET O :
                                    x \in Q /\ (\A k \in O : U.parent[k] \in Q => k \in Q) => B \subseteq Q
    BY <1>5, SubtreeProperties
  <2>2. U.parent[x] \notin B
    BY <1>5, <2>1, ParentNotBelow
  <2>3. S \subseteq B
    <3>1. \A k \in O \ Hidden : U.parent[k] \in B => k \in B
      BY <2>1
    <3>2. QED BY <1>3, <1>5, <1>8, <2>1, <3>1, WalkByParents
  <2>4. QED BY <1>7, <2>2, <2>3
<1>14. game \notin S
  BY <1>2, <1>3, <1>5, <1>9
<1>15. S \cap Service = {}
  <2> SUFFICES ASSUME NEW s \in Service, s \in S PROVE FALSE
    OBVIOUS
  <2>1. s # x
    BY <1>3
  <2>2. U.parent[s] \in S
    BY <1>9, <2>1
  <2>3. QED BY <1>2, <1>5, <1>9, <1>14, <2>2
<1>16. S \cap T.dead = {}
  <2>1. \A y \in S : y # x => U.parent[y] # Nil
    BY <1>5, <1>9
  <2>2. \A y \in U.dead : U.parent[y] = Nil
    BY <1>5 DEF IsTree
  <2>3. QED BY <1>3, <1>6, <2>1, <2>2
<1>17. ASSUME NEW i \in 1..N
       PROVE  U.parent[order[i]] \in H \cup {game} \cup FirstOf(order, i - 1)
  <2>1. PICK y \in S : y = order[i]
    BY <1>12
  <2>2. CASE y = x
    BY <1>3, <1>7, <2>1, <2>2
  <2>3. CASE y # x
    <3>1. Before(order, U.parent[y], y)
      BY <1>3, <1>5, <1>8, <2>3, WalkOrder
    <3>2. PICK j, k \in DOMAIN order : j < k /\ order[j] = U.parent[y] /\ order[k] = y
      BY <3>1 DEF Before
    <3>3. DOMAIN order = 1..N
      BY <1>9, <1>11
    <3>4. k = i
      BY <1>9, <2>1, <3>2, <3>3 DEF IsInjective
    <3>5. j \in 1..i - 1
      BY <3>2, <3>3, <3>4
    <3>6. QED BY <2>1, <3>2, <3>5 DEF FirstOf
  <2>4. QED BY <2>2, <2>3
<1>18. Arrives(U, order, H, T.parent, ids2, nm, T.dead, D)
  <2>1. ASSUME NEW i \in 1..Len(order)
        PROVE  /\ order[i] \notin T.dead /\ order[i] # game /\ ids2[order[i]] # 0
               /\ U.parent[order[i]] \in H \cup {game} \cup FirstOf(order, i - 1)
               /\ order[i] \in Service =>
                     /\ H = {} /\ U.parent[order[i]] = game
                     /\ \A j \in 1..i - 1 : U.parent[order[j]] = game =>
                           order[j] \in Service /\ Before(Services, order[j], order[i])
    <3>1. order[i] \in S /\ order[i] \in H2
      BY <1>3, <1>8, <1>11, <1>12
    <3>2. QED BY <1>2, <1>11, <1>14, <1>15, <1>16, <1>17, <3>1
  <2>2. \A k \in H \ {order[1]} : T.parent[k] = U.parent[k]
    BY <1>1, <1>4, <1>7, <1>10
  <2>3. Branch(H, T.parent, order[1], U.parent[order[1]], D)
    <3>1. PICK B \in SUBSET O : /\ B = Subtree(T, x) /\ x \in B
                                /\ \A y \in B : y # x => T.parent[y] \in B
                                /\ \A k \in O : T.parent[k] \in B => k \in B
      BY <1>5, SubtreeProperties
    <3>2. game \notin B
      BY <1>1, <1>3, <1>5, <3>1
    <3>3. p \notin B
      BY <1>3, <3>1
    <3>4. QED BY <1>1, <1>4, <1>7, <1>10, <3>1, <3>2, <3>3 DEF Branch
  <2>4. order \in Seq(Instance) /\ IsInjective(order)
    BY <1>4, <1>9
  <2>5. QED BY <1>2, <2>1, <2>2, <2>3, <2>4 DEF Arrives
<1>19. After(order, U, H, T.parent, Siblings(T), H2, U.parent, Rank(order, Len(order), Siblings(T)))
  BY <1>3, <1>8, <1>11, <1>12 DEF After, ParentsAfter
<1>20. ASSUME NEW a \in H2, NEW b \in H2, U.parent[a] = U.parent[b]
       PROVE  <<a, b>> \in Rank(order, N, Siblings(T)) <=> <<a, b>> \in Siblings(U)
  <2>1. a \in O /\ b \in O /\ a \notin Hidden /\ b \notin Hidden
    BY <1>2, <1>3, <1>4
  <2>2. PICK q \in O : q = U.parent[a] /\ q = U.parent[b]
    BY <1>2, <1>4, <1>20, <1>5
  <2>3. <<a, b>> \in Siblings(U) <=> Before(U.kids[q], a, b)
    BY <1>4, <2>1, <2>2 DEF Siblings
  <2>4. <<a, b>> \in Rank(order, N, Siblings(T)) <=>
           \/ b \in S /\ (a \in S => Before(order, a, b))
           \/ a \notin S /\ b \notin S /\ <<a, b>> \in Siblings(T)
    BY <1>4, <1>12, <2>1 DEF Rank
  <2>5. Before(U.kids[q], a, b) <=> \/ Before(T.kids[q], a, b) /\ a # x /\ b # x
                                    \/ q = p /\ b = x /\ a # x /\ a \in ToSet(T.kids[p])
    BY <1>3, <1>5, SetParentOrder
  <2>6. a \in S /\ a # x => q \in S
    BY <1>9, <2>2
  <2>7. b \in S /\ b # x => q \in S
    BY <1>9, <2>2
  <2>8. q \in S => a \in S /\ b \in S
    BY <1>9, <2>1, <2>2
  <2>9. a = x \/ b = x => q = p
    BY <1>7, <2>2
  <2>10. CASE q \in S
    <3>1. a # x /\ b # x /\ a \in S /\ b \in S
      BY <1>13, <2>8, <2>9, <2>10
    <3>2. Before(order, a, b) <=> Before(U.kids[U.parent[a]], a, b)
      BY <1>3, <1>5, <1>8, <2>2, <3>1, WalkOrder
    <3>3. QED BY <2>2, <2>3, <2>4, <3>1, <3>2
  <2>11. CASE q \notin S
    <3>1. CASE b = x
      <4>1. CASE a = x
        <5>1. ~Before(order, x, x) /\ ~(<<x, x>> \in Siblings(U))
          <6>1. PICK l : l = U.kids[q]
            OBVIOUS
          <6>2. l \in Seq(O) /\ IsInjective(l)
            BY <1>5, <2>2, <6>1 DEF IsTree, Tree
          <6>3. ~Before(l, x, x)
            BY <6>2, BeforeIsOrder
          <6>4. ~Before(order, x, x)
            BY <1>9, BeforeIsOrder
          <6>5. QED BY <2>3, <3>1, <4>1, <6>1, <6>3, <6>4
        <5>2. QED BY <1>9, <2>4, <3>1, <4>1, <5>1
      <4>2. CASE a # x
        <5>1. a \notin S
          BY <2>6, <2>11, <4>2
        <5>2. T.parent[a] = p
          BY <1>7, <2>1, <2>2, <2>9, <3>1, <4>2
        <5>3. a \in ToSet(T.kids[p])
          BY <1>5, <2>1, <5>2 DEF IsTree
        <5>4. QED BY <1>9, <2>3, <2>4, <2>5, <2>9, <3>1, <4>2, <5>1, <5>3
      <4>3. QED BY <4>1, <4>2
    <3>2. CASE b # x
      <4>1. b \notin S
        BY <2>7, <2>11, <3>2
      <4>2. CASE a = x
        BY <1>9, <2>3, <2>4, <2>5, <3>2, <4>1, <4>2
      <4>3. CASE a # x
        <5>1. a \notin S
          BY <2>6, <2>11, <4>3
        <5>2. T.parent[a] = q
          BY <1>7, <2>1, <2>2, <4>3
        <5>3. <<a, b>> \in Siblings(T) <=> Before(T.kids[q], a, b)
          BY <1>4, <2>1, <5>2 DEF Siblings
        <5>4. QED BY <2>3, <2>4, <2>5, <3>2, <4>1, <4>3, <5>1, <5>3
      <4>4. QED BY <4>2, <4>3
    <3>3. QED BY <3>1, <3>2
  <2>12. QED BY <2>10, <2>11
<1>21. QED BY <1>11, <1>18, <1>19, <1>20

(***************************************************************************)
(* The server of scripts without bad habits.                               *)
(*                                                                         *)
(* Habits = {}: no script puts what clients see out of their sight, or     *)
(* gives two children of game the same name.  Then every instance with an  *)
(* id is watched or destroyed, and names tell the children of game apart.  *)
(***************************************************************************)

\* The services stay where they are and come first; what is not a part keeps its
\* name, and no two children of game have the same.
Civil(T, nm) ==
    /\ game \notin T.dead
    /\ \A s \in Service \ T.dead : T.parent[s] = game
    /\ ServicesFirst(T)
    /\ \A x \in Instance \ Parts : nm[x] = x
    /\ \A x \in Parts : nm[x] \in Names
    /\ \A a, b \in Instance :
          T.parent[a] = game /\ T.parent[b] = game /\ nm[a] = nm[b] => a = b

\* A part is put somewhere else: under game only if no child has its name.
LEMMA CivilMove ==
    ASSUME NEW T, NEW nm, NEW x, NEW p, NEW U,
           /\ IsTree(T, Instance) /\ Civil(T, nm)
           /\ x \in Instance \ Service /\ x # game /\ x \notin T.dead
           /\ p \in Instance \cup {Nil} /\ p \notin Subtree(T, x)
           /\ p = game => \A y \in Instance : T.parent[y] = game /\ y # x => nm[y] # nm[x]
           /\ U = SetParent(T, x, p)
    PROVE  Civil(U, nm)
<1>1. PICK O : O = Instance
  OBVIOUS
<1>2. /\ IsFiniteSet(O) /\ Nil \notin O /\ IsTree(T, O) /\ x \in O /\ p \in O \cup {Nil}
      /\ x \notin T.dead /\ p \notin Subtree(T, x) /\ game \in O /\ Service \subseteq O
      /\ U = SetParent(T, x, p) /\ x \notin Service
  BY <1>1, InstanceFacts
<1>3. U.parent = [T.parent EXCEPT ![x] = p] /\ U.dead = T.dead /\ IsTree(U, O)
  BY <1>2, SetParentProperties
<1>4. /\ \A y \in O : y # x => U.parent[y] = T.parent[y]
      /\ U.parent[x] = p /\ DOMAIN U.parent = O /\ DOMAIN T.parent = O
  BY <1>2, <1>3 DEF IsTree, Tree
<1>5. /\ game \notin T.dead
      /\ \A s \in Service \ T.dead : T.parent[s] = game
      /\ \A y \in Instance \ Parts : nm[y] = y
      /\ \A y \in Parts : nm[y] \in Names
      /\ \A a, b \in Instance :
            T.parent[a] = game /\ T.parent[b] = game /\ nm[a] = nm[b] => a = b
  BY DEF Civil
<1>6. ServicesFirst(U)
  <2>1. ASSUME NEW a \in Service, NEW b \in O, U.parent[a] = game, U.parent[b] = game
        PROVE  Before(U.kids[game], a, b) <=> (b \in Service => Before(Services, a, b))
    <3>1. a # x /\ T.parent[a] = game
      BY <1>2, <1>4, <2>1
    <3>2. a \in ToSet(T.kids[game])
      BY <1>2, <3>1 DEF IsTree
    <3>3. Before(SetParent(T, x, p).kids[game], a, b) <=>
             \/ Before(T.kids[game], a, b) /\ a # x /\ b # x
             \/ game = p /\ b = x /\ a # x /\ a \in ToSet(T.kids[p])
      BY <1>2, SetParentOrder
    <3>4. Before(U.kids[game], a, b) <=>
             \/ Before(T.kids[game], a, b) /\ a # x /\ b # x
             \/ game = p /\ b = x /\ a # x /\ a \in ToSet(T.kids[p])
      BY <1>2, <3>3
    <3>5. CASE b = x
      <4>1. p = game /\ b \notin Service
        BY <1>2, <1>4, <2>1, <3>5
      <4>2. QED BY <3>1, <3>2, <3>4, <3>5, <4>1
    <3>6. CASE b # x
      <4>1. T.parent[b] = game
        BY <1>4, <2>1, <3>6
      <4>2. Before(T.kids[game], a, b) <=> (b \in Service => Before(Services, a, b))
        BY <1>4, <2>1, <3>1, <4>1 DEF Civil, ServicesFirst
      <4>3. QED BY <3>1, <3>4, <3>6, <4>2
    <3>7. QED BY <3>5, <3>6
  <2>2. QED BY <1>4, <2>1 DEF ServicesFirst
<1>7. \A s \in Service \ U.dead : U.parent[s] = game
  BY <1>2, <1>3, <1>4, <1>5
<1>8. ASSUME NEW a \in O, NEW b \in O, U.parent[a] = game, U.parent[b] = game, nm[a] = nm[b]
      PROVE  a = b
  BY <1>1, <1>4, <1>5, <1>8
<1>9. QED BY <1>1, <1>3, <1>5, <1>6, <1>7, <1>8 DEF Civil

\* A destroyed subtree leaves the others as they were.
LEMMA CivilDestroy ==
    ASSUME NEW T, NEW nm, NEW x, NEW U,
           /\ IsTree(T, Instance) /\ T.parent[game] = Nil /\ Civil(T, nm)
           /\ x \in Instance \ {game} /\ x \notin T.dead /\ U = Destroy(T, x)
    PROVE  Civil(U, nm)
<1>1. PICK O : O = Instance
  OBVIOUS
<1>2. /\ IsFiniteSet(O) /\ Nil \notin O /\ IsTree(T, O) /\ x \in O /\ x # game
      /\ x \notin T.dead /\ game \in O /\ Service \subseteq O /\ U = Destroy(T, x)
  BY <1>1, InstanceFacts
<1>3. PICK D \in SUBSET O : /\ D = Subtree(T, x) /\ x \in D
                            /\ \A y \in D : y # x => T.parent[y] \in D
  BY <1>2, SubtreeProperties
<1>4. game \notin D
  BY <1>2, <1>3
<1>5. /\ U.parent = [y \in O |-> IF y \in D THEN Nil ELSE T.parent[y]]
      /\ U.dead = T.dead \cup D
  BY <1>2, <1>3, DestroyProperties
<1>6. /\ \A y \in O : U.parent[y] = game => y \notin D /\ T.parent[y] = game
      /\ \A y \in O : y \notin D => U.parent[y] = T.parent[y]
      /\ DOMAIN U.parent = O /\ DOMAIN T.parent = O
  BY <1>2, <1>5 DEF IsTree, Tree
<1>7. /\ game \notin T.dead
      /\ \A s \in Service \ T.dead : T.parent[s] = game
      /\ \A y \in Instance \ Parts : nm[y] = y
      /\ \A y \in Parts : nm[y] \in Names
      /\ \A a, b \in Instance :
            T.parent[a] = game /\ T.parent[b] = game /\ nm[a] = nm[b] => a = b
  BY DEF Civil
<1>8. ServicesFirst(U)
  <2>1. ASSUME NEW a \in Service, NEW b \in O, U.parent[a] = game, U.parent[b] = game
        PROVE  Before(U.kids[game], a, b) <=> (b \in Service => Before(Services, a, b))
    <3>1. a # x /\ b # x /\ T.parent[a] = game /\ T.parent[b] = game
      BY <1>2, <1>3, <1>6, <2>1
    <3>2. Before(Destroy(T, x).kids[game], a, b) <=> Before(T.kids[game], a, b) /\ a # x /\ b # x
      BY <1>2, <1>3, <1>4, DestroyOrder
    <3>3. Before(T.kids[game], a, b) <=> (b \in Service => Before(Services, a, b))
      BY <1>6, <3>1 DEF Civil, ServicesFirst
    <3>4. QED BY <1>2, <3>1, <3>2, <3>3
  <2>2. QED BY <1>6, <2>1 DEF ServicesFirst
<1>9. \A s \in Service \ U.dead : U.parent[s] = game
  BY <1>2, <1>5, <1>6, <1>7
<1>10. QED BY <1>1, <1>4, <1>5, <1>6, <1>7, <1>8, <1>9 DEF Civil

\* Start and a new Player add children that are like that.
LEMMA CivilFresh ==
    ASSUME NEW nm, NEW T, T = FreshTree(Instance),
           \A x \in Instance \ Parts : nm[x] = x, \A x \in Parts : nm[x] \in Names
    PROVE  Civil(T, nm)
<1> USE InstanceFacts
<1>1. /\ T.parent = [o \in Instance |-> IF o \in Service THEN game ELSE Nil]
      /\ T.kids = [o \in Instance |-> IF o = game THEN Services ELSE <<>>]
      /\ T.dead = {}
  BY DEF FreshTree
<1>2. /\ \A o \in Instance : T.parent[o] = game => o \in Service
      /\ \A o \in Service : T.parent[o] = game
      /\ T.kids[game] = Services /\ DOMAIN T.parent = Instance
  BY <1>1
<1>3. ServicesFirst(T)
  BY <1>2 DEF ServicesFirst
<1>4. \A o \in Service : nm[o] = o
  OBVIOUS
<1>5. QED BY <1>1, <1>2, <1>3, <1>4 DEF Civil

\* A part gets another name; no other child of game has it.
LEMMA CivilName ==
    ASSUME NEW T, NEW nm, NEW x, NEW n, NEW nm2,
           /\ IsTree(T, Instance) /\ Civil(T, nm) /\ x \in Parts /\ n \in Names
           /\ nm \in [Instance -> Instance \cup Names] /\ nm2 = [nm EXCEPT ![x] = n]
           /\ T.parent[x] = game => \A y \in Instance : T.parent[y] = game /\ y # x => nm[y] # n
    PROVE  Civil(T, nm2)
<1>1. nm2[x] = n /\ \A y \in Instance : y # x => nm2[y] = nm[y]
  BY InstanceFacts
<1>2. /\ game \notin T.dead
      /\ \A s \in Service \ T.dead : T.parent[s] = game
      /\ ServicesFirst(T)
      /\ \A y \in Instance \ Parts : nm[y] = y
      /\ \A y \in Parts : nm[y] \in Names
      /\ \A a, b \in Instance :
            T.parent[a] = game /\ T.parent[b] = game /\ nm[a] = nm[b] => a = b
  BY DEF Civil
<1>3. QED BY <1>1, <1>2, InstanceFacts DEF Civil

\* The server of scripts that move nothing out of sight and let no names collide.
Orderly == ServerInv /\ SightInv /\ RestTypes /\ Civil(tree, name)

\* It is so at the start ...
LEMMA OrderlyInit == ServerInit => Orderly
<1> SUFFICES ASSUME ServerInit PROVE Orderly
  OBVIOUS
<1>1. ServerInv
  BY InvInit
<1>2. \A x \in Instance : netId[x] = 0
  BY DEF ServerInit
<1>3. SightInv
  BY <1>2, InstanceFacts DEF ServerInit, SightInv
<1>4. PICK given \in [Parts -> Names] :
         name = [x \in Instance |-> IF x \in Parts THEN given[x] ELSE x]
  BY DEF ServerInit
<1>5. /\ \A x \in Instance \ Parts : name[x] = x
      /\ \A x \in Parts : name[x] \in Names
      /\ name \in [Instance -> Instance \cup Names]
  BY <1>4, InstanceFacts
<1>6. RestTypes
  BY <1>5, ServerBounds DEF ServerInit, RestTypes
<1>7. Civil(tree, name)
  <2>1. tree = FreshTree(Instance)
    BY DEF ServerInit
  <2>2. QED BY <1>5, <2>1, CivilFresh
<1>8. QED BY <1>1, <1>3, <1>6, <1>7 DEF Orderly

\* A destroyed instance changes nothing when destroyed again.
LEMMA CivilStep ==
    ASSUME Orderly, ServerNext, "collide" \notin Habits
    PROVE  Civil(tree', name')
<1>0. /\ ServerInv /\ RestTypes /\ Civil(tree, name)
      /\ IsTree(tree, Instance) /\ tree.parent[game] = Nil
      /\ name \in [Instance -> Instance \cup Names]
  BY DEF Orderly, ServerInv, TreeInv, RestTypes
<1>1. PICK T : T = tree
  OBVIOUS
<1>2. PICK nm : nm = name
  OBVIOUS
<1>3. /\ Civil(T, nm) /\ IsTree(T, Instance) /\ T.parent[game] = Nil
      /\ nm \in [Instance -> Instance \cup Names]
  BY <1>0, <1>1, <1>2
<1>4. ASSUME NEW x, NEW n, ~Collides(x, n)
      PROVE  \A y \in Instance : T.parent[y] = game /\ y # x => nm[y] # n
  <2>1. \A y \in ToSet(tree.kids[game]) \ {x} : name[y] # n
    BY <1>4 DEF Collides
  <2>2. \A y \in Instance : T.parent[y] = game => y \in ToSet(tree.kids[game])
    BY <1>1, <1>3, InstanceFacts DEF IsTree
  <2>3. QED BY <1>2, <2>1, <2>2
<1>5. CASE UNCHANGED <<tree, name>>
  BY <1>0, <1>5
<1>6. ASSUME NEW x \in Instance \ Service, x # game, NEW p \in Instance \cup {Nil},
             p \notin Subtree(tree, x), tree' = SetParent(tree, x, p), name' = name,
             p = game => ~Collides(x, name[x])
      PROVE  Civil(tree', name')
  <2>1. PICK U : U = SetParent(T, x, p)
    OBVIOUS
  <2>2. tree' = U /\ name' = nm
    BY <1>1, <1>2, <1>6, <2>1
  <2>3. CASE x \in T.dead
    BY <1>3, <2>1, <2>2, <2>3 DEF SetParent
  <2>4. CASE x \notin T.dead
    <3>1. p = game => \A y \in Instance : T.parent[y] = game /\ y # x => nm[y] # nm[x]
      BY <1>2, <1>4, <1>6
    <3>2. /\ IsTree(T, Instance) /\ Civil(T, nm)
          /\ x \in Instance \ Service /\ x # game /\ x \notin T.dead
          /\ p \in Instance \cup {Nil} /\ p \notin Subtree(T, x)
          /\ (p = game => \A y \in Instance : T.parent[y] = game /\ y # x => nm[y] # nm[x])
          /\ U = SetParent(T, x, p)
      BY <1>1, <1>3, <1>6, <2>1, <2>4, <3>1
    <3>3. Civil(U, nm)
      BY <3>2, CivilMove
    <3>4. QED BY <2>2, <3>3
  <2>5. QED BY <2>3, <2>4
<1>7. ASSUME NEW x \in Instance \ {game}, tree' = Destroy(tree, x), name' = name
      PROVE  Civil(tree', name')
  <2>1. PICK U : U = Destroy(T, x)
    OBVIOUS
  <2>2. tree' = U /\ name' = nm
    BY <1>1, <1>2, <1>7, <2>1
  <2>3. CASE x \in T.dead
    BY <1>3, <2>1, <2>2, <2>3 DEF Destroy
  <2>4. CASE x \notin T.dead
    <3>1. /\ IsTree(T, Instance) /\ T.parent[game] = Nil /\ Civil(T, nm)
          /\ x \in Instance \ {game} /\ x \notin T.dead /\ U = Destroy(T, x)
      BY <1>3, <1>7, <2>1, <2>4
    <3>2. Civil(U, nm)
      BY <3>1, CivilDestroy
    <3>3. QED BY <2>2, <3>2
  <2>5. QED BY <2>3, <2>4
<1>8. CASE Start
  BY <1>5, <1>8 DEF Start
<1>9. ASSUME NEW x \in Parts, NEW p \in Targets, ScriptSetParent(x, p)
      PROVE  Civil(tree', name')
  <2>1. x \in Instance \ Service /\ x # game /\ p \in Instance \cup {Nil}
    BY <1>9, ServerBounds, InstanceFacts
  <2>2. PICK U, order : Moved(U, order, x, p)
    BY <1>0, <1>9, ScriptMoves
  <2>3. p \notin Subtree(tree, x) /\ tree' = SetParent(tree, x, p)
    BY <2>2 DEF Moved
  <2>4. name' = name /\ (p = game => ~Collides(x, name[x]))
    BY <1>9 DEF ScriptSetParent
  <2>5. QED BY <1>6, <2>1, <2>3, <2>4
<1>10. ASSUME NEW x \in Doomed, ScriptDestroy(x) PROVE Civil(tree', name')
  <2>1. x \in Instance \ {game} /\ tree' = Destroy(tree, x) /\ name' = name
    BY <1>10, ServerBounds DEF ScriptDestroy, DestroyInstance
  <2>2. QED BY <1>7, <2>1
<1>11. ASSUME NEW x \in Parts, NEW n \in Names, ScriptSetName(x, n)
       PROVE  Civil(tree', name')
  <2>1. /\ tree' = tree /\ name' = [name EXCEPT ![x] = n]
        /\ tree.parent[x] = game => ~Collides(x, n)
    BY <1>11 DEF ScriptSetName
  <2>2. PICK nm2 : nm2 = [nm EXCEPT ![x] = n]
    OBVIOUS
  <2>3. T.parent[x] = game => \A y \in Instance : T.parent[y] = game /\ y # x => nm[y] # n
    BY <1>1, <1>4, <2>1
  <2>4. /\ IsTree(T, Instance) /\ Civil(T, nm) /\ x \in Parts /\ n \in Names
        /\ nm \in [Instance -> Instance \cup Names] /\ nm2 = [nm EXCEPT ![x] = n]
        /\ T.parent[x] = game => \A y \in Instance : T.parent[y] = game /\ y # x => nm[y] # n
    BY <1>3, <2>2, <2>3
  <2>5. Civil(T, nm2)
    BY <2>4, CivilName
  <2>6. QED BY <1>1, <1>2, <2>1, <2>2, <2>5
<1>12. ASSUME NEW x \in Parts, NEW p \in Owners \cup {Nil}, ScriptSetNetworkOwner(x, p)
       PROVE  Civil(tree', name')
  BY <1>5, <1>12 DEF ScriptSetNetworkOwner
<1>13. ASSUME NEW c \in Conns, Connect(c) PROVE Civil(tree', name')
  <2>1. name' = name
    BY <1>13 DEF Connect
  <2>2. CASE PlayersService # Players
    <3>1. tree' = tree
      BY <1>0, <1>13, <2>2, ConnectMoves
    <3>2. QED BY <1>5, <2>1, <3>1
  <2>3. CASE PlayersService = Players
    <3>1. PICK U, order : Moved(U, order, c, Players)
      BY <1>0, <1>13, <2>3, ConnectMoves
    <3>2. Players \notin Subtree(tree, c) /\ tree' = SetParent(tree, c, Players)
      BY <3>1 DEF Moved
    <3>3. c \in Instance \ Service /\ c # game /\ Players \in Instance /\ Players # game
      BY InstanceFacts
    <3>4. QED BY <1>6, <2>1, <3>2, <3>3
  <2>4. QED BY <2>2, <2>3
<1>14. ASSUME NEW c \in Conns, Disconnect(c) PROVE Civil(tree', name')
  <2>1. name' = name /\ c \in Instance \ {game}
    BY <1>14, InstanceFacts DEF Disconnect
  <2>2. tree' = tree \/ tree' = Destroy(tree, c)
    BY <1>14 DEF Disconnect
  <2>3. QED BY <1>5, <1>7, <2>1, <2>2
<1>15. QED BY <1>8, <1>9, <1>10, <1>11, <1>12, <1>13, <1>14 DEF ServerNext

\* ... and every step keeps it, when scripts have no bad habits.
LEMMA OrderlyNext ==
    ASSUME Habits = {}
    PROVE  Orderly /\ [Next]_vars => Orderly'
<1> SUFFICES ASSUME Orderly, [Next]_vars PROVE Orderly'
  OBVIOUS
<1>1. ServerInv /\ SightInv /\ RestTypes /\ Civil(tree, name)
  BY DEF Orderly
<1>2. RestTypes' /\ ServerInv'
  BY <1>1, RestTypesNext, InvNext
<1>3. CASE ServerNext
  <2>1. SightInv'
    BY <1>1, <1>3, ServerStep
  <2>2. Civil(tree', name')
    BY <1>3, CivilStep
  <2>3. QED BY <1>2, <2>1, <2>2 DEF Orderly
<1>4. CASE UNCHANGED serverVars
  <2>1. SightInv'
    BY <1>1, <1>4, StillKeeps DEF serverVars
  <2>2. tree' = tree /\ name' = name
    BY <1>4 DEF serverVars
  <2>3. QED BY <1>1, <1>2, <2>1, <2>2 DEF Orderly
<1>5. QED BY <1>3, <1>4 DEF Next, Deliver, vars

\* What an orderly server has for its clients to mirror.
Stands(T, H, ids, nm) == Settled(T, H, ids, nm) /\ Sane(H, ids, nm, T.dead)

\* An orderly server can be mirrored: names of services are the services' own.
LEMMA OrderlyStands ==
    ASSUME Names \cap Service = {}
    PROVE  Orderly => Stands(tree, hooked, netId, name)
<1> SUFFICES ASSUME Orderly PROVE Stands(tree, hooked, netId, name)
  OBVIOUS
<1>1. /\ IsTree(tree, Instance) /\ tree.parent[game] = Nil
      /\ hooked \in SUBSET Instance /\ \A x \in hooked : netId[x] # 0
      /\ \A x \in Instance : netId[x] # 0 => x \in hooked \/ x \in tree.dead
      /\ \A x \in hooked : tree.parent[x] \in hooked \cup {game}
      /\ \A x, y \in Instance : netId[x] = netId[y] /\ netId[x] # 0 => x = y
      /\ name \in [Instance -> Instance \cup Names]
  BY DEF Orderly, ServerInv, TreeInv, IdInv, HookInv, SightInv, RestTypes
<1>2. /\ game \notin tree.dead
      /\ \A s \in Service \ tree.dead : tree.parent[s] = game
      /\ ServicesFirst(tree)
      /\ \A x \in Instance \ Parts : name[x] = x
      /\ \A x \in Parts : name[x] \in Names
      /\ \A a, b \in Instance :
            tree.parent[a] = game /\ tree.parent[b] = game /\ name[a] = name[b] => a = b
  BY DEF Orderly, Civil
<1>3. netId \in [Instance -> 0..MaxNetId]
  BY IdsBounded DEF Orderly, ServerInv
<1>4. \A s \in Service : tree.parent[s] \in {game, Nil}
  BY <1>1, <1>2 DEF IsTree
<1>5. netId[game] = 0
  BY <1>1, <1>2, InstanceFacts
<1>6. Settled(tree, hooked, netId, name)
  BY <1>1, <1>2, <1>3, <1>4, <1>5 DEF Settled
<1>7. hooked \cap tree.dead = {} /\ game \notin hooked
  BY <1>6, WatchedAlive
<1>8. tree.dead \subseteq Instance
  BY <1>1 DEF IsTree, Tree
<1>9. Sane(hooked, netId, name, tree.dead)
  BY <1>1, <1>2, <1>3, <1>5, <1>7, <1>8 DEF Sane
<1>10. QED BY <1>6, <1>9 DEF Stands

(***************************************************************************)
(* Packets in flight.                                                      *)
(*                                                                         *)
(* A client is on its course when the packets of its channel, handled in   *)
(* order, make it a mirror of the server as it is now.  A step of the      *)
(* server appends packets that tell of the step: they take every mirror of *)
(* the server before it to a mirror of the server after it.                *)
(***************************************************************************)

\* The client w mirrors the server's instances.
Tracks(w, f, T, H, ids, nm, own) ==
    MirrorsAll(w, f, H, T.parent, ids, nm, own, T.dead, Siblings(T))

\* Once it has had the packets q, the client v mirrors the server.
OnCourse(v, q, T, H, ids, nm, own) ==
    \E w, f : Leads(v, q, w) /\ w.synced = TRUE /\ Tracks(w, f, T, H, ids, nm, own)

\* The packets s tell of a change of the server's instances.
Passes(s, T, H, ids, nm, own, U, H2, ids2, nm2, own2) ==
    \A w, f : Tracks(w, f, T, H, ids, nm, own) =>
        \E u, g : Leads(w, s, u) /\ u.synced = w.synced /\ Tracks(u, g, U, H2, ids2, nm2, own2)

\* What is sent of a change keeps a client on its course.
LEMMA StaysOnCourse ==
    ASSUME NEW v, NEW q, NEW r, NEW s, NEW T, NEW H, NEW ids, NEW nm, NEW own,
           NEW U, NEW H2, NEW ids2, NEW nm2, NEW own2,
           /\ OnCourse(v, q, T, H, ids, nm, own) /\ r = q \o s
           /\ Passes(s, T, H, ids, nm, own, U, H2, ids2, nm2, own2)
    PROVE  OnCourse(v, r, U, H2, ids2, nm2, own2)
<1>1. PICK w, f : Leads(v, q, w) /\ w.synced = TRUE /\ Tracks(w, f, T, H, ids, nm, own)
  BY DEF OnCourse
<1>2. PICK u, g : Leads(w, s, u) /\ u.synced = w.synced /\ Tracks(u, g, U, H2, ids2, nm2, own2)
  BY <1>1 DEF Passes
<1>3. Leads(v, q \o s, u)
  BY <1>1, <1>2, LeadsConcat
<1>4. QED BY <1>1, <1>2, <1>3 DEF OnCourse

\* A mirror is well.
LEMMA TracksFine ==
    ASSUME NEW w, NEW f, NEW T, NEW H, NEW ids, NEW nm, NEW own, Tracks(w, f, T, H, ids, nm, own)
    PROVE  Fine(w)
BY DEF Tracks, MirrorsAll, ClientOK, Fine

\* Nothing is sent when nothing changes that a client sees.
LEMMA RecastPasses ==
    ASSUME NEW T, NEW H, NEW ids, NEW nm, NEW own, NEW U, NEW ids2, NEW own2, NEW s,
           /\ Stands(T, H, ids, nm) /\ T.dead = U.dead /\ s = <<>>
           /\ Recast(H, T.parent, U.parent, ids, ids2, own, own2, Siblings(T), Siblings(U))
    PROVE  Passes(s, T, H, ids, nm, own, U, H, ids2, nm, own2)
<1> SUFFICES ASSUME NEW w, NEW f, Tracks(w, f, T, H, ids, nm, own)
             PROVE  \E u, g : /\ Leads(w, s, u) /\ u.synced = w.synced
                              /\ Tracks(u, g, U, H, ids2, nm, own2)
  BY DEF Passes
<1>1. PICK par : par = T.parent
  OBVIOUS
<1>2. PICK par2 : par2 = U.parent
  OBVIOUS
<1>3. PICK lt : lt = Siblings(T)
  OBVIOUS
<1>4. PICK lt2 : lt2 = Siblings(U)
  OBVIOUS
<1>5. PICK G : G = T.dead
  OBVIOUS
<1>6. /\ Sane(H, ids, nm, G) /\ MirrorsAll(w, f, H, par, ids, nm, own, G, lt)
      /\ Recast(H, par, par2, ids, ids2, own, own2, lt, lt2)
  BY <1>1, <1>2, <1>3, <1>4, <1>5 DEF Tracks, Stands
<1>7. MirrorsAll(w, f, H, par2, ids2, nm, own2, G, lt2)
  BY <1>6, RecastStep
<1>8. Tracks(w, f, U, H, ids2, nm, own2)
  BY <1>2, <1>4, <1>5, <1>7 DEF Tracks
<1>9. Leads(w, s, w)
  BY TracksFine, LeadsEmpty
<1>10. QED BY <1>8, <1>9

\* An instance is put where clients see it.
LEMMA SeenPasses ==
    ASSUME NEW T, NEW H, NEW ids, NEW nm, NEW own, NEW U, NEW H2, NEW ids2, NEW s,
           NEW x, NEW p, NEW order,
           /\ Stands(T, H, ids, nm) /\ Stands(U, H2, ids2, nm)
           /\ SeenAt(T, U, H, H2, ids, ids2, x, p, order)
           /\ T.dead = U.dead /\ s = Added(U, nm, ids2, order)
    PROVE  Passes(s, T, H, ids, nm, own, U, H2, ids2, nm, own)
<1> SUFFICES ASSUME NEW w, NEW f, Tracks(w, f, T, H, ids, nm, own)
             PROVE  \E u, g : /\ Leads(w, s, u) /\ u.synced = w.synced
                              /\ Tracks(u, g, U, H2, ids2, nm, own)
  BY DEF Passes
<1>1. PICK par : par = T.parent
  OBVIOUS
<1>2. PICK par2 : par2 = U.parent
  OBVIOUS
<1>3. PICK lt : lt = Siblings(T)
  OBVIOUS
<1>4. PICK lt2 : lt2 = Siblings(U)
  OBVIOUS
<1>5. PICK G : G = T.dead
  OBVIOUS
<1>6. PICK D : D = Subtree(T, x)
  OBVIOUS
<1>7. PICK rk : rk = Rank(order, Len(order), Siblings(T))
  OBVIOUS
<1>8. /\ Arrives(U, order, H, par, ids2, nm, G, D)
      /\ After(order, U, H, par, lt, H2, par2, rk)
      /\ \A a, b \in H2 : par2[a] = par2[b] => (<<a, b>> \in rk <=> <<a, b>> \in lt2)
  <2>1. /\ Settled(T, H, ids, nm) /\ Settled(U, H2, ids2, nm)
        /\ SeenAt(T, U, H, H2, ids, ids2, x, p, order)
        /\ D = Subtree(T, x)
    BY <1>6 DEF Stands
  <2>2. /\ Arrives(U, order, H, T.parent, ids2, nm, T.dead, D)
        /\ After(order, U, H, T.parent, Siblings(T), H2, U.parent,
                 Rank(order, Len(order), Siblings(T)))
        /\ \A a, b \in H2 : U.parent[a] = U.parent[b] =>
              (<<a, b>> \in Rank(order, Len(order), Siblings(T)) <=> <<a, b>> \in Siblings(U))
    BY <2>1, SeenMove
  <2>3. QED BY <1>1, <1>2, <1>3, <1>4, <1>5, <1>7, <2>2
<1>9. /\ ids2 \in [Instance -> 0..MaxNetId] /\ ids2[game] = 0
      /\ \A a, b \in Instance : ids2[a] = ids2[b] /\ ids2[a] # 0 => a = b
      /\ \A a \in Instance : ids[a] # 0 => ids2[a] = ids[a]
  BY DEF Stands, Settled, Sane, SeenAt
<1>10. Sane(H, ids, nm, G) /\ Sane(H2, ids2, nm, G)
  BY <1>5 DEF Stands
<1>11. Sane(H, ids2, nm, G) /\ MirrorsAll(w, f, H, par, ids2, nm, own, G, lt)
  <2>1. Recast(H, par, par, ids, ids2, own, own, lt, lt)
    BY <1>9 DEF Recast, Agree
  <2>2. /\ Sane(H, ids, nm, G) /\ MirrorsAll(w, f, H, par, ids, nm, own, G, lt)
        /\ Recast(H, par, par, ids, ids2, own, own, lt, lt)
    BY <1>1, <1>3, <1>5, <1>10, <2>1 DEF Tracks
  <2>3. QED BY <2>2, RecastStep
<1>12. PICK u, g : /\ Leads(w, s, u) /\ u.synced = w.synced
                   /\ MirrorsAll(u, g, H2, par2, ids2, nm, own, G, rk)
  <2>1. /\ Sane(H, ids2, nm, G) /\ MirrorsAll(w, f, H, par, ids2, nm, own, G, lt)
        /\ Arrives(U, order, H, par, ids2, nm, G, D)
        /\ After(order, U, H, par, lt, H2, par2, rk)
        /\ s = Added(U, nm, ids2, order)
    BY <1>8, <1>11
  <2>2. QED BY <2>1, AddedLeads
<1>13. MirrorsAll(u, g, H2, par2, ids2, nm, own, G, lt2)
  <2>1. Recast(H2, par2, par2, ids2, ids2, own, own, rk, lt2)
    BY <1>8, <1>9 DEF Recast, Agree
  <2>2. /\ Sane(H2, ids2, nm, G) /\ MirrorsAll(u, g, H2, par2, ids2, nm, own, G, rk)
        /\ Recast(H2, par2, par2, ids2, ids2, own, own, rk, lt2)
    BY <1>10, <1>12, <2>1
  <2>3. QED BY <2>2, RecastStep
<1>14. Tracks(u, g, U, H2, ids2, nm, own)
  <2>1. G = U.dead
    BY <1>5
  <2>2. QED BY <1>2, <1>4, <1>13, <2>1 DEF Tracks
<1>15. QED BY <1>12, <1>14

\* More may have been destroyed than a client has heard of.
LEMMA MirrorsMore ==
    ASSUME NEW v, NEW f, NEW H, NEW par, NEW ids, NEW nm, NEW own, NEW G, NEW lt, NEW G2,
           MirrorsAll(v, f, H, par, ids, nm, own, G, lt) /\ G \subseteq G2
    PROVE  MirrorsAll(v, f, H, par, ids, nm, own, G2, lt)
<1>1. Mirrors(v, f, H, par, ids, G2)
  <2>1. /\ f \in [H \cup {game} -> Object] /\ f[game] = game
        /\ \A x \in H : /\ par[x] \in H \cup {game} /\ ids[x] # 0
                        /\ v.netId[f[x]] = ids[x] /\ f[x] \notin v.tree.dead
                        /\ v.cls[f[x]] = ClassOf(x)
                        /\ v.tree.parent[f[x]] = f[par[x]]
        /\ \A o \in Object, x \in Instance :
              v.netId[o] = ids[x] /\ ids[x] # 0 /\ (o \in Service \/ x \in Service) => o = x
    BY DEF MirrorsAll, Mirrors
  <2>2. /\ \A o \in Object : v.netId[o] # 0 =>
              \/ o \notin v.tree.dead /\ \E x \in H : o = f[x]
              \/ o \in v.tree.dead /\ \E x \in G : v.netId[o] = ids[x]
        /\ Service \cap v.tree.dead \subseteq G
    BY DEF MirrorsAll, Mirrors
  <2>3. \A o \in Object : v.netId[o] # 0 =>
           \/ o \notin v.tree.dead /\ \E x \in H : o = f[x]
           \/ o \in v.tree.dead /\ \E x \in G2 : v.netId[o] = ids[x]
    BY <2>2
  <2>4. Service \cap v.tree.dead \subseteq G2
    BY <2>2
  <2>5. QED BY <2>1, <2>3, <2>4 DEF Mirrors
<1>2. QED BY <1>1 DEF MirrorsAll

\* S is x and what is below x; K is left of H without it, and G grows by it.
Below(T, H, x, S, K, G, G2) ==
    /\ x \in Instance /\ x # game
    /\ S = Subtree(T, x) /\ K = H \ S /\ G = T.dead /\ G2 = G \cup S

\* What is watched below x.
LEMMA BelowWatched ==
    ASSUME NEW T, NEW H, NEW ids, NEW nm, NEW x, NEW S, NEW K, NEW G, NEW G2,
           Settled(T, H, ids, nm) /\ Below(T, H, x, S, K, G, G2)
    PROVE  /\ S \in SUBSET Instance /\ x \in S /\ game \notin S
           /\ x \in H => Cut(H, T.parent, x, S, K, G, G2)
           /\ x \notin H => K = H
           /\ \A a \in K : T.parent[a] \in Instance \ S
<1>0. S = Subtree(T, x) /\ K = H \ S /\ G = T.dead /\ G2 = G \cup S
  BY DEF Below
<1>1. /\ IsTree(T, Instance) /\ T.parent[game] = Nil /\ H \in SUBSET Instance
      /\ \A y \in H : T.parent[y] \in H \cup {game}
      /\ x \in Instance /\ x # game
  BY DEF Settled, Below
<1>2. /\ S \in SUBSET Instance /\ x \in S
      /\ \A y \in S : y # x => T.parent[y] \in S
      /\ \A k \in Instance : T.parent[k] \in S => k \in S
  <2>1. /\ Subtree(T, x) \subseteq Instance /\ x \in Subtree(T, x)
        /\ \A y \in Subtree(T, x) : y # x => T.parent[y] \in Subtree(T, x)
        /\ \A k \in Instance : T.parent[k] \in Subtree(T, x) => k \in Subtree(T, x)
    BY <1>1, InstanceFacts, SubtreeProperties
  <2>2. QED BY <1>0, <2>1
<1>3. game \notin S
  BY <1>1, <1>2, InstanceFacts
<1>4. ASSUME x \in H PROVE Cut(H, T.parent, x, S, K, G, G2)
  <2>1. \A k \in H : T.parent[k] \in S => k \in S
    BY <1>1, <1>2
  <2>2. \A k \in H \cap S : k # x => T.parent[k] \in H \cap S
    BY <1>1, <1>2, <1>3
  <2>3. QED BY <1>0, <1>2, <1>3, <1>4, <2>1, <2>2 DEF Cut
<1>5. ASSUME x \notin H PROVE K = H
  <2>1. PICK R \in SUBSET Instance : R = H \cap S
    BY <1>1
  <2>2. ASSUME R # {} PROVE FALSE
    <3>1. PICK y \in R : T.parent[y] \notin R
      BY <1>1, <2>2 DEF IsTree
    <3>2. y # x /\ T.parent[y] \in S
      BY <1>2, <1>5, <2>1, <3>1
    <3>3. T.parent[y] \in H \cup {game}
      BY <1>1, <2>1, <3>1
    <3>4. QED BY <1>3, <2>1, <3>1, <3>2, <3>3
  <2>3. QED BY <1>0, <2>1, <2>2
<1>6. \A a \in K : T.parent[a] \in Instance \ S
  BY <1>0, <1>1, <1>2, InstanceFacts
<1>7. QED BY <1>2, <1>3, <1>4, <1>5, <1>6

\* x is destroyed, with what is below it, and the clients are told.
Destroys(T, H, ids, own, U, K, own2, s, x, S, told) ==
    /\ x \in Instance /\ x # game /\ x \notin T.dead
    /\ U = Destroy(T, x) /\ S = Subtree(T, x) /\ K = H \ S /\ Agree(K, own, own2)
    /\ told = KeepIn(Walk(T, x, {}), {y \in H : ids[y] # 0})
    /\ s = Farewell(told, ids)

\* The packets of a destroyed subtree tell of it.
LEMMA GonePasses ==
    ASSUME NEW T, NEW H, NEW ids, NEW nm, NEW own, NEW U, NEW K, NEW own2, NEW s,
           NEW x, NEW S, NEW told,
           /\ Stands(T, H, ids, nm) /\ Stands(U, K, ids, nm)
           /\ Destroys(T, H, ids, own, U, K, own2, s, x, S, told)
    PROVE  Passes(s, T, H, ids, nm, own, U, K, ids, nm, own2)
<1> SUFFICES ASSUME NEW w, NEW f, Tracks(w, f, T, H, ids, nm, own)
             PROVE  \E u, g : /\ Leads(w, s, u) /\ u.synced = w.synced
                              /\ Tracks(u, g, U, K, ids, nm, own2)
  BY DEF Passes
<1>0. /\ x \in Instance /\ x # game /\ x \notin T.dead
      /\ U = Destroy(T, x) /\ S = Subtree(T, x) /\ K = H \ S
      /\ told = KeepIn(Walk(T, x, {}), {y \in H : ids[y] # 0})
  BY DEF Destroys
<1>0a. Agree(K, own, own2) /\ s = Farewell(told, ids)
  BY DEF Destroys
<1>1. PICK par : par = T.parent
  OBVIOUS
<1>2. PICK par2 : par2 = U.parent
  OBVIOUS
<1>3. PICK lt : lt = Siblings(T)
  OBVIOUS
<1>4. PICK lt2 : lt2 = Siblings(U)
  OBVIOUS
<1>5. PICK G : G = T.dead
  OBVIOUS
<1>6. PICK G2 : G2 = G \cup S
  OBVIOUS
<1>7. PICK O : O = Instance
  OBVIOUS
<1>8. /\ IsFiniteSet(O) /\ Nil \notin O /\ IsTree(T, O) /\ x \in O /\ x \notin T.dead
      /\ H \in SUBSET O /\ game \in O
      /\ \A y \in H : ids[y] # 0 /\ par[y] \in H \cup {game}
      /\ \A a, b \in Instance : ids[a] = ids[b] /\ ids[a] # 0 => a = b
      /\ ids \in [Instance -> 0..MaxNetId] /\ ids[game] = 0
  BY <1>0, <1>1, <1>7, InstanceFacts DEF Stands, Settled, Sane
<1>9. /\ S \in SUBSET O /\ x \in S /\ game \notin S
      /\ x \in H => Cut(H, par, x, S, K, G, G2)
      /\ x \notin H => K = H
      /\ \A a \in K : par[a] \in O \ S
  <2>1. Settled(T, H, ids, nm) /\ Below(T, H, x, S, K, G, G2)
    BY <1>0, <1>5, <1>6 DEF Stands, Below
  <2>2. /\ S \in SUBSET Instance /\ x \in S /\ game \notin S
        /\ x \in H => Cut(H, T.parent, x, S, K, G, G2)
        /\ x \notin H => K = H
        /\ \A a \in K : T.parent[a] \in Instance \ S
    BY <2>1, BelowWatched
  <2>3. QED BY <1>1, <1>7, <2>2
<1>10. /\ U.parent = [y \in O |-> IF y \in S THEN Nil ELSE T.parent[y]]
       /\ U.dead = T.dead \cup S
  <2>1. /\ Destroy(T, x).parent = [y \in O |-> IF y \in Subtree(T, x) THEN Nil
                                               ELSE T.parent[y]]
        /\ Destroy(T, x).dead = T.dead \cup Subtree(T, x)
    BY <1>8, DestroyProperties
  <2>2. QED BY <1>0, <2>1
<1>11. \A a \in K : par2[a] = par[a]
  BY <1>0, <1>1, <1>2, <1>8, <1>10
<1>12. ASSUME NEW a \in K, NEW b \in K, par2[a] = par2[b]
       PROVE  <<a, b>> \in lt <=> <<a, b>> \in lt2
  <2>1. PICK q \in O : q \notin S /\ q = T.parent[a] /\ q = U.parent[a]
    BY <1>1, <1>2, <1>9, <1>11
  <2>2. a # x /\ b # x
    BY <1>0, <1>9
  <2>3. Before(Destroy(T, x).kids[q], a, b) <=> Before(T.kids[q], a, b) /\ a # x /\ b # x
    BY <1>0, <1>8, <2>1, DestroyOrder
  <2>4. Before(U.kids[q], a, b) <=> Before(T.kids[q], a, b)
    BY <1>0, <2>2, <2>3
  <2>5. a \in Instance /\ b \in Instance
    BY <1>0, <1>7, <1>8
  <2>6. <<a, b>> \in lt <=> Before(T.kids[q], a, b)
    BY <1>3, <2>1, <2>5 DEF Siblings
  <2>7. <<a, b>> \in lt2 <=> Before(U.kids[q], a, b)
    BY <1>4, <2>1, <2>5 DEF Siblings
  <2>8. QED BY <2>4, <2>6, <2>7
<1>13. Recast(K, par, par2, ids, ids, own2, own2, lt, lt2)
  BY <1>0a, <1>8, <1>11, <1>12 DEF Recast, Agree
<1>14. Sane(H, ids, nm, G) /\ Sane(K, ids, nm, G2)
  <2>1. G2 = U.dead
    BY <1>5, <1>6, <1>10
  <2>2. QED BY <1>5, <2>1 DEF Stands
<1>15. MirrorsAll(w, f, H, par, ids, nm, own, G, lt)
  BY <1>1, <1>3, <1>5 DEF Tracks
<1>16. PICK W : W = Walk(T, x, {})
  OBVIOUS
<1>17. W \in Seq(O) /\ IsInjective(W) /\ ToSet(W) = S /\ W # <<>> /\ W[1] = x
  <2>1. x \notin {}
    OBVIOUS
  <2>2. /\ Walk(T, x, {}) \in Seq(O) /\ IsInjective(Walk(T, x, {}))
        /\ Walk(T, x, {}) # <<>> /\ Walk(T, x, {})[1] = x
    BY <1>8, <2>1, WalkProperties
  <2>3. QED BY <1>0, <1>16, <2>2 DEF Subtree
<1>18. PICK P : P = {y \in H : ids[y] # 0}
  OBVIOUS
<1>19. /\ told \in Seq(O) /\ ToSet(told) = S \cap P /\ IsInjective(told)
       /\ \A a, b : Before(told, a, b) <=> Before(W, a, b) /\ a \in P /\ b \in P
  <2>1. told = KeepIn(W, P)
    BY <1>0, <1>16, <1>18
  <2>2. /\ KeepIn(W, P) \in Seq(O) /\ ToSet(KeepIn(W, P)) = ToSet(W) \cap P
        /\ IsInjective(KeepIn(W, P))
    BY <1>17, KeepDistinct
  <2>3. \A a, b : Before(KeepIn(W, P), a, b) <=> Before(W, a, b) /\ a \in P /\ b \in P
    BY <1>17, BeforeKeep
  <2>4. QED BY <1>17, <2>1, <2>2, <2>3
<1>20. CASE x \in H
  <2>1. x \in ToSet(told)
    BY <1>8, <1>9, <1>18, <1>19, <1>20
  <2>2. told # <<>>
    BY <1>19, <2>1, ToSetEmpty
  <2>3. told[1] = x
    <3>1. PICK y : y = told[1]
      OBVIOUS
    <3>2. y \in ToSet(told)
      <4>1. 1 \in DOMAIN told
        BY <1>19, <2>2, EmptySeq
      <4>2. QED BY <3>1, <4>1 DEF ToSet
    <3>3. ASSUME y # x PROVE FALSE
      <4>1. Before(told, y, x)
        <5>1. PICK i \in DOMAIN told : told[i] = x
          BY <2>1 DEF ToSet
        <5>2. 1 \in DOMAIN told /\ DOMAIN told = 1..Len(told)
          BY <1>19, <2>2, EmptySeq
        <5>3. i \in Int /\ 1 < i
          BY <3>1, <3>3, <5>1, <5>2
        <5>4. QED BY <3>1, <5>1, <5>2, <5>3 DEF Before
      <4>2. Before(W, y, x)
        BY <1>19, <4>1
      <4>3. PICK i \in DOMAIN W, j \in DOMAIN W : i < j /\ W[j] = x
        BY <4>2 DEF Before
      <4>4. j = 1 /\ DOMAIN W = 1..Len(W)
        <5>1. 1 \in DOMAIN W /\ DOMAIN W = 1..Len(W)
          BY <1>17, EmptySeq
        <5>2. QED BY <1>17, <4>3, <5>1 DEF IsInjective
      <4>5. QED BY <4>3, <4>4
    <3>4. QED BY <3>1, <3>3
  <2>4. \A i \in 1..Len(told) : told[i] \in S /\ ids[told[i]] # 0
    <3>1. \A i \in 1..Len(told) : told[i] \in ToSet(told)
      <4>1. told \in Seq(O)
        BY <1>19
      <4>2. DOMAIN told = 1..Len(told)
        BY <4>1
      <4>3. QED BY <4>2 DEF ToSet
    <3>2. QED BY <1>18, <1>19, <3>1
  <2>5. Told(told, x, S, ids)
    BY <1>7, <1>19, <2>2, <2>3, <2>4 DEF Told
  <2>6. /\ Sane(H, ids, nm, G) /\ MirrorsAll(w, f, H, par, ids, nm, own, G, lt)
        /\ Cut(H, par, x, S, K, G, G2) /\ Agree(K, own, own2)
        /\ Sane(K, ids, nm, G2)
        /\ Told(told, x, S, ids) /\ s = Farewell(told, ids)
    BY <1>0a, <1>9, <1>14, <1>15, <1>20, <2>5
  <2>7. PICK u, g : /\ Leads(w, s, u) /\ u.synced = w.synced
                    /\ MirrorsAll(u, g, K, par, ids, nm, own2, G2, lt)
    BY <2>6, RemovedLeads
  <2>8. /\ Sane(K, ids, nm, G2) /\ MirrorsAll(u, g, K, par, ids, nm, own2, G2, lt)
        /\ Recast(K, par, par2, ids, ids, own2, own2, lt, lt2)
    BY <1>13, <1>14, <2>7
  <2>9. MirrorsAll(u, g, K, par2, ids, nm, own2, G2, lt2)
    BY <2>8, RecastStep
  <2>10. Tracks(u, g, U, K, ids, nm, own2)
    <3>1. G2 = U.dead
      BY <1>5, <1>6, <1>10
    <3>2. QED BY <1>2, <1>4, <2>9, <3>1 DEF Tracks
  <2>11. QED BY <2>7, <2>10
<1>21. CASE x \notin H
  <2>1. K = H
    BY <1>9, <1>21
  <2>2. s = <<>>
    <3>1. ToSet(told) = {}
      BY <1>0, <1>18, <1>19, <2>1
    <3>2. told = <<>>
      BY <1>19, <3>1, ToSetEmpty
    <3>3. Len(told) = 0 /\ 1..0 = {}
      BY <3>2
    <3>4. PICK n : n = Len(told)
      OBVIOUS
    <3>5. s = [i \in 1..n |-> [sig |-> "InstanceRemoved", id |-> ids[told[i]]]]
      BY <1>0a, <3>4 DEF Farewell
    <3>6. s = [i \in {} |-> [sig |-> "InstanceRemoved", id |-> ids[told[i]]]]
      BY <3>3, <3>4, <3>5
    <3>7. QED BY <3>6
  <2>3. MirrorsAll(w, f, K, par, ids, nm, own, G2, lt)
    <3>1. MirrorsAll(w, f, H, par, ids, nm, own, G, lt) /\ G \subseteq G2
      BY <1>6, <1>15
    <3>2. MirrorsAll(w, f, H, par, ids, nm, own, G2, lt)
      BY <3>1, MirrorsMore
    <3>3. QED BY <2>1, <3>2
  <2>4. Recast(K, par, par2, ids, ids, own, own2, lt, lt2)
    BY <1>0a, <1>13 DEF Recast, Agree
  <2>5. /\ Sane(K, ids, nm, G2) /\ MirrorsAll(w, f, K, par, ids, nm, own, G2, lt)
        /\ Recast(K, par, par2, ids, ids, own, own2, lt, lt2)
    BY <1>14, <2>3, <2>4
  <2>6. MirrorsAll(w, f, K, par2, ids, nm, own2, G2, lt2)
    BY <2>5, RecastStep
  <2>7. Tracks(w, f, U, K, ids, nm, own2)
    <3>1. G2 = U.dead
      BY <1>5, <1>6, <1>10
    <3>2. QED BY <1>2, <1>4, <2>6, <3>1 DEF Tracks
  <2>8. Leads(w, s, w)
    BY <2>2, TracksFine, LeadsEmpty
  <2>9. QED BY <2>7, <2>8
<1>22. QED BY <1>20, <1>21

\* A part gets another name.
LEMMA NamePasses ==
    ASSUME NEW T, NEW H, NEW ids, NEW nm, NEW own, NEW nm2, NEW s, NEW x, NEW n, NEW m,
           /\ Stands(T, H, ids, nm) /\ Renames(m, x, n, nm, nm2, ids)
           /\ x \in H => s = <<m>>
           /\ x \notin H => s = <<>>
    PROVE  Passes(s, T, H, ids, nm, own, T, H, ids, nm2, own)
<1> SUFFICES ASSUME NEW w, NEW f, Tracks(w, f, T, H, ids, nm, own)
             PROVE  \E u, g : /\ Leads(w, s, u) /\ u.synced = w.synced
                              /\ Tracks(u, g, T, H, ids, nm2, own)
  BY DEF Passes
<1>1. PICK par : par = T.parent
  OBVIOUS
<1>2. PICK lt : lt = Siblings(T)
  OBVIOUS
<1>3. PICK G : G = T.dead
  OBVIOUS
<1>4. Sane(H, ids, nm, G) /\ MirrorsAll(w, f, H, par, ids, nm, own, G, lt)
  BY <1>1, <1>2, <1>3 DEF Tracks, Stands
<1>5. CASE x \in H
  <2>1. PICK u : u = ApplyInstanceChanged(w, m)
    OBVIOUS
  <2>2. /\ Sane(H, ids, nm, G) /\ MirrorsAll(w, f, H, par, ids, nm, own, G, lt)
        /\ x \in H /\ Renames(m, x, n, nm, nm2, ids)
        /\ u = ApplyInstanceChanged(w, m)
    BY <1>4, <1>5, <2>1
  <2>3. u.synced = w.synced /\ MirrorsAll(u, f, H, par, ids, nm2, own, G, lt)
    BY <2>2, NameStep
  <2>4. Tracks(u, f, T, H, ids, nm2, own)
    BY <1>1, <1>2, <1>3, <2>3 DEF Tracks
  <2>5. Received(w, m) = u
    BY <2>1, ReceivedIs DEF Renames
  <2>6. Leads(w, <<m>>, u)
    BY <2>4, <2>5, TracksFine, LeadsOne
  <2>7. QED BY <1>5, <2>3, <2>4, <2>6
<1>6. CASE x \notin H
  <2>1. Named(w, f, H, nm2)
    <3>1. \A y \in H : w.name[f[y]] = nm[y]
      BY <1>4 DEF MirrorsAll, Named
    <3>2. \A y \in H : nm2[y] = nm[y]
      BY <1>4, <1>6 DEF Sane, Renames
    <3>3. QED BY <3>1, <3>2 DEF Named
  <2>2. Tracks(w, f, T, H, ids, nm2, own)
    BY <2>1 DEF Tracks, MirrorsAll
  <2>3. Leads(w, s, w)
    BY <1>6, TracksFine, LeadsEmpty
  <2>4. QED BY <2>2, <2>3
<1>7. QED BY <1>5, <1>6

\* A part gets another NetworkOwner.
LEMMA OwnerPasses ==
    ASSUME NEW T, NEW H, NEW ids, NEW nm, NEW own, NEW own2, NEW s, NEW x, NEW p, NEW m,
           /\ Stands(T, H, ids, nm) /\ Reowns(m, x, p, own, own2, ids)
           /\ x \in H => s = <<m>>
           /\ x \notin H => s = <<>>
    PROVE  Passes(s, T, H, ids, nm, own, T, H, ids, nm, own2)
<1> SUFFICES ASSUME NEW w, NEW f, Tracks(w, f, T, H, ids, nm, own)
             PROVE  \E u, g : /\ Leads(w, s, u) /\ u.synced = w.synced
                              /\ Tracks(u, g, T, H, ids, nm, own2)
  BY DEF Passes
<1>1. PICK par : par = T.parent
  OBVIOUS
<1>2. PICK lt : lt = Siblings(T)
  OBVIOUS
<1>3. PICK G : G = T.dead
  OBVIOUS
<1>4. Sane(H, ids, nm, G) /\ MirrorsAll(w, f, H, par, ids, nm, own, G, lt)
  BY <1>1, <1>2, <1>3 DEF Tracks, Stands
<1>5. CASE x \in H
  <2>1. PICK u : u = ApplyInstanceChanged(w, m)
    OBVIOUS
  <2>2. /\ Sane(H, ids, nm, G) /\ MirrorsAll(w, f, H, par, ids, nm, own, G, lt)
        /\ x \in H /\ Reowns(m, x, p, own, own2, ids)
        /\ u = ApplyInstanceChanged(w, m)
    BY <1>4, <1>5, <2>1
  <2>3. u.synced = w.synced /\ MirrorsAll(u, f, H, par, ids, nm, own2, G, lt)
    BY <2>2, OwnerStep
  <2>4. Tracks(u, f, T, H, ids, nm, own2)
    BY <1>1, <1>2, <1>3, <2>3 DEF Tracks
  <2>5. Received(w, m) = u
    BY <2>1, ReceivedIs DEF Reowns
  <2>6. Leads(w, <<m>>, u)
    BY <2>4, <2>5, TracksFine, LeadsOne
  <2>7. QED BY <1>5, <2>3, <2>4, <2>6
<1>6. CASE x \notin H
  <2>1. H \subseteq Instance
    BY <1>4 DEF Sane
  <2>2. Agree(H, own, own2)
    BY <1>6, <2>1 DEF Agree, Reowns
  <2>3. Owned(w, f, H, own2, ids)
    BY <1>4, <2>2 DEF MirrorsAll, Owned, Agree
  <2>4. Tracks(w, f, T, H, ids, nm, own2)
    BY <2>3 DEF Tracks, MirrorsAll
  <2>5. Leads(w, s, w)
    BY <1>6, TracksFine, LeadsEmpty
  <2>6. QED BY <2>4, <2>5
<1>7. QED BY <1>5, <1>6

\* What a new client is sent.
LEMMA GreetingCourse ==
    ASSUME NEW T, NEW H, NEW ids, NEW nm, NEW own, NEW a, NEW l, NEW s, NEW q,
           /\ Stands(T, H, ids, nm)
           /\ Leads(FreshView, a, FreshView)
           /\ l = <<>> \/ \E m : m.sig = "LocalPlayer" /\ l = <<m>>
           /\ s = <<[sig |-> "Snapshot", entries |-> SnapshotEntries(T, nm, ids)],
                    [sig |-> "SnapshotFinished"]>>
           /\ q = a \o (l \o s)
    PROVE  OnCourse(FreshView, q, T, H, ids, nm, own)
<1>1. PICK v : v = FreshView
  OBVIOUS
<1>2. Fine(v)
  BY <1>1, FreshFacts DEF Fine
<1>3. Leads(v, l, v)
  <2>1. CASE l = <<>>
    BY <1>2, <2>1, LeadsEmpty
  <2>2. ASSUME NEW m, m.sig = "LocalPlayer", l = <<m>> PROVE Leads(v, l, v)
    <3>1. Received(v, m) = v
      BY <1>1, <2>2, FreshIgnores
    <3>2. Leads(v, <<m>>, v)
      BY <1>2, <3>1, LeadsOne
    <3>3. QED BY <2>2, <3>2
  <2>3. QED BY <2>1, <2>2
<1>4. PICK G : G = T.dead
  OBVIOUS
<1>5. /\ Settled(T, H, ids, nm) /\ G = T.dead /\ Sane(H, ids, nm, G)
      /\ s = <<[sig |-> "Snapshot", entries |-> SnapshotEntries(T, nm, ids)],
               [sig |-> "SnapshotFinished"]>>
  BY <1>4 DEF Stands
<1>6. PICK w, g : /\ Leads(v, s, w) /\ w.synced = TRUE
                  /\ MirrorsAll(w, g, H, T.parent, ids, nm, own, G, Siblings(T))
  BY <1>1, <1>5, GreetingLeads
<1>7. Leads(v, l \o s, w)
  BY <1>3, <1>6, LeadsConcat
<1>8. Leads(v, a \o (l \o s), w)
  BY <1>1, <1>7, LeadsConcat
<1>9. Tracks(w, g, T, H, ids, nm, own)
  BY <1>4, <1>6 DEF Tracks
<1>10. QED BY <1>1, <1>6, <1>8, <1>9 DEF OnCourse

(***************************************************************************)
(* The steps of the server and of the clients.                             *)
(*                                                                         *)
(* MirrorInv, the invariant: every connected client is on its course.      *)
(* With Orderly it is inductive.                                           *)
(***************************************************************************)

\* Of no instance nothing is sent.
LEMMA NoNews ==
    /\ \A T, nm, ids : Added(T, nm, ids, <<>>) = <<>>
    /\ \A P : KeepIn(<<>>, P) = <<>>
    /\ Removed(<<>>) = <<>>
    /\ <<>> \in Seq(Instance) /\ IsInjective(<<>>) /\ ToSet(<<>>) = {}
<1>1. <<>> \in Seq(Instance) /\ IsInjective(<<>>) /\ ToSet(<<>>) = {}
  BY EmptySeq DEF IsInjective, ToSet
<1>2. ASSUME NEW P PROVE KeepIn(<<>>, P) = <<>>
  <2>1. PICK empty \in Seq(Instance) : empty = <<>>
    BY <1>1
  <2>2. /\ KeepIn(empty, P) \in Seq(Instance)
        /\ ToSet(KeepIn(empty, P)) = ToSet(empty) \cap P
    BY KeepDistinct
  <2>3. KeepIn(empty, P) = <<>>
    BY <1>1, <2>1, <2>2, ToSetEmpty
  <2>4. QED BY <2>1, <2>3
<1>3. Len(<<>>) = 0 /\ 1..0 = {}
  OBVIOUS
<1>4. ASSUME NEW T, NEW nm, NEW ids PROVE Added(T, nm, ids, <<>>) = <<>>
  BY <1>3 DEF Added
<1>5. Removed(<<>>) = <<>>
  <2>1. PICK P : P = {x \in hooked : netId[x] # 0}
    OBVIOUS
  <2>2. PICK told : told = KeepIn(<<>>, P)
    OBVIOUS
  <2>3. told = <<>>
    BY <1>2, <2>2
  <2>4. Removed(<<>>) = [i \in 1..Len(told) |->
                            [sig |-> "InstanceRemoved", id |-> netId[told[i]]]]
    BY <2>1, <2>2 DEF Removed
  <2>5. 1..Len(told) = {}
    BY <1>3, <2>3
  <2>6. QED BY <2>4, <2>5
<1>6. QED BY <1>1, <1>2, <1>4, <1>5

\* A step that tells of an instance that is moved.
LEMMA MovedPasses ==
    ASSUME Orderly, Stands(tree, hooked, netId, name), Orderly',
           Stands(tree', hooked', netId', name'), UNCHANGED <<name, owner>>,
           NEW T, NEW order, NEW x \in Instance \ Service, x # game, NEW p \in Instance \cup {Nil},
           Moved(T, order, x, p), netId[x] # 0 => Watched(p), NEW s,
           s = Added(T, name, netId', order)
    PROVE  Passes(s, tree, hooked, netId, name, owner, tree', hooked', netId', name', owner')
<1> USE InstanceFacts
<1>1. ServerInv /\ SightInv /\ IdInv /\ HookInv /\ IsTree(tree, Instance)
  BY DEF Orderly, ServerInv, TreeInv
<1>2. /\ tree' = T /\ Watch(order) /\ order = Discovered(T, x, p)
      /\ p \notin Subtree(tree, x) /\ T = SetParent(tree, x, p)
  BY DEF Moved
<1>3. x \in Instance \ Hidden
  OBVIOUS
<1>4. IsTree(T, Instance) /\ T.dead = tree.dead
  BY <1>1, <1>3, MovedEffect
<1>5. /\ order \in Seq(Instance) /\ IsInjective(order)
      /\ x \in T.dead \/ ~Watched(p) => ToSet(order) = {}
  BY <1>2, <1>3, <1>4, DiscoveredProperties
<1>6. /\ hooked' = hooked \cup ToSet(order)
      /\ \A y \in Instance : netId[y] # 0 => netId'[y] = netId[y]
      /\ \A y \in Instance \ ToSet(order) : netId'[y] = netId[y]
  BY <1>1, <1>2, <1>5, WatchEffect
<1>7. /\ netId' \in [Instance -> 0..MaxNetId] /\ netId'[game] = 0
      /\ \A y, z \in Instance : netId'[y] = netId'[z] /\ netId'[y] # 0 => y = z
  BY DEF Stands, Sane
<1>8. PICK H : H = hooked
  OBVIOUS
<1>9. PICK H2 : H2 = hooked'
  OBVIOUS
<1>10. PICK ids : ids = netId
  OBVIOUS
<1>11. PICK ids2 : ids2 = netId'
  OBVIOUS
<1>12. PICK nm : nm = name /\ nm = name'
  OBVIOUS
<1>13. PICK own : own = owner /\ own = owner'
  OBVIOUS
<1>14. PICK R : R = tree
  OBVIOUS
<1>15. Stands(R, H, ids, nm) /\ Stands(T, H2, ids2, nm) /\ R.dead = T.dead
  BY <1>2, <1>4, <1>8, <1>9, <1>10, <1>11, <1>12, <1>14
<1>16. SUFFICES Passes(s, R, H, ids, nm, own, T, H2, ids2, nm, own)
  BY <1>2, <1>8, <1>9, <1>10, <1>11, <1>12, <1>13, <1>14
<1>17. CASE x \in T.dead \/ ~Watched(p)
  <2>1. order = <<>> /\ s = <<>> /\ H2 = H
    <3>1. order = <<>>
      BY <1>5, <1>17, ToSetEmpty
    <3>2. QED BY <1>5, <1>6, <1>8, <1>9, <1>17, <3>1, NoNews
  <2>2. \A y \in Instance : ids2[y] = ids[y]
    BY <1>5, <1>6, <1>10, <1>11, <1>17
  <2>3. Recast(H, R.parent, T.parent, ids, ids2, own, own, Siblings(R), Siblings(T))
    <3>1. CASE x \in R.dead
      <4>1. T = R
        BY <1>2, <1>14, <3>1 DEF SetParent
      <4>2. \A y, z \in Instance : ids2[y] = ids2[z] /\ ids2[y] # 0 => y = z
        BY <1>7, <1>11
      <4>3. QED BY <1>7, <1>11, <2>2, <4>1, <4>2 DEF Recast, Agree
    <3>2. CASE x \notin R.dead
      <4>1. ids[x] = 0
        BY <1>10, <1>14, <1>15, <1>17, <3>2
      <4>2. x \notin H
        BY <1>1, <1>8, <1>10, <4>1 DEF HookInv
      <4>3. Agree(H, own, own) /\ Agree(Instance, ids, ids2)
        BY <2>2 DEF Agree
      <4>4. /\ Settled(R, H, ids, nm)
            /\ \A y, z \in Instance : ids[y] = ids[z] /\ ids[y] # 0 => y = z
        BY <1>15 DEF Stands, Sane
      <4>5. ids2 \in [Instance -> 0..MaxNetId]
        BY <1>7, <1>11
      <4>6. p \notin Subtree(R, x) /\ T = SetParent(R, x, p)
        BY <1>2, <1>14
      <4>7. QED BY <3>2, <4>2, <4>3, <4>4, <4>5, <4>6, UnseenMove
    <3>3. QED BY <3>1, <3>2
  <2>4. /\ Stands(R, H, ids, nm) /\ R.dead = T.dead /\ s = <<>>
        /\ Recast(H, R.parent, T.parent, ids, ids2, own, own, Siblings(R), Siblings(T))
    BY <1>15, <2>1, <2>3
  <2>5. Passes(s, R, H, ids, nm, own, T, H, ids2, nm, own)
    BY <2>4, RecastPasses
  <2>6. QED BY <2>1, <2>5
<1>18. CASE ~(x \in T.dead \/ ~Watched(p))
  <2>1. order = Walk(T, x, Hidden) /\ p \in H \cup {game}
    BY <1>2, <1>8, <1>18 DEF Discovered, Watched
  <2>2. H2 \cap Hidden = {}
    <3>1. (SightInv /\ HookInv)'
      BY DEF Orderly, ServerInv
    <3>2. \A y \in hooked' : netId'[y] # 0
      BY <3>1 DEF HookInv
    <3>3. \A y \in Hidden : netId'[y] = 0
      BY <3>1 DEF SightInv
    <3>4. QED BY <1>9, <3>2, <3>3
  <2>3. SeenAt(R, T, H, H2, ids, ids2, x, p, order)
    BY <1>2, <1>3, <1>4, <1>6, <1>7, <1>8, <1>9, <1>10, <1>11, <1>14, <1>18, <2>1, <2>2 DEF SeenAt
  <2>4. s = Added(T, nm, ids2, order)
    BY <1>11, <1>12
  <2>5. /\ Stands(R, H, ids, nm) /\ Stands(T, H2, ids2, nm)
        /\ SeenAt(R, T, H, H2, ids, ids2, x, p, order)
        /\ R.dead = T.dead /\ s = Added(T, nm, ids2, order)
    BY <1>15, <2>3, <2>4
  <2>6. QED BY <2>5, SeenPasses
<1>19. QED BY <1>17, <1>18

\* A step that tells of an instance that is destroyed.
LEMMA DestroyedPasses ==
    ASSUME Orderly, Stands(tree, hooked, netId, name),
           Stands(tree', hooked', netId', name'), UNCHANGED <<name, netId>>,
           NEW x \in Instance, x # game, x \notin tree.dead, NEW order,
           order = Walk(tree, x, {}), tree' = Destroy(tree, x), Reset(order), NEW s,
           s = Removed(order)
    PROVE  Passes(s, tree, hooked, netId, name, owner, tree', hooked', netId', name', owner')
<1> USE InstanceFacts
<1>1. PICK H : H = hooked
  OBVIOUS
<1>2. PICK K : K = hooked'
  OBVIOUS
<1>3. PICK ids : ids = netId /\ ids = netId'
  OBVIOUS
<1>4. PICK nm : nm = name /\ nm = name'
  OBVIOUS
<1>5. PICK own : own = owner
  OBVIOUS
<1>6. PICK own2 : own2 = owner'
  OBVIOUS
<1>7. PICK T : T = tree
  OBVIOUS
<1>8. PICK U : U = tree'
  OBVIOUS
<1>9. PICK S : S = Subtree(T, x)
  OBVIOUS
<1>10. PICK told : told = KeepIn(Walk(T, x, {}), {y \in H : ids[y] # 0})
  OBVIOUS
<1>11. ToSet(order) = S
  BY <1>7, <1>9 DEF Subtree
<1>12. K = H \ S
  BY <1>1, <1>2, <1>11 DEF Reset
<1>13. Agree(K, own, own2)
  <2>1. H \subseteq Instance
    BY <1>1 DEF Orderly, ServerInv, HookInv
  <2>2. own2 = [y \in Instance |-> IF y \in S THEN Nil ELSE own[y]]
    BY <1>5, <1>6, <1>11 DEF Reset
  <2>3. QED BY <1>12, <2>1, <2>2 DEF Agree
<1>14. s = Farewell(told, ids)
  BY <1>1, <1>3, <1>7, <1>10 DEF Removed, Farewell
<1>15. Destroys(T, H, ids, own, U, K, own2, s, x, S, told)
  BY <1>7, <1>8, <1>9, <1>10, <1>12, <1>13, <1>14 DEF Destroys
<1>16. /\ Stands(T, H, ids, nm) /\ Stands(U, K, ids, nm)
       /\ Destroys(T, H, ids, own, U, K, own2, s, x, S, told)
  BY <1>1, <1>2, <1>3, <1>4, <1>7, <1>8, <1>15
<1>17. Passes(s, T, H, ids, nm, own, U, K, ids, nm, own2)
  BY <1>16, GonePasses
<1>18. QED BY <1>1, <1>2, <1>3, <1>4, <1>5, <1>6, <1>7, <1>8, <1>17

\* A step that tells of nothing, and changes nothing.
LEMMA StillPasses ==
    ASSUME Orderly, Stands(tree, hooked, netId, name),
           UNCHANGED <<tree, hooked, netId, name>>,
           \A y \in Instance : owner'[y] = owner[y]
    PROVE  Passes(<<>>, tree, hooked, netId, name, owner, tree', hooked', netId', name', owner')
<1>1. PICK H : H = hooked /\ H = hooked'
  OBVIOUS
<1>2. PICK ids : ids = netId /\ ids = netId'
  OBVIOUS
<1>3. PICK nm : nm = name /\ nm = name'
  OBVIOUS
<1>4. PICK own : own = owner
  OBVIOUS
<1>5. PICK own2 : own2 = owner'
  OBVIOUS
<1>6. PICK T : T = tree /\ T = tree'
  OBVIOUS
<1>7. PICK s : s = <<>>
  OBVIOUS
<1>8. /\ ids \in [Instance -> 0..MaxNetId] /\ ids[game] = 0 /\ H \subseteq Instance
      /\ \A y, z \in Instance : ids[y] = ids[z] /\ ids[y] # 0 => y = z
  BY <1>1, <1>2 DEF Stands, Sane
<1>9. Agree(H, own, own2)
  BY <1>4, <1>5, <1>8 DEF Agree
<1>10. Recast(H, T.parent, T.parent, ids, ids, own, own2, Siblings(T), Siblings(T))
  BY <1>8, <1>9 DEF Recast, Agree
<1>11. /\ Stands(T, H, ids, nm) /\ T.dead = T.dead /\ s = <<>>
       /\ Recast(H, T.parent, T.parent, ids, ids, own, own2, Siblings(T), Siblings(T))
  BY <1>1, <1>2, <1>3, <1>6, <1>7, <1>10
<1>12. Passes(s, T, H, ids, nm, own, T, H, ids, nm, own2)
  BY <1>11, RecastPasses
<1>13. QED BY <1>1, <1>2, <1>3, <1>4, <1>5, <1>6, <1>7, <1>12

\* Every connected client is on its course; every other is as it was made.
MirrorInv ==
    /\ DOMAIN view = Conns
    /\ \A c \in Conns : status[c] = "open" =>
          OnCourse(view[c], chan[c], tree, hooked, netId, name, owner)
    /\ \A c \in Conns : status[c] # "open" => view[c] = FreshView /\ chan[c] = <<>>

\* If the packets s tell all clients that stay of the change, and a new client is
\* sent what makes it a mirror, all clients are on their course after the step.
LEMMA AllHear ==
    ASSUME MirrorInv, Forget, NEW s,
           \A d \in Conns : /\ status'[d] \in {"new", "open", "closed"}
                            /\ status'[d] = "new" => status[d] = "new",
           \A d \in Conns : status'[d] = "open" /\ status[d] = "open" =>
               /\ chan'[d] = chan[d] \o s
               /\ Passes(s, tree, hooked, netId, name, owner, tree', hooked', netId', name', owner'),
           \A d \in Conns : status'[d] = "open" /\ status[d] # "open" =>
               OnCourse(FreshView, chan'[d], tree', hooked', netId', name', owner'),
           \A d \in Conns : status'[d] # "open" => chan'[d] = <<>>
    PROVE  MirrorInv'
<1>1. /\ \A c \in Conns : status[c] = "open" =>
            OnCourse(view[c], chan[c], tree, hooked, netId, name, owner)
      /\ \A c \in Conns : status[c] # "open" => view[c] = FreshView /\ chan[c] = <<>>
  BY DEF MirrorInv
<1>2. view' = [c \in Conns |-> IF status'[c] = "closed" THEN FreshView ELSE view[c]]
  BY DEF Forget
<1>3. DOMAIN view' = Conns
  BY <1>2
<1>4. ASSUME NEW c \in Conns, status'[c] = "open"
      PROVE  OnCourse(view'[c], chan'[c], tree', hooked', netId', name', owner')
  <2>1. view'[c] = view[c]
    BY <1>2, <1>4
  <2>2. CASE status[c] = "open"
    <3>1. PICK T : T = tree
      OBVIOUS
    <3>2. PICK U : U = tree'
      OBVIOUS
    <3>3. PICK H : H = hooked
      OBVIOUS
    <3>4. PICK H2 : H2 = hooked'
      OBVIOUS
    <3>5. PICK ids : ids = netId
      OBVIOUS
    <3>6. PICK ids2 : ids2 = netId'
      OBVIOUS
    <3>7. PICK nm : nm = name
      OBVIOUS
    <3>8. PICK nm2 : nm2 = name'
      OBVIOUS
    <3>9. PICK own : own = owner
      OBVIOUS
    <3>10. PICK own2 : own2 = owner'
      OBVIOUS
    <3>11. PICK v, q, r : v = view[c] /\ q = chan[c] /\ r = chan'[c]
      OBVIOUS
    <3>12. /\ OnCourse(v, q, T, H, ids, nm, own) /\ r = q \o s
           /\ Passes(s, T, H, ids, nm, own, U, H2, ids2, nm2, own2)
      BY <1>1, <1>4, <2>2, <3>1, <3>2, <3>3, <3>4, <3>5, <3>6, <3>7, <3>8, <3>9, <3>10, <3>11
    <3>13. OnCourse(v, r, U, H2, ids2, nm2, own2)
      BY <3>12, StaysOnCourse
    <3>14. QED BY <2>1, <3>2, <3>4, <3>6, <3>8, <3>10, <3>11, <3>13
  <2>3. CASE status[c] # "open"
    BY <1>1, <1>4, <2>1, <2>3
  <2>4. QED BY <2>2, <2>3
<1>5. ASSUME NEW c \in Conns, status'[c] # "open"
      PROVE  view'[c] = FreshView /\ chan'[c] = <<>>
  <2>1. status'[c] = "new" => view[c] = FreshView
    BY <1>1
  <2>2. QED BY <1>2, <1>5, <2>1
<1>6. QED BY <1>3, <1>4, <1>5 DEF MirrorInv

\* ... and of scripts' doings all clients hear.
LEMMA ScriptsHeard ==
    ASSUME MirrorInv, Orderly, Forget, NEW s, SendToAll(s), status' = status,
           Passes(s, tree, hooked, netId, name, owner, tree', hooked', netId', name', owner')
    PROVE  MirrorInv'
<1>1. chan' = [c \in Conns |-> IF c \in Open THEN chan[c] \o s ELSE chan[c]]
  BY DEF SendToAll
<1>2. \A d \in Conns : status[d] \in {"new", "open", "closed"}
  BY DEF Orderly, ServerInv, ConnInv
<1>3. \A d \in Conns : status'[d] = "open" => chan'[d] = chan[d] \o s
  BY <1>1 DEF Open
<1>4. \A d \in Conns : status'[d] # "open" => chan'[d] = <<>>
  BY <1>1 DEF Open, MirrorInv
<1>5. QED BY <1>2, <1>3, <1>4, AllHear

\* Nobody is connected at first.
LEMMA MirrorInit == Init => MirrorInv
BY DEF Init, ServerInit, MirrorInv

\* A client handles the packet it polls.
LEMMA MirrorDeliver ==
    ASSUME MirrorInv, NEW c \in Conns, Deliver(c), DOMAIN chan = Conns
    PROVE  MirrorInv'
<1>1. /\ status[c] = "open" /\ chan[c] # <<>>
      /\ chan' = [chan EXCEPT ![c] = Tail(@)]
      /\ view' = [view EXCEPT ![c] = Received(@, Head(chan[c]))]
  BY DEF Deliver, Poll
<1>2. UNCHANGED <<tree, hooked, netId, name, owner, status>>
  BY DEF Deliver, serverVars
<1>3. /\ DOMAIN view = Conns
      /\ \A d \in Conns : status[d] = "open" =>
            OnCourse(view[d], chan[d], tree, hooked, netId, name, owner)
      /\ \A d \in Conns : status[d] # "open" => view[d] = FreshView /\ chan[d] = <<>>
  BY DEF MirrorInv
<1>4. /\ DOMAIN view' = Conns
      /\ \A d \in Conns : d # c => view'[d] = view[d] /\ chan'[d] = chan[d]
      /\ view'[c] = Received(view[c], Head(chan[c])) /\ chan'[c] = Tail(chan[c])
  BY <1>1, <1>3
<1>5. OnCourse(view'[c], chan'[c], tree, hooked, netId, name, owner)
  <2>1. PICK w, f : /\ Leads(view[c], chan[c], w) /\ w.synced = TRUE
                    /\ Tracks(w, f, tree, hooked, netId, name, owner)
    BY <1>1, <1>3 DEF OnCourse
  <2>2. Leads(Received(view[c], Head(chan[c])), Tail(chan[c]), w)
    BY <1>1, <2>1, LeadsTail
  <2>3. Leads(view'[c], chan'[c], w)
    BY <1>4, <2>2
  <2>4. QED BY <2>1, <2>3 DEF OnCourse
<1>6. \A d \in Conns : status'[d] = "open" =>
         OnCourse(view'[d], chan'[d], tree', hooked', netId', name', owner')
  BY <1>2, <1>3, <1>4, <1>5
<1>7. \A d \in Conns : status'[d] # "open" => view'[d] = FreshView /\ chan'[d] = <<>>
  BY <1>1, <1>2, <1>3, <1>4
<1>8. QED BY <1>4, <1>6, <1>7 DEF MirrorInv

\* A connection is accepted: its client is greeted, the others hear of its Player.
LEMMA MirrorConnect ==
    ASSUME MirrorInv, Orderly, Orderly', Stands(tree, hooked, netId, name),
           Stands(tree', hooked', netId', name'), Forget, NEW c \in Conns, Connect(c)
    PROVE  MirrorInv'
<1> USE InstanceFacts
<1>1. ServerInv /\ name' = name /\ owner' = owner
  BY DEF Orderly, Connect
<1>2. /\ status[c] = "new" /\ status' = [status EXCEPT ![c] = "open"]
      /\ c # game /\ c \notin tree.dead /\ netId[c] = 0
  BY <1>1, ConnectMoves
<1>3. status \in [Conns -> {"new", "open", "closed"}]
  BY <1>1 DEF ServerInv, ConnInv
<1>4. /\ \A d \in Conns : /\ status'[d] \in {"new", "open", "closed"}
                          /\ status'[d] = "new" => status[d] = "new"
      /\ \A d \in Conns : d # c => status'[d] = status[d]
      /\ status'[c] = "open"
  BY <1>2, <1>3
<1>5. \A d \in Conns : status[d] # "open" => chan[d] = <<>>
  BY DEF MirrorInv
<1>6. PICK T : T = tree'
  OBVIOUS
<1>7. PICK H : H = hooked'
  OBVIOUS
<1>8. PICK ids : ids = netId'
  OBVIOUS
<1>9. PICK nm : nm = name'
  OBVIOUS
<1>10. PICK own : own = owner'
  OBVIOUS
<1>11. PICK s : s = <<[sig |-> "Snapshot", entries |-> SnapshotEntries(T, nm, ids)],
                      [sig |-> "SnapshotFinished"]>>
  OBVIOUS
<1>12. ASSUME NEW order, NEW player, NEW a, NEW l,
              a = Added(T, nm, ids, order),
              l = IF player = Nil THEN <<>>
                  ELSE <<[sig |-> "LocalPlayer", id |-> ids[player]]>>,
              chan' = [d \in Conns |->
                  IF d = c THEN Added(T, name, netId', order) \o Greeting(T, netId', player)
                  ELSE IF d \in Open THEN chan[d] \o Added(T, name, netId', order)
                  ELSE chan[d]],
              Leads(FreshView, a, FreshView),
              Passes(a, tree, hooked, netId, name, owner, tree', hooked', netId', name', owner')
       PROVE  MirrorInv'
  <2>1. chan' = [d \in Conns |-> IF d = c THEN a \o (l \o s)
                                 ELSE IF d \in Open THEN chan[d] \o a ELSE chan[d]]
    <3>1. Greeting(T, netId', player) = l \o s
      BY <1>1, <1>8, <1>9, <1>11, <1>12 DEF Greeting
    <3>2. Added(T, name, netId', order) = a
      BY <1>1, <1>8, <1>9, <1>12
    <3>3. QED BY <1>12, <3>1, <3>2
  <2>2. PICK q : q = chan'[c]
    OBVIOUS
  <2>3. l = <<>> \/ \E m : m.sig = "LocalPlayer" /\ l = <<m>>
    <3>1. PICK m : m = [sig |-> "LocalPlayer", id |-> ids[player]]
      OBVIOUS
    <3>2. m.sig = "LocalPlayer" /\ (l = <<>> \/ l = <<m>>)
      BY <1>12, <3>1
    <3>3. QED BY <3>2
  <2>4. /\ Stands(T, H, ids, nm)
        /\ Leads(FreshView, a, FreshView)
        /\ l = <<>> \/ \E m : m.sig = "LocalPlayer" /\ l = <<m>>
        /\ s = <<[sig |-> "Snapshot", entries |-> SnapshotEntries(T, nm, ids)],
                 [sig |-> "SnapshotFinished"]>>
        /\ q = a \o (l \o s)
    BY <1>6, <1>7, <1>8, <1>9, <1>11, <1>12, <2>1, <2>2, <2>3
  <2>5. OnCourse(FreshView, q, T, H, ids, nm, own)
    BY <2>4, GreetingCourse
  <2>6. OnCourse(FreshView, chan'[c], tree', hooked', netId', name', owner')
    BY <1>6, <1>7, <1>8, <1>9, <1>10, <2>2, <2>5
  <2>7. \A d \in Conns : status'[d] = "open" /\ status[d] = "open" => chan'[d] = chan[d] \o a
    BY <1>2, <2>1 DEF Open
  <2>8. \A d \in Conns : status'[d] # "open" => chan'[d] = <<>>
    BY <1>4, <1>5, <2>1 DEF Open
  <2>9. \A d \in Conns : status'[d] = "open" /\ status[d] # "open" =>
           OnCourse(FreshView, chan'[d], tree', hooked', netId', name', owner')
    BY <1>4, <2>6
  <2>10. QED BY <1>4, <1>12, <2>7, <2>8, <2>9, AllHear
<1>13. CASE PlayersService # Players
  <2>1. /\ UNCHANGED <<tree, netId, hooked>>
        /\ chan' = [d \in Conns |->
              IF d = c THEN Added(tree, name, netId', <<>>) \o Greeting(tree, netId', Nil)
              ELSE IF d \in Open THEN chan[d] \o Added(tree, name, netId', <<>>)
              ELSE chan[d]]
    BY <1>1, <1>13, ConnectMoves
  <2>2. PICK order : order = <<>>
    OBVIOUS
  <2>3. PICK a : a = Added(T, nm, ids, order)
    OBVIOUS
  <2>4. PICK player : player = Nil
    OBVIOUS
  <2>5. PICK l : l = IF player = Nil THEN <<>>
                     ELSE <<[sig |-> "LocalPlayer", id |-> ids[player]]>>
    OBVIOUS
  <2>6. a = <<>>
    BY <2>2, <2>3, NoNews
  <2>7. Leads(FreshView, a, FreshView)
    <3>1. Fine(FreshView)
      BY FreshFacts DEF Fine
    <3>2. QED BY <2>6, <3>1, LeadsEmpty
  <2>8. Passes(a, tree, hooked, netId, name, owner, tree', hooked', netId', name', owner')
    BY <1>1, <2>1, <2>6, StillPasses
  <2>9. T = tree
    BY <1>6, <2>1
  <2>10. QED BY <1>12, <2>1, <2>2, <2>3, <2>4, <2>5, <2>7, <2>8, <2>9
<1>14. CASE PlayersService = Players
  <2>1. PICK U, order :
           /\ Players \in hooked /\ Moved(U, order, c, Players)
           /\ chan' = [d \in Conns |->
                 IF d = c THEN Added(U, name, netId', order) \o Greeting(U, netId', c)
                 ELSE IF d \in Open THEN chan[d] \o Added(U, name, netId', order)
                 ELSE chan[d]]
    BY <1>1, <1>14, ConnectMoves
  <2>2. U = T /\ Watch(order) /\ order = Discovered(T, c, Players)
    BY <1>6, <2>1 DEF Moved
  <2>3. PICK a : a = Added(T, nm, ids, order)
    OBVIOUS
  <2>4. PICK player : player = c
    OBVIOUS
  <2>5. PICK l : l = IF player = Nil THEN <<>>
                     ELSE <<[sig |-> "LocalPlayer", id |-> ids[player]]>>
    OBVIOUS
  <2>6. /\ IsTree(T, Instance) /\ T.dead = tree.dead
        /\ c \notin tree.dead => T.parent[c] = Players
    BY <1>1, <1>2, <2>1, <2>2, MovedEffect
  <2>7. /\ order \in Seq(Instance) /\ IsInjective(order)
        /\ \A y \in ToSet(order) : y # c => T.parent[y] \in ToSet(order)
    BY <2>2, <2>6, DiscoveredProperties
  <2>8. /\ \A y \in Instance : netId[y] # 0 => netId'[y] = netId[y]
        /\ \A y \in ToSet(order) : netId'[y] # 0
    BY <1>1, <2>2, <2>7, WatchEffect DEF ServerInv
  <2>9. netId[Players] # 0
    BY <1>1, <2>1 DEF ServerInv, HookInv
  <2>10. \A y \in ToSet(order) : T.parent[y] # Nil /\ ids[T.parent[y]] # 0
    <3>1. ToSet(order) \subseteq Instance
      BY <2>7, ToSetTyped
    <3>2. Nil \notin ToSet(order)
      BY <3>1
    <3>3. \A y \in ToSet(order) : y # c => T.parent[y] # Nil /\ ids[T.parent[y]] # 0
      BY <1>8, <2>7, <2>8, <3>2
    <3>4. T.parent[c] = Players /\ Players # Nil /\ ids[Players] # 0
      BY <1>2, <1>8, <2>6, <2>8, <2>9
    <3>5. QED BY <3>3, <3>4
  <2>11. \A i \in 1..Len(order) : T.parent[order[i]] # Nil /\ ids[T.parent[order[i]]] # 0
    <3>1. DOMAIN order = 1..Len(order)
      BY <2>7
    <3>2. \A i \in 1..Len(order) : order[i] \in ToSet(order)
      BY <3>1 DEF ToSet
    <3>3. QED BY <2>10, <3>2
  <2>12. Leads(FreshView, a, FreshView)
    BY <2>3, <2>7, <2>11, FreshDrops
  <2>13. Passes(a, tree, hooked, netId, name, owner, tree', hooked', netId', name', owner')
    <3>1. a = Added(T, name, netId', order)
      BY <1>1, <1>8, <1>9, <2>3
    <3>2. c \in Instance \ Service /\ Players \in Instance \cup {Nil}
      OBVIOUS
    <3>3. Moved(T, order, c, Players)
      BY <2>1, <2>2
    <3>4. QED BY <1>1, <1>2, <3>1, <3>2, <3>3, MovedPasses
  <2>14. QED BY <1>12, <2>1, <2>2, <2>3, <2>4, <2>5, <2>12, <2>13
<1>15. QED BY <1>13, <1>14

\* A connection is lost: the clients that stay hear that its Player is gone.
LEMMA MirrorDisconnect ==
    ASSUME MirrorInv, Orderly, Orderly', Stands(tree, hooked, netId, name),
           Stands(tree', hooked', netId', name'), Forget, NEW c \in Conns, Disconnect(c)
    PROVE  MirrorInv'
<1> USE InstanceFacts
<1>1. /\ status[c] = "open" /\ status' = [status EXCEPT ![c] = "closed"]
      /\ UNCHANGED <<name, netId>>
  BY DEF Disconnect
<1>2. status \in [Conns -> {"new", "open", "closed"}]
  BY DEF Orderly, ServerInv, ConnInv
<1>3. /\ \A d \in Conns : /\ status'[d] \in {"new", "open", "closed"}
                          /\ status'[d] = "new" => status[d] = "new"
      /\ \A d \in Conns : d # c => status'[d] = status[d]
      /\ status'[c] = "closed"
  BY <1>1, <1>2
<1>4. PICK order : order = IF netId[c] = 0 \/ c \in tree.dead THEN <<>> ELSE Walk(tree, c, {})
  OBVIOUS
<1>5. PICK s : s = Removed(order)
  OBVIOUS
<1>6. /\ tree' = IF netId[c] = 0 THEN tree ELSE Destroy(tree, c)
      /\ Reset(order)
      /\ chan' = [d \in Conns |-> IF d = c THEN <<>> ELSE IF d \in Open THEN chan[d] \o s ELSE chan[d]]
  BY <1>4, <1>5 DEF Disconnect
<1>7. \A d \in Conns : status[d] # "open" => chan[d] = <<>>
  BY DEF MirrorInv
<1>8. Passes(s, tree, hooked, netId, name, owner, tree', hooked', netId', name', owner')
  <2>1. CASE netId[c] = 0 \/ c \in tree.dead
    <3>1. order = <<>> /\ s = <<>> /\ tree' = tree
      BY <1>4, <1>5, <1>6, <2>1, NoNews DEF Destroy
    <3>2. hooked' = hooked /\ \A y \in Instance : owner'[y] = owner[y]
      BY <1>6, <3>1, NoNews DEF Reset
    <3>3. QED BY <1>1, <3>1, <3>2, StillPasses
  <2>2. CASE ~(netId[c] = 0 \/ c \in tree.dead)
    <3>1. order = Walk(tree, c, {}) /\ tree' = Destroy(tree, c) /\ c \in Instance /\ c # game
      BY <1>4, <1>6, <2>2
    <3>2. QED BY <1>1, <1>5, <1>6, <2>2, <3>1, DestroyedPasses
  <2>3. QED BY <2>1, <2>2
<1>9. \A d \in Conns : status'[d] = "open" => status[d] = "open" /\ chan'[d] = chan[d] \o s
  BY <1>3, <1>6 DEF Open
<1>10. \A d \in Conns : status'[d] # "open" => chan'[d] = <<>>
  BY <1>3, <1>6, <1>7 DEF Open
<1>11. QED BY <1>3, <1>8, <1>9, <1>10, AllHear

\* Something is destroyed by a script.
LEMMA MirrorDestroy ==
    ASSUME MirrorInv, Orderly, Orderly', Stands(tree, hooked, netId, name),
           Stands(tree', hooked', netId', name'), Forget, NEW x \in Doomed, ScriptDestroy(x)
    PROVE  MirrorInv'
<1> USE InstanceFacts
<1>1. /\ UNCHANGED <<name, status>> /\ DestroyInstance(x) /\ x \in Instance /\ x # game
  BY ServerBounds DEF ScriptDestroy
<1>2. PICK order : order = IF x \in tree.dead THEN <<>> ELSE Walk(tree, x, {})
  OBVIOUS
<1>3. PICK s : s = Removed(order)
  OBVIOUS
<1>4. /\ tree' = Destroy(tree, x) /\ Reset(order) /\ SendToAll(s) /\ netId' = netId
  BY <1>1, <1>2, <1>3 DEF DestroyInstance
<1>5. Passes(s, tree, hooked, netId, name, owner, tree', hooked', netId', name', owner')
  <2>1. CASE x \in tree.dead
    <3>1. order = <<>> /\ s = <<>> /\ tree' = tree
      BY <1>2, <1>3, <1>4, <2>1, NoNews DEF Destroy
    <3>2. hooked' = hooked /\ \A y \in Instance : owner'[y] = owner[y]
      BY <1>4, <3>1, NoNews DEF Reset
    <3>3. QED BY <1>1, <1>4, <3>1, <3>2, StillPasses
  <2>2. CASE x \notin tree.dead
    <3>1. order = Walk(tree, x, {})
      BY <1>2, <2>2
    <3>2. QED BY <1>1, <1>3, <1>4, <2>2, <3>1, DestroyedPasses
  <2>3. QED BY <2>1, <2>2
<1>6. QED BY <1>1, <1>4, <1>5, ScriptsHeard

\* A part is moved by a script.
LEMMA MirrorSetParent ==
    ASSUME MirrorInv, Orderly, Orderly', Stands(tree, hooked, netId, name), "leave" \notin Habits,
           Stands(tree', hooked', netId', name'), Forget,
           NEW x \in Parts, NEW p \in Targets, ScriptSetParent(x, p)
    PROVE  MirrorInv'
<1>1. UNCHANGED <<name, owner, status>> /\ (netId[x] # 0 => Watched(p))
  BY DEF ScriptSetParent, Leaves
<1>2. ServerInv
  BY DEF Orderly
<1>3. PICK T, order : Moved(T, order, x, p) /\ SendToAll(Added(T, name, netId', order))
  BY <1>2, ScriptMoves
<1>4. x \in Instance \ Service /\ x # game /\ p \in Instance \cup {Nil}
  BY ServerBounds, InstanceFacts
<1>5. PICK s : s = Added(T, name, netId', order)
  OBVIOUS
<1>6. Passes(s, tree, hooked, netId, name, owner, tree', hooked', netId', name', owner')
  BY <1>1, <1>3, <1>4, <1>5, MovedPasses
<1>7. QED BY <1>1, <1>3, <1>5, <1>6, ScriptsHeard

\* A part is renamed by a script ...
LEMMA MirrorSetName ==
    ASSUME MirrorInv, Orderly, Stands(tree, hooked, netId, name), Forget,
           NEW x \in Parts, NEW n \in Names, ScriptSetName(x, n)
    PROVE  MirrorInv'
<1>1. /\ name' = [name EXCEPT ![x] = n] /\ SendToAll(Changed(x, "Name", n))
      /\ UNCHANGED <<tree, owner, netId, hooked, status>>
  BY DEF ScriptSetName
<1>2. PICK T : T = tree /\ T = tree'
  BY <1>1
<1>3. PICK H : H = hooked /\ H = hooked'
  BY <1>1
<1>4. PICK ids : ids = netId /\ ids = netId'
  BY <1>1
<1>5. PICK nm : nm = name
  OBVIOUS
<1>6. PICK nm2 : nm2 = name'
  OBVIOUS
<1>7. PICK own : own = owner /\ own = owner'
  BY <1>1
<1>8. PICK s : s = Changed(x, "Name", n)
  OBVIOUS
<1>9. PICK m : m = [sig |-> "InstanceChanged", id |-> ids[x], prop |-> "Name", value |-> n]
  OBVIOUS
<1>10. Renames(m, x, n, nm, nm2, ids)
  BY <1>1, <1>5, <1>6, <1>9 DEF Renames
<1>11. \A y \in H : ids[y] # 0
  BY <1>3, <1>4 DEF Orderly, ServerInv, HookInv
<1>12. (x \in H => s = <<m>>) /\ (x \notin H => s = <<>>)
  BY <1>3, <1>4, <1>8, <1>9, <1>11 DEF Changed
<1>13. /\ Stands(T, H, ids, nm) /\ Renames(m, x, n, nm, nm2, ids)
       /\ x \in H => s = <<m>>
       /\ x \notin H => s = <<>>
  BY <1>2, <1>3, <1>4, <1>5, <1>10, <1>12
<1>14. Passes(s, T, H, ids, nm, own, T, H, ids, nm2, own)
  BY <1>13, NamePasses
<1>15. Passes(s, tree, hooked, netId, name, owner, tree', hooked', netId', name', owner')
  BY <1>2, <1>3, <1>4, <1>5, <1>6, <1>7, <1>14
<1>16. QED BY <1>1, <1>8, <1>15, ScriptsHeard

\* ... or given to a Player.
LEMMA MirrorSetOwner ==
    ASSUME MirrorInv, Orderly, Stands(tree, hooked, netId, name), Forget,
           NEW x \in Parts, NEW p \in Owners \cup {Nil}, ScriptSetNetworkOwner(x, p)
    PROVE  MirrorInv'
<1>1. /\ owner' = [owner EXCEPT ![x] = p] /\ SendToAll(Changed(x, "NetworkOwner", IdOf(p)))
      /\ UNCHANGED <<tree, name, netId, hooked, status>>
      /\ p \in Conns => netId[p] # 0
  BY DEF ScriptSetNetworkOwner
<1>2. PICK T : T = tree /\ T = tree'
  BY <1>1
<1>3. PICK H : H = hooked /\ H = hooked'
  BY <1>1
<1>4. PICK ids : ids = netId /\ ids = netId'
  BY <1>1
<1>5. PICK nm : nm = name /\ nm = name'
  BY <1>1
<1>6. PICK own : own = owner
  OBVIOUS
<1>7. PICK own2 : own2 = owner'
  OBVIOUS
<1>8. PICK s : s = Changed(x, "NetworkOwner", IdOf(p))
  OBVIOUS
<1>9. PICK m : m = [sig |-> "InstanceChanged", id |-> ids[x],
                    prop |-> "NetworkOwner", value |-> IdOf(p)]
  OBVIOUS
<1>10. p \in Conns \cup {Nil} /\ Nil \notin Conns
  BY ServerBounds, InstanceFacts
<1>11. own \in [Instance -> Conns \cup {Nil}]
  BY <1>6 DEF Orderly, RestTypes
<1>12. (p = Nil => m.value = 0) /\ (p # Nil => m.value = ids[p] /\ ids[p] # 0)
  BY <1>1, <1>4, <1>9, <1>10 DEF IdOf
<1>13. /\ m.sig = "InstanceChanged" /\ m.id = ids[x] /\ m.prop = "NetworkOwner"
  BY <1>9
<1>14. Reowns(m, x, p, own, own2, ids)
  BY <1>1, <1>6, <1>7, <1>10, <1>11, <1>12, <1>13 DEF Reowns
<1>15. \A y \in H : ids[y] # 0
  BY <1>3, <1>4 DEF Orderly, ServerInv, HookInv
<1>16. (x \in H => s = <<m>>) /\ (x \notin H => s = <<>>)
  BY <1>3, <1>4, <1>8, <1>9, <1>15 DEF Changed
<1>17. /\ Stands(T, H, ids, nm) /\ Reowns(m, x, p, own, own2, ids)
       /\ x \in H => s = <<m>>
       /\ x \notin H => s = <<>>
  BY <1>2, <1>3, <1>4, <1>5, <1>14, <1>16
<1>18. Passes(s, T, H, ids, nm, own, T, H, ids, nm, own2)
  BY <1>17, OwnerPasses
<1>19. Passes(s, tree, hooked, netId, name, owner, tree', hooked', netId', name', owner')
  BY <1>2, <1>3, <1>4, <1>5, <1>6, <1>7, <1>18
<1>20. QED BY <1>1, <1>8, <1>19, ScriptsHeard

\* Start: nobody is connected.
LEMMA MirrorStart ==
    ASSUME MirrorInv, Orderly, Forget, Start
    PROVE  MirrorInv'
<1>1. ~started /\ status' = status /\ chan' = chan
  BY DEF Start
<1>2. \A c \in Conns : status[c] = "new" /\ status'[c] = "new"
  BY <1>1 DEF Orderly, ServerInv, ConnInv
<1>3. \A c \in Conns : view'[c] = FreshView /\ chan'[c] = <<>>
  BY <1>1, <1>2 DEF Forget, MirrorInv
<1>4. DOMAIN view' = Conns
  BY DEF Forget
<1>5. QED BY <1>2, <1>3, <1>4 DEF MirrorInv

\* The server as it is, to be mirrored.
Standing == Stands(tree, hooked, netId, name)

\* Every step keeps every client on its course.
LEMMA MirrorNext ==
    ASSUME Habits = {}, Names \cap Service = {}
    PROVE  MirrorInv /\ Orderly /\ Orderly' /\ Standing' /\ [Next]_vars => MirrorInv'
<1> SUFFICES ASSUME MirrorInv, Orderly, Orderly', Standing', [Next]_vars PROVE MirrorInv'
  OBVIOUS
<1>1. Stands(tree, hooked, netId, name)
  BY OrderlyStands
<1>2. Stands(tree', hooked', netId', name')
  BY DEF Standing
<1>3. CASE UNCHANGED vars
  <2>1. UNCHANGED <<tree, hooked, netId, name, owner, status, chan, view>>
    BY <1>3 DEF vars, serverVars
  <2>2. QED BY <2>1 DEF MirrorInv
<1>4. ASSUME NEW c \in Conns, Deliver(c) PROVE MirrorInv'
  BY <1>4, MirrorDeliver DEF Orderly, RestTypes
<1>5. CASE ServerNext /\ Forget
  <2>1. CASE Start
    BY <1>5, <2>1, MirrorStart
  <2>2. ASSUME NEW x \in Parts, NEW p \in Targets, ScriptSetParent(x, p) PROVE MirrorInv'
    BY <1>1, <1>2, <1>5, <2>2, MirrorSetParent
  <2>3. ASSUME NEW x \in Doomed, ScriptDestroy(x) PROVE MirrorInv'
    BY <1>1, <1>2, <1>5, <2>3, MirrorDestroy
  <2>4. ASSUME NEW x \in Parts, NEW n \in Names, ScriptSetName(x, n) PROVE MirrorInv'
    BY <1>1, <1>5, <2>4, MirrorSetName
  <2>5. ASSUME NEW x \in Parts, NEW p \in Owners \cup {Nil}, ScriptSetNetworkOwner(x, p)
        PROVE  MirrorInv'
    BY <1>1, <1>5, <2>5, MirrorSetOwner
  <2>6. ASSUME NEW c \in Conns, Connect(c) PROVE MirrorInv'
    BY <1>1, <1>2, <1>5, <2>6, MirrorConnect
  <2>7. ASSUME NEW c \in Conns, Disconnect(c) PROVE MirrorInv'
    BY <1>1, <1>2, <1>5, <2>7, MirrorDisconnect
  <2>8. QED BY <1>5, <2>1, <2>2, <2>3, <2>4, <2>5, <2>6, <2>7 DEF ServerNext
<1>6. QED BY <1>3, <1>4, <1>5 DEF Next

\* The inductive invariant of server and clients.
LEMMA MirrorAlways ==
    ASSUME Habits = {}, Names \cap Service = {}
    PROVE  Spec => [](Orderly /\ MirrorInv)
<1>1. Init => Orderly /\ MirrorInv
  BY OrderlyInit, MirrorInit DEF Init
<1>2. Orderly /\ [Next]_vars => Orderly'
  BY OrderlyNext
<1>3. MirrorInv /\ Orderly /\ Orderly' /\ Standing' /\ [Next]_vars => MirrorInv'
  BY MirrorNext
<1>4. Orderly => Standing
  BY OrderlyStands DEF Standing
<1>5. QED BY <1>1, <1>2, <1>3, <1>4, PTL DEF Spec

(***************************************************************************)
(* What holds of a client that is up to date.                              *)
(*                                                                         *)
(* Its channel is empty, so that it is a mirror itself.                    *)
(***************************************************************************)

\* Who is led anywhere is well.
LEMMA LeadsFine ==
    ASSUME NEW v, NEW s, NEW w, Leads(v, s, w)
    PROVE  Fine(v)
BY LeadsEmpty, LeadsTail

\* On an orderly server the watched instances are those below game that are not
\* hidden.
LEMMA ReplicatedAreWatched ==
    ASSUME Orderly, started, Stands(tree, hooked, netId, name)
    PROVE  /\ Replicated = hooked /\ hooked \cap Hidden = {}
           /\ \A k \in Instance \ Hidden : tree.parent[k] \in hooked \cup {game} => k \in hooked
<1> USE InstanceFacts
<1>1. /\ IsTree(tree, Instance) /\ tree.parent[game] = Nil /\ hooked \in SUBSET Instance
      /\ \A x \in hooked : netId[x] # 0 /\ tree.parent[x] \in hooked \cup {game}
      /\ \A k \in Instance \ Hidden : tree.parent[k] \in hooked \cup {game} => k \in hooked
      /\ \A x \in Hidden : netId[x] = 0
  BY DEF Orderly, ServerInv, TreeInv, HookInv, SightInv
<1>2. hooked \cap Hidden = {}
  BY <1>1
<1>3. game \notin hooked
  BY <1>1
<1>4. PICK V \in SUBSET Instance :
         /\ V = ToSet(Walk(tree, game, Hidden)) /\ game \in V
         /\ ToSet(Tail(Walk(tree, game, Hidden))) = V \ {game}
         /\ \A k \in Instance \ Hidden : tree.parent[k] \in V => k \in V
         /\ \A S \in SUBSET Instance :
               game \in S /\ (\A k \in Instance \ Hidden : tree.parent[k] \in S => k \in S) => V \subseteq S
  <2>1. game \in Instance /\ game \notin Hidden
    OBVIOUS
  <2>2. /\ ToSet(Tail(Walk(tree, game, Hidden))) = ToSet(Walk(tree, game, Hidden)) \ {game}
        /\ ToSet(Walk(tree, game, Hidden)) \subseteq Instance \ Hidden
        /\ game \in ToSet(Walk(tree, game, Hidden))
        /\ \A k \in Instance \ Hidden : tree.parent[k] \in ToSet(Walk(tree, game, Hidden)) =>
                                           k \in ToSet(Walk(tree, game, Hidden))
        /\ \A S \in SUBSET Instance :
              game \in S /\ (\A k \in Instance \ Hidden : tree.parent[k] \in S => k \in S) =>
                 ToSet(Walk(tree, game, Hidden)) \subseteq S
    BY <1>1, <2>1, WalkByParents
  <2>3. QED BY <2>2
<1>5. V \subseteq hooked \cup {game}
  <2>1. PICK S \in SUBSET Instance : S = hooked \cup {game}
    BY <1>1
  <2>2. \A k \in Instance \ Hidden : tree.parent[k] \in S => k \in S
    BY <1>1, <2>1
  <2>3. QED BY <1>4, <2>1, <2>2
<1>6. hooked \subseteq V
  <2>1. PICK R \in SUBSET Instance : R = hooked \ V
    BY <1>1
  <2>2. ASSUME R # {} PROVE FALSE
    <3>1. PICK y \in R : tree.parent[y] \notin R
      BY <1>1, <2>2 DEF IsTree
    <3>2. tree.parent[y] \in V
      BY <1>1, <1>4, <2>1, <3>1
    <3>3. QED BY <1>2, <1>4, <2>1, <3>1, <3>2
  <2>3. QED BY <2>1, <2>2
<1>7. Replicated = hooked
  BY <1>3, <1>4, <1>5, <1>6 DEF Replicated
<1>8. QED BY <1>1, <1>2, <1>7

\* What a client that is up to date has.
LEMMA UpToDateTracks ==
    ASSUME Orderly, MirrorInv, NEW c \in Conns, UpToDate(c), Stands(tree, hooked, netId, name)
    PROVE  /\ started
           /\ \E f : /\ Tracks(view[c], f, tree, hooked, netId, name, owner)
                     /\ \A x \in hooked \cup {game} : Image(c, x) = f[x] /\ f[x] \in Object
<1>1. status[c] = "open" /\ chan[c] = <<>>
  BY DEF UpToDate
<1>2. started
  BY <1>1 DEF Orderly, ServerInv, HookInv, ConnInv
<1>3. PICK w, f : /\ Leads(view[c], chan[c], w) /\ w.synced = TRUE
                  /\ Tracks(w, f, tree, hooked, netId, name, owner)
  BY <1>1 DEF MirrorInv, OnCourse
<1>4. w = view[c]
  BY <1>1, <1>3, LeadsEmpty
<1>5. PICK v : v = view[c]
  OBVIOUS
<1>6. Tracks(v, f, tree, hooked, netId, name, owner)
  BY <1>3, <1>4, <1>5
<1>7. /\ ClientOK(v) /\ f \in [hooked \cup {game} -> Object] /\ f[game] = game
      /\ \A x \in hooked : netId[x] # 0 /\ v.netId[f[x]] = netId[x]
  BY <1>6 DEF Tracks, MirrorsAll, Mirrors
<1>8. game \notin hooked
  BY InstanceFacts DEF Stands, Sane
<1>9. ASSUME NEW x \in hooked \cup {game} PROVE Image(c, x) = f[x] /\ f[x] \in Object
  <2>1. CASE x = game
    BY <1>7, <2>1 DEF Image
  <2>2. CASE x \in hooked
    <3>1. FindByNetId(v, netId[x]) = f[x]
      BY <1>7, <2>2, FindById
    <3>2. QED BY <1>5, <1>7, <1>8, <2>2, <3>1 DEF Image
  <2>3. QED BY <2>1, <2>2
<1>10. QED BY <1>2, <1>5, <1>6, <1>9

\* An up-to-date client misses nothing, and has nothing that is gone.
LEMMA CompleteHolds ==
    ASSUME Orderly, MirrorInv, Standing
    PROVE  Complete /\ NoGhosts /\ NoStaleOwner
<1>1. Stands(tree, hooked, netId, name)
  BY DEF Standing
<1>2. ASSUME NEW c \in Conns, UpToDate(c), NEW x \in Replicated
      PROVE  LET o == Image(c, x)
             IN  /\ netId[x] # 0 /\ o # Nil
                 /\ o \notin view[c].tree.dead
                 /\ view[c].cls[o] = ClassOf(x)
                 /\ view[c].name[o] = name[x]
                 /\ view[c].owner[o] # Nil =>
                       /\ owner[x] # Nil
                       /\ view[c].netId[view[c].owner[o]] = netId[owner[x]]
  <2>1. PICK f : /\ Tracks(view[c], f, tree, hooked, netId, name, owner)
                 /\ \A y \in hooked \cup {game} : Image(c, y) = f[y] /\ f[y] \in Object
    BY <1>1, <1>2, UpToDateTracks
  <2>2. x \in hooked
    BY <1>1, <1>2, UpToDateTracks, ReplicatedAreWatched
  <2>3. Image(c, x) = f[x] /\ f[x] # Nil
    BY <2>1, <2>2, ObjectFacts
  <2>4. /\ netId[x] # 0 /\ f[x] \notin view[c].tree.dead
        /\ view[c].cls[f[x]] = ClassOf(x)
        /\ view[c].name[f[x]] = name[x]
        /\ view[c].owner[f[x]] # Nil =>
              owner[x] \in Conns /\ view[c].netId[view[c].owner[f[x]]] = netId[owner[x]]
    BY <2>1, <2>2 DEF Tracks, MirrorsAll, Mirrors, Named, Owned
  <2>5. Nil \notin Conns
    BY InstanceFacts
  <2>6. QED BY <2>3, <2>4, <2>5
<1>3. ASSUME NEW c \in Conns, UpToDate(c), NEW o \in Object,
             view[c].netId[o] # 0, view[c].tree.parent[o] # Nil
      PROVE  \E x \in Replicated : netId[x] = view[c].netId[o]
  <2>1. PICK f : Tracks(view[c], f, tree, hooked, netId, name, owner)
    BY <1>1, <1>3, UpToDateTracks
  <2>2. o \notin view[c].tree.dead
    BY <1>3, <2>1 DEF Tracks, MirrorsAll, ClientOK, IsTree
  <2>3. PICK x \in hooked : o = f[x] /\ view[c].netId[f[x]] = netId[x]
    BY <1>3, <2>1, <2>2 DEF Tracks, MirrorsAll, Mirrors
  <2>4. x \in Replicated
    BY <1>1, <1>3, UpToDateTracks, ReplicatedAreWatched
  <2>5. QED BY <2>3, <2>4
<1>4. QED BY <1>2, <1>3 DEF Complete, NoGhosts, NoStaleOwner

\* f takes the list a, without repetitions, to the list b.
Carries(f, a, b) ==
    /\ \A k, l \in ToSet(a) : f[k] = f[l] => k = l
    /\ ToSet(b) = {f[k] : k \in ToSet(a)}
    /\ \A k, l \in ToSet(a) : Before(a, k, l) => Before(b, f[k], f[l])

\* Such a list is the list of the images.
LEMMA CarriedList ==
    ASSUME NEW S, NEW O, NEW a \in Seq(S), NEW b \in Seq(O), NEW f,
           IsInjective(a), IsInjective(b), Carries(f, a, b)
    PROVE  b = [i \in 1..Len(a) |-> f[a[i]]]
<1>1. PICK m \in Nat : m = Len(a)
  OBVIOUS
<1>2. /\ DOMAIN a = 1..m /\ \A i, j \in 1..m : a[i] = a[j] => i = j
      /\ ToSet(a) = {a[i] : i \in 1..m}
  BY <1>1 DEF IsInjective, ToSet
<1>3. ToSet(b) \in SUBSET O
  BY DEF ToSet
<1>4. \A i \in 1..m : a[i] \in ToSet(a) /\ f[a[i]] \in ToSet(b) /\ f[a[i]] \in O
  BY <1>2, <1>3 DEF Carries
<1>5. PICK t : t = [i \in 1..m |-> f[a[i]]]
  OBVIOUS
<1>6. t \in Seq(O) /\ Len(t) = m /\ DOMAIN t = 1..m
  BY <1>4, <1>5
<1>7. \A i \in 1..m : t[i] = f[a[i]]
  BY <1>5
<1>8. IsInjective(t)
  <2>1. \A k, l \in ToSet(a) : f[k] = f[l] => k = l
    BY DEF Carries
  <2>2. \A i, j \in 1..m : t[i] = t[j] => i = j
    BY <1>2, <1>4, <1>7, <2>1
  <2>3. QED BY <1>6, <2>2 DEF IsInjective
<1>9. ToSet(t) = ToSet(b)
  <2>1. ToSet(b) = {f[k] : k \in ToSet(a)}
    BY DEF Carries
  <2>2. ToSet(b) = {f[a[i]] : i \in 1..m}
    BY <1>2, <2>1
  <2>3. ToSet(t) = {t[i] : i \in 1..m}
    BY <1>6 DEF ToSet
  <2>4. QED BY <1>7, <2>2, <2>3
<1>10. \A u, v : Before(t, u, v) => Before(b, u, v)
  <2> SUFFICES ASSUME NEW u, NEW v, Before(t, u, v) PROVE Before(b, u, v)
    OBVIOUS
  <2>1. PICK i \in 1..m, j \in 1..m : i < j /\ t[i] = u /\ t[j] = v
    BY <1>6 DEF Before
  <2>2. Before(a, a[i], a[j])
    BY <1>2, <2>1 DEF Before
  <2>3. QED BY <1>4, <1>7, <2>1, <2>2 DEF Carries
<1>11. t = b
  BY <1>6, <1>8, <1>9, <1>10, SameOrder
<1>12. QED BY <1>1, <1>5, <1>11

\* b has the images of what a has.
Copied(f, a, b) == b = [i \in 1..Len(a) |-> f[a[i]]]

\* The children of x on the server, those out of sight left out, and the
\* children of f[x] on a client, those without an id left out.
KidsOf(v, f, T, H, x, P, Q, mine, theirs) ==
    /\ x \in H \cup {game} /\ P \subseteq Instance /\ H \subseteq P
    /\ \A k \in P : T.parent[k] \in H \cup {game} => k \in H
    /\ Q = {o \in Object : v.netId[o] # 0}
    /\ mine = KeepIn(T.kids[x], P) /\ theirs = KeepIn(v.tree.kids[f[x]], Q)

\* The children of a watched instance are those of its object, in the same order.
LEMMA SameChildrenOf ==
    ASSUME NEW v, NEW f, NEW T, NEW H, NEW ids, NEW nm, NEW own, NEW P, NEW Q,
           NEW x, NEW mine, NEW theirs,
           /\ Stands(T, H, ids, nm) /\ Tracks(v, f, T, H, ids, nm, own)
           /\ KidsOf(v, f, T, H, x, P, Q, mine, theirs)
    PROVE  Copied(f, mine, theirs)
<1>0. /\ x \in H \cup {game} /\ P \subseteq Instance /\ H \subseteq P
      /\ \A k \in P : T.parent[k] \in H \cup {game} => k \in H
      /\ Q = {o \in Object : v.netId[o] # 0}
      /\ mine = KeepIn(T.kids[x], P) /\ theirs = KeepIn(v.tree.kids[f[x]], Q)
  BY DEF KidsOf
<1>1. /\ IsTree(T, Instance) /\ IsTree(v.tree, Object) /\ ClientOK(v)
      /\ Sane(H, ids, nm, T.dead)
      /\ Mirrors(v, f, H, T.parent, ids, T.dead)
      /\ Ordered(v, f, H, T.parent, Siblings(T))
  <2>1. /\ IsTree(T, Instance) /\ Sane(H, ids, nm, T.dead)
    BY DEF Stands, Settled
  <2>2. /\ ClientOK(v) /\ Mirrors(v, f, H, T.parent, ids, T.dead)
        /\ Ordered(v, f, H, T.parent, Siblings(T))
    BY DEF Tracks, MirrorsAll
  <2>3. IsTree(v.tree, Object)
    BY <2>2 DEF ClientOK
  <2>4. QED BY <2>1, <2>2, <2>3
<1>2. /\ f \in [H \cup {game} -> Object] /\ f[game] = game
      /\ \A k \in H : v.netId[f[k]] # 0 /\ T.parent[k] \in H \cup {game}
                      /\ v.tree.parent[f[k]] = f[T.parent[k]]
      /\ \A o \in Object : v.netId[o] # 0 /\ o \notin v.tree.dead => \E k \in H : o = f[k]
  BY <1>1 DEF Mirrors
<1>3. \A y, z \in H \cup {game} : f[y] = f[z] => y = z
  BY <1>1, ImagesDiffer
<1>4. x \in Instance /\ f[x] \in Object
  BY <1>0, <1>1, <1>2, InstanceFacts DEF Sane
<1>5. PICK s \in Seq(Instance) : s = T.kids[x]
  BY <1>1, <1>4 DEF IsTree, Tree
<1>6. PICK t \in Seq(Object) : t = v.tree.kids[f[x]]
  BY <1>1, <1>4 DEF IsTree, Tree
<1>7. IsInjective(s) /\ IsInjective(t)
  BY <1>1, <1>4, <1>5, <1>6 DEF IsTree
<1>8. /\ \A k \in Instance : k \in ToSet(s) <=> T.parent[k] = x
      /\ \A o \in Object : o \in ToSet(t) <=> v.tree.parent[o] = f[x]
  BY <1>1, <1>4, <1>5, <1>6 DEF IsTree
<1>9. mine \in Seq(Instance) /\ IsInjective(mine) /\ ToSet(mine) = ToSet(s) \cap P
  BY <1>0, <1>5, <1>7, KeepDistinct
<1>10. theirs \in Seq(Object) /\ IsInjective(theirs) /\ ToSet(theirs) = ToSet(t) \cap Q
  BY <1>0, <1>6, <1>7, KeepDistinct
<1>11. ToSet(s) \subseteq Instance /\ ToSet(t) \subseteq Object
  BY DEF ToSet
<1>12. \A k \in ToSet(mine) : k \in H /\ T.parent[k] = x
  BY <1>0, <1>8, <1>9, <1>11
<1>13. \A k \in H : T.parent[k] = x => k \in ToSet(mine)
  BY <1>0, <1>1, <1>8, <1>9
<1>14. \A k \in ToSet(mine) : f[k] \in ToSet(theirs)
  BY <1>0, <1>2, <1>8, <1>10, <1>12
<1>15. \A o \in ToSet(theirs) : \E k \in ToSet(mine) : o = f[k]
  <2> SUFFICES ASSUME NEW o \in ToSet(theirs) PROVE \E k \in ToSet(mine) : o = f[k]
    OBVIOUS
  <2>1. o \in Object /\ v.netId[o] # 0 /\ v.tree.parent[o] = f[x]
    BY <1>0, <1>8, <1>10
  <2>2. o \notin v.tree.dead
    BY <1>1, <1>4, <2>1, ObjectFacts DEF IsTree
  <2>3. PICK k \in H : o = f[k]
    BY <1>2, <2>1, <2>2
  <2>4. T.parent[k] = x
    BY <1>0, <1>2, <1>3, <2>1, <2>3
  <2>5. QED BY <1>13, <2>3, <2>4
<1>16. ToSet(theirs) = {f[k] : k \in ToSet(mine)}
  BY <1>14, <1>15
<1>17. ASSUME NEW k \in ToSet(mine), NEW l \in ToSet(mine), Before(mine, k, l)
       PROVE  Before(theirs, f[k], f[l])
  <2>1. Before(s, k, l)
    BY <1>0, <1>5, <1>7, <1>17, BeforeKeep
  <2>2. k \in H /\ l \in H /\ T.parent[k] = x /\ T.parent[l] = x
    BY <1>12
  <2>3. <<k, l>> \in Siblings(T)
    BY <1>1, <1>5, <2>1, <2>2 DEF Siblings, Sane
  <2>4. Before(t, f[k], f[l])
    BY <1>1, <1>6, <2>2, <2>3 DEF Ordered
  <2>5. f[k] \in Q /\ f[l] \in Q
    BY <1>10, <1>14
  <2>6. QED BY <1>0, <1>6, <1>7, <2>4, <2>5, BeforeKeep
<1>18. Carries(f, mine, theirs)
  BY <1>3, <1>12, <1>16, <1>17 DEF Carries
<1>19. QED BY <1>9, <1>10, <1>18, CarriedList DEF Copied

\* An up-to-date client has the children of every instance in their order.
LEMMA SameChildrenHolds ==
    ASSUME Orderly, MirrorInv, Standing
    PROVE  SameChildren
<1>1. Stands(tree, hooked, netId, name)
  BY DEF Standing
<1>2. SUFFICES ASSUME NEW c \in Conns, UpToDate(c), NEW x \in Replicated \cup {game},
                      NEW mine, mine = KeepIn(tree.kids[x], Instance \ Hidden)
               PROVE  KeepIn(view[c].tree.kids[Image(c, x)],
                             {o \in Object : view[c].netId[o] # 0})
                        = [i \in 1..Len(mine) |-> Image(c, mine[i])]
  BY DEF SameChildren
<1>3. PICK f : /\ started /\ Tracks(view[c], f, tree, hooked, netId, name, owner)
               /\ \A y \in hooked \cup {game} : Image(c, y) = f[y] /\ f[y] \in Object
  BY <1>1, <1>2, UpToDateTracks
<1>4. /\ Replicated = hooked /\ hooked \cap Hidden = {}
      /\ \A k \in Instance \ Hidden : tree.parent[k] \in hooked \cup {game} => k \in hooked
  BY <1>1, <1>3, ReplicatedAreWatched
<1>5. x \in hooked \cup {game} /\ hooked \subseteq Instance
  BY <1>1, <1>2, <1>4 DEF Stands, Settled
<1>6. PICK v : v = view[c]
  OBVIOUS
<1>7. PICK T : T = tree
  OBVIOUS
<1>8. PICK H : H = hooked
  OBVIOUS
<1>9. PICK P : P = Instance \ Hidden
  OBVIOUS
<1>10. PICK Q : Q = {o \in Object : v.netId[o] # 0}
  OBVIOUS
<1>11. PICK theirs : theirs = KeepIn(v.tree.kids[f[x]], Q)
  OBVIOUS
<1>12. Stands(T, H, netId, name) /\ Tracks(v, f, T, H, netId, name, owner)
  BY <1>1, <1>3, <1>6, <1>7, <1>8
<1>13. /\ P \subseteq Instance /\ H \subseteq P
       /\ \A k \in P : T.parent[k] \in H \cup {game} => k \in H
  BY <1>4, <1>5, <1>7, <1>8, <1>9
<1>14. mine = KeepIn(T.kids[x], P)
  BY <1>2, <1>7, <1>9
<1>15. x \in H \cup {game}
  BY <1>5, <1>8
<1>16. theirs = [i \in 1..Len(mine) |-> f[mine[i]]]
  <2> PICK ids, nm, own : ids = netId /\ nm = name /\ own = owner
    OBVIOUS
  <2>1. /\ Stands(T, H, ids, nm) /\ Tracks(v, f, T, H, ids, nm, own)
        /\ KidsOf(v, f, T, H, x, P, Q, mine, theirs)
    BY <1>10, <1>11, <1>12, <1>13, <1>14, <1>15 DEF KidsOf
  <2>2. Copied(f, mine, theirs)
    BY <2>1, SameChildrenOf
  <2>3. QED BY <2>2 DEF Copied
<1>17. \A i \in 1..Len(mine) : Image(c, mine[i]) = f[mine[i]]
  <2>1. IsTree(T, Instance) /\ x \in Instance
    BY <1>5, <1>12, InstanceFacts, <1>8 DEF Stands, Settled
  <2>2. PICK s \in Seq(Instance) : s = T.kids[x]
    BY <2>1 DEF IsTree, Tree
  <2>3. mine \in Seq(Instance) /\ ToSet(mine) = ToSet(s) \cap P
    BY <1>14, <2>2, KeepDistinct
  <2>4. \A k \in Instance : k \in ToSet(s) => T.parent[k] = x
    BY <2>1, <2>2 DEF IsTree
  <2>5. ToSet(s) \subseteq Instance
    BY DEF ToSet
  <2>6. \A k \in ToSet(mine) : k \in H
    BY <1>13, <1>15, <2>3, <2>4, <2>5
  <2>7. \A i \in 1..Len(mine) : mine[i] \in ToSet(mine)
    BY <2>3 DEF ToSet
  <2>8. QED BY <1>3, <1>8, <2>6, <2>7
<1>18. Image(c, x) = f[x]
  BY <1>3, <1>5
<1>19. KeepIn(view[c].tree.kids[Image(c, x)], {o \in Object : view[c].netId[o] # 0}) = theirs
  BY <1>6, <1>10, <1>11, <1>18
<1>20. QED BY <1>16, <1>17, <1>19

\* Every client is well, connected or not.
LEMMA ClientsFine ==
    ASSUME MirrorInv, NEW c \in Conns
    PROVE  Fine(view[c])
<1>1. CASE status[c] = "open"
  <2>1. PICK w : Leads(view[c], chan[c], w)
    BY <1>1 DEF MirrorInv, OnCourse
  <2>2. QED BY <2>1, LeadsFine
<1>2. CASE status[c] # "open"
  BY <1>2, FreshFacts DEF MirrorInv, Fine
<1>3. QED BY <1>1, <1>2

\* A client that is up to date mirrors the server: nothing is missing, out of
\* order or left over, when no script moves an instance out of sight and no
\* name is a service's.
THEOREM UpToDateMirrors ==
    ASSUME Habits = {}, Names \cap Service = {}
    PROVE  Spec => []ClientMirrors
<1>1. Orderly => Standing
  BY OrderlyStands DEF Standing
<1>2. Orderly /\ MirrorInv /\ Standing => ClientMirrors
  BY CompleteHolds, SameChildrenHolds DEF ClientMirrors
<1>3. QED BY <1>1, <1>2, MirrorAlways, PTL

\* Such a client never takes a Player that has left for the owner of an instance.
THEOREM OwnersCurrent ==
    ASSUME Habits = {}, Names \cap Service = {}
    PROVE  Spec => []NoStaleOwner
<1>1. Orderly => Standing
  BY OrderlyStands DEF Standing
<1>2. Orderly /\ MirrorInv /\ Standing => NoStaleOwner
  BY CompleteHolds
<1>3. QED BY <1>1, <1>2, MirrorAlways, PTL

\* No client follows an instance into itself or runs out of objects.
THEOREM NoClientCrashes ==
    ASSUME Habits = {}, Names \cap Service = {}
    PROVE  Spec => []ClientsSurvive
<1>1. MirrorInv => ClientsSurvive
  BY ClientsFine DEF ClientsSurvive, Fine
<1>2. QED BY <1>1, MirrorAlways, PTL

\* The variables of the server and of every client keep their types.
THEOREM ReplicationTypes ==
    ASSUME Habits = {}, Names \cap Service = {}
    PROVE  Spec => []TypeOK
<1>1. MirrorInv /\ ServerTypeOK => TypeOK
  <2> SUFFICES ASSUME MirrorInv, ServerTypeOK, NEW c \in Conns PROVE ViewOK(view[c])
    BY DEF TypeOK
  <2>1. PICK v : v = view[c]
    OBVIOUS
  <2>2. v \in Views
    BY <2>1, ClientsFine DEF Fine
  <2>3. ViewOK(v)
    BY <2>2 DEF ViewOK, Views
  <2>4. QED BY <2>1, <2>3
<1>2. QED BY <1>1, MirrorAlways, ServerTypes, PTL
=============================================================================
