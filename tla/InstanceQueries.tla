--------------------------- MODULE InstanceQueries ---------------------------
(***************************************************************************)
(* What scripts ask of a tree of instances, and its deep copy              *)
(* (Engine/FemkaDM/Instance.cpp), with the class registry they go through  *)
(* (Engine/Reflection).                                                    *)
(*                                                                         *)
(* A tree is a record: the children of every instance in order (m_children)*)
(* and its m_parent (NoOne for none), m_name, m_className, m_archivable    *)
(* and m_lockedProps.  Instances are numbers.                              *)
(***************************************************************************)
EXTENDS Naturals, FiniteSets, SequencesExt, TLC

NoOne == 0
Nodes(t) == DOMAIN t.parent
Children(t, i) == t.children[i]

\* The first member of a sequence that passes a test, NoOne if none does.
FirstThat(s, Test(_)) ==
    LET hits == SelectSeq(s, Test) IN IF hits = <<>> THEN NoOne ELSE hits[1]

-----------------------------------------------------------------------------
(* Queries. *)

RECURSIVE GetDescendants(_, _)
GetDescendants(t, i) ==
    FlattenSeq([k \in DOMAIN Children(t, i) |->
        <<Children(t, i)[k]>> \o GetDescendants(t, Children(t, i)[k])])

RECURSIVE FindFirstChild(_, _, _, _), FindAmong(_, _, _, _), FindShallow(_, _, _, _)

\* Mutant of FindAmong: all the children before any of their own children.
FindShallow(t, kids, name, recursive) ==
    LET here == FirstThat(kids, LAMBDA c : t.name[c] = name)
        below == FirstThat([k \in DOMAIN kids |-> FindFirstChild(t, kids[k], name, TRUE)],
                           LAMBDA found : found # NoOne)
    IN  IF here # NoOne THEN here ELSE IF recursive THEN below ELSE NoOne

FindAmong(t, kids, name, recursive) ==
    IF kids = <<>> THEN NoOne
    ELSE IF t.name[Head(kids)] = name THEN Head(kids)
    ELSE LET found == IF recursive THEN FindFirstChild(t, Head(kids), name, TRUE) ELSE NoOne
         IN  IF found # NoOne THEN found ELSE FindAmong(t, Tail(kids), name, recursive)

FindFirstChild(t, i, name, recursive) == FindAmong(t, Children(t, i), name, recursive)

\* IsA of a class adds its own name to those of its base; PVInstance is the one
\* class between another and Instance.  (A copy is a bare Instance, whatever
\* its class: IsA is not asked of copies here.)
Bases(class) == IF class = "BasePart" THEN {"PVInstance", "Instance"} ELSE {"Instance"}
IsA(t, i, class) == class \in {t.class[i]} \cup Bases(t.class[i])

FindFirstChildOfClass(t, i, class) == FirstThat(Children(t, i), LAMBDA c : t.class[c] = class)
FindFirstChildWhichIsA(t, i, class) == FirstThat(Children(t, i), LAMBDA c : IsA(t, c, class))

\* The first of i's ancestors, nearest first, that is one of hits.
RECURSIVE Climb(_, _, _)
Climb(t, i, hits) ==
    LET up == t.parent[i]
    IN  IF up \in hits \cup {NoOne} THEN up ELSE Climb(t, up, hits)

FindFirstAncestor(t, i, name) == Climb(t, i, {a \in Nodes(t) : t.name[a] = name})
FindFirstAncestorWhichIsA(t, i, class) == Climb(t, i, {a \in Nodes(t) : IsA(t, a, class)})
IsDescendantOf(t, i, ancestor) == Climb(t, i, {ancestor}) # NoOne
IsAncestorOf(t, i, descendant) == IsDescendantOf(t, descendant, i)

RECURSIVE GetFullName(_, _)
GetFullName(t, i) ==
    IF t.parent[i] = NoOne THEN <<t.name[i]>> ELSE GetFullName(t, t.parent[i]) \o <<t.name[i]>>

\* The instances whose DescendantAdded (or DescendantRemoving) fires, in order.
RECURSIVE FireDescendant(_, _)
FireDescendant(t, i) ==
    IF i = NoOne THEN <<>> ELSE <<i>> \o FireDescendant(t, t.parent[i])

-----------------------------------------------------------------------------
(* Locked properties, the class registry and indexing from Lua. *)

IsPropertyLocked(t, i, prop) == Contains(t.locked[i], prop)
LockProperty(t, i, prop) ==
    IF IsPropertyLocked(t, i, prop) THEN t ELSE [t EXCEPT !.locked[i] = Append(@, prop)]
UnlockProperty(t, i, prop) == [t EXCEPT !.locked[i] = SelectSeq(@, LAMBDA p : p # prop)]

\* registry: the class descriptors that are registered, each with its base
\* class and the set of its properties.  The class of the chain that has
\* property key; "" if none does.
RECURSIVE Owner(_, _, _)
Owner(registry, class, key) ==
    IF class \notin DOMAIN registry THEN ""
    ELSE IF key \in registry[class].props THEN class
    ELSE Owner(registry, registry[class].base, key)

\* A property hides a child of the same name.
InstanceIndex(registry, t, i, key) ==
    LET owner == Owner(registry, t.class[i], key)
    IN  IF owner # "" THEN <<"property", owner>>
        ELSE IF FindFirstChild(t, i, key, FALSE) = NoOne THEN <<"nil">>
        ELSE <<"child", FindFirstChild(t, i, key, FALSE)>>

\* Whether an assignment from Lua calls a setter: never on a locked property.
InstanceNewIndex(registry, t, i, key) ==
    Owner(registry, t.class[i], key) # "" /\ ~IsPropertyLocked(t, i, key)

\* BindAllToLua over the classes in the order of the hash table: binders has
\* the classes with a BindLua; bound is the order in which they are called.
RECURSIVE BindOne(_, _, _, _)
BindOne(registry, binders, class, bound) ==
    IF Contains(bound, class) \/ class \notin binders THEN bound
    ELSE LET base == registry[class].base
             before == IF class \in DOMAIN registry /\ base # ""
                       THEN BindOne(registry, binders, base, bound) ELSE bound
         IN  Append(before, class)

BindAllToLua(registry, binders, order) ==
    FoldLeft(LAMBDA bound, class : BindOne(registry, binders, class, bound), <<>>, order)

-----------------------------------------------------------------------------
(* Clone. *)

\* The tree t with one more instance, like i, without parent or children
\* (m_filterMode, which no query reads, is copied too).
CopyOf(t, i) ==
    LET new == Cardinality(Nodes(t)) + 1
    IN  [parent |-> t.parent @@ (new :> NoOne), children |-> t.children @@ (new :> <<>>),
         name |-> t.name @@ (new :> t.name[i]), class |-> t.class @@ (new :> t.class[i]),
         archivable |-> t.archivable @@ (new :> t.archivable[i]),
         locked |-> t.locked @@ (new :> t.locked[i])]

SetParent(t, i, parent) ==
    [t EXCEPT !.parent[i] = parent, !.children[parent] = Append(@, i)]

RECURSIVE Clone(_, _), CloneImpl(_, _), CloneAll(_, _)

\* Mutant of CloneImpl: m_archivable is not looked at.
CloneAll(t, i) ==
    LET copy == Cardinality(Nodes(t)) + 1
        AddCopy(u, child) == SetParent(CloneImpl(u, child), Cardinality(Nodes(u)) + 1, copy)
    IN  FoldLeft(AddCopy, CopyOf(t, i), Children(t, i))

\* CloneImpl: the tree with the copy, whose number is the one after t's last.
CloneImpl(t, i) ==
    LET copy == Cardinality(Nodes(t)) + 1
        AddCopy(u, child) ==
            IF ~t.archivable[child] THEN u
            ELSE SetParent(Clone(u, child), Cardinality(Nodes(u)) + 1, copy)
    IN  FoldLeft(AddCopy, CopyOf(t, i), Children(t, i))

Clone(t, i) == IF t.archivable[i] THEN CloneImpl(t, i) ELSE t

-----------------------------------------------------------------------------
(* What they should give. *)

\* Instances below i, by the parents alone.
Below(t, i) ==
    {j \in Nodes(t) : \E path \in UNION {[1..n -> Nodes(t)] : n \in 2..Cardinality(Nodes(t))} :
        /\ path[1] = j /\ path[Len(path)] = i
        /\ \A k \in 1..Len(path) - 1 : t.parent[path[k]] = path[k + 1]}

Agree(t, names) ==
    \A i \in Nodes(t) :
        LET all == GetDescendants(t, i)
            ups == Tail(FireDescendant(t, i))
        IN  /\ ToSet(all) = Below(t, i) /\ IsInjective(all)
            /\ \A k \in DOMAIN all : t.parent[all[k]] \in {i} \cup ToSet(SubSeq(all, 1, k - 1))
            /\ \A j \in Nodes(t) : /\ IsDescendantOf(t, j, i) <=> j \in Below(t, i)
                                   /\ IsAncestorOf(t, j, i) <=> j \in ToSet(ups)
            /\ \A n \in names :
                /\ FindFirstChild(t, i, n, TRUE) = FirstThat(all, LAMBDA j : t.name[j] = n)
                /\ FindFirstChild(t, i, n, FALSE) =
                        FirstThat(all, LAMBDA j : t.name[j] = n /\ t.parent[j] = i)
                /\ FindFirstAncestor(t, i, n) = FirstThat(ups, LAMBDA j : t.name[j] = n)
            /\ \A c \in {"PVInstance", "DataModel"} :
                LET Fits(j) == t.class[j] \in {c, IF c = "PVInstance" THEN "BasePart" ELSE c}
                IN  /\ FindFirstChildWhichIsA(t, i, c) =
                            FirstThat(all, LAMBDA j : Fits(j) /\ t.parent[j] = i)
                    /\ FindFirstAncestorWhichIsA(t, i, c) = FirstThat(ups, Fits)
                    /\ FindFirstChildOfClass(t, i, c) =
                            IF c = "PVInstance" THEN NoOne ELSE FindFirstChildWhichIsA(t, i, c)
            /\ Reverse(GetFullName(t, i)) = <<t.name[i]>> \o [k \in DOMAIN ups |-> t.name[ups[k]]]

\* Instances below i that Clone copies: archivable, as all between them and i.
Archived(t, i) ==
    {j \in Below(t, i) : \A a \in Below(t, i) : a = j \/ j \in Below(t, a) => t.archivable[a]}

\* A copy has the archived instances of its original in their order, each
\* under the copy of its parent, with their names, classes and locks, shares
\* nothing with the original, and leaves it as it was; there is none of an
\* instance that is not archivable.
Mirrors(t, i) ==
    LET copy   == Cardinality(Nodes(t)) + 1
        both   == Clone(t, i)
        olds   == <<i>> \o SelectSeq(GetDescendants(t, i), LAMBDA j : j \in Archived(t, i))
        copies == <<copy>> \o GetDescendants(both, copy)
    IN  IF ~t.archivable[i] THEN both = t ELSE
        /\ Len(copies) = Len(olds) /\ IsInjective(copies)
        /\ ToSet(copies) \cap Nodes(t) = {}
        /\ both.parent[copy] = NoOne
        /\ \A k \in DOMAIN olds :
            /\ both.name[copies[k]] = t.name[olds[k]] /\ both.class[copies[k]] = t.class[olds[k]]
            /\ both.locked[copies[k]] = t.locked[olds[k]]
            /\ \A m \in DOMAIN olds :
                both.parent[copies[k]] = copies[m] <=> k > 1 /\ t.parent[olds[k]] = olds[m]
        /\ \A j \in Nodes(t) : both.children[j] = t.children[j] /\ both.parent[j] = t.parent[j]

\* Every class with a binder is bound once, after the base it needs.
BasesFirst(registry, binders, order) ==
    LET bound == BindAllToLua(registry, binders, order)
    IN  /\ ToSet(bound) = binders /\ IsInjective(bound)
        /\ \A k \in DOMAIN bound :
            registry[bound[k]].base \in binders => Contains(SubSeq(bound, 1, k - 1), registry[bound[k]].base)

\* However the list of locks came about, a property is writable from Lua when
\* it is not locked, and what can be assigned can be read although a child has
\* its name.
LocksAgree(registry, t, i, keys) ==
    \A lock, unlock, key \in keys :
        LET u == UnlockProperty(LockProperty(t, i, lock), i, unlock)
            owner == Owner(registry, t.class[i], key)
            locked == (ToSet(t.locked[i]) \cup {lock}) \ {unlock}
        IN  /\ InstanceNewIndex(registry, u, i, key) <=> owner # "" /\ key \notin locked
            /\ InstanceNewIndex(registry, u, i, key) => InstanceIndex(registry, u, i, key) = <<"property", owner>>
=============================================================================
