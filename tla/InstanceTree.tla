---------------------------- MODULE InstanceTree ----------------------------
(***************************************************************************)
(* The instance tree of Engine/FemkaDM/Instance, as operators on a value   *)
(* T = [parent, kids, dead]: m_parent, m_children and m_destroyed of every *)
(* object.  The server and each client hold such a tree.                   *)
(***************************************************************************)
EXTENDS FiniteSets, SequencesExt, Lists

CONSTANT Nil   \* nullptr

\* The type of a tree over a set of objects.
Tree(Object) == [parent : [Object -> Object \cup {Nil}],
                 kids   : [Object -> Seq(Object)],
                 dead   : SUBSET Object]

\* The next object of s.todo is seen, and its children come next; but not one
\* of the objects in skip.
Visit(T, skip, s) ==
    LET y == Head(s.todo)
    IN  IF s.todo = <<>> THEN s
        ELSE IF y \in skip THEN [s EXCEPT !.todo = Tail(@)]
        ELSE [seen |-> Append(s.seen, y), todo |-> T.kids[y] \o Tail(s.todo)]

\* What is seen and to do after each number of visits that start with x.
Visits(T, x, skip) ==
    LET after[n \in 0..Cardinality(DOMAIN T.kids)] ==
            IF n = 0 THEN [seen |-> <<>>, todo |-> <<x>>]
            ELSE Visit(T, skip, after[n - 1])
    IN  after

\* x followed by its descendants in the order in which Destroy, Watch and
\* CollectSnapshot visit them, leaving out the subtrees of the objects in skip.
Walk(T, x, skip) == Visits(T, x, skip)[Cardinality(DOMAIN T.kids)].seen

Subtree(T, x) == ToSet(Walk(T, x, {}))

\* FindFirstChild(Name), not recursive.
FindFirstChild(T, name, p, n) ==
    LET hits == KeepIn(T.kids[p], {k \in DOMAIN name : name[k] = n})
    IN  IF hits = <<>> THEN Nil ELSE Head(hits)

\* RemoveChild, for an object that may have no parent.
RemoveChild(kids, p, x) ==
    IF p = Nil THEN kids ELSE [kids EXCEPT ![p] = Without(@, x)]

AddChild(kids, p, x) ==
    IF p = Nil THEN kids ELSE [kids EXCEPT ![p] = Append(@, x)]

\* SetParent: a destroyed object is not moved; a move to the same parent makes
\* the object the last child.
SetParent(T, x, p) ==
    IF x \in T.dead THEN T
    ELSE [T EXCEPT !.parent[x] = p,
                   !.kids = AddChild(RemoveChild(@, T.parent[x], x), p, x)]

\* Destroy: the whole subtree dies, every object of it detached from its parent.
Destroy(T, x) ==
    LET S == Subtree(T, x)
    IN  IF x \in T.dead THEN T
        ELSE [parent |-> [y \in DOMAIN T.parent |->
                             IF y \in S THEN Nil ELSE T.parent[y]],
              kids   |-> [y \in DOMAIN T.kids |->
                             IF y \in S THEN <<>>
                             ELSE Without(T.kids[y], x)],
              dead   |-> T.dead \cup S]
=============================================================================
