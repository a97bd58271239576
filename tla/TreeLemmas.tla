----------------------------- MODULE TreeLemmas -----------------------------
(***************************************************************************)
(* Lemmas on trees of instances: what a walk visits, and that SetParent    *)
(* and Destroy keep a tree a tree.                                         *)
(***************************************************************************)
EXTENDS InstanceTree, ListLemmas, FiniteSetTheorems

\* m_parent and m_children agree; nothing is above itself; a destroyed object
\* is detached.
IsTree(T, O) ==
    /\ T \in Tree(O)
    /\ \A p \in O : IsInjective(T.kids[p])
    /\ \A p, k \in O : k \in ToSet(T.kids[p]) <=> T.parent[k] = p
    /\ \A S \in SUBSET O : S # {} => \E y \in S : T.parent[y] \notin S
    /\ \A y \in T.dead : T.parent[y] = Nil

\* With an object, S has its children that are not in skip.
Closed(T, S, skip) == \A y \in S : ToSet(T.kids[y]) \subseteq S \cup skip

\* A walk in progress over the objects O.
Progress(O) == [seen : Seq(O), todo : Seq(O)]

\* Where a walk from x is when it has looked at the objects in P.
WalkInv(T, O, x, skip, s, P) ==
    /\ ToSet(s.seen) = P \ skip /\ IsInjective(s.seen)
    /\ ToSet(s.todo) \cap P = {} /\ IsInjective(s.todo)
    /\ \/ P = {} /\ s.todo = <<x>>
       \/ x \in P /\ (x \notin skip => s.seen # <<>> /\ s.seen[1] = x)
    /\ \A y \in P \cup ToSet(s.todo) : y # x => T.parent[y] \in P \ skip
    /\ \A y \in P \ skip : ToSet(T.kids[y]) \subseteq P \cup ToSet(s.todo)
    /\ \A S \in SUBSET O : x \in S /\ Closed(T, S, skip) =>
          P \subseteq S \cup skip /\ ToSet(s.todo) \subseteq S \cup skip

LEMMA ToSetEmpty ==
    ASSUME NEW S, NEW s \in Seq(S)
    PROVE  ToSet(s) = {} <=> s = <<>>
<1>1. ToSet(<<>>) = {}
  BY DEF ToSet
<1>2. ASSUME s # <<>> PROVE s[1] \in ToSet(s)
  BY <1>2, EmptySeq, HeadTailProperties DEF ToSet
<1>3. QED BY <1>1, <1>2

\* Looking at the next object keeps the invariant of the walk.
LEMMA VisitKeeps ==
    ASSUME NEW O, NEW T, IsTree(T, O), NEW skip, NEW x \in O,
           NEW s \in Progress(O), NEW P \in SUBSET O,
           WalkInv(T, O, x, skip, s, P), s.todo # <<>>
    PROVE  /\ Visit(T, skip, s) \in Progress(O)
           /\ Head(s.todo) \in O \ P
           /\ WalkInv(T, O, x, skip, Visit(T, skip, s), P \cup {Head(s.todo)})
<1>1. PICK seen \in Seq(O), todo \in Seq(O) : s.seen = seen /\ s.todo = todo
  BY DEF Progress
<1>2. PICK y \in O, rest \in Seq(O) :
         /\ Head(todo) = y /\ Tail(todo) = rest /\ y = todo[1]
         /\ ToSet(todo) = {y} \cup ToSet(rest)
         /\ y \notin ToSet(rest) /\ IsInjective(rest)
  <2>1. todo # <<>> /\ IsInjective(todo)
    BY <1>1 DEF WalkInv
  <2>2. QED BY <2>1, HeadAndTail
<1>3. y \in O \ P
  BY <1>1, <1>2 DEF WalkInv
<1>4. s = [seen |-> seen, todo |-> todo]
  BY <1>1 DEF Progress
<1>5. /\ ToSet(seen) = P \ skip /\ IsInjective(seen)
      /\ ToSet(todo) \cap P = {}
      /\ \/ P = {} /\ todo = <<x>>
         \/ x \in P /\ (x \notin skip => seen # <<>> /\ seen[1] = x)
      /\ \A z \in P \cup ToSet(todo) : z # x => T.parent[z] \in P \ skip
      /\ \A z \in P \ skip : ToSet(T.kids[z]) \subseteq P \cup ToSet(todo)
      /\ \A S \in SUBSET O : x \in S /\ Closed(T, S, skip) =>
          P \subseteq S \cup skip /\ ToSet(todo) \subseteq S \cup skip
  BY <1>1 DEF WalkInv
<1>6. PICK Q \in SUBSET O : Q = P \cup {y}
  OBVIOUS
<1>7. \/ P = {} /\ y = x /\ rest = <<>>
      \/ x \in P /\ (x \notin skip => seen # <<>> /\ seen[1] = x)
  <2>1. ASSUME todo = <<x>> PROVE y = x /\ rest = <<>>
    BY <1>2, <2>1
  <2>2. QED BY <1>5, <2>1
<1>8. CASE y \in skip
  <2>1. Visit(T, skip, s) = [seen |-> seen, todo |-> rest]
    BY <1>1, <1>2, <1>4, <1>8 DEF Visit
  <2>2. PICK v \in Progress(O) : v = [seen |-> seen, todo |-> rest]
    BY DEF Progress
  <2>3. v.seen = seen /\ v.todo = rest
    BY <2>2
  <2>4. ToSet(seen) = Q \ skip /\ ToSet(rest) \cap Q = {}
    BY <1>2, <1>5, <1>6, <1>8
  <2>5. x \in Q /\ (x \notin skip => seen # <<>> /\ seen[1] = x)
    BY <1>6, <1>7, <1>8
  <2>6. \A z \in Q \cup ToSet(rest) : z # x => T.parent[z] \in Q \ skip
    BY <1>2, <1>5, <1>6
  <2>7. \A z \in Q \ skip : ToSet(T.kids[z]) \subseteq Q \cup ToSet(rest)
    BY <1>2, <1>5, <1>6, <1>8
  <2>8. \A S \in SUBSET O : x \in S /\ Closed(T, S, skip) =>
          Q \subseteq S \cup skip /\ ToSet(rest) \subseteq S \cup skip
    BY <1>2, <1>5, <1>6
  <2>9. WalkInv(T, O, x, skip, v, Q)
    BY <1>2, <1>5, <2>3, <2>4, <2>5, <2>6, <2>7, <2>8 DEF WalkInv
  <2>10. QED BY <1>1, <1>2, <1>3, <1>6, <2>1, <2>2, <2>9
<1>9. CASE y \notin skip
  <2>1. PICK k \in Seq(O) : T.kids[y] = k
    BY DEF IsTree, Tree
  <2>2. IsInjective(k) /\ \A z \in O : z \in ToSet(k) <=> T.parent[z] = y
    BY <2>1 DEF IsTree
  <2>3. ToSet(k) \subseteq O
    BY ToSetTyped
  <2>4. \A S \in SUBSET O : S # {} => \E z \in S : T.parent[z] \notin S
    BY DEF IsTree
  <2>5. PICK next \in Seq(O) : next = k \o rest
    BY ConcatProperties
  <2>6. PICK told \in Seq(O) : told = Append(seen, y)
    BY AppendProperties
  <2>7. Visit(T, skip, s) = [seen |-> told, todo |-> next]
    BY <1>1, <1>2, <1>4, <1>9, <2>1, <2>5, <2>6 DEF Visit
  <2>8. PICK v \in Progress(O) : v = [seen |-> told, todo |-> next]
    BY DEF Progress
  <2>9. v.seen = told /\ v.todo = next
    BY <2>8
  <2>10. ToSet(next) = ToSet(k) \cup ToSet(rest)
    BY <2>5, ToSetConcat
  <2>11. ToSet(told) = ToSet(seen) \cup {y} /\ IsInjective(told)
    <3>1. y \notin ToSet(seen)
      BY <1>3, <1>5
    <3>2. QED BY <1>5, <2>6, <3>1, ToSetAppend, AppendDistinct
  <2>12. ToSet(k) \cap Q = {}
    <3> SUFFICES ASSUME NEW z \in O, z \in ToSet(k), z \in Q PROVE FALSE
      BY <2>3
    <3>1. T.parent[z] = y
      BY <2>2
    <3>2. CASE z = y
      <4>1. {y} \in SUBSET O /\ {y} # {}
        OBVIOUS
      <4>2. T.parent[y] \notin {y}
        BY <2>4, <4>1
      <4>3. QED BY <3>1, <3>2, <4>2
    <3>3. CASE z \in P /\ z # x
      BY <1>3, <1>5, <3>1, <3>3
    <3>4. CASE z \in P /\ z = x
      <4> DEFINE R == (P \ skip) \cup {y, x}
      <4>1. \A w \in R : T.parent[w] \in R
        <5>1. \A w \in P : w # x => T.parent[w] \in P \ skip
          BY <1>5
        <5>2. y # x => T.parent[y] \in P \ skip
          BY <1>2, <1>5
        <5>3. T.parent[x] = y
          BY <3>1, <3>4
        <5>4. QED BY <5>1, <5>2, <5>3
      <4>2. R \in SUBSET O /\ R # {}
        OBVIOUS
      <4> HIDE DEF R
      <4>3. QED BY <2>4, <4>1, <4>2
    <3>5. QED BY <1>6, <3>2, <3>3, <3>4
  <2>13. ToSet(k) \cap ToSet(rest) = {}
    <3> SUFFICES ASSUME NEW z \in O, z \in ToSet(k), z \in ToSet(rest) PROVE FALSE
      BY <2>3
    <3>1. T.parent[z] = y
      BY <2>2
    <3>2. z # x
      <4>1. rest # <<>>
        BY ToSetEmpty
      <4>2. x \in P
        BY <1>7, <4>1
      <4>3. QED BY <1>2, <1>5, <4>2
    <3>3. QED BY <1>2, <1>3, <1>5, <3>1, <3>2
  <2>14. IsInjective(next)
    BY <1>2, <2>2, <2>5, <2>13, ConcatDistinct
  <2>15. ToSet(next) \cap Q = {} /\ ToSet(told) = Q \ skip
    BY <1>2, <1>5, <1>6, <1>9, <2>10, <2>11, <2>12
  <2>16. x \in Q /\ (x \notin skip => told # <<>> /\ told[1] = x)
    <3>1. CASE P = {} /\ y = x
      <4>1. ToSet(seen) = {}
        BY <1>5, <3>1
      <4>2. seen = <<>>
        BY <4>1, ToSetEmpty
      <4>3. told = <<x>>
        BY <2>6, <3>1, <4>2
      <4>4. QED BY <1>6, <3>1, <4>3
    <3>2. CASE x \in P /\ (x \notin skip => seen # <<>> /\ seen[1] = x)
      <4>1. ASSUME seen # <<>> PROVE told # <<>> /\ told[1] = seen[1]
        <5>1. Len(seen) \in Nat /\ Len(seen) # 0
          BY <4>1, EmptySeq
        <5>2. QED BY <2>6, <5>1, AppendProperties
      <4>2. QED BY <1>6, <3>2, <4>1
    <3>3. QED BY <1>7, <3>1, <3>2
  <2>17. \A z \in Q \cup ToSet(next) : z # x => T.parent[z] \in Q \ skip
    BY <1>2, <1>5, <1>6, <1>9, <2>2, <2>3, <2>10
  <2>18. \A z \in Q \ skip : ToSet(T.kids[z]) \subseteq Q \cup ToSet(next)
    BY <1>2, <1>5, <1>6, <2>1, <2>10
  <2>19. \A S \in SUBSET O : x \in S /\ Closed(T, S, skip) =>
          Q \subseteq S \cup skip /\ ToSet(next) \subseteq S \cup skip
    BY <1>2, <1>5, <1>6, <1>9, <2>1, <2>10 DEF Closed
  <2>20. WalkInv(T, O, x, skip, v, Q)
    BY <2>9, <2>11, <2>14, <2>15, <2>16, <2>17, <2>18, <2>19 DEF WalkInv
  <2>21. QED BY <1>1, <1>2, <1>3, <1>6, <2>7, <2>8, <2>20
<1>10. QED BY <1>8, <1>9

\* Walk, visit by visit.
LEMMA VisitsSteps ==
    ASSUME NEW O, IsFiniteSet(O), NEW T, T \in Tree(O), NEW skip, NEW x \in O
    PROVE  /\ Cardinality(O) \in Nat
           /\ Visits(T, x, skip) \in [0..Cardinality(O) -> Progress(O)]
           /\ Visits(T, x, skip)[0] = [seen |-> <<>>, todo |-> <<x>>]
           /\ \A n \in 1..Cardinality(O) :
                 Visits(T, x, skip)[n] = Visit(T, skip, Visits(T, x, skip)[n - 1])
           /\ Walk(T, x, skip) = Visits(T, x, skip)[Cardinality(O)].seen
<1> DEFINE N == Cardinality(O)
           L == Progress(O)
           first == [seen |-> <<>>, todo |-> <<x>>]
           Next(s) == Visit(T, skip, s)
           g == [n \in 1..N |-> [s \in L |-> Next(s)]]
           Rec(f) == f = [n \in 0..N |-> IF n = 0 THEN first ELSE Next(f[n - 1])]
<1>1. N \in Nat /\ first \in L
  BY FS_CardinalityType, EmptySeq DEF Progress
<1>2. ASSUME NEW s \in L PROVE Next(s) \in L
  <2>0. PICK a \in Seq(O), b \in Seq(O) : s = [seen |-> a, todo |-> b]
    BY DEF Progress
  <2>1. s.seen \in Seq(O) /\ s.todo \in Seq(O) /\ s.seen = a /\ s.todo = b
    BY <2>0
  <2>2. CASE s.todo = <<>>
    BY <2>2 DEF Visit
  <2>3. CASE s.todo # <<>>
    <3>1. Head(s.todo) \in O /\ Tail(s.todo) \in Seq(O)
      BY <2>1, <2>3, HeadAndTail
    <3>2. T.kids[Head(s.todo)] \in Seq(O)
      BY <3>1 DEF Tree
    <3>3. /\ Append(s.seen, Head(s.todo)) \in Seq(O)
          /\ T.kids[Head(s.todo)] \o Tail(s.todo) \in Seq(O)
      BY <2>1, <3>1, <3>2, AppendProperties, ConcatProperties
    <3>4. [s EXCEPT !.todo = Tail(@)] = [seen |-> s.seen, todo |-> Tail(s.todo)]
      <4>1. PICK c : c = Tail(s.todo)
        OBVIOUS
      <4>2. [s EXCEPT !.todo = c] = [seen |-> a, todo |-> c]
        <5> HIDE DEF g, L, N, Next, Rec, first
        <5>1. QED BY <2>0
      <4>3. QED BY <2>1, <4>1, <4>2
    <3>5. QED BY <2>1, <2>3, <3>1, <3>3, <3>4 DEF Visit, Progress
  <2>4. QED BY <2>2, <2>3
<1>3. g \in [1..N -> [L -> L]]
  BY <1>2
<1>4. \A n \in 1..N, s \in L : g[n][s] = Next(s)
  BY <1>2
<1> DEFINE F == CHOOSE h : Rec(h)
<1>5. DOMAIN T.kids = O
  BY DEF Tree
<1>6. Visits(T, x, skip) = F
  BY <1>5 DEF Visits
<1> HIDE DEF g, L, N, Next, F, Rec, first
<1>7. \E f \in [0..N -> L] : f[0] = first /\ \A n \in 1..N : f[n] = g[n][f[n - 1]]
  <2>1. PICK M \in Nat : M = N
    BY <1>1
  <2>2. PICK K : K = L
    OBVIOUS
  <2>3. PICK h \in [1..M -> [K -> K]] : h = g
    BY <1>3, <2>1, <2>2
  <2>4. PICK a \in K : a = first
    BY <1>1, <2>2
  <2>5. \E f \in [0..M -> K] : f[0] = a /\ \A n \in 1..M : f[n] = h[n][f[n - 1]]
    BY RecursionExists, SMTT(60)
  <2>6. QED BY <2>1, <2>2, <2>3, <2>4, <2>5
<1> USE DEF Rec
<1>8. PICK f \in [0..N -> L] : f[0] = first /\ \A n \in 1..N : f[n] = Next(f[n - 1])
  <2>1. \A f \in [0..N -> L], n \in 1..N : f[n - 1] \in L
    BY <1>1
  <2>2. QED BY <1>4, <1>7, <2>1
<1>9. Rec(f)
  <2>1. \A n \in 0..N : n = 0 \/ n \in 1..N
    BY <1>1
  <2>2. QED BY <1>8, <2>1
<1>10. Rec(F)
  BY <1>9 DEF F
<1>11. F[0] = first /\ \A n \in 1..N : F[n] = Next(F[n - 1])
  BY <1>1, <1>10
<1>12. \A n \in 0..N : F[n] \in L
  <2> DEFINE D == {n \in 0..N : F[n] \in L}
  <2>1. 0 \in D
    BY <1>1, <1>11
  <2>2. ASSUME NEW n \in 1..N, n - 1 \in D PROVE n \in D
    <3>1. F[n - 1] \in L
      BY <2>2
    <3>2. QED BY <1>1, <1>2, <1>11, <3>1
  <2> HIDE DEF D
  <2>3. 0..N \subseteq D
    BY <1>1, <2>1, <2>2, UpTo
  <2>4. QED BY <2>3 DEF D
<1>13. F \in [0..N -> L]
  BY <1>10, <1>12
<1>14. Walk(T, x, skip) = F[N].seen
  BY <1>5, <1>6 DEF Walk, N
<1>15. QED BY <1>1, <1>6, <1>11, <1>13, <1>14 DEF L, N, Next, first

\* A walk from x visits every object once that is reached from x along children
\* outside of skip, x first, and no others.
LEMMA WalkProperties ==
    ASSUME NEW O, IsFiniteSet(O), NEW T, IsTree(T, O), NEW skip, NEW x \in O
    PROVE  /\ Walk(T, x, skip) \in Seq(O)
           /\ IsInjective(Walk(T, x, skip))
           /\ ToSet(Walk(T, x, skip)) \cap skip = {}
           /\ x \notin skip => Walk(T, x, skip) # <<>> /\ Walk(T, x, skip)[1] = x
           /\ Closed(T, ToSet(Walk(T, x, skip)), skip)
           /\ \A y \in ToSet(Walk(T, x, skip)) :
                 y # x => T.parent[y] \in ToSet(Walk(T, x, skip))
           /\ \A S \in SUBSET O :
                 x \in S /\ Closed(T, S, skip) => ToSet(Walk(T, x, skip)) \subseteq S
<1>0. PICK N \in Nat : N = Cardinality(O)
  BY FS_CardinalityType
<1>1. PICK f \in [0..N -> Progress(O)] :
         /\ f[0] = [seen |-> <<>>, todo |-> <<x>>]
         /\ \A n \in 1..N : f[n] = Visit(T, skip, f[n - 1])
         /\ Walk(T, x, skip) = f[N].seen
  <2>1. T \in Tree(O)
    BY DEF IsTree
  <2>2. PICK f : f = Visits(T, x, skip)
    OBVIOUS
  <2>3. QED BY <1>0, <2>1, <2>2, VisitsSteps
<1> DEFINE Good(n, P) == /\ WalkInv(T, O, x, skip, f[n], P)
                         /\ f[n].todo = <<>> \/ Cardinality(P) = n
           D == {n \in 0..N : \E P \in SUBSET O : Good(n, P)}
<1>2. 0 \in D
  <2> DEFINE P == {}
             s == f[0]
  <2>1. s.seen = <<>> /\ s.todo = <<x>> /\ ToSet(s.todo) = {x} /\ ToSet(s.seen) = {}
    BY <1>1 DEF ToSet
  <2>2. IsInjective(s.seen) /\ IsInjective(s.todo)
    BY <2>1 DEF IsInjective
  <2>3. WalkInv(T, O, x, skip, s, P)
    BY <2>1, <2>2 DEF WalkInv
  <2>4. Cardinality({}) = 0
    BY FS_EmptySet
  <2>5. QED BY <1>1, <2>3, <2>4
<1>3. ASSUME NEW n \in 1..N, n - 1 \in D PROVE n \in D
  <2>1. PICK P \in SUBSET O : Good(n - 1, P)
    BY <1>3
  <2>2. PICK s \in Progress(O) : s = f[n - 1]
    BY <1>1
  <2>3. f[n] = Visit(T, skip, s)
    BY <1>1, <2>2
  <2>4. WalkInv(T, O, x, skip, s, P) /\ (s.todo = <<>> \/ Cardinality(P) = n - 1)
    BY <2>1, <2>2
  <2>5. CASE s.todo = <<>>
    <3>1. f[n] = s
      BY <2>3, <2>5 DEF Visit
    <3>2. Good(n, P)
      BY <2>4, <2>5, <3>1
    <3> HIDE DEF Good
    <3>3. QED BY <3>2
  <2>6. CASE s.todo # <<>>
    <3>1. PICK y \in O \ P : y = Head(s.todo)
      BY <2>4, <2>6, VisitKeeps
    <3>2. WalkInv(T, O, x, skip, f[n], P \cup {y})
      BY <2>3, <2>4, <2>6, <3>1, VisitKeeps
    <3>3. IsFiniteSet(P)
      BY FS_Subset
    <3>4. Cardinality(P \cup {y}) = Cardinality(P) + 1
      BY <3>1, <3>3, FS_AddElement
    <3>5. Good(n, P \cup {y})
      BY <2>4, <2>6, <3>2, <3>4
    <3> HIDE DEF Good
    <3>6. P \cup {y} \in SUBSET O
      OBVIOUS
    <3>7. QED BY <3>5, <3>6
  <2>7. QED BY <2>5, <2>6
<1> HIDE DEF D
<1>4. N \in D
  <2>1. 0..N \subseteq D
    BY <1>2, <1>3, UpTo
  <2>2. QED BY <2>1
<1>5. PICK P \in SUBSET O : Good(N, P)
  BY <1>4 DEF D
<1>6. PICK seen \in Seq(O), todo \in Seq(O) : f[N].seen = seen /\ f[N].todo = todo
  BY <1>1 DEF Progress
<1>7. /\ ToSet(seen) = P \ skip /\ IsInjective(seen)
      /\ ToSet(todo) \cap P = {}
      /\ \/ P = {} /\ todo = <<x>>
         \/ x \in P /\ (x \notin skip => seen # <<>> /\ seen[1] = x)
      /\ \A z \in P \cup ToSet(todo) : z # x => T.parent[z] \in P \ skip
      /\ \A z \in P \ skip : ToSet(T.kids[z]) \subseteq P \cup ToSet(todo)
      /\ \A S \in SUBSET O : x \in S /\ Closed(T, S, skip) =>
            P \subseteq S \cup skip /\ ToSet(todo) \subseteq S \cup skip
  BY <1>5, <1>6 DEF WalkInv
<1>8. todo = <<>>
  <2> SUFFICES ASSUME todo # <<>> PROVE FALSE
    OBVIOUS
  <2>1. Cardinality(P) = Cardinality(O)
    BY <1>0, <1>5, <1>6
  <2>2. P = O
    BY <2>1, FS_Subset
  <2>3. ToSet(todo) \subseteq O
    BY ToSetTyped
  <2>4. ToSet(todo) = {}
    BY <1>7, <2>2, <2>3
  <2>5. QED BY <2>4, ToSetEmpty
<1>9. ToSet(todo) = {}
  BY <1>8 DEF ToSet
<1>10. P # {}
  BY <1>7, <1>8
<1>11. x \in P /\ (x \notin skip => seen # <<>> /\ seen[1] = x)
  BY <1>7, <1>10
<1>12. Closed(T, ToSet(seen), skip)
  BY <1>7, <1>9 DEF Closed
<1>13. Walk(T, x, skip) = seen
  BY <1>1, <1>6
<1>14. QED BY <1>7, <1>9, <1>11, <1>12, <1>13

\* The same in terms of parents.
LEMMA WalkByParents ==
    ASSUME NEW O, IsFiniteSet(O), NEW T, IsTree(T, O), NEW skip, NEW x \in O, x \notin skip
    PROVE  /\ Walk(T, x, skip) \in Seq(O) /\ IsInjective(Walk(T, x, skip))
           /\ Tail(Walk(T, x, skip)) \in Seq(O) /\ IsInjective(Tail(Walk(T, x, skip)))
           /\ ToSet(Tail(Walk(T, x, skip))) = ToSet(Walk(T, x, skip)) \ {x}
           /\ ToSet(Walk(T, x, skip)) \subseteq O \ skip
           /\ x \in ToSet(Walk(T, x, skip))
           /\ \A y \in ToSet(Walk(T, x, skip)) :
                 y # x => T.parent[y] \in ToSet(Walk(T, x, skip))
           /\ \A k \in O \ skip : T.parent[k] \in ToSet(Walk(T, x, skip)) =>
                                     k \in ToSet(Walk(T, x, skip))
           /\ \A S \in SUBSET O :
                 x \in S /\ (\A k \in O \ skip : T.parent[k] \in S => k \in S) =>
                    ToSet(Walk(T, x, skip)) \subseteq S
<1> DEFINE w == Walk(T, x, skip)
           W == ToSet(w)
<1>1. /\ w \in Seq(O) /\ w # <<>> /\ w[1] = x /\ IsInjective(w) /\ W \cap skip = {}
      /\ Closed(T, W, skip)
      /\ \A y \in W : y # x => T.parent[y] \in W
      /\ \A S \in SUBSET O : x \in S /\ Closed(T, S, skip) => W \subseteq S
  BY WalkProperties
<1> HIDE DEF w
<1>2. /\ W \subseteq O /\ x \in W
      /\ Tail(w) \in Seq(O) /\ IsInjective(Tail(w)) /\ ToSet(Tail(w)) = W \ {x}
  BY <1>1, ToSetTyped, HeadAndTail
<1>3. \A p, k \in O : k \in ToSet(T.kids[p]) <=> T.parent[k] = p
  BY DEF IsTree
<1>4. \A k \in O \ skip : T.parent[k] \in W => k \in W
  BY <1>1, <1>2, <1>3 DEF Closed
<1>5. ASSUME NEW S \in SUBSET O, \A k \in O \ skip : T.parent[k] \in S => k \in S
      PROVE  Closed(T, S, skip)
  <2>1. \A y \in S : ToSet(T.kids[y]) \subseteq O
    BY ToSetTyped DEF IsTree, Tree
  <2>2. QED BY <1>3, <1>5, <2>1 DEF Closed
<1>6. QED BY <1>1, <1>2, <1>4, <1>5 DEF w

\* What is below x, x included.
LEMMA SubtreeProperties ==
    ASSUME NEW O, IsFiniteSet(O), NEW T, IsTree(T, O), NEW x \in O
    PROVE  /\ Subtree(T, x) = ToSet(Walk(T, x, {}))
           /\ Subtree(T, x) \subseteq O /\ x \in Subtree(T, x)
           /\ \A y \in Subtree(T, x) : y # x => T.parent[y] \in Subtree(T, x)
           /\ \A k \in O : T.parent[k] \in Subtree(T, x) => k \in Subtree(T, x)
           /\ \A S \in SUBSET O :
                 x \in S /\ (\A k \in O : T.parent[k] \in S => k \in S) =>
                    Subtree(T, x) \subseteq S
<1>1. x \notin {} /\ O \ {} = O
  OBVIOUS
<1>2. QED BY <1>1, WalkByParents DEF Subtree

\* Moving an object below another that is not below it.
LEMMA SetParentProperties ==
    ASSUME NEW O, IsFiniteSet(O), Nil \notin O, NEW T, IsTree(T, O), NEW x \in O,
           NEW p \in O \cup {Nil}, x \notin T.dead, p \notin Subtree(T, x)
    PROVE  /\ IsTree(SetParent(T, x, p), O)
           /\ SetParent(T, x, p).parent = [T.parent EXCEPT ![x] = p]
           /\ SetParent(T, x, p).dead = T.dead
<1> DEFINE U == SetParent(T, x, p)
           old == T.parent[x]
<1>1. PICK parent \in [O -> O \cup {Nil}], kids \in [O -> Seq(O)], dead \in SUBSET O :
         T = [parent |-> parent, kids |-> kids, dead |-> dead]
  BY DEF IsTree, Tree
<1>2. T.parent = parent /\ T.kids = kids /\ T.dead = dead
  BY <1>1
<1>3. /\ \A q \in O : IsInjective(kids[q])
      /\ \A q, k \in O : k \in ToSet(kids[q]) <=> parent[k] = q
      /\ \A S \in SUBSET O : S # {} => \E y \in S : parent[y] \notin S
      /\ \A y \in dead : parent[y] = Nil
  BY <1>2 DEF IsTree
<1> DEFINE Left(q) == IF q = old THEN Without(kids[q], x) ELSE kids[q]
           left == [q \in O |-> Left(q)]
           next == [q \in O |-> IF q = p THEN Append(Left(q), x) ELSE Left(q)]
           above == [parent EXCEPT ![x] = p]
<1>4. ASSUME NEW q \in O
      PROVE  /\ Left(q) \in Seq(O) /\ IsInjective(Left(q))
             /\ ToSet(Left(q)) = ToSet(kids[q]) \ {x}
  <2>1. x \in ToSet(kids[q]) => q = old
    BY <1>2, <1>3
  <2>2. kids[q] \in Seq(O)
    OBVIOUS
  <2>3. CASE q = old
    BY <1>3, <2>2, <2>3, WithoutProperties
  <2>4. CASE q # old
    BY <1>3, <2>1, <2>2, <2>4
  <2>5. QED BY <2>3, <2>4
<1>5. RemoveChild(kids, old, x) = left
  <2>1. old \in O \cup {Nil}
    BY <1>2
  <2>2. CASE old = Nil
    <3>1. \A q \in O : left[q] = kids[q]
      BY <2>2
    <3>2. QED BY <2>2, <3>1 DEF RemoveChild
  <2>3. CASE old # Nil
    BY <2>1, <2>3 DEF RemoveChild
  <2>4. QED BY <2>2, <2>3
<1>6. AddChild(left, p, x) = next
  <2>1. CASE p = Nil
    BY <2>1 DEF AddChild
  <2>2. CASE p # Nil
    BY <2>2 DEF AddChild
  <2>3. QED BY <2>1, <2>2
<1> HIDE DEF left
<1>7. U = [parent |-> above, kids |-> next, dead |-> dead]
  <2>1. PICK a : a = AddChild(RemoveChild(kids, old, x), p, x)
    OBVIOUS
  <2>2. a = next
    BY <1>5, <1>6, <2>1
  <2> HIDE DEF next, above
  <2>3. U = [T EXCEPT !.parent = above, !.kids = a]
    BY <1>2, <2>1 DEF SetParent, above
  <2>4. QED BY <1>1, <2>2, <2>3
<1> HIDE DEF U, old
<1>8. U.parent = above /\ U.kids = next /\ U.dead = dead
  BY <1>7
<1>9. ASSUME NEW q \in O
      PROVE  /\ next[q] \in Seq(O) /\ IsInjective(next[q])
             /\ \A k \in O : k \in ToSet(next[q]) <=> above[k] = q
  <2>0. PICK l \in Seq(O) : l = Left(q) /\ IsInjective(l) /\ ToSet(l) = ToSet(kids[q]) \ {x}
    BY <1>4
  <2> HIDE DEF Left
  <2>1. CASE q = p
    <3>1. next[q] = Append(l, x)
      BY <2>0, <2>1
    <3>2. x \notin ToSet(l)
      BY <2>0
    <3>3. Append(l, x) \in Seq(O) /\ ToSet(Append(l, x)) = ToSet(l) \cup {x}
      BY AppendProperties, ToSetAppend
    <3>4. IsInjective(Append(l, x))
      BY <2>0, <3>2, AppendDistinct
    <3>5. QED BY <1>3, <2>0, <2>1, <3>1, <3>3, <3>4
  <2>2. CASE q # p
    <3>1. next[q] = l
      BY <2>0, <2>2
    <3>2. QED BY <1>3, <2>0, <2>2, <3>1
  <2>3. QED BY <2>1, <2>2
<1>10. next \in [O -> Seq(O)] /\ above \in [O -> O \cup {Nil}]
  <2>1. DOMAIN next = O
    OBVIOUS
  <2>2. QED BY <1>9, <2>1
<1>11. ASSUME NEW S \in SUBSET O, S # {} PROVE \E y \in S : above[y] \notin S
  <2>1. CASE x \notin S
    <3>1. \A y \in S : above[y] = parent[y]
      BY <2>1
    <3>2. QED BY <1>3, <1>11, <3>1
  <2>2. CASE x \in S /\ p \notin S
    BY <2>2
  <2>3. CASE x \in S /\ p \in S
    <3>1. PICK D \in SUBSET O : /\ D = Subtree(T, x) /\ x \in D
                                /\ \A k \in O : parent[k] \in D => k \in D
      BY <1>2, SubtreeProperties
    <3>2. PICK R \in SUBSET O : R = S \ D
      OBVIOUS
    <3>3. p \in R
      BY <2>3, <3>1, <3>2
    <3>4. PICK y \in R : parent[y] \notin R
      BY <1>3, <3>3
    <3>5. above[y] = parent[y] /\ parent[y] \notin D
      BY <3>1, <3>2
    <3>6. QED BY <3>2, <3>4, <3>5
  <2>4. QED BY <2>1, <2>2, <2>3
<1>12. \A y \in dead : above[y] = Nil
  BY <1>2, <1>3
<1>13. U \in Tree(O)
  <2> HIDE DEF next, above
  <2>1. QED BY <1>7, <1>10 DEF Tree
<1>14. IsTree(U, O)
  <2>1. \A q \in O : IsInjective(next[q])
    BY <1>9
  <2>2. \A q, k \in O : k \in ToSet(next[q]) <=> above[k] = q
    BY <1>9
  <2> HIDE DEF next, above
  <2>3. QED BY <1>8, <1>11, <1>12, <1>13, <2>1, <2>2 DEF IsTree
<1>15. QED BY <1>2, <1>8, <1>14 DEF U

\* Destroying an object that is alive.
LEMMA DestroyProperties ==
    ASSUME NEW O, IsFiniteSet(O), Nil \notin O, NEW T, IsTree(T, O), NEW x \in O,
           x \notin T.dead
    PROVE  /\ IsTree(Destroy(T, x), O)
           /\ Destroy(T, x).parent = [y \in O |-> IF y \in Subtree(T, x) THEN Nil
                                                  ELSE T.parent[y]]
           /\ Destroy(T, x).dead = T.dead \cup Subtree(T, x)
<1> DEFINE U == Destroy(T, x)
<1>1. PICK parent \in [O -> O \cup {Nil}], kids \in [O -> Seq(O)], dead \in SUBSET O :
         T = [parent |-> parent, kids |-> kids, dead |-> dead]
  BY DEF IsTree, Tree
<1>2. T.parent = parent /\ T.kids = kids /\ T.dead = dead
  BY <1>1
<1>3. /\ \A q \in O : IsInjective(kids[q])
      /\ \A q, k \in O : k \in ToSet(kids[q]) <=> parent[k] = q
      /\ \A S \in SUBSET O : S # {} => \E y \in S : parent[y] \notin S
      /\ \A y \in dead : parent[y] = Nil
  BY <1>2 DEF IsTree
<1>4. PICK D \in SUBSET O : /\ D = Subtree(T, x) /\ x \in D
                            /\ \A y \in D : y # x => parent[y] \in D
                            /\ \A k \in O : k \notin D => parent[k] \notin D
  BY <1>2, SubtreeProperties
<1> DEFINE next == [q \in O |-> IF q \in D THEN <<>> ELSE Without(kids[q], x)]
           above == [y \in O |-> IF y \in D THEN Nil ELSE parent[y]]
<1>5. U = [parent |-> above, kids |-> next, dead |-> dead \cup D]
  <2>1. DOMAIN T.parent = O /\ DOMAIN T.kids = O /\ x \notin T.dead
    BY <1>2
  <2>2. QED BY <1>2, <1>4, <2>1 DEF Destroy
<1> HIDE DEF U
<1>6. U.parent = above /\ U.kids = next /\ U.dead = dead \cup D
  BY <1>5
<1>7. ASSUME NEW q \in O
      PROVE  /\ next[q] \in Seq(O) /\ IsInjective(next[q])
             /\ \A k \in O : k \in ToSet(next[q]) <=> above[k] = q
  <2>1. CASE q \in D
    <3>1. next[q] = <<>>
      BY <2>1
    <3>2. ASSUME NEW k \in O PROVE above[k] # q
      <4>1. CASE k \in D
        BY <4>1
      <4>2. CASE k \notin D
        <5>1. above[k] = parent[k]
          BY <4>2
        <5>2. parent[k] \notin D
          BY <1>4, <4>2
        <5>3. QED BY <2>1, <5>1, <5>2
      <4>3. QED BY <4>1, <4>2
    <3>3. <<>> \in Seq(O) /\ IsInjective(<<>>) /\ ToSet(<<>>) = {}
      BY EmptySeq DEF IsInjective, ToSet
    <3>4. QED BY <3>1, <3>2, <3>3
  <2>2. CASE q \notin D
    <3>1. PICK l \in Seq(O) : /\ l = Without(kids[q], x) /\ IsInjective(l)
                              /\ ToSet(l) = ToSet(kids[q]) \ {x}
      BY <1>3, WithoutProperties
    <3>2. next[q] = l
      BY <2>2, <3>1
    <3>3. ASSUME NEW k \in O PROVE k \in ToSet(l) <=> above[k] = q
      <4>1. k \in ToSet(l) <=> parent[k] = q /\ k # x
        BY <1>3, <3>1
      <4>2. CASE k \in D
        BY <1>4, <2>2, <4>1, <4>2
      <4>3. CASE k \notin D
        BY <1>4, <4>1, <4>3
      <4>4. QED BY <4>2, <4>3
    <3>4. QED BY <3>1, <3>2, <3>3
  <2>3. QED BY <2>1, <2>2
<1>8. next \in [O -> Seq(O)] /\ above \in [O -> O \cup {Nil}]
  <2>1. DOMAIN next = O
    OBVIOUS
  <2>2. QED BY <1>7, <2>1
<1>9. ASSUME NEW S \in SUBSET O, S # {} PROVE \E y \in S : above[y] \notin S
  <2>1. PICK y \in S : parent[y] \notin S
    BY <1>3, <1>9
  <2>2. above[y] \notin S
    <3>1. CASE y \in D
      BY <3>1
    <3>2. CASE y \notin D
      BY <2>1, <3>2
    <3>3. QED BY <3>1, <3>2
  <2> HIDE DEF above
  <2>3. QED BY <2>1, <2>2
<1>10. \A y \in dead \cup D : above[y] = Nil
  BY <1>3
<1>11. U \in Tree(O)
  <2> HIDE DEF next, above
  <2>1. QED BY <1>5, <1>8 DEF Tree
<1>12. IsTree(U, O)
  <2>1. \A q \in O : IsInjective(next[q])
    BY <1>7
  <2>2. \A q, k \in O : k \in ToSet(next[q]) <=> above[k] = q
    BY <1>7
  <2> HIDE DEF next, above
  <2>3. QED BY <1>6, <1>9, <1>10, <1>11, <2>1, <2>2 DEF IsTree
<1>13. QED BY <1>2, <1>4, <1>6, <1>12 DEF U

(***************************************************************************)
(* The order of siblings.                                                  *)
(***************************************************************************)

\* The children of an object after a move: x is the last of its new siblings.
LEMMA SetParentOrder ==
    ASSUME NEW O, IsFiniteSet(O), Nil \notin O, NEW T, IsTree(T, O), NEW x \in O,
           NEW p \in O \cup {Nil}, x \notin T.dead, p \notin Subtree(T, x), NEW q \in O,
           NEW a, NEW b
    PROVE  Before(SetParent(T, x, p).kids[q], a, b) <=>
              \/ Before(T.kids[q], a, b) /\ a # x /\ b # x
              \/ q = p /\ b = x /\ a # x /\ a \in ToSet(T.kids[p])
<1> DEFINE old == T.parent[x]
           K == SetParent(T, x, p).kids
           l == Without(T.kids[q], x)
<1>1. PICK parent \in [O -> O \cup {Nil}], kids \in [O -> Seq(O)], dead \in SUBSET O :
         T = [parent |-> parent, kids |-> kids, dead |-> dead]
  BY DEF IsTree, Tree
<1>2. T.parent = parent /\ T.kids = kids /\ T.dead = dead
  BY <1>1
<1>3. /\ \A r \in O : IsInjective(kids[r])
      /\ \A r, k \in O : k \in ToSet(kids[r]) <=> parent[k] = r
  BY <1>2 DEF IsTree
<1>4. PICK k \in Seq(O) : k = kids[q] /\ IsInjective(k)
  BY <1>3
<1>5. PICK m \in Seq(O) : /\ m = Without(k, x) /\ IsInjective(m) /\ ToSet(m) = ToSet(k) \ {x}
                          /\ Before(m, a, b) <=> Before(k, a, b) /\ a # x /\ b # x
  BY <1>4, WithoutProperties, BeforeWithout
<1>6. Before(k, a, b) => a \in ToSet(k) /\ b \in ToSet(k)
  BY <1>4, BeforeIsOrder
<1> DEFINE left == RemoveChild(kids, old, x)
<1>7. /\ old \in O \cup {Nil} /\ DOMAIN left = O
      /\ left[q] = m \/ (left[q] = k /\ x \notin ToSet(k))
  <2>1. old \in O \cup {Nil}
    BY <1>2
  <2>2. CASE q = old
    <3>1. old # Nil
      BY <2>2
    <3>2. left = [kids EXCEPT ![old] = Without(@, x)]
      BY <3>1 DEF RemoveChild
    <3>3. QED BY <1>4, <1>5, <2>1, <2>2, <3>2
  <2>3. CASE q # old
    <3>1. x \notin ToSet(k)
      BY <1>2, <1>3, <1>4, <2>3
    <3>2. left[q] = k /\ DOMAIN left = O
      BY <1>4, <2>1, <2>3 DEF RemoveChild
    <3>3. QED BY <2>1, <3>1, <3>2
  <2>4. QED BY <2>2, <2>3
<1>8. K = AddChild(left, p, x)
  <2>1. PICK add : add = AddChild(left, p, x)
    OBVIOUS
  <2>2. PICK above : above = [parent EXCEPT ![x] = p]
    OBVIOUS
  <2>3. SetParent(T, x, p) = [T EXCEPT !.parent = above, !.kids = add]
    BY <1>2, <2>1, <2>2 DEF SetParent
  <2> HIDE DEF left
  <2>4. QED BY <1>1, <2>1, <2>3
<1> HIDE DEF left, K
<1>9. CASE q # p
  <2>1. K[q] = left[q]
    BY <1>7, <1>8, <1>9 DEF AddChild
  <2>2. QED BY <1>2, <1>4, <1>5, <1>6, <1>7, <1>9, <2>1 DEF K
<1>10. CASE q = p
  <2>1. p # Nil
    BY <1>10
  <2>2. PICK n \in Seq(O) : n = left[q] /\ (n = m \/ (n = k /\ x \notin ToSet(k)))
    BY <1>7
  <2>3. K[q] = Append(n, x)
    BY <1>7, <1>8, <1>10, <2>1, <2>2 DEF AddChild
  <2>4. Before(Append(n, x), a, b) <=> Before(n, a, b) \/ (a \in ToSet(n) /\ b = x)
    BY BeforeAppend
  <2>5. Before(n, a, b) <=> Before(k, a, b) /\ a # x /\ b # x
    BY <1>5, <1>6, <2>2
  <2>6. ToSet(n) = ToSet(k) \ {x}
    BY <1>5, <2>2
  <2>7. ToSet(T.kids[p]) = ToSet(k) /\ T.kids[q] = k
    BY <1>2, <1>4, <1>10
  <2>8. QED BY <1>10, <2>3, <2>4, <2>5, <2>6, <2>7 DEF K
<1>11. QED BY <1>9, <1>10

\* The children that are left when x is destroyed keep their order.
LEMMA DestroyOrder ==
    ASSUME NEW O, IsFiniteSet(O), NEW T, IsTree(T, O), NEW x \in O, x \notin T.dead,
           NEW q \in O, q \notin Subtree(T, x), NEW a, NEW b
    PROVE  Before(Destroy(T, x).kids[q], a, b) <=> Before(T.kids[q], a, b) /\ a # x /\ b # x
<1>1. T.kids[q] \in Seq(O) /\ IsInjective(T.kids[q]) /\ DOMAIN T.kids = O
  BY DEF IsTree, Tree
<1>2. Destroy(T, x).kids[q] = Without(T.kids[q], x)
  BY <1>1 DEF Destroy
<1>3. QED BY <1>1, <1>2, BeforeWithout

\* How a walk in progress has ordered things: parents first, siblings as they
\* stand in the list of their parent.
WalkOrderInv(T, x, s) ==
    /\ \A y \in ToSet(s.seen) : y # x => Before(s.seen, T.parent[y], y)
    /\ \A a, b \in ToSet(s.seen) :
          a # x /\ b # x /\ T.parent[a] = T.parent[b] /\ Before(T.kids[T.parent[a]], a, b) =>
             Before(s.seen, a, b)
    /\ \A a \in ToSet(s.seen), b \in ToSet(s.todo) :
          a # x /\ b # x /\ T.parent[a] = T.parent[b] => Before(T.kids[T.parent[a]], a, b)
    /\ \A a, b \in ToSet(s.todo) :
          a # x /\ b # x /\ T.parent[a] = T.parent[b] /\ Before(T.kids[T.parent[a]], a, b) =>
             Before(s.todo, a, b)

\* One visit keeps that.
LEMMA VisitKeepsOrder ==
    ASSUME NEW O, NEW T, IsTree(T, O), NEW skip, NEW x \in O,
           NEW s \in Progress(O), NEW P \in SUBSET O,
           WalkInv(T, O, x, skip, s, P), WalkOrderInv(T, x, s), s.todo # <<>>
    PROVE  WalkOrderInv(T, x, Visit(T, skip, s))
<1>1. PICK seen \in Seq(O), todo \in Seq(O) : s.seen = seen /\ s.todo = todo
  BY DEF Progress
<1>2. PICK y \in O, rest \in Seq(O) :
         /\ Head(todo) = y /\ Tail(todo) = rest
         /\ ToSet(todo) = {y} \cup ToSet(rest)
         /\ y \notin ToSet(rest) /\ IsInjective(rest)
  <2>1. todo # <<>> /\ IsInjective(todo)
    BY <1>1 DEF WalkInv
  <2>2. QED BY <2>1, HeadAndTail
<1>3. s = [seen |-> seen, todo |-> todo]
  BY <1>1 DEF Progress
<1>4. /\ ToSet(seen) = P \ skip /\ IsInjective(seen)
      /\ ToSet(todo) \cap P = {} /\ todo # <<>> /\ IsInjective(todo)
      /\ \/ P = {} /\ todo = <<x>>
         \/ x \in P
      /\ \A z \in P \cup ToSet(todo) : z # x => T.parent[z] \in P \ skip
  BY <1>1 DEF WalkInv
<1>5. \A a, b : Before(todo, a, b) <=> Before(rest, a, b) \/ (a = y /\ b \in ToSet(rest))
  BY <1>2, <1>4, BeforeTail
<1>6. ToSet(seen) \subseteq O /\ ToSet(todo) \subseteq O
  BY ToSetTyped
<1>7. /\ \A z \in ToSet(seen) : z # x => Before(seen, T.parent[z], z)
      /\ \A a, b \in ToSet(seen) :
            a # x /\ b # x /\ T.parent[a] = T.parent[b] /\ Before(T.kids[T.parent[a]], a, b) =>
               Before(seen, a, b)
      /\ \A a \in ToSet(seen), b \in ToSet(todo) :
            a # x /\ b # x /\ T.parent[a] = T.parent[b] => Before(T.kids[T.parent[a]], a, b)
      /\ \A a, b \in ToSet(todo) :
            a # x /\ b # x /\ T.parent[a] = T.parent[b] /\ Before(T.kids[T.parent[a]], a, b) =>
               Before(todo, a, b)
  BY <1>1 DEF WalkOrderInv
<1>8. /\ \A p, k \in O : k \in ToSet(T.kids[p]) <=> T.parent[k] = p
      /\ \A p \in O : T.kids[p] \in Seq(O) /\ IsInjective(T.kids[p])
      /\ \A S \in SUBSET O : S # {} => \E z \in S : T.parent[z] \notin S
  BY DEF IsTree, Tree
\* Siblings are ordered by the list of their parent.
<1>9. ASSUME NEW a \in O, NEW b \in O, a # b, T.parent[a] = T.parent[b], T.parent[a] \in O
      PROVE  /\ Before(T.kids[T.parent[a]], a, b) \/ Before(T.kids[T.parent[a]], b, a)
             /\ ~(Before(T.kids[T.parent[a]], a, b) /\ Before(T.kids[T.parent[a]], b, a))
  <2>1. PICK k \in Seq(O) : k = T.kids[T.parent[a]] /\ IsInjective(k)
    BY <1>8, <1>9
  <2>2. a \in ToSet(k) /\ b \in ToSet(k)
    BY <1>8, <1>9, <2>1
  <2>3. QED BY <1>9, <2>1, <2>2, BeforeIsOrder
<1>10. \A a, b \in ToSet(rest) :
          a # x /\ b # x /\ T.parent[a] = T.parent[b] /\ Before(T.kids[T.parent[a]], a, b) =>
             Before(rest, a, b)
  BY <1>2, <1>5, <1>7
<1>11. \A z \in ToSet(todo) : z # x => T.parent[z] \in ToSet(seen) /\ T.parent[z] \in O
  BY <1>4, <1>6
<1>12. CASE y \in skip
  <2>1. Visit(T, skip, s) = [seen |-> seen, todo |-> rest]
    BY <1>1, <1>2, <1>3, <1>4, <1>12 DEF Visit
  <2>2. PICK v \in Progress(O) : v = [seen |-> seen, todo |-> rest]
    BY DEF Progress
  <2>3. v.seen = seen /\ v.todo = rest
    BY <2>2
  <2>4. WalkOrderInv(T, x, v)
    BY <1>2, <1>7, <1>10, <2>3 DEF WalkOrderInv
  <2>5. QED BY <2>1, <2>2, <2>4
<1>13. CASE y \notin skip
  <2>1. PICK k \in Seq(O) : T.kids[y] = k /\ IsInjective(k)
    BY <1>8
  <2>2. PICK next \in Seq(O) : next = k \o rest
    BY ConcatProperties
  <2>3. PICK told \in Seq(O) : told = Append(seen, y)
    BY AppendProperties
  <2>4. Visit(T, skip, s) = [seen |-> told, todo |-> next]
    BY <1>1, <1>2, <1>3, <1>4, <1>13, <2>1, <2>2, <2>3 DEF Visit
  <2>5. PICK v \in Progress(O) : v = [seen |-> told, todo |-> next]
    BY DEF Progress
  <2>6. v.seen = told /\ v.todo = next
    BY <2>5
  <2>7. /\ ToSet(next) = ToSet(k) \cup ToSet(rest)
        /\ ToSet(told) = ToSet(seen) \cup {y}
    BY <2>2, <2>3, ToSetConcat, ToSetAppend
  <2>8. \A a, b : Before(told, a, b) <=> Before(seen, a, b) \/ (a \in ToSet(seen) /\ b = y)
    BY <2>3, BeforeAppend
  <2>9. \A a, b : Before(next, a, b) <=> \/ Before(k, a, b) \/ Before(rest, a, b)
                                         \/ a \in ToSet(k) /\ b \in ToSet(rest)
    BY <2>2, BeforeConcat
  <2>10. /\ ToSet(k) \subseteq O /\ ToSet(rest) \subseteq O
         /\ \A z \in ToSet(k) : T.parent[z] = y
    BY <1>8, <2>1, ToSetTyped
  <2>11. y \notin ToSet(seen) /\ T.parent[y] # y
    <3>1. PICK S \in SUBSET O : S = {y}
      OBVIOUS
    <3>2. \E z \in S : T.parent[z] \notin S
      BY <1>8, <3>1
    <3>3. QED BY <1>2, <1>4, <3>1, <3>2
  <2>12. /\ x \notin ToSet(rest)
         /\ \A z \in ToSet(seen) : z # x => T.parent[z] # y
         /\ \A z \in ToSet(rest) : T.parent[z] # y
    <3>1. x \notin ToSet(rest)
      <4>1. CASE todo = <<x>>
        <5>1. ToSet(todo) = {x}
          BY <4>1 DEF ToSet
        <5>2. QED BY <1>2, <5>1
      <4>2. CASE x \in P
        BY <1>2, <1>4, <4>2
      <4>3. QED BY <1>4, <4>1, <4>2
    <3>2. QED BY <1>2, <1>4, <1>11, <2>11, <3>1
  <2>13. \A z \in ToSet(told) : z # x => Before(told, T.parent[z], z)
    BY <1>2, <1>7, <1>11, <2>7, <2>8
  <2>14. ASSUME NEW a \in ToSet(told), NEW b \in ToSet(told), a # x, b # x,
                T.parent[a] = T.parent[b], Before(T.kids[T.parent[a]], a, b)
         PROVE  Before(told, a, b)
    <3>1. CASE a \in ToSet(seen) /\ b \in ToSet(seen)
      BY <1>7, <2>8, <2>14, <3>1
    <3>2. CASE a \in ToSet(seen) /\ b = y
      BY <2>8, <3>2
    <3>3. CASE a = y /\ b \in ToSet(seen)
      <4>1. Before(T.kids[T.parent[b]], b, a)
        BY <1>2, <1>7, <2>14, <3>3
      <4>2. a # b /\ T.parent[a] \in O /\ a \in O /\ b \in O
        BY <1>2, <1>6, <1>11, <2>11, <2>14, <3>3
      <4>3. QED BY <1>9, <2>14, <4>1, <4>2
    <3>4. CASE a = y /\ b = y
      <4>1. T.parent[a] \in O
        BY <1>2, <1>11, <2>14, <3>4
      <4>2. PICK l \in Seq(O) : l = T.kids[T.parent[a]] /\ IsInjective(l)
        BY <1>8, <4>1
      <4>3. a # b
        BY <2>14, <4>2, BeforeIsOrder
      <4>4. QED BY <3>4, <4>3
    <3>5. QED BY <2>7, <3>1, <3>2, <3>3, <3>4
  <2>15. ASSUME NEW a \in ToSet(told), NEW b \in ToSet(next), a # x, b # x,
                T.parent[a] = T.parent[b]
         PROVE  Before(T.kids[T.parent[a]], a, b)
    <3>1. CASE a \in ToSet(seen) /\ b \in ToSet(rest)
      BY <1>2, <1>7, <2>15, <3>1
    <3>2. CASE a \in ToSet(seen) /\ b \in ToSet(k)
      BY <2>10, <2>12, <2>15, <3>2
    <3>3. CASE a = y /\ b \in ToSet(rest)
      <4>1. a \in O /\ b \in O /\ a # b /\ T.parent[a] \in O
        BY <1>2, <1>11, <2>10, <2>15, <3>3
      <4>2. CASE Before(T.kids[T.parent[a]], b, a)
        <5>1. Before(todo, b, a)
          BY <1>2, <1>7, <2>15, <3>3, <4>2
        <5>2. ~Before(todo, b, a)
          <6>1. Before(todo, a, b)
            BY <1>5, <3>3
          <6>2. QED BY <1>4, <6>1, BeforeIsOrder
        <5>3. QED BY <5>1, <5>2
      <4>3. QED BY <1>9, <2>15, <4>1, <4>2
    <3>4. CASE a = y /\ b \in ToSet(k)
      BY <2>10, <2>11, <2>15, <3>4
    <3>5. QED BY <2>7, <3>1, <3>2, <3>3, <3>4
  <2>16. ASSUME NEW a \in ToSet(next), NEW b \in ToSet(next), a # x, b # x,
                T.parent[a] = T.parent[b], Before(T.kids[T.parent[a]], a, b)
         PROVE  Before(next, a, b)
    <3>1. CASE a \in ToSet(k) /\ b \in ToSet(k)
      <4>1. T.kids[T.parent[a]] = k
        BY <2>1, <2>10, <3>1
      <4>2. QED BY <2>9, <2>16, <4>1
    <3>2. CASE a \in ToSet(rest) /\ b \in ToSet(rest)
      BY <1>10, <2>9, <2>16, <3>2
    <3>3. CASE a \in ToSet(k) /\ b \in ToSet(rest)
      BY <2>9, <3>3
    <3>4. CASE a \in ToSet(rest) /\ b \in ToSet(k)
      BY <2>10, <2>12, <2>16, <3>4
    <3>5. QED BY <2>7, <3>1, <3>2, <3>3, <3>4
  <2>17. WalkOrderInv(T, x, v)
    BY <2>6, <2>13, <2>14, <2>15, <2>16 DEF WalkOrderInv
  <2>18. QED BY <2>4, <2>5, <2>17
<1>14. QED BY <1>12, <1>13

\* A walk comes to parents before their children, and to siblings as they stand
\* in the list of their parent.
LEMMA WalkOrder ==
    ASSUME NEW O, IsFiniteSet(O), NEW T, IsTree(T, O), NEW skip, NEW x \in O
    PROVE  /\ \A y \in ToSet(Walk(T, x, skip)) :
                 y # x => Before(Walk(T, x, skip), T.parent[y], y)
           /\ \A a, b \in ToSet(Walk(T, x, skip)) :
                 a # x /\ b # x /\ T.parent[a] = T.parent[b] =>
                    (Before(Walk(T, x, skip), a, b) <=> Before(T.kids[T.parent[a]], a, b))
<1>0. PICK N \in Nat : N = Cardinality(O)
  BY FS_CardinalityType
<1>1. PICK f \in [0..N -> Progress(O)] :
         /\ f[0] = [seen |-> <<>>, todo |-> <<x>>]
         /\ \A n \in 1..N : f[n] = Visit(T, skip, f[n - 1])
         /\ Walk(T, x, skip) = f[N].seen
  <2>1. T \in Tree(O)
    BY DEF IsTree
  <2>2. PICK f : f = Visits(T, x, skip)
    OBVIOUS
  <2>3. QED BY <1>0, <2>1, <2>2, VisitsSteps
<1> DEFINE Good(n, P) == WalkInv(T, O, x, skip, f[n], P) /\ WalkOrderInv(T, x, f[n])
           D == {n \in 0..N : \E P \in SUBSET O : Good(n, P)}
<1>2. 0 \in D
  <2> DEFINE P == {}
             s == f[0]
  <2>1. s.seen = <<>> /\ s.todo = <<x>> /\ ToSet(s.todo) = {x} /\ ToSet(s.seen) = {}
    BY <1>1 DEF ToSet
  <2>2. IsInjective(s.seen) /\ IsInjective(s.todo)
    BY <2>1 DEF IsInjective
  <2>3. WalkInv(T, O, x, skip, s, P)
    BY <2>1, <2>2 DEF WalkInv
  <2>4. WalkOrderInv(T, x, s)
    BY <2>1 DEF WalkOrderInv
  <2>5. QED BY <1>1, <2>3, <2>4
<1>3. ASSUME NEW n \in 1..N, n - 1 \in D PROVE n \in D
  <2>1. PICK P \in SUBSET O : Good(n - 1, P)
    BY <1>3
  <2>2. PICK s \in Progress(O) : s = f[n - 1]
    BY <1>1
  <2>3. f[n] = Visit(T, skip, s)
    BY <1>1, <2>2
  <2>4. WalkInv(T, O, x, skip, s, P) /\ WalkOrderInv(T, x, s)
    BY <2>1, <2>2
  <2>5. CASE s.todo = <<>>
    <3>1. f[n] = s
      BY <2>3, <2>5 DEF Visit
    <3>2. Good(n, P)
      BY <2>4, <3>1
    <3> HIDE DEF Good
    <3>3. QED BY <3>2
  <2>6. CASE s.todo # <<>>
    <3>1. PICK Q \in SUBSET O : WalkInv(T, O, x, skip, Visit(T, skip, s), Q)
      <4>1. /\ Head(s.todo) \in O
            /\ WalkInv(T, O, x, skip, Visit(T, skip, s), P \cup {Head(s.todo)})
        BY <2>4, <2>6, VisitKeeps
      <4>2. QED BY <4>1
    <3>2. WalkOrderInv(T, x, Visit(T, skip, s))
      BY <2>4, <2>6, VisitKeepsOrder
    <3>3. Good(n, Q)
      BY <2>3, <3>1, <3>2
    <3> HIDE DEF Good
    <3>4. QED BY <3>3
  <2>7. QED BY <2>5, <2>6
<1> HIDE DEF D
<1>4. N \in D
  <2>1. 0..N \subseteq D
    BY <1>2, <1>3, UpTo
  <2>2. QED BY <2>1
<1>5. PICK P \in SUBSET O : Good(N, P)
  BY <1>4 DEF D
<1>6. PICK w \in Seq(O) : w = f[N].seen /\ w = Walk(T, x, skip)
  BY <1>1 DEF Progress
<1>7. /\ \A y \in ToSet(w) : y # x => Before(w, T.parent[y], y)
      /\ \A a, b \in ToSet(w) :
            a # x /\ b # x /\ T.parent[a] = T.parent[b] /\ Before(T.kids[T.parent[a]], a, b) =>
               Before(w, a, b)
  BY <1>5, <1>6 DEF WalkOrderInv
<1>8. IsInjective(w) /\ \A y \in ToSet(w) : y # x => T.parent[y] \in ToSet(w)
  BY <1>6, WalkProperties
<1>9. ASSUME NEW a \in ToSet(w), NEW b \in ToSet(w), a # x, b # x, T.parent[a] = T.parent[b],
             Before(w, a, b)
      PROVE  Before(T.kids[T.parent[a]], a, b)
  <2>1. ToSet(w) \subseteq O /\ T.parent[a] \in ToSet(w)
    BY <1>8, <1>9, ToSetTyped
  <2>2. PICK k \in Seq(O) : k = T.kids[T.parent[a]] /\ IsInjective(k)
    BY <2>1 DEF IsTree, Tree
  <2>3. a \in ToSet(k) /\ b \in ToSet(k)
    BY <1>9, <2>1, <2>2 DEF IsTree
  <2>4. a # b /\ ~Before(w, b, a)
    BY <1>8, <1>9, BeforeIsOrder
  <2>5. Before(k, a, b) \/ Before(k, b, a)
    BY <2>2, <2>3, <2>4, BeforeIsOrder
  <2>6. ~Before(k, b, a)
    BY <1>7, <1>9, <2>2, <2>4
  <2>7. QED BY <2>2, <2>5, <2>6
<1>10. QED BY <1>6, <1>7, <1>9
=============================================================================
