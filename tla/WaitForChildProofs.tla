------------------------- MODULE WaitForChildProofs -------------------------
(***************************************************************************)
(* What MCWaitForChild checks, proved for any number of coroutines,        *)
(* instances, names and requests.  The heart is WishInv: where the request *)
(* of a coroutine is registered tells what the coroutine asked for, so     *)
(* that whoever answers what is registered there answers that.             *)
(***************************************************************************)
EXTENDS WaitForChild, TreeLemmas

(***************************************************************************)
(* The invariants.                                                         *)
(***************************************************************************)

FireWish == [for : {"fire"}, since : Nat, inherits : BOOLEAN]
ChildWish == [for : {"child"}, parent : WaitedOn, name : Names, timed : BOOLEAN,
              inherits : BOOLEAN]

Calls == [state : {"none", "waiting", "answered", "over"}, id : Nat, args : Answers]

\* The types; the ids given out are those up to lastReq.
TypeInv ==
    /\ call \in [Coroutine -> Calls]
    /\ wish \in [Coroutine -> {Nothing} \cup FireWish \cup ChildWish]
    /\ lastReq \in 0..MaxRequests /\ fires \in 0..MaxFires
    /\ IsTree(tree, Object) /\ name \in [Object -> Names] /\ renamed \subseteq Object
    /\ waiters \in Seq(1..lastReq)
    /\ sought \in [WaitedOn -> [Names -> Seq(1..lastReq)]]
    /\ timers \subseteq 1..lastReq

\* No two coroutines have the same open request.
IdInv ==
    /\ \A s \in Coroutine : Open(call[s]) => call[s].id \in 1..lastReq
    /\ \A s \in Coroutine : ~Open(call[s]) => call[s] \in {None, Over}
    /\ \A s, t \in Coroutine :
          Open(call[s]) /\ Open(call[t]) /\ call[s].id = call[t].id => s = t

\* The open request k of who waits for a Fire is among the waiters w until
\* there is one, which answers it, and nowhere in m_childWaiters, so, or
\* m_timers, tm; an answer it has before that is inherited.
ForFire(k, d, w, so, tm, f) ==
    /\ d.since = f => k.id \in ToSet(w) /\ (k.state = "answered" <=> d.inherits)
    /\ d.since # f => /\ d.since < f
                      /\ k.id \notin ToSet(w) /\ k.state = "answered"
                      /\ k.args = d.since + 1
    /\ k.id \notin tm
    /\ \A p \in WaitedOn, n \in Names : k.id \notin ToSet(so[p][n])

\* That of who waits for a child is among those who wait for that child, at
\* least until it is answered, and nowhere else; a timer needs a timeout.
ForChild(k, d, w, so, tm) ==
    /\ k.state = "waiting" => k.id \in ToSet(so[d.parent][d.name])
    /\ \A p \in WaitedOn, n \in Names :
          k.id \in ToSet(so[p][n]) => p = d.parent /\ n = d.name
    /\ k.id \in tm => d.timed
    /\ k.id \notin ToSet(w)

Registered(k, d, w, so, tm, f) ==
    \/ d = Nothing /\ ~Open(k)
    \/ d \in FireWish /\ Open(k) /\ ForFire(k, d, w, so, tm, f)
    \/ d \in ChildWish /\ Open(k) /\ ForChild(k, d, w, so, tm)

WishInv == \A s \in Coroutine : Registered(call[s], wish[s], waiters, sought, timers, fires)

\* What the history of a connection is after f fires.
Heard(c, f) ==
    /\ c.since \in 0..f
    /\ c.heard = [k \in 1..f - c.since |-> c.since + k]
    /\ c.once => c.heard = <<>>

Conn == [id : 1..MaxConns, once : BOOLEAN, since : Nat, heard : Seq(Nat)]

ConnInv ==
    /\ nextConnId \in 1..MaxConns + 1
    /\ connections \in Seq(Conn)
    /\ \A c \in ToSet(connections) : Heard(c, fires)

\* A child that is there under the name somebody waits for was renamed.
SeenInv ==
    \A s \in Coroutine : call[s].state = "waiting" /\ wish[s] \in ChildWish =>
        \A x \in Object :
            tree.parent[x] = wish[s].parent /\ name[x] = wish[s].name => x \in renamed

WaitInv == TypeInv /\ IdInv /\ WishInv /\ ConnInv /\ SeenInv

(***************************************************************************)
(* What the operators make of calls and lists.                             *)
(***************************************************************************)

LEMMA Sets ==
    /\ Nil \notin Object /\ IsFiniteSet(Object) /\ Parts \subseteq Object
    /\ WaitedOn \subseteq Object /\ DefaultName \in Names
    /\ NoAnswer \in Answers /\ Parts \subseteq Answers /\ 1..MaxFires \subseteq Answers
    /\ MaxRequests \in Nat /\ MaxConns \in Nat /\ MaxFires \in Nat
    /\ NoAnswer \notin Parts
<1>1. IsFiniteSet(Object)
  BY WaitAssumption, FS_Singleton, FS_Union DEF Object
<1>2. QED BY <1>1, WaitAssumption DEF Object

LEMMA SeqGrows ==
    ASSUME NEW A, NEW B, A \subseteq B, NEW s \in Seq(A)
    PROVE  s \in Seq(B)
OBVIOUS

\* A list of requests gets the next one.
LEMMA NextIdAppended ==
    ASSUME NEW n \in Nat, NEW l \in Seq(1..n)
    PROVE  /\ Append(l, n + 1) \in Seq(1..n + 1)
           /\ ToSet(Append(l, n + 1)) = ToSet(l) \cup {n + 1}
<1>1. l \in Seq(1..n + 1)
  BY SeqGrows, 1..n \subseteq 1..n + 1
<1>2. PICK A : A = 1..n + 1
  OBVIOUS
<1>3. PICK r \in A : r = n + 1
  BY <1>2
<1>4. l \in Seq(A)
  BY <1>1, <1>2
<1>5. Append(l, r) \in Seq(A) /\ ToSet(Append(l, r)) = ToSet(l) \cup {r}
  BY <1>4, ToSetAppend, AppendProperties
<1>6. QED BY <1>2, <1>3, <1>5

LEMMA ClosedCalls ==
    /\ None \in Calls /\ ~Open(None) /\ None.state = "none" /\ None.id = 0
    /\ Over \in Calls /\ ~Open(Over) /\ Over.state = "over" /\ Over.id = 0
<1>1. PICK k : k = None
  OBVIOUS
<1>2. k = [state |-> "none", id |-> 0, args |-> NoAnswer]
  BY <1>1 DEF None
<1>3. k \in Calls /\ k.state = "none" /\ k.id = 0
  BY <1>2, Sets DEF Calls
<1>4. PICK o : o = Over
  OBVIOUS
<1>5. o = [state |-> "over", id |-> 0, args |-> NoAnswer]
  BY <1>4 DEF Over, None
<1>6. o \in Calls /\ o.state = "over" /\ o.id = 0
  BY <1>5, Sets DEF Calls
<1>7. ~Open(k) /\ ~Open(o)
  BY <1>3, <1>6 DEF Open
<1>8. QED BY <1>1, <1>3, <1>4, <1>6, <1>7

\* FulfillRequest changes state and args of the open requests in R.
LEMMA AnsweredEffect ==
    ASSUME NEW k \in [Coroutine -> Calls], NEW R, NEW a \in Answers
    PROVE  /\ Answered(k, R, a) \in [Coroutine -> Calls]
           /\ \A s \in Coroutine :
                 /\ Answered(k, R, a)[s].id = k[s].id
                 /\ Open(Answered(k, R, a)[s]) <=> Open(k[s])
                 /\ Open(k[s]) /\ k[s].id \in R =>
                       /\ Answered(k, R, a)[s].state = "answered"
                       /\ Answered(k, R, a)[s].args = a
                 /\ ~(Open(k[s]) /\ k[s].id \in R) => Answered(k, R, a)[s] = k[s]
<1> DEFINE A == Answered(k, R, a)
           Hit(s) == Open(k[s]) /\ k[s].id \in R
           h(s) == [k[s] EXCEPT !.state = "answered", !.args = a]
<1>1. \A s \in Coroutine : Hit(s) => A[s] = h(s)
  BY DEF Answered
<1>2. \A s \in Coroutine : ~Hit(s) => A[s] = k[s]
  BY DEF Answered
<1>3. \A s \in Coroutine : /\ h(s) \in Calls
                           /\ h(s).id = k[s].id /\ h(s).args = a /\ h(s).state = "answered"
  BY DEF Calls
<1>4. A = [s \in Coroutine |-> A[s]]
  BY DEF Answered
<1> HIDE DEF A, h
<1>5. \A s \in Coroutine : A[s] \in Calls
  BY <1>1, <1>2, <1>3
<1>6. A \in [Coroutine -> Calls]
  BY <1>4, <1>5
<1>7. \A s \in Coroutine : Hit(s) => Open(A[s])
  BY <1>1, <1>3 DEF Open
<1>8. QED BY <1>1, <1>2, <1>3, <1>6, <1>7 DEF A

\* SuspendCurrentTask gives s a request with the next id, which has the
\* answer that was ready, if there was one.
LEMMA SuspendEffect ==
    ASSUME TypeInv, NEW s \in Coroutine, Suspend(s)
    PROVE  /\ call' \in [Coroutine -> Calls]
           /\ lastReq' = lastReq + 1 /\ call'[s].id = lastReq + 1
           /\ Inherits(s) => call'[s].state = "answered" /\ call'[s].args = call[s].args
           /\ ~Inherits(s) => call'[s].state = "waiting"
           /\ \A t \in Coroutine : t # s => call'[t] = call[t]
<1>1. lastReq + 1 \in Nat /\ NoAnswer \in Answers /\ call \in [Coroutine -> Calls]
  BY Sets DEF TypeInv
<1>2. CASE Ask(s)
  <2>1. PICK k \in Calls : k = [state |-> "waiting", id |-> lastReq + 1, args |-> NoAnswer]
    BY <1>1 DEF Calls
  <2>2. call' = [call EXCEPT ![s] = k] /\ lastReq' = lastReq + 1 /\ ~Inherits(s)
    BY <1>2, <2>1 DEF Ask, Asked, Inherits
  <2>3. QED BY <1>1, <2>1, <2>2
<1>3. CASE AskAgain(s)
  <2>1. PICK k \in Calls : k = [call[s] EXCEPT !.id = lastReq + 1]
    BY <1>1 DEF Calls
  <2>2. k.id = lastReq + 1 /\ k.state = call[s].state /\ k.args = call[s].args
    BY <1>1, <2>1 DEF Calls
  <2>3. call' = [call EXCEPT ![s] = k] /\ lastReq' = lastReq + 1
    BY <1>3, <2>1 DEF AskAgain
  <2>4. call[s].state = "answered" /\ Inherits(s)
    BY <1>3 DEF AskAgain, Inherits
  <2>5. QED BY <1>1, <2>2, <2>3, <2>4
<1>4. QED BY <1>2, <1>3 DEF Suspend

\* Whoever asks gets an id that is registered nowhere.
LEMMA NewId ==
    ASSUME TypeInv, IdInv
    PROVE  /\ lastReq \in Nat /\ lastReq + 1 \in 1..lastReq + 1
           /\ 1..lastReq \subseteq 1..lastReq + 1
           /\ lastReq + 1 \notin ToSet(waiters)
           /\ lastReq + 1 \notin timers
           /\ \A p \in WaitedOn, n \in Names : lastReq + 1 \notin ToSet(sought[p][n])
           /\ \A t \in Coroutine : Open(call[t]) => call[t].id # lastReq + 1
<1>1. lastReq \in Nat
  BY Sets DEF TypeInv
<1>2. lastReq + 1 \notin 1..lastReq
  BY <1>1
<1>3. ToSet(waiters) \subseteq 1..lastReq
  BY ToSetTyped DEF TypeInv
<1>4. \A p \in WaitedOn, n \in Names : ToSet(sought[p][n]) \subseteq 1..lastReq
  BY ToSetTyped DEF TypeInv
<1>5. timers \subseteq 1..lastReq
  BY DEF TypeInv
<1>6. \A t \in Coroutine : Open(call[t]) => call[t].id \in 1..lastReq
  BY DEF IdInv
<1>7. /\ lastReq + 1 \in 1..lastReq + 1 /\ 1..lastReq \subseteq 1..lastReq + 1
  BY <1>1
<1>8. QED BY <1>1, <1>2, <1>3, <1>4, <1>5, <1>6, <1>7

(***************************************************************************)
(* The operations on the tree.                                             *)
(***************************************************************************)

LEMMA ReparentKeeps ==
    ASSUME WaitInv, NEW x \in Parts, NEW p \in Object \cup {Nil}, Reparent(x, p)
    PROVE  WaitInv'
<1> USE DEF WaitInv
<1>1. IsTree(tree', Object) /\ tree'.parent = [tree.parent EXCEPT ![x] = p]
  <2>1. PICK T : T = tree
    OBVIOUS
  <2>2. p \notin Subtree(T, x)
    BY <2>1, Sets, SubtreeProperties DEF Reparent, TypeInv
  <2>3. IsTree(T, Object) /\ x \notin T.dead /\ tree' = SetParent(T, x, p)
    BY <2>1 DEF Reparent, TypeInv
  <2>4. QED BY <2>1, <2>2, <2>3, Sets, SetParentProperties
<1>2. UNCHANGED <<lastReq, connections, nextConnId, waiters, fires, name, timers, wish>>
      /\ renamed' = renamed \ {x}
  BY DEF Reparent, signal
<1>3. name[x] \in Names /\ x \in Object
  BY Sets DEF TypeInv
<1>4. CASE p \notin WaitedOn
  <2>1. UNCHANGED <<call, sought>>
    BY <1>4 DEF Reparent, Arrive
  <2>2. TypeInv'
    BY <1>1, <1>2, <2>1 DEF TypeInv
  <2>3. IdInv' /\ WishInv' /\ ConnInv'
    BY <1>2, <2>1 DEF IdInv, WishInv, ConnInv
  <2>4. SeenInv'
    <3> SUFFICES ASSUME NEW s \in Coroutine, call[s].state = "waiting", wish[s] \in ChildWish,
                        NEW y \in Object, tree'.parent[y] = wish[s].parent,
                        name[y] = wish[s].name
                 PROVE  y \in renamed'
      BY <1>2, <2>1 DEF SeenInv
    <3>1. wish[s].parent \in WaitedOn
      BY DEF ChildWish
    <3>2. y # x /\ tree.parent[y] = wish[s].parent
      BY <1>1, <1>3, <1>4, <3>1 DEF TypeInv, IsTree, Tree
    <3>3. QED BY <1>2, <3>2 DEF SeenInv
  <2>5. QED BY <2>2, <2>3, <2>4
<1>5. CASE p \in WaitedOn
  <2> DEFINE R == ToSet(sought[p][name[x]])
  <2>1. /\ call' = Answered(call, R, x)
        /\ sought' = [sought EXCEPT ![p][name[x]] = <<>>]
    BY <1>5 DEF Reparent, Arrive
  <2>2. /\ call' \in [Coroutine -> Calls]
        /\ \A s \in Coroutine :
              /\ call'[s].id = call[s].id
              /\ Open(call'[s]) <=> Open(call[s])
              /\ Open(call[s]) /\ call[s].id \in R => call'[s].state = "answered"
              /\ ~(Open(call[s]) /\ call[s].id \in R) => call'[s] = call[s]
    <3>1. x \in Answers /\ call \in [Coroutine -> Calls]
      BY Sets DEF TypeInv
    <3>2. PICK S : S = R
      OBVIOUS
    <3>3. QED BY <2>1, <3>1, <3>2, AnsweredEffect
  <2> HIDE DEF R
  <2>3. /\ sought' \in [WaitedOn -> [Names -> Seq(1..lastReq)]]
        /\ \A q \in WaitedOn, n \in Names :
              \/ q = p /\ n = name[x] /\ sought'[q][n] = <<>>
              \/ ~(q = p /\ n = name[x]) /\ sought'[q][n] = sought[q][n]
    <3>1. <<>> \in Seq(1..lastReq)
      BY EmptySeq
    <3>2. QED BY <1>3, <1>5, <2>1, <3>1 DEF TypeInv
  <2>4. ToSet(<<>>) = {}
    BY DEF ToSet
  <2>5. TypeInv'
    BY <1>1, <1>2, <2>2, <2>3 DEF TypeInv
  <2>6. IdInv' /\ ConnInv'
    BY <1>2, <2>2 DEF IdInv, ConnInv
  <2>7. ASSUME NEW s \in Coroutine
        PROVE  Registered(call'[s], wish[s], waiters, sought', timers, fires)
    <3>1. Registered(call[s], wish[s], waiters, sought, timers, fires)
      BY DEF WishInv
    <3>2. \A q \in WaitedOn, n \in Names : ToSet(sought'[q][n]) \subseteq ToSet(sought[q][n])
      BY <2>3, <2>4
    <3>3. CASE wish[s] = Nothing /\ ~Open(call[s])
      BY <2>2, <3>3 DEF Registered
    <3>4. CASE wish[s] \in FireWish /\ Open(call[s])
               /\ ForFire(call[s], wish[s], waiters, sought, timers, fires)
      <4>1. call[s].id \notin R
        BY <1>3, <1>5, <3>4 DEF ForFire, R
      <4>2. call'[s] = call[s]
        BY <2>2, <4>1
      <4>3. QED BY <3>2, <3>4, <4>2 DEF Registered, ForFire
    <3>5. CASE wish[s] \in ChildWish /\ Open(call[s])
               /\ ForChild(call[s], wish[s], waiters, sought, timers)
      <4>1. CASE call[s].id \in R
        <5>1. call'[s].state = "answered" /\ call'[s].id = call[s].id /\ Open(call'[s])
          BY <2>2, <3>5, <4>1
        <5>2. QED BY <3>2, <3>5, <5>1 DEF Registered, ForChild
      <4>2. CASE call[s].id \notin R
        <5>1. call'[s] = call[s]
          BY <2>2, <4>2
        <5>2. wish[s].parent \in WaitedOn /\ wish[s].name \in Names
          BY <3>5 DEF ChildWish
        <5>3. call[s].state = "waiting" =>
                 call[s].id \in ToSet(sought'[wish[s].parent][wish[s].name])
          BY <2>3, <3>5, <4>2, <5>2 DEF ForChild, R
        <5>4. QED BY <3>2, <3>5, <5>1, <5>3 DEF Registered, ForChild
      <4>3. QED BY <4>1, <4>2
    <3>6. QED BY <3>1, <3>3, <3>4, <3>5 DEF Registered
  <2>8. WishInv'
    BY <1>2, <2>7 DEF WishInv
  <2>9. SeenInv'
    <3> SUFFICES ASSUME NEW s \in Coroutine, call'[s].state = "waiting", wish[s] \in ChildWish,
                        NEW y \in Object, tree'.parent[y] = wish[s].parent,
                        name[y] = wish[s].name
                 PROVE  y \in renamed'
      BY <1>2 DEF SeenInv
    <3>1. /\ call[s] = call'[s] /\ call[s].id \notin R /\ call[s].state = "waiting"
      BY <2>2 DEF Open
    <3>2. call[s].id \in ToSet(sought[wish[s].parent][wish[s].name])
      <4>1. wish[s] # Nothing /\ wish[s] \notin FireWish
        BY DEF Nothing, ChildWish, FireWish
      <4>2. ForChild(call[s], wish[s], waiters, sought, timers)
        BY <4>1 DEF WishInv, Registered
      <4>3. QED BY <3>1, <4>2 DEF ForChild
    <3>3. y # x
      BY <1>1, <1>3, <3>1, <3>2 DEF R, TypeInv, IsTree, Tree
    <3>4. tree.parent[y] = wish[s].parent
      BY <1>1, <3>3 DEF TypeInv, IsTree, Tree
    <3>5. QED BY <1>2, <3>1, <3>3, <3>4 DEF SeenInv
  <2>10. QED BY <2>5, <2>6, <2>8, <2>9
<1>6. QED BY <1>4, <1>5

LEMMA SetNameKeeps ==
    ASSUME WaitInv, NEW x \in Parts, NEW n \in Names, SetName(x, n)
    PROVE  WaitInv'
<1> USE DEF WaitInv
<1>1. /\ UNCHANGED <<call, lastReq, connections, nextConnId, waiters, fires, tree,
                     sought, timers, wish>>
      /\ name' = [name EXCEPT ![x] = n]
      /\ renamed \subseteq renamed' /\ renamed' \subseteq renamed \cup {x}
      /\ tree.parent[x] # Nil => x \in renamed'
  BY DEF SetName, requests, signal, waitVars
<1>2. TypeInv'
  BY <1>1, Sets DEF TypeInv
<1>3. IdInv' /\ WishInv' /\ ConnInv'
  BY <1>1 DEF IdInv, WishInv, ConnInv
<1>4. SeenInv'
  <2>1. \A s \in Coroutine : wish[s] \in ChildWish => wish[s].parent # Nil
    BY Sets DEF ChildWish
  <2>2. \A y \in Object : y # x => name'[y] = name[y]
    BY <1>1 DEF TypeInv
  <2>3. QED BY <1>1, <2>1, <2>2 DEF SeenInv
<1>5. QED BY <1>2, <1>3, <1>4

LEMMA DestroyKeeps ==
    ASSUME WaitInv, NEW x \in Parts, DestroyObject(x)
    PROVE  WaitInv'
<1> USE DEF WaitInv
<1>1. /\ UNCHANGED <<call, lastReq, connections, nextConnId, waiters, fires, name,
                     sought, timers, wish>>
      /\ tree' = Destroy(tree, x) /\ x \notin tree.dead /\ x \in Object
      /\ renamed' = renamed \ Subtree(tree, x)
  BY Sets DEF DestroyObject, requests, signal, waitVars
<1>2. /\ IsTree(tree', Object)
      /\ \A y \in Object :
            \/ tree'.parent[y] = Nil
            \/ y \notin Subtree(tree, x) /\ tree'.parent[y] = tree.parent[y]
  <2>1. PICK T : T = tree
    OBVIOUS
  <2>2. IsTree(T, Object) /\ x \notin T.dead /\ tree' = Destroy(T, x)
    BY <1>1, <2>1 DEF TypeInv
  <2>3. /\ IsTree(Destroy(T, x), Object)
        /\ Destroy(T, x).parent = [y \in Object |-> IF y \in Subtree(T, x) THEN Nil
                                                    ELSE T.parent[y]]
    BY <1>1, <2>2, Sets, DestroyProperties
  <2>4. /\ IsTree(tree', Object)
        /\ tree'.parent = [y \in Object |-> IF y \in Subtree(T, x) THEN Nil
                                            ELSE T.parent[y]]
    BY <2>2, <2>3
  <2>5. \A y \in Object :
            \/ tree'.parent[y] = Nil
            \/ y \notin Subtree(T, x) /\ tree'.parent[y] = T.parent[y]
    BY <2>4
  <2>6. QED BY <2>1, <2>4, <2>5
<1>3. TypeInv'
  BY <1>1, <1>2 DEF TypeInv
<1>4. IdInv' /\ WishInv' /\ ConnInv'
  BY <1>1 DEF IdInv, WishInv, ConnInv
<1>5. SeenInv'
  <2>1. \A s \in Coroutine : wish[s] \in ChildWish => wish[s].parent # Nil
    BY Sets DEF ChildWish
  <2>2. QED BY <1>1, <1>2, <2>1 DEF SeenInv
<1>6. QED BY <1>3, <1>4, <1>5

(***************************************************************************)
(* The operations of coroutines and timers.                                *)
(***************************************************************************)

\* A new request of one coroutine: the others and their ids stay.
LEMMA AskKeepsIds ==
    ASSUME WaitInv, NEW s \in Coroutine, lastReq < MaxRequests, Suspend(s)
    PROVE  /\ call' \in [Coroutine -> Calls]
           /\ lastReq' = lastReq + 1 /\ lastReq' \in 0..MaxRequests
           /\ Open(call'[s]) /\ call'[s].id = lastReq + 1
           /\ call'[s].state = "answered" <=> Inherits(s)
           /\ \A t \in Coroutine : t # s => call'[t] = call[t]
           /\ IdInv'
<1> USE DEF WaitInv
<1>1. /\ call' \in [Coroutine -> Calls]
      /\ lastReq' = lastReq + 1 /\ call'[s].id = lastReq + 1
      /\ Inherits(s) => call'[s].state = "answered"
      /\ ~Inherits(s) => call'[s].state = "waiting"
      /\ \A t \in Coroutine : t # s => call'[t] = call[t]
  BY SuspendEffect
<1>2. lastReq' \in 0..MaxRequests
  BY <1>1, Sets DEF TypeInv
<1>3. /\ lastReq' \in 1..lastReq' /\ 1..lastReq \subseteq 1..lastReq'
      /\ \A t \in Coroutine : Open(call[t]) => call[t].id # lastReq'
  BY <1>1, NewId
<1>4. Open(call'[s]) /\ (call'[s].state = "answered" <=> Inherits(s))
  BY <1>1 DEF Open
<1>5. \A t \in Coroutine : Open(call'[t]) => call'[t].id \in 1..lastReq'
  BY <1>1, <1>3 DEF IdInv
<1>6. \A t, u \in Coroutine :
         Open(call'[t]) /\ Open(call'[u]) /\ call'[t].id = call'[u].id => t = u
  BY <1>1, <1>3 DEF IdInv
<1>7. \A t \in Coroutine : ~Open(call'[t]) => call'[t] \in {None, Over}'
  <2>1. None' = None /\ Over' = Over
    BY DEF None, Over
  <2>2. QED BY <1>1, <1>4, <2>1 DEF IdInv
<1>8. QED BY <1>1, <1>2, <1>4, <1>5, <1>6, <1>7 DEF IdInv

LEMMA WaitForChildKeeps ==
    ASSUME WaitInv, NEW s \in Coroutine, NEW p \in WaitedOn, NEW n \in Names,
           NEW timed \in BOOLEAN, WaitForChild(s, p, n, timed)
    PROVE  WaitInv'
<1> USE DEF WaitInv
<1>1. /\ lastReq < MaxRequests /\ Suspend(s)
      /\ sought' = [sought EXCEPT ![p][n] = Append(sought[p][n], lastReq')]
      /\ timers' = IF timed THEN timers \cup {lastReq'} ELSE timers
      /\ wish' = [wish EXCEPT ![s] = TheChild(s, p, n, timed)]
      /\ FindFirstChild(tree, name, p, n) = Nil
      /\ UNCHANGED <<connections, nextConnId, waiters, fires, tree, name, renamed>>
  BY DEF WaitForChild, Yield, signal
<1>2. /\ call' \in [Coroutine -> Calls]
      /\ lastReq' = lastReq + 1 /\ lastReq' \in 0..MaxRequests
      /\ Open(call'[s]) /\ call'[s].id = lastReq + 1
      /\ call'[s].state = "answered" <=> Inherits(s)
      /\ \A t \in Coroutine : t # s => call'[t] = call[t]
      /\ IdInv'
  BY <1>1, AskKeepsIds
<1>3. /\ lastReq \in Nat /\ lastReq' \in 1..lastReq' /\ 1..lastReq \subseteq 1..lastReq'
      /\ lastReq' \notin ToSet(waiters) /\ lastReq' \notin timers
      /\ \A q \in WaitedOn, m \in Names : lastReq' \notin ToSet(sought[q][m])
      /\ \A t \in Coroutine : Open(call[t]) => call[t].id # lastReq'
  BY <1>2, NewId
<1>4. PICK d \in ChildWish : /\ d = TheChild(s, p, n, timed)
                             /\ d.parent = p /\ d.name = n /\ d.timed = timed
  <2>1. PICK b \in BOOLEAN : b = Inherits(s)
    BY DEF Inherits
  <2>2. PICK d : d = [for |-> "child", parent |-> p, name |-> n, timed |-> timed,
                      inherits |-> b]
    OBVIOUS
  <2>3. d = TheChild(s, p, n, timed)
    BY <2>1, <2>2 DEF TheChild
  <2>4. d \in ChildWish
    BY <2>2 DEF ChildWish
  <2>5. d.parent = p /\ d.name = n /\ d.timed = timed
    BY <2>2
  <2>6. QED BY <2>3, <2>4, <2>5
<1>5. /\ wish' \in [Coroutine -> {Nothing} \cup FireWish \cup ChildWish]
      /\ wish'[s] = d /\ \A t \in Coroutine : t # s => wish'[t] = wish[t]
  BY <1>1, <1>4 DEF TypeInv
<1>6. PICK l \in Seq(1..lastReq') :
         /\ l = Append(sought[p][n], lastReq')
         /\ ToSet(l) = ToSet(sought[p][n]) \cup {lastReq'}
  <2>1. sought[p][n] \in Seq(1..lastReq)
    BY DEF TypeInv
  <2>2. /\ Append(sought[p][n], lastReq + 1) \in Seq(1..lastReq + 1)
        /\ ToSet(Append(sought[p][n], lastReq + 1)) = ToSet(sought[p][n]) \cup {lastReq + 1}
    BY <1>3, <2>1, NextIdAppended
  <2>3. QED BY <1>1, <1>2, <2>2
<1>7. /\ sought' \in [WaitedOn -> [Names -> Seq(1..lastReq')]]
      /\ \A q \in WaitedOn, m \in Names :
            \/ q = p /\ m = n /\ sought'[q][m] = l
            \/ ~(q = p /\ m = n) /\ sought'[q][m] = sought[q][m]
  <2>1. \A q \in WaitedOn, m \in Names : sought[q][m] \in Seq(1..lastReq')
    BY <1>3, SeqGrows DEF TypeInv
  <2>2. sought \in [WaitedOn -> [Names -> Seq(1..lastReq')]]
    BY <2>1 DEF TypeInv
  <2>3. sought' = [sought EXCEPT ![p][n] = l]
    BY <1>1, <1>6
  <2>4. QED BY <2>2, <2>3
<1>8. timers' \subseteq 1..lastReq' /\ \A r \in timers' : r \in timers \/ (r = lastReq' /\ timed)
  <2>1. timers \subseteq 1..lastReq'
    BY <1>3 DEF TypeInv
  <2>2. (timers' = timers \cup {lastReq'} /\ timed) \/ timers' = timers
    BY <1>1
  <2>3. QED BY <1>3, <2>1, <2>2
<1>9. TypeInv'
  <2>1. waiters \in Seq(1..lastReq')
    BY <1>3, SeqGrows DEF TypeInv
  <2>2. QED BY <1>1, <1>2, <1>5, <1>7, <1>8, <2>1 DEF TypeInv
<1>10. ASSUME NEW t \in Coroutine
       PROVE  Registered(call'[t], wish'[t], waiters, sought', timers', fires)
  <2>1. CASE t = s
    <3>1. Open(call'[s])
      BY <1>2
    <3>2. ForChild(call'[s], d, waiters, sought', timers')
      BY <1>1, <1>2, <1>3, <1>4, <1>6, <1>7, <1>8 DEF ForChild
    <3>3. QED BY <1>5, <2>1, <3>1, <3>2 DEF Registered
  <2>2. CASE t # s
    <3>1. call'[t] = call[t] /\ wish'[t] = wish[t]
      BY <1>2, <1>5, <2>2
    <3>2. Registered(call[t], wish[t], waiters, sought, timers, fires)
      BY DEF WishInv
    <3>3. CASE wish[t] = Nothing /\ ~Open(call[t])
      BY <3>1, <3>3 DEF Registered
    <3>4. CASE Open(call[t])
      <4>1. call[t].id # lastReq'
        BY <1>3, <3>4
      <4>2. call[t].id \in timers' <=> call[t].id \in timers
        BY <1>1, <4>1
      <4>3. \A q \in WaitedOn, m \in Names :
               call[t].id \in ToSet(sought'[q][m]) <=> call[t].id \in ToSet(sought[q][m])
        BY <1>6, <1>7, <4>1
      <4>4. wish[t] \in ChildWish => wish[t].parent \in WaitedOn /\ wish[t].name \in Names
        BY DEF ChildWish
      <4>5. CASE wish[t] \in FireWish
                 /\ ForFire(call[t], wish[t], waiters, sought, timers, fires)
        BY <3>1, <3>4, <4>2, <4>3, <4>5 DEF Registered, ForFire
      <4>6. CASE wish[t] \in ChildWish
                 /\ ForChild(call[t], wish[t], waiters, sought, timers)
        BY <3>1, <3>4, <4>2, <4>3, <4>4, <4>6 DEF Registered, ForChild
      <4>7. QED BY <3>2, <3>4, <4>5, <4>6 DEF Registered
    <3>5. QED BY <3>2, <3>3, <3>4 DEF Registered
  <2>3. QED BY <2>1, <2>2
<1>11. WishInv' /\ ConnInv'
  BY <1>1, <1>10 DEF WishInv, ConnInv
<1>12. SeenInv'
  <2> SUFFICES ASSUME NEW t \in Coroutine, call'[t].state = "waiting", wish'[t] \in ChildWish,
                      NEW y \in Object, tree.parent[y] = wish'[t].parent,
                      name[y] = wish'[t].name
               PROVE  y \in renamed
    BY <1>1 DEF SeenInv
  <2>1. CASE t # s
    BY <1>2, <1>5, <2>1 DEF SeenInv
  <2>2. CASE t = s
    <3> DEFINE H == {k \in DOMAIN name : name[k] = n}
    <3>1. PICK hits \in Seq(Object) : /\ hits = KeepIn(tree.kids[p], H)
                                      /\ ToSet(hits) = ToSet(tree.kids[p]) \cap H
      <4>1. PICK l1 \in Seq(Object) : l1 = tree.kids[p]
        BY Sets DEF TypeInv, IsTree, Tree
      <4> HIDE DEF H
      <4>2. KeepIn(l1, H) \in Seq(Object) /\ ToSet(KeepIn(l1, H)) = ToSet(l1) \cap H
        BY KeepDistinct
      <4>3. QED BY <4>1, <4>2
    <3>2. hits = <<>>
      <4>1. hits # <<>> => Head(hits) \in Object
        BY HeadAndTail
      <4>2. QED BY <1>1, <3>1, <4>1, Sets DEF FindFirstChild
    <3>3. y \in ToSet(tree.kids[p]) /\ y \in H
      BY <1>4, <1>5, <2>2, Sets DEF TypeInv, IsTree
    <3>4. QED BY <3>1, <3>2, <3>3, ToSetEmpty
  <2>3. QED BY <2>1, <2>2
<1>13. QED BY <1>2, <1>9, <1>11, <1>12

LEMMA WaitForFireKeeps ==
    ASSUME WaitInv, NEW s \in Coroutine, WaitForFire(s)
    PROVE  WaitInv'
<1> USE DEF WaitInv
<1>1. /\ lastReq < MaxRequests /\ Suspend(s)
      /\ waiters' = Append(waiters, lastReq')
      /\ wish' = [wish EXCEPT ![s] = TheNextFire(s)]
      /\ UNCHANGED <<connections, nextConnId, fires, tree, name, sought, timers, renamed>>
  BY DEF WaitForFire, Wait
<1>2. /\ call' \in [Coroutine -> Calls]
      /\ lastReq' = lastReq + 1 /\ lastReq' \in 0..MaxRequests
      /\ Open(call'[s]) /\ call'[s].id = lastReq + 1
      /\ call'[s].state = "answered" <=> Inherits(s)
      /\ \A t \in Coroutine : t # s => call'[t] = call[t]
      /\ IdInv'
  BY <1>1, AskKeepsIds
<1>3. /\ lastReq \in Nat /\ lastReq' \in 1..lastReq' /\ 1..lastReq \subseteq 1..lastReq'
      /\ lastReq' \notin ToSet(waiters) /\ lastReq' \notin timers
      /\ \A q \in WaitedOn, m \in Names : lastReq' \notin ToSet(sought[q][m])
      /\ \A t \in Coroutine : Open(call[t]) => call[t].id # lastReq'
  BY <1>2, NewId
<1>4. PICK d \in FireWish : /\ d = TheNextFire(s) /\ d.since = fires
                            /\ d.inherits <=> Inherits(s)
  <2>1. PICK b \in BOOLEAN : b = Inherits(s)
    BY DEF Inherits
  <2>2. PICK d : d = [for |-> "fire", since |-> fires, inherits |-> b]
    OBVIOUS
  <2>3. d = TheNextFire(s)
    BY <2>1, <2>2 DEF TheNextFire
  <2>4. d \in FireWish /\ d.since = fires /\ d.inherits = b
    BY <2>2, Sets DEF FireWish, TypeInv
  <2>5. QED BY <2>1, <2>3, <2>4
<1>5. /\ wish' \in [Coroutine -> {Nothing} \cup FireWish \cup ChildWish]
      /\ wish'[s] = d /\ \A t \in Coroutine : t # s => wish'[t] = wish[t]
  BY <1>1, <1>4 DEF TypeInv
<1>6. /\ waiters' \in Seq(1..lastReq')
      /\ ToSet(waiters') = ToSet(waiters) \cup {lastReq'}
  <2>1. waiters \in Seq(1..lastReq)
    BY DEF TypeInv
  <2>2. /\ Append(waiters, lastReq + 1) \in Seq(1..lastReq + 1)
        /\ ToSet(Append(waiters, lastReq + 1)) = ToSet(waiters) \cup {lastReq + 1}
    BY <1>3, <2>1, NextIdAppended
  <2>3. QED BY <1>1, <1>2, <2>2
<1>7. TypeInv'
  <2>1. \A q \in WaitedOn, m \in Names : sought[q][m] \in Seq(1..lastReq')
    BY <1>3, SeqGrows DEF TypeInv
  <2>2. sought \in [WaitedOn -> [Names -> Seq(1..lastReq')]]
    BY <2>1 DEF TypeInv
  <2>3. timers \subseteq 1..lastReq'
    BY <1>3 DEF TypeInv
  <2>4. QED BY <1>1, <1>2, <1>5, <1>6, <2>2, <2>3 DEF TypeInv
<1>8. ASSUME NEW t \in Coroutine
      PROVE  Registered(call'[t], wish'[t], waiters', sought, timers, fires)
  <2>1. CASE t = s
    <3>1. Open(call'[s])
      BY <1>2
    <3>2. ForFire(call'[s], d, waiters', sought, timers, fires)
      BY <1>1, <1>2, <1>3, <1>4, <1>6 DEF ForFire
    <3>3. QED BY <1>5, <2>1, <3>1, <3>2 DEF Registered
  <2>2. CASE t # s
    <3>1. call'[t] = call[t] /\ wish'[t] = wish[t]
      BY <1>2, <1>5, <2>2
    <3>2. Registered(call[t], wish[t], waiters, sought, timers, fires)
      BY DEF WishInv
    <3>3. Open(call[t]) => (call[t].id \in ToSet(waiters') <=> call[t].id \in ToSet(waiters))
      BY <1>3, <1>6
    <3>4. QED BY <3>1, <3>2, <3>3 DEF Registered, ForFire, ForChild
  <2>3. QED BY <2>1, <2>2
<1>9. WishInv' /\ ConnInv'
  BY <1>1, <1>8 DEF WishInv, ConnInv
<1>10. SeenInv'
  <2>1. d \notin ChildWish
    BY DEF FireWish, ChildWish
  <2>2. QED BY <1>1, <1>2, <1>5, <2>1 DEF SeenInv
<1>11. QED BY <1>2, <1>7, <1>9, <1>10

\* A coroutine whose request is gone, handed over or given up by its end.
LEMMA ClosedKeeps ==
    ASSUME WaitInv, NEW s \in Coroutine, NEW k \in Calls, k \in {None, Over}, ~Open(k),
           call' \in [Coroutine -> Calls], call'[s] = k,
           \A t \in Coroutine : t # s => call'[t] = call[t],
           wish' = [wish EXCEPT ![s] = Nothing],
           UNCHANGED <<lastReq, connections, nextConnId, waiters, fires, tree, name,
                       sought, timers, renamed>>
    PROVE  WaitInv'
<1> USE DEF WaitInv
<1>1. /\ wish' \in [Coroutine -> {Nothing} \cup FireWish \cup ChildWish]
      /\ wish'[s] = Nothing /\ \A t \in Coroutine : t # s => wish'[t] = wish[t]
  BY DEF TypeInv
<1>2. TypeInv'
  BY <1>1 DEF TypeInv
<1>3. IdInv'
  BY DEF IdInv
<1>4. WishInv'
  BY <1>1 DEF WishInv, Registered
<1>5. ConnInv'
  BY DEF ConnInv
<1>6. SeenInv'
  <2>1. Nothing \notin ChildWish
    BY DEF Nothing, ChildWish
  <2>2. QED BY <1>1, <2>1 DEF SeenInv
<1>7. QED BY <1>2, <1>3, <1>4, <1>5, <1>6

LEMMA RunOnKeeps ==
    ASSUME WaitInv, NEW s \in Coroutine, RunOn(s)
    PROVE  WaitInv'
<1>1. PICK k \in Calls : k = None /\ ~Open(k)
  BY ClosedCalls
<1>2. call \in [Coroutine -> Calls]
  BY DEF WaitInv, TypeInv
<1>3. call' \in [Coroutine -> Calls] /\ call'[s] = k
      /\ \A t \in Coroutine : t # s => call'[t] = call[t]
  <2>1. CASE Resume(s)
    BY <1>1, <1>2, <2>1 DEF Resume
  <2>2. CASE call[s] = None /\ UNCHANGED requests
    BY <1>1, <1>2, <2>2 DEF requests
  <2>3. QED BY <2>1, <2>2 DEF RunOn
<1>4. /\ wish' = [wish EXCEPT ![s] = Nothing]
      /\ UNCHANGED <<lastReq, connections, nextConnId, waiters, fires, tree, name,
                     sought, timers, renamed>>
  BY DEF RunOn, Resume, requests, signal
<1>5. QED BY <1>1, <1>3, <1>4, ClosedKeeps

LEMMA FinishKeeps ==
    ASSUME WaitInv, NEW s \in Coroutine, Finish(s)
    PROVE  WaitInv'
<1>1. PICK k \in Calls : k = Over /\ ~Open(k)
  BY ClosedCalls
<1>2. call \in [Coroutine -> Calls]
  BY DEF WaitInv, TypeInv
<1>3. call' \in [Coroutine -> Calls] /\ call'[s] = k
      /\ \A t \in Coroutine : t # s => call'[t] = call[t]
  <2>1. call' = [t \in Coroutine |-> IF t = s THEN k ELSE call[t]]
    BY <1>1 DEF Finish, End
  <2>2. QED BY <1>2, <2>1
<1>4. /\ wish' = [wish EXCEPT ![s] = Nothing]
      /\ UNCHANGED <<lastReq, connections, nextConnId, waiters, fires, tree, name,
                     sought, timers, renamed>>
  BY DEF Finish, End, signal
<1>5. QED BY <1>1, <1>3, <1>4, ClosedKeeps

LEMMA FireTimerKeeps ==
    ASSUME WaitInv, NEW r \in 1..MaxRequests, FireTimer(r)
    PROVE  WaitInv'
<1> USE DEF WaitInv
<1>1. /\ r \in timers /\ timers' = timers \ {r}
      /\ call' = Answered(call, {r}, NoAnswer)
      /\ UNCHANGED <<lastReq, connections, nextConnId, waiters, fires, tree, name,
                     sought, wish, renamed>>
  BY DEF FireTimer, signal
<1>2. /\ call' \in [Coroutine -> Calls]
      /\ \A s \in Coroutine :
            /\ call'[s].id = call[s].id
            /\ Open(call'[s]) <=> Open(call[s])
            /\ Open(call[s]) /\ call[s].id \in {r} => call'[s].state = "answered"
            /\ ~(Open(call[s]) /\ call[s].id \in {r}) => call'[s] = call[s]
  <2>1. NoAnswer \in Answers /\ call \in [Coroutine -> Calls]
    BY Sets DEF TypeInv
  <2>2. PICK R : R = {r}
    OBVIOUS
  <2>3. QED BY <1>1, <2>1, <2>2, AnsweredEffect
<1>3. TypeInv'
  BY <1>1, <1>2 DEF TypeInv
<1>4. IdInv' /\ ConnInv'
  BY <1>1, <1>2 DEF IdInv, ConnInv
<1>5. ASSUME NEW s \in Coroutine
      PROVE  Registered(call'[s], wish[s], waiters, sought, timers', fires)
  <2>1. Registered(call[s], wish[s], waiters, sought, timers, fires)
    BY DEF WishInv
  <2>2. CASE wish[s] = Nothing /\ ~Open(call[s])
    BY <1>2, <2>2 DEF Registered
  <2>3. CASE wish[s] \in FireWish /\ Open(call[s])
             /\ ForFire(call[s], wish[s], waiters, sought, timers, fires)
    <3>1. call'[s] = call[s]
      BY <1>1, <1>2, <2>3 DEF ForFire
    <3>2. QED BY <1>1, <2>3, <3>1 DEF Registered, ForFire
  <2>4. CASE wish[s] \in ChildWish /\ Open(call[s])
             /\ ForChild(call[s], wish[s], waiters, sought, timers)
    <3>1. call'[s].state = "waiting" => call[s].state = "waiting"
      BY <1>2 DEF Open
    <3>2. QED BY <1>1, <1>2, <2>4, <3>1 DEF Registered, ForChild
  <2>5. QED BY <2>1, <2>2, <2>3, <2>4 DEF Registered
<1>6. WishInv'
  BY <1>1, <1>5 DEF WishInv
<1>7. SeenInv'
  <2>1. \A s \in Coroutine : call'[s].state = "waiting" => call[s].state = "waiting"
    BY <1>2 DEF Open
  <2>2. QED BY <1>1, <2>1 DEF SeenInv
<1>8. QED BY <1>3, <1>4, <1>6, <1>7

(***************************************************************************)
(* The operations of the signal.                                           *)
(***************************************************************************)

LEMMA ConnectKeeps ==
    ASSUME WaitInv, NEW once \in BOOLEAN, OnSignal(Connect(once) /\ UNCHANGED requests)
    PROVE  WaitInv'
<1> USE DEF WaitInv
<1>1. /\ nextConnId <= MaxConns /\ nextConnId' = nextConnId + 1
      /\ connections' = Append(connections, [id |-> nextConnId, once |-> once,
                                             since |-> fires, heard |-> <<>>])
      /\ UNCHANGED <<call, lastReq, waiters, fires, tree, name, sought, timers, wish, renamed>>
  BY DEF OnSignal, Connect, requests, waitVars
<1>2. TypeInv' /\ IdInv' /\ WishInv' /\ SeenInv'
  BY <1>1 DEF TypeInv, IdInv, WishInv, SeenInv
<1>3. PICK c \in Conn : /\ c = [id |-> nextConnId, once |-> once,
                                since |-> fires, heard |-> <<>>]
                        /\ Heard(c, fires)
  <2>1. nextConnId \in 1..MaxConns /\ fires \in Nat /\ <<>> \in Seq(Nat)
    BY <1>1, Sets, EmptySeq DEF ConnInv, TypeInv
  <2>2. PICK c : c = [id |-> nextConnId, once |-> once, since |-> fires, heard |-> <<>>]
    OBVIOUS
  <2>3. c \in Conn
    BY <2>1, <2>2 DEF Conn
  <2>4. [k \in 1..fires - fires |-> fires + k] = <<>>
    BY <2>1
  <2>5. Heard(c, fires)
    BY <2>1, <2>2, <2>4 DEF Heard
  <2>6. QED BY <2>2, <2>3, <2>5
<1>4. PICK l \in Seq(Conn) : l = connections /\ \A d \in ToSet(l) : Heard(d, fires)
  BY DEF ConnInv
<1>5. /\ Append(l, c) \in Seq(Conn) /\ ToSet(Append(l, c)) = ToSet(l) \cup {c}
  BY ToSetAppend, AppendProperties
<1>6. nextConnId' \in 1..MaxConns + 1
  BY <1>1, Sets DEF ConnInv
<1>7. connections' \in Seq(Conn) /\ \A d \in ToSet(connections') : Heard(d, fires')
  BY <1>1, <1>3, <1>4, <1>5
<1>8. ConnInv'
  BY <1>6, <1>7 DEF ConnInv
<1>9. QED BY <1>2, <1>8

LEMMA RemoveConnectionKeeps ==
    ASSUME WaitInv, NEW c \in 1..MaxConns,
           OnSignal(RemoveConnection(c) /\ UNCHANGED requests)
    PROVE  WaitInv'
<1> USE DEF WaitInv
<1> DEFINE P == {d \in ToSet(connections) : d.id # c}
<1>1. /\ connections' = KeepIn(connections, P)
      /\ UNCHANGED <<call, lastReq, nextConnId, waiters, fires, tree, name, sought,
                     timers, wish, renamed>>
  BY DEF OnSignal, RemoveConnection, requests, waitVars
<1>2. TypeInv' /\ IdInv' /\ WishInv' /\ SeenInv'
  BY <1>1 DEF TypeInv, IdInv, WishInv, SeenInv
<1>3. connections' \in Seq(Conn) /\ ToSet(connections') \subseteq ToSet(connections)
  <2>1. PICK l \in Seq(Conn) : l = connections
    BY DEF ConnInv
  <2>2. PICK Q : Q = P
    OBVIOUS
  <2>3. KeepIn(l, Q) \in Seq(Conn) /\ ToSet(KeepIn(l, Q)) = ToSet(l) \cap Q
    BY KeepDistinct
  <2>4. QED BY <1>1, <2>1, <2>2, <2>3
<1>4. ConnInv'
  BY <1>1, <1>3 DEF ConnInv
<1>5. QED BY <1>2, <1>4

\* What a connection has heard after one more fire.
LEMMA HearsNext ==
    ASSUME NEW c \in Conn, NEW f \in Nat, Heard(c, f)
    PROVE  LET d == [c EXCEPT !.heard = Append(c.heard, f + 1)]
           IN  d \in Conn /\ (~d.once => Heard(d, f + 1))
<1>1. PICK d : d = [c EXCEPT !.heard = Append(c.heard, f + 1)]
  OBVIOUS
<1>2. PICK a \in Nat, h \in Seq(Nat) : a = c.since /\ h = c.heard
  BY DEF Conn
<1>3. a \in 0..f /\ h = [k \in 1..f - a |-> a + k]
  BY <1>2 DEF Heard
<1>4. /\ Append(h, f + 1) \in Seq(Nat) /\ Len(Append(h, f + 1)) = Len(h) + 1
      /\ \A k \in 1..Len(h) : Append(h, f + 1)[k] = h[k]
      /\ Append(h, f + 1)[Len(h) + 1] = f + 1
  BY AppendProperties
<1>5. Len(h) = f - a
  <2>1. DOMAIN h = 1..f - a /\ f - a \in Nat
    BY <1>3
  <2>2. QED BY <2>1, LenProperties
<1>6. Append(h, f + 1) = [k \in 1..(f + 1) - a |-> a + k]
  <2>1. Len(h) + 1 = (f + 1) - a
    BY <1>2, <1>5
  <2>2. \A k \in 1..(f + 1) - a : Append(h, f + 1)[k] = a + k
    <3>1. \A k \in 1..f - a : Append(h, f + 1)[k] = a + k
      BY <1>3, <1>4, <1>5
    <3>2. Append(h, f + 1)[(f + 1) - a] = a + ((f + 1) - a)
      BY <1>2, <1>4, <2>1
    <3>3. \A k \in 1..(f + 1) - a : k \in 1..f - a \/ k = (f + 1) - a
      BY <1>3
    <3>4. QED BY <3>1, <3>2, <3>3
  <2>3. DOMAIN Append(h, f + 1) = 1..(f + 1) - a
    BY <1>4, <2>1, LenProperties
  <2>4. QED BY <1>4, <2>2, <2>3
<1>7. d \in Conn /\ d.since = a /\ d.heard = Append(h, f + 1) /\ d.once = c.once
  BY <1>1, <1>2, <1>4 DEF Conn
<1>8. a \in 0..f + 1
  BY <1>3
<1>9. ~d.once => Heard(d, f + 1)
  BY <1>6, <1>7, <1>8 DEF Heard
<1>10. QED BY <1>1, <1>2, <1>7, <1>9

LEMMA FireKeeps ==
    ASSUME WaitInv, OnSignal(Fire)
    PROVE  WaitInv'
<1> USE DEF WaitInv
<1> DEFINE new == Spawned(fires')
           P == {c \in ToSet(new) : ~c.once}
<1>1. /\ fires < MaxFires /\ fires' = fires + 1
      /\ connections' = KeepIn(new, P)
      /\ call' = Answered(call, ToSet(waiters), fires')
      /\ waiters' = <<>>
      /\ UNCHANGED <<lastReq, nextConnId, tree, name, sought, timers, wish, renamed>>
  BY DEF OnSignal, Fire, waitVars
<1>2. fires' \in 1..MaxFires /\ fires' \in Answers /\ fires \in Nat
  BY <1>1, Sets DEF TypeInv
<1>3. /\ call' \in [Coroutine -> Calls]
      /\ \A s \in Coroutine :
            /\ call'[s].id = call[s].id
            /\ Open(call'[s]) <=> Open(call[s])
            /\ Open(call[s]) /\ call[s].id \in ToSet(waiters) =>
                  call'[s].state = "answered" /\ call'[s].args = fires'
            /\ ~(Open(call[s]) /\ call[s].id \in ToSet(waiters)) => call'[s] = call[s]
  <2>1. call \in [Coroutine -> Calls]
    BY DEF TypeInv
  <2>2. PICK a \in Answers : a = fires'
    BY <1>2
  <2>3. PICK R : R = ToSet(waiters)
    OBVIOUS
  <2>4. QED BY <1>1, <2>1, <2>2, <2>3, AnsweredEffect
<1>4. waiters' \in Seq(1..lastReq) /\ ToSet(waiters') = {}
  BY <1>1, EmptySeq DEF ToSet
<1>5. TypeInv'
  <2>1. fires' \in 0..MaxFires
    BY <1>2, Sets
  <2>2. QED BY <1>1, <1>3, <1>4, <2>1 DEF TypeInv
<1>6. IdInv'
  BY <1>1, <1>3 DEF IdInv
<1>7. ASSUME NEW s \in Coroutine
      PROVE  Registered(call'[s], wish[s], waiters', sought, timers, fires')
  <2>1. Registered(call[s], wish[s], waiters, sought, timers, fires)
    BY DEF WishInv
  <2>2. CASE wish[s] = Nothing /\ ~Open(call[s])
    BY <1>3, <2>2 DEF Registered
  <2>3. CASE wish[s] \in FireWish /\ Open(call[s])
             /\ ForFire(call[s], wish[s], waiters, sought, timers, fires)
    <3>1. CASE call[s].id \in ToSet(waiters)
      <4>1. wish[s].since = fires
        BY <2>3, <3>1 DEF ForFire
      <4>2. call'[s].state = "answered" /\ call'[s].args = wish[s].since + 1
            /\ call'[s].id = call[s].id
        BY <1>1, <1>3, <2>3, <3>1, <4>1
      <4>3. wish[s].since < fires' /\ wish[s].since # fires'
        BY <1>1, <1>2, <4>1
      <4>4. QED BY <1>3, <1>4, <2>3, <4>2, <4>3 DEF Registered, ForFire
    <3>2. CASE call[s].id \notin ToSet(waiters)
      <4>1. call'[s] = call[s] /\ wish[s].since # fires
        BY <1>3, <2>3, <3>2 DEF ForFire
      <4>2. wish[s].since < fires' /\ wish[s].since # fires'
        BY <1>1, <1>2, <2>3, <4>1 DEF ForFire, FireWish
      <4>3. QED BY <1>4, <2>3, <4>1, <4>2 DEF Registered, ForFire
    <3>3. QED BY <3>1, <3>2
  <2>4. CASE wish[s] \in ChildWish /\ Open(call[s])
             /\ ForChild(call[s], wish[s], waiters, sought, timers)
    <3>1. call'[s] = call[s]
      BY <1>3, <2>4 DEF ForChild
    <3>2. QED BY <1>4, <2>4, <3>1 DEF Registered, ForChild
  <2>5. QED BY <2>1, <2>2, <2>3, <2>4 DEF Registered
<1>8. WishInv'
  BY <1>1, <1>7 DEF WishInv
<1>9. /\ connections' \in Seq(Conn)
      /\ \A c \in ToSet(connections') : Heard(c, fires')
  <2>1. PICK l \in Seq(Conn), f \in Nat :
           /\ l = connections /\ f = fires
           /\ \A i \in 1..Len(l) : Heard(l[i], f)
    BY <1>2 DEF ConnInv, ToSet
  <2> DEFINE h(i) == [l[i] EXCEPT !.heard = Append(l[i].heard, f + 1)]
  <2>2. \A i \in 1..Len(l) : h(i) \in Conn /\ (~h(i).once => Heard(h(i), f + 1))
    BY <2>1, HearsNext
  <2>3. new = [i \in 1..Len(l) |-> h(i)]
    BY <1>1, <2>1 DEF Spawned
  <2> HIDE DEF h
  <2>4. new \in Seq(Conn) /\ \A c \in ToSet(new) : ~c.once => Heard(c, f + 1)
    <3>1. Len(l) \in Nat
      OBVIOUS
    <3>2. new \in Seq(Conn)
      BY <2>2, <2>3, <3>1 DEF Seq
    <3>3. \A c \in ToSet(new) : \E i \in 1..Len(l) : c = h(i)
      BY <2>3 DEF ToSet
    <3>4. QED BY <2>2, <3>2, <3>3
  <2>5. PICK m \in Seq(Conn) : m = new
    BY <2>4
  <2>6. PICK Q : Q = P
    OBVIOUS
  <2>7. KeepIn(m, Q) \in Seq(Conn) /\ ToSet(KeepIn(m, Q)) = ToSet(m) \cap Q
    BY KeepDistinct
  <2>8. QED BY <1>1, <2>1, <2>4, <2>5, <2>6, <2>7
<1>10. ConnInv'
  BY <1>1, <1>9 DEF ConnInv
<1>11. SeenInv'
  <2>1. \A s \in Coroutine : call'[s].state = "waiting" => call[s].state = "waiting"
    BY <1>3 DEF Open
  <2>2. QED BY <1>1, <2>1 DEF SeenInv
<1>12. QED BY <1>5, <1>6, <1>8, <1>10, <1>11

(***************************************************************************)
(* The theorems.                                                           *)
(***************************************************************************)

LEMMA InitHolds == Init => WaitInv
<1> SUFFICES ASSUME Init PROVE WaitInv
  OBVIOUS
<1> USE DEF Init, SignalInit
<1>1. <<>> \in Seq(1..lastReq) /\ <<>> \in Seq(Conn) /\ ToSet(<<>>) = {}
      /\ <<>> \in Seq(Object)
  BY EmptySeq DEF ToSet
<1>2. PICK k \in Calls : k = None /\ ~Open(k) /\ k.state = "none"
  BY ClosedCalls
<1>3. IsTree(tree, Object)
  <2>1. PICK parent \in [Object -> Object \cup {Nil}], kids \in [Object -> Seq(Object)] :
           /\ parent = [x \in Object |-> Nil] /\ kids = [x \in Object |-> <<>>]
           /\ tree = [parent |-> parent, kids |-> kids, dead |-> {}]
    BY <1>1
  <2>2. tree \in Tree(Object)
    BY <2>1 DEF Tree
  <2>3. \A x \in Object : tree.parent[x] = Nil /\ tree.kids[x] = <<>>
    BY <2>1
  <2>4. IsInjective(<<>>)
    BY DEF IsInjective
  <2>5. tree.dead = {}
    BY <2>1
  <2>6. QED BY <1>1, <2>2, <2>3, <2>4, <2>5, Sets DEF IsTree
<1>4. TypeInv
  <2>1. lastReq \in 0..MaxRequests /\ fires \in 0..MaxFires
    BY Sets
  <2>2. name \in [Object -> Names]
    BY Sets
  <2>3. sought \in [WaitedOn -> [Names -> Seq(1..lastReq)]] /\ waiters \in Seq(1..lastReq)
    BY <1>1
  <2>4. QED BY <1>2, <1>3, <2>1, <2>2, <2>3 DEF TypeInv
<1>5. IdInv /\ WishInv /\ SeenInv
  BY <1>2 DEF IdInv, WishInv, Registered, SeenInv
<1>6. ConnInv
  BY <1>1, Sets DEF ConnInv
<1>7. QED BY <1>4, <1>5, <1>6 DEF WaitInv

LEMMA NextKeeps == WaitInv /\ [Next]_vars => WaitInv'
<1> SUFFICES ASSUME WaitInv, [Next]_vars PROVE WaitInv'
  OBVIOUS
<1>1. CASE \E x \in Parts, p \in Object \cup {Nil} : Reparent(x, p)
  BY <1>1, ReparentKeeps
<1>2. CASE \E x \in Parts, n \in Names : SetName(x, n)
  BY <1>2, SetNameKeeps
<1>3. CASE \E x \in Parts : DestroyObject(x)
  BY <1>3, DestroyKeeps
<1>4. CASE \E s \in Coroutine, p \in WaitedOn, n \in Names, timed \in BOOLEAN :
              WaitForChild(s, p, n, timed)
  BY <1>4, WaitForChildKeeps
<1>5. CASE \E s \in Coroutine : WaitForFire(s) \/ RunOn(s) \/ Finish(s)
  BY <1>5, WaitForFireKeeps, RunOnKeeps, FinishKeeps
<1>6. CASE \E r \in 1..MaxRequests : FireTimer(r)
  BY <1>6, FireTimerKeeps
<1>7. CASE \E once \in BOOLEAN : OnSignal(Connect(once) /\ UNCHANGED requests)
  BY <1>7, ConnectKeeps
<1>8. CASE \E c \in 1..MaxConns : OnSignal(RemoveConnection(c) /\ UNCHANGED requests)
  BY <1>8, RemoveConnectionKeeps
<1>9. CASE OnSignal(Fire)
  BY <1>9, FireKeeps
<1>10. CASE GiveUp \/ UNCHANGED vars
  BY <1>10 DEF GiveUp, vars, requests, signal, waitVars, WaitInv, TypeInv, IdInv, WishInv,
               ConnInv, SeenInv
<1>11. QED BY <1>1, <1>2, <1>3, <1>4, <1>5, <1>6, <1>7, <1>8, <1>9, <1>10 DEF Next

LEMMA WaitInvHolds == Spec => []WaitInv
BY InitHolds, NextKeeps, PTL DEF Spec

CurrentInv == current \in Coroutine \cup {Nil}

LEMMA CurrentHolds == Spec => []CurrentInv
<1>1. Init => CurrentInv
  BY DEF Init, CurrentInv
<1>2. CurrentInv /\ [Next]_vars => CurrentInv'
  BY DEF CurrentInv, Next, Reparent, SetName, DestroyObject, WaitForChild, WaitForFire, RunOn, GiveUp,
         Finish, FireTimer, OnSignal, vars
<1>3. QED BY <1>1, <1>2, PTL DEF Spec

\* Every variable of the waiting coroutines, the signal and the tree keeps
\* its type, and ids stay below the last one given out.
THEOREM WaitTypes == Spec => []TypeOK
<1>1. WaitInv /\ CurrentInv => TypeOK
  <2> SUFFICES ASSUME WaitInv, CurrentInv PROVE TypeOK
    OBVIOUS
  <2> USE DEF WaitInv, TypeInv, CurrentInv
  <2>1. 1..lastReq \subseteq 1..MaxRequests
    BY Sets
  <2>2. \A s \in Coroutine : /\ call[s].state \in {"none", "waiting", "answered", "over"}
                             /\ call[s].args \in Answers
    BY DEF Calls
  <2>3. \A s \in Coroutine : call[s].id \in 0..MaxRequests
    <3>1. /\ None.id = 0 /\ Over.id = 0 /\ 0 \in 0..MaxRequests
          /\ 1..MaxRequests \subseteq 0..MaxRequests
      BY Sets, ClosedCalls
    <3>2. QED BY <2>1, <3>1 DEF IdInv
  <2>4. ToSet(waiters) \subseteq 1..MaxRequests /\ timers \subseteq 1..MaxRequests
    BY <2>1, ToSetTyped
  <2>5. sought \in [WaitedOn -> [Names -> Seq(1..MaxRequests)]]
    <3>1. \A p \in WaitedOn, n \in Names : sought[p][n] \in Seq(1..lastReq)
      OBVIOUS
    <3>2. \A p \in WaitedOn, n \in Names : sought[p][n] \in Seq(1..MaxRequests)
      BY <2>1, <3>1, SeqGrows
    <3>3. QED BY <3>2
  <2>6. tree \in Tree(Object)
    BY DEF IsTree
  <2>7. QED BY <2>2, <2>3, <2>4, <2>5, <2>6 DEF TypeOK, ConnInv
<1>2. QED BY <1>1, WaitInvHolds, CurrentHolds, PTL

\* Who waits for a child misses only one that was renamed after it arrived,
\* whatever else its coroutine asked for before or asks for meanwhile.
THEOREM NoChildIsMissed == Spec => []NoChildMissed
<1>1. WaitInv => NoChildMissed
  <2> SUFFICES ASSUME WaitInv, NEW s \in Coroutine, call[s].state = "waiting",
                      wish[s].for = "child", NEW x \in ToSet(tree.kids[wish[s].parent]),
                      name[x] = wish[s].name
               PROVE  x \in renamed
    BY DEF NoChildMissed
  <2>1. wish[s] \in ChildWish
    BY DEF WaitInv, TypeInv, Nothing, FireWish
  <2>2. PICK p \in Object : p = wish[s].parent
    BY <2>1, Sets DEF ChildWish
  <2>3. x \in Object /\ tree.parent[x] = p
    <3>1. PICK l \in Seq(Object) : l = tree.kids[p]
      BY DEF WaitInv, TypeInv, IsTree, Tree
    <3>2. x \in Object
      BY <2>2, <3>1, ToSetTyped
    <3>3. QED BY <2>2, <3>2 DEF WaitInv, TypeInv, IsTree
  <2>4. QED BY <2>1, <2>2, <2>3 DEF WaitInv, SeenInv
<1>2. QED BY <1>1, WaitInvHolds, PTL

\* Signal:Wait is answered by the next Fire, whatever requests its coroutine
\* left open or had answered before; a handler gets every Fire once.
THEOREM NoFireIsMissed == Spec => []NoFireMissed
<1>1. WaitInv => WaitGetsNextFire
  <2> SUFFICES ASSUME WaitInv, NEW s \in Coroutine, wish[s].for = "fire"
               PROVE  IF wish[s].since < fires
                      THEN call[s].state = "answered" /\ call[s].args = wish[s].since + 1
                      ELSE call[s].state = IF wish[s].inherits THEN "answered" ELSE "waiting"
    BY DEF WaitGetsNextFire
  <2>1. wish[s] # Nothing /\ wish[s] \notin ChildWish
    BY DEF Nothing, ChildWish
  <2>2. /\ Open(call[s]) /\ ForFire(call[s], wish[s], waiters, sought, timers, fires)
        /\ wish[s] \in FireWish
    BY <2>1 DEF WaitInv, WishInv, Registered
  <2>3. wish[s].since \in Nat /\ fires \in Nat /\ wish[s].inherits \in BOOLEAN
    BY <2>2, Sets DEF WaitInv, TypeInv, FireWish
  <2>4. CASE wish[s].since = fires
    <3>1. /\ ~(wish[s].since < fires)
          /\ call[s].state = "answered" <=> wish[s].inherits
      BY <2>2, <2>3, <2>4 DEF ForFire
    <3>2. call[s].state \in {"waiting", "answered"}
      BY <2>2 DEF Open
    <3>3. QED BY <2>3, <3>1, <3>2
  <2>5. CASE wish[s].since # fires
    BY <2>2, <2>5 DEF ForFire
  <2>6. QED BY <2>4, <2>5
<1>2. WaitInv => HandlersHearAll
  <2> SUFFICES ASSUME WaitInv, NEW i \in DOMAIN connections
               PROVE  /\ connections[i].heard =
                            [k \in 1..fires - connections[i].since |-> connections[i].since + k]
                      /\ connections[i].once => connections[i].heard = <<>>
    BY DEF HandlersHearAll
  <2>1. connections[i] \in ToSet(connections)
    BY DEF ToSet
  <2>2. Heard(connections[i], fires)
    BY <2>1 DEF WaitInv, ConnInv
  <2>3. QED BY <2>2 DEF Heard
<1>3. QED BY <1>1, <1>2, WaitInvHolds, PTL DEF NoFireMissed

\* A request is given only answers it asked for, whatever ids earlier
\* requests left behind; what it is not given it has inherited from a request
\* of the same coroutine that was answered.
THEOREM AnswersAreWanted == Spec => AnswerIsWanted
<1> DEFINE Wanted == \A s \in Coroutine :
              (call'[s].state = "answered" /\ call'[s] # call[s]) =>
                  IF call'[s].id = call[s].id
                  THEN Given(wish[s], call'[s].args)
                  ELSE /\ wish'[s].inherits
                       /\ call[s].state = "answered" /\ call'[s].args = call[s].args
<1>1. WaitInv /\ WaitInv' /\ [Next]_vars => [Wanted]_vars
  <2> SUFFICES ASSUME WaitInv, WaitInv', Next, NEW s \in Coroutine,
                      call'[s].state = "answered", call'[s] # call[s]
               PROVE  IF call'[s].id = call[s].id
                      THEN Given(wish[s], call'[s].args)
                      ELSE /\ wish'[s].inherits
                           /\ call[s].state = "answered" /\ call'[s].args = call[s].args
    OBVIOUS
  <2> DEFINE w == wish[s]
             a == call'[s].args
             ByFire == w.for = "fire" /\ a = fires'
             ByTimer == w.for = "child" /\ a = NoAnswer /\ w.timed
             ByChild == /\ w.for = "child" /\ a # NoAnswer
                        /\ a \in ToSet(tree'.kids[w.parent]) /\ name[a] = w.name
             Inherited == /\ wish'[s].inherits
                          /\ call[s].state = "answered" /\ call'[s].args = call[s].args
  <2>1. SUFFICES \/ call'[s].id = call[s].id /\ (ByFire \/ ByTimer \/ ByChild)
                 \/ call'[s].id # call[s].id /\ Inherited
    BY DEF Given
  <2>2. call \in [Coroutine -> Calls] /\ Registered(call[s], w, waiters, sought, timers, fires)
    BY DEF WaitInv, TypeInv, WishInv
  <2>3. /\ w \in FireWish => w.for = "fire"
        /\ w \in ChildWish => w.for = "child" /\ w.parent \in WaitedOn
    BY DEF FireWish, ChildWish
  <2>4. ASSUME NEW x \in Parts, NEW p \in Object \cup {Nil}, Reparent(x, p)
        PROVE  call'[s].id = call[s].id /\ ByChild
    <3>1. p \in WaitedOn
      BY <2>4 DEF Reparent, Arrive
    <3>2. PICK R : R = ToSet(sought[p][name[x]])
      OBVIOUS
    <3>3. call' = Answered(call, R, x) /\ x \in Answers
      BY <2>4, <3>1, <3>2, Sets DEF Reparent, Arrive
    <3>4. Open(call[s]) /\ call[s].id \in R /\ a = x /\ call'[s].id = call[s].id
      BY <2>2, <3>2, <3>3, AnsweredEffect
    <3>5. name[x] \in Names /\ x \in Object /\ p \in Object
      BY <3>1, Sets DEF WaitInv, TypeInv
    <3>6. w \in ChildWish /\ w.parent = p /\ w.name = name[x]
      BY <2>2, <3>1, <3>2, <3>4, <3>5 DEF Registered, ForFire, ForChild
    <3>7. x \in ToSet(tree'.kids[p])
      <4>1. PICK T : T = tree
        OBVIOUS
      <4>2. p \notin Subtree(T, x) /\ IsTree(T, Object) /\ x \notin T.dead
            /\ tree' = SetParent(T, x, p)
        BY <2>4, <3>5, <4>1, Sets DEF Reparent, WaitInv, TypeInv
      <4>3. SetParent(T, x, p).parent = [T.parent EXCEPT ![x] = p]
        BY <3>5, <4>2, Sets, SetParentProperties
      <4>4. tree'.parent[x] = p
        BY <3>5, <4>1, <4>2, <4>3 DEF IsTree, Tree
      <4>5. IsTree(tree', Object)
        BY DEF WaitInv, TypeInv
      <4>6. QED BY <3>5, <4>4, <4>5 DEF IsTree
    <3>8. QED BY <2>3, <3>4, <3>6, <3>7, Sets
  <2>5. ASSUME NEW r \in 1..MaxRequests, FireTimer(r)
        PROVE  call'[s].id = call[s].id /\ ByTimer
    <3>1. PICK R : R = {r}
      OBVIOUS
    <3>2. call' = Answered(call, R, NoAnswer) /\ r \in timers /\ NoAnswer \in Answers
      BY <2>5, <3>1, Sets DEF FireTimer
    <3>3. Open(call[s]) /\ call[s].id = r /\ a = NoAnswer /\ call'[s].id = call[s].id
      BY <2>2, <3>1, <3>2, AnsweredEffect
    <3>4. w \in ChildWish /\ w.timed
      BY <2>2, <3>2, <3>3 DEF Registered, ForFire, ForChild
    <3>5. QED BY <2>3, <3>3, <3>4
  <2>6. ASSUME OnSignal(Fire)
        PROVE  call'[s].id = call[s].id /\ ByFire
    <3>1. fires' \in Answers
      BY <2>6, Sets DEF OnSignal, Fire, WaitInv, TypeInv
    <3>2. PICK b \in Answers : b = fires'
      BY <3>1
    <3>3. PICK R : R = ToSet(waiters)
      OBVIOUS
    <3>4. call' = Answered(call, R, b)
      BY <2>6, <3>2, <3>3 DEF OnSignal, Fire
    <3>5. Open(call[s]) /\ call[s].id \in ToSet(waiters) /\ a = fires' /\ call'[s].id = call[s].id
      BY <2>2, <3>2, <3>3, <3>4, AnsweredEffect
    <3>6. w \in FireWish
      BY <2>2, <3>5 DEF Registered, ForChild
    <3>7. QED BY <2>3, <3>5, <3>6
  \* A step that asks anew, for something with the inheritance of t.
  <2>7. ASSUME NEW t \in Coroutine, NEW d, Suspend(t), wish' = [wish EXCEPT ![t] = d],
               d.inherits <=> Inherits(t)
        PROVE  call'[s].id # call[s].id /\ Inherited
    <3>1. /\ lastReq' = lastReq + 1 /\ call'[t].id = lastReq + 1
          /\ Inherits(t) => call'[t].state = "answered" /\ call'[t].args = call[t].args
          /\ ~Inherits(t) => call'[t].state = "waiting"
          /\ \A u \in Coroutine : u # t => call'[u] = call[u]
      BY <2>7, SuspendEffect DEF WaitInv
    <3>2. t = s /\ Inherits(s)
      BY <3>1
    <3>3. wish'[s] = d
      BY <2>7, <3>2 DEF WaitInv, TypeInv
    <3>4. call[s].id # lastReq + 1
      BY <3>2, NewId DEF WaitInv, Inherits, Open
    <3>5. QED BY <2>7, <3>1, <3>2, <3>3, <3>4 DEF Inherits
  <2>8. ASSUME NEW t \in Coroutine, WaitForFire(t)
        PROVE  call'[s].id # call[s].id /\ Inherited
    <3>1. PICK d : d = TheNextFire(t)
      OBVIOUS
    <3>2. d.inherits = Inherits(t)
      BY <3>1 DEF TheNextFire
    <3>3. QED BY <2>7, <2>8, <3>1, <3>2 DEF WaitForFire, Wait
  <2>9. ASSUME NEW t \in Coroutine, NEW p \in WaitedOn, NEW n \in Names, NEW timed \in BOOLEAN,
               WaitForChild(t, p, n, timed)
        PROVE  call'[s].id # call[s].id /\ Inherited
    <3>1. PICK d : d = TheChild(t, p, n, timed)
      OBVIOUS
    <3>2. d.inherits = Inherits(t)
      BY <3>1 DEF TheChild
    <3>3. QED BY <2>7, <2>9, <3>1, <3>2 DEF WaitForChild, Yield
  <2>10. ASSUME NEW t \in Coroutine, RunOn(t) \/ Finish(t) PROVE FALSE
    <3>1. \A u \in Coroutine : call'[u] = call[u] \/ call'[u] \in {None, Over}
      BY <2>2, <2>10 DEF RunOn, Resume, Finish, End, requests
    <3>2. QED BY <3>1, ClosedCalls
  <2>11. call' # call
    OBVIOUS
  <2>12. QED
    BY <2>4, <2>5, <2>6, <2>8, <2>9, <2>10, <2>11
       DEF Next, SetName, DestroyObject, GiveUp, OnSignal, requests
<1>2. QED BY <1>1, WaitInvHolds, PTL DEF Spec, AnswerIsWanted
=============================================================================
