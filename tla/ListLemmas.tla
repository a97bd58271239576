---------------------------- MODULE ListLemmas ----------------------------
(***************************************************************************)
(* Lemmas on sequences, and on functions defined by recursion, that the    *)
(* proofs of several modules need.                                         *)
(***************************************************************************)
EXTENDS Lists, SequencesExt, SequenceTheorems, WellFoundedInduction, TLAPS

\* A nonempty set of naturals has a least element.
LEMMA NatMin ==
    ASSUME NEW T, T \subseteq Nat, T # {}
    PROVE  \E x \in T : \A y \in T : x <= y
<1>1. PICK x \in T : \A y \in T : ~ (<<y, x>> \in OpToRel(<, Nat))
  BY NatLessThanWellFounded, WFMin
<1>2. \A y \in T : ~ (y < x)
  BY <1>1 DEF OpToRel
<1>3. QED BY <1>2

\* Erasing an element of a sequence (list::erase, vector::erase).
LEMMA RemoveAtProperties ==
    ASSUME NEW S, NEW s \in Seq(S), NEW i \in 1..Len(s)
    PROVE  /\ RemoveAt(s, i) \in Seq(S)
           /\ Len(RemoveAt(s, i)) = Len(s) - 1
           /\ \A j \in 1..Len(s) - 1 :
                RemoveAt(s, i)[j] = IF j < i THEN s[j] ELSE s[j + 1]
<1> DEFINE a == SubSeq(s, 1, i - 1)
           b == SubSeq(s, i + 1, Len(s))
<1>1. a \in Seq(S) /\ Len(a) = i - 1 /\ \A j \in 1..i - 1 : a[j] = s[j]
  BY SubSeqProperties, \A j \in 1..i - 1 : s[j] \in S
<1>2. b \in Seq(S) /\ Len(b) = Len(s) - i /\ \A j \in 1..Len(s) - i : b[j] = s[i + j]
  BY SubSeqProperties, \A j \in i + 1..Len(s) : s[j] \in S
<1> HIDE DEF a, b
<1>3. /\ a \o b \in Seq(S)
      /\ Len(a \o b) = Len(a) + Len(b)
      /\ \A j \in 1..Len(a) + Len(b) :
            (a \o b)[j] = IF j <= Len(a) THEN a[j] ELSE b[j - Len(a)]
  BY <1>1, <1>2, ConcatProperties
<1>4. RemoveAt(s, i) = a \o b
  BY DEF RemoveAt, a, b
<1>5. \A j \in 1..Len(s) - 1 : (a \o b)[j] = IF j < i THEN s[j] ELSE s[j + 1]
  BY <1>1, <1>2, <1>3
<1>6. Len(a \o b) = Len(s) - 1
  BY <1>1, <1>2, <1>3, Len(s) \in Nat
<1>7. QED BY <1>3, <1>4, <1>5, <1>6

\* Elements of a concatenation, of an appended list, of a list with a hole.
LEMMA ToSetConcat ==
    ASSUME NEW S, NEW a \in Seq(S), NEW b \in Seq(S)
    PROVE  ToSet(a \o b) = ToSet(a) \cup ToSet(b)
<1>1. /\ a \o b \in Seq(S) /\ Len(a \o b) = Len(a) + Len(b)
      /\ \A i \in 1..Len(a) + Len(b) :
            (a \o b)[i] = IF i <= Len(a) THEN a[i] ELSE b[i - Len(a)]
  BY ConcatProperties
<1>2. \A i \in 1..Len(b) : /\ i + Len(a) \in 1..Len(a) + Len(b)
                           /\ (a \o b)[i + Len(a)] = b[i]
  BY <1>1
<1>3. \A i \in 1..Len(a) : i \in 1..Len(a) + Len(b) /\ (a \o b)[i] = a[i]
  BY <1>1
<1>4. \A i \in 1..Len(a) + Len(b) :
        \/ i \in 1..Len(a) /\ (a \o b)[i] = a[i]
        \/ i - Len(a) \in 1..Len(b) /\ (a \o b)[i] = b[i - Len(a)]
  BY <1>1
<1>5. /\ ToSet(a \o b) = {(a \o b)[i] : i \in 1..Len(a) + Len(b)}
      /\ ToSet(a) = {a[i] : i \in 1..Len(a)}
      /\ ToSet(b) = {b[i] : i \in 1..Len(b)}
  BY <1>1 DEF ToSet
<1>6. QED BY <1>2, <1>3, <1>4, <1>5

LEMMA ToSetTyped ==
    ASSUME NEW S, NEW s \in Seq(S)
    PROVE  ToSet(s) \subseteq S
<1>1. \A i \in 1..Len(s) : s[i] \in S
  OBVIOUS
<1>2. QED BY <1>1 DEF ToSet

LEMMA ToSetAppend ==
    ASSUME NEW S, NEW s \in Seq(S), NEW e \in S
    PROVE  ToSet(Append(s, e)) = ToSet(s) \cup {e}
<1>1. /\ Append(s, e) \in Seq(S) /\ Len(Append(s, e)) = Len(s) + 1
      /\ \A i \in 1..Len(s) : Append(s, e)[i] = s[i]
      /\ Append(s, e)[Len(s) + 1] = e
  BY AppendProperties
<1>2. ToSet(Append(s, e)) = {Append(s, e)[i] : i \in 1..Len(s) + 1}
  BY <1>1 DEF ToSet
<1>3. ToSet(s) = {s[i] : i \in 1..Len(s)}
  BY DEF ToSet
<1>4. \A i \in 1..Len(s) + 1 : i \in 1..Len(s) \/ i = Len(s) + 1
  OBVIOUS
<1>5. \A i \in 1..Len(s) : i \in 1..Len(s) + 1
  OBVIOUS
<1>6. Len(s) + 1 \in 1..Len(s) + 1
  OBVIOUS
<1>7. QED BY <1>1, <1>2, <1>3, <1>4, <1>5, <1>6

LEMMA ToSetRemoveAt ==
    ASSUME NEW S, NEW s \in Seq(S), NEW i \in 1..Len(s)
    PROVE  /\ ToSet(RemoveAt(s, i)) \subseteq ToSet(s)
           /\ \A e \in ToSet(s) : e # s[i] => e \in ToSet(RemoveAt(s, i))
<1> DEFINE r == RemoveAt(s, i)
<1>1. /\ r \in Seq(S) /\ Len(r) = Len(s) - 1
      /\ \A j \in 1..Len(s) - 1 : r[j] = IF j < i THEN s[j] ELSE s[j + 1]
  BY RemoveAtProperties
<1> HIDE DEF r
<1>2. ToSet(r) = {r[j] : j \in 1..Len(s) - 1} /\ ToSet(s) = {s[j] : j \in 1..Len(s)}
  BY <1>1 DEF ToSet
<1>3. \A j \in 1..Len(s) - 1 : r[j] \in ToSet(s)
  BY <1>1, <1>2
<1>4. ASSUME NEW j \in 1..Len(s), j # i PROVE s[j] \in ToSet(r)
  <2> DEFINE k == IF j < i THEN j ELSE j - 1
  <2>1. k \in 1..Len(s) - 1
    BY <1>4
  <2>2. r[k] = s[j]
    BY <1>1, <1>4, <2>1
  <2>3. QED BY <1>2, <2>1, <2>2
<1>5. QED BY <1>2, <1>3, <1>4 DEF r

\* Erasing from the first of two lists.
LEMMA RemoveFromFirst ==
    ASSUME NEW S, NEW a \in Seq(S), NEW b \in Seq(S), NEW k \in 1..Len(a)
    PROVE  RemoveAt(a, k) \o b = RemoveAt(a \o b, k)
<1> DEFINE ra == RemoveAt(a, k)
           c  == a \o b
           rc == RemoveAt(c, k)
<1>1. /\ ra \in Seq(S) /\ Len(ra) = Len(a) - 1
      /\ \A j \in 1..Len(a) - 1 : ra[j] = IF j < k THEN a[j] ELSE a[j + 1]
  BY RemoveAtProperties
<1>2. /\ c \in Seq(S) /\ Len(c) = Len(a) + Len(b)
      /\ \A j \in 1..Len(a) + Len(b) : c[j] = IF j <= Len(a) THEN a[j] ELSE b[j - Len(a)]
  BY ConcatProperties
<1>3. Len(a) \in Nat /\ Len(b) \in Nat /\ k \in 1..Len(c)
  BY <1>2
<1>4. /\ rc \in Seq(S) /\ Len(rc) = Len(c) - 1
      /\ \A j \in 1..Len(c) - 1 : rc[j] = IF j < k THEN c[j] ELSE c[j + 1]
  BY <1>2, <1>3, RemoveAtProperties
<1> HIDE DEF ra, c, rc
<1>5. /\ ra \o b \in Seq(S) /\ Len(ra \o b) = Len(ra) + Len(b)
      /\ \A j \in 1..Len(ra) + Len(b) :
            (ra \o b)[j] = IF j <= Len(ra) THEN ra[j] ELSE b[j - Len(ra)]
  BY <1>1, ConcatProperties
<1>6. ASSUME NEW j \in 1..Len(rc) PROVE (ra \o b)[j] = rc[j]
  <2>1. CASE j <= Len(ra)
    BY <1>1, <1>2, <1>3, <1>4, <1>5, <2>1
  <2>2. CASE ~(j <= Len(ra))
    <3>1. rc[j] = c[j + 1] /\ j + 1 \in 1..Len(a) + Len(b) /\ j + 1 > Len(a)
      BY <1>1, <1>2, <1>3, <1>4, <2>2
    <3>2. c[j + 1] = b[j + 1 - Len(a)]
      BY <1>2, <1>3, <3>1
    <3>3. (ra \o b)[j] = b[j - Len(ra)] /\ j - Len(ra) = j + 1 - Len(a)
      BY <1>1, <1>2, <1>3, <1>4, <1>5, <2>2
    <3>4. QED BY <3>1, <3>2, <3>3
  <2>3. QED BY <2>1, <2>2
<1>7. ra \o b = rc
  <2>1. Len(ra \o b) = Len(rc)
    BY <1>1, <1>2, <1>3, <1>4, <1>5
  <2>2. QED BY <1>4, <1>5, <1>6, <2>1, SeqEqual
<1>8. QED BY <1>7 DEF ra, c, rc

(***************************************************************************)
(* Induction, with a set in the place of a predicate, and functions that   *)
(* are defined by recursion.                                               *)
(***************************************************************************)

LEMMA UpTo ==
    ASSUME NEW N \in Nat, NEW T, 0 \in T, \A n \in 1..N : n - 1 \in T => n \in T
    PROVE  0..N \subseteq T
<1> DEFINE Bad == {n \in 0..N : n \notin T}
<1> SUFFICES ASSUME Bad # {} PROVE FALSE
  OBVIOUS
<1>1. PICK n \in Bad : \A m \in Bad : n <= m
  BY NatMin, Bad \subseteq Nat
<1>2. n \in 1..N
  BY <1>1
<1>3. n - 1 \in T
  BY <1>1, <1>2
<1>4. QED BY <1>1, <1>2, <1>3

\* Step by step, g takes a start to a function on 0..N.
LEMMA RecursionExists ==
    ASSUME NEW S, NEW a \in S, NEW N \in Nat, NEW g \in [1..N -> [S -> S]]
    PROVE  \E f \in [0..N -> S] :
              f[0] = a /\ \A n \in 1..N : f[n] = g[n][f[n - 1]]
<1> DEFINE Ok(n, f) == f[0] = a /\ \A i \in 1..n : f[i] = g[i][f[i - 1]]
           T == {n \in 0..N : \E f \in [0..n -> S] : Ok(n, f)}
<1>1. 0 \in T
  <2>1. Ok(0, [i \in 0..0 |-> a])
    OBVIOUS
  <2>2. [i \in 0..0 |-> a] \in [0..0 -> S]
    OBVIOUS
  <2> HIDE DEF Ok
  <2>3. QED BY <2>1, <2>2
<1>2. ASSUME NEW n \in 1..N, n - 1 \in T PROVE n \in T
  <2>1. PICK f \in [0..n - 1 -> S] : Ok(n - 1, f)
    BY <1>2
  <2> DEFINE h == [i \in 0..n |-> IF i = n THEN g[n][f[n - 1]] ELSE f[i]]
  <2>2. f[n - 1] \in S /\ g[n][f[n - 1]] \in S
    BY <2>1
  <2>3. h \in [0..n -> S]
    BY <2>1, <2>2
  <2>4. h[0] = a
    BY <2>1
  <2>5. ASSUME NEW i \in 1..n PROVE h[i] = g[i][h[i - 1]]
    <3>1. i - 1 \in 0..n - 1 /\ h[i - 1] = f[i - 1]
      OBVIOUS
    <3>2. CASE i = n
      <4>1. h[n] = g[n][f[n - 1]]
        OBVIOUS
      <4>2. QED BY <3>1, <3>2, <4>1
    <3>3. CASE i # n
      <4>1. i \in 1..n - 1 /\ h[i] = f[i]
        BY <3>3
      <4>2. QED BY <2>1, <3>1, <4>1
    <3>4. QED BY <3>2, <3>3
  <2>6. Ok(n, h)
    BY <2>4, <2>5
  <2> HIDE DEF h, Ok
  <2>7. QED BY <2>3, <2>6
<1> HIDE DEF T
<1>3. N \in T
  <2>1. 0..N \subseteq T
    BY <1>1, <1>2, UpTo
  <2>2. QED BY <2>1
<1>4. QED BY <1>3 DEF T

(***************************************************************************)
(* What KeepIn keeps.                                                      *)
(***************************************************************************)

LEMMA KeepInSteps ==
    ASSUME NEW S, NEW s \in Seq(S), NEW P
    PROVE  /\ Kept(s, P) \in [0..Len(s) -> Seq(S)]
           /\ Kept(s, P)[0] = <<>>
           /\ \A n \in 1..Len(s) :
                 Kept(s, P)[n] = IF s[n] \in P THEN Append(Kept(s, P)[n - 1], s[n])
                                 ELSE Kept(s, P)[n - 1]
<1> DEFINE N == Len(s)
           L == Seq(S)
           Next(n, l) == IF s[n] \in P THEN Append(l, s[n]) ELSE l
           g == [n \in 1..N |-> [l \in L |-> Next(n, l)]]
           Rec(f) == f = [n \in 0..N |-> IF n = 0 THEN <<>> ELSE Next(n, f[n - 1])]
<1>1. N \in Nat /\ <<>> \in L
  BY EmptySeq
<1>2. \A n \in 1..N, l \in L : Next(n, l) \in L
  BY AppendProperties
<1>3. g \in [1..N -> [L -> L]]
  BY <1>2
<1>4. \A n \in 1..N, l \in L : g[n][l] = Next(n, l)
  BY <1>2
<1> DEFINE F == CHOOSE h : Rec(h)
<1>5. Kept(s, P) = F
  BY DEF Kept
<1> HIDE DEF g, L, N, Next, F, Rec
<1>6. \E f \in [0..N -> L] : f[0] = <<>> /\ \A n \in 1..N : f[n] = g[n][f[n - 1]]
  <2>1. PICK M \in Nat : M = N
    BY <1>1
  <2>2. PICK K : K = L
    OBVIOUS
  <2>3. PICK h \in [1..M -> [K -> K]] : h = g
    BY <1>3, <2>1, <2>2
  <2>4. \A a \in K : \E f \in [0..M -> K] :
           f[0] = a /\ \A n \in 1..M : f[n] = h[n][f[n - 1]]
    BY RecursionExists, SMT
  <2>5. QED BY <1>1, <2>1, <2>2, <2>3, <2>4
<1> USE DEF Rec
<1>7. PICK f \in [0..N -> L] : f[0] = <<>> /\ \A n \in 1..N : f[n] = Next(n, f[n - 1])
  <2>1. \A f \in [0..N -> L], n \in 1..N : f[n - 1] \in L
    BY <1>1
  <2>2. QED BY <1>4, <1>6, <2>1
<1>8. Rec(f)
  <2>1. \A n \in 0..N : n = 0 \/ n \in 1..N
    BY <1>1
  <2>2. QED BY <1>7, <2>1
<1>9. Rec(F)
  BY <1>8 DEF F
<1>10. F[0] = <<>> /\ \A n \in 1..N : F[n] = Next(n, F[n - 1])
  BY <1>1, <1>9
<1>11. \A n \in 0..N : F[n] \in L
  <2> DEFINE T == {n \in 0..N : F[n] \in L}
  <2>1. 0 \in T
    BY <1>1, <1>10
  <2>2. ASSUME NEW n \in 1..N, n - 1 \in T PROVE n \in T
    <3>1. F[n - 1] \in L
      BY <2>2
    <3>2. QED BY <1>1, <1>2, <1>10, <3>1
  <2> HIDE DEF T
  <2>3. 0..N \subseteq T
    BY <1>1, <2>1, <2>2, UpTo
  <2>4. QED BY <2>3 DEF T
<1>12. F \in [0..N -> L]
  BY <1>9, <1>11
<1>13. QED BY <1>5, <1>10, <1>12 DEF L, N, Next

\* The elements of s that are in P, and no others.  What holds of every two
\* elements of s in their order holds of those that are kept.
LEMMA KeepInProperties ==
    ASSUME NEW S, NEW s \in Seq(S), NEW P, NEW R,
           \A i, j \in 1..Len(s) : i < j => <<s[i], s[j]>> \in R
    PROVE  /\ KeepIn(s, P) \in Seq(S)
           /\ ToSet(KeepIn(s, P)) = ToSet(s) \cap P
           /\ \A i, j \in 1..Len(KeepIn(s, P)) :
                 i < j => <<KeepIn(s, P)[i], KeepIn(s, P)[j]>> \in R
<1> DEFINE N == Len(s)
           L == Seq(S)
           First(n) == {s[i] : i \in 1..n}
           Sorted(l) == \A i, j \in 1..Len(l) : i < j => <<l[i], l[j]>> \in R
           f == Kept(s, P)
<1>1. /\ f \in [0..N -> L]
      /\ f[0] = <<>>
      /\ \A n \in 1..N : f[n] = IF s[n] \in P THEN Append(f[n - 1], s[n]) ELSE f[n - 1]
  BY KeepInSteps
<1> HIDE DEF f
<1> DEFINE T == {n \in 0..N : ToSet(f[n]) = First(n) \cap P /\ Sorted(f[n])}
<1>2. 0 \in T
  BY <1>1 DEF ToSet
<1>3. ASSUME NEW n \in 1..N, n - 1 \in T PROVE n \in T
  <2>1. f[n - 1] \in L /\ s[n] \in S /\ n - 1 \in 0..N
    BY <1>1
  <2>2. ToSet(f[n - 1]) = First(n - 1) \cap P /\ Sorted(f[n - 1])
    BY <1>3
  <2>3. First(n) = First(n - 1) \cup {s[n]}
    <3>1. \A i : i \in 1..n <=> i \in 1..n - 1 \/ i = n
      OBVIOUS
    <3>2. QED BY <3>1
  <2>4. CASE s[n] \notin P
    <3>1. f[n] = f[n - 1]
      BY <1>1, <2>4
    <3> HIDE DEF Sorted, First
    <3>2. ToSet(f[n]) = First(n) \cap P
      BY <2>2, <2>3, <2>4, <3>1
    <3>3. QED BY <2>2, <3>1, <3>2
  <2>5. CASE s[n] \in P
    <3> DEFINE l == f[n - 1]
    <3>1. f[n] = Append(l, s[n])
      BY <1>1, <2>5
    <3>2. /\ Len(f[n]) = Len(l) + 1 /\ f[n][Len(l) + 1] = s[n]
          /\ \A i \in 1..Len(l) : f[n][i] = l[i]
      BY <2>1, <3>1, AppendProperties
    <3>3. ToSet(f[n]) = ToSet(l) \cup {s[n]}
      BY <2>1, <3>1, ToSetAppend
    <3>4. ToSet(f[n]) = First(n) \cap P
      BY <2>2, <2>3, <2>5, <3>3
    <3>5. Sorted(f[n])
      <4> SUFFICES ASSUME NEW i \in 1..Len(f[n]), NEW j \in 1..Len(f[n]), i < j
                   PROVE  <<f[n][i], f[n][j]>> \in R
        OBVIOUS
      <4>1. Len(l) \in Nat /\ i \in 1..Len(l)
        BY <2>1, <3>2
      <4>2. CASE j \in 1..Len(l)
        BY <2>2, <3>2, <4>1, <4>2
      <4>3. CASE j = Len(l) + 1
        <5>1. l[i] \in ToSet(l)
          BY <2>1, <4>1 DEF ToSet
        <5>2. PICK k \in 1..n - 1 : l[i] = s[k]
          BY <2>2, <5>1
        <5>3. k \in 1..N /\ k < n
          BY <5>2
        <5>4. <<s[k], s[n]>> \in R
          BY <5>3
        <5>5. QED BY <3>2, <4>1, <4>3, <5>2, <5>4
      <4>4. QED BY <3>2, <4>1, <4>2, <4>3
    <3>6. QED BY <3>4, <3>5
  <2>6. QED BY <2>4, <2>5
<1> HIDE DEF T
<1>4. N \in Nat /\ N \in T
  <2>1. N \in Nat
    OBVIOUS
  <2>2. 0..N \subseteq T
    BY <1>2, <1>3, <2>1, UpTo
  <2>3. QED BY <2>1, <2>2
<1>5. f[N] \in L /\ ToSet(f[N]) = First(N) \cap P /\ Sorted(f[N])
  BY <1>1, <1>4 DEF T
<1>6. ToSet(s) = First(N)
  BY DEF ToSet
<1>7. KeepIn(s, P) = f[N]
  BY DEF KeepIn, f
<1>8. QED BY <1>5, <1>6, <1>7

(***************************************************************************)
(* Lists without repetitions.                                              *)
(***************************************************************************)

\* The first element of a list, and the others.
LEMMA HeadAndTail ==
    ASSUME NEW S, NEW s \in Seq(S), s # <<>>
    PROVE  /\ Head(s) \in S /\ Tail(s) \in Seq(S) /\ Head(s) = s[1]
           /\ ToSet(s) = {Head(s)} \cup ToSet(Tail(s))
           /\ IsInjective(s) => Head(s) \notin ToSet(Tail(s)) /\ IsInjective(Tail(s))
<1> DEFINE t == Tail(s)
<1>1. /\ Head(s) = s[1] /\ t \in Seq(S) /\ Len(s) \in Nat \ {0}
      /\ Len(t) = Len(s) - 1 /\ \A i \in 1..Len(t) : t[i] = s[i + 1]
  BY HeadTailProperties, EmptySeq
<1> HIDE DEF t
<1>2. ToSet(s) = {s[i] : i \in 1..Len(s)} /\ ToSet(t) = {t[i] : i \in 1..Len(t)}
  BY <1>1 DEF ToSet
<1>3. \A i \in 1..Len(s) : i = 1 \/ (i - 1 \in 1..Len(t) /\ s[i] = t[i - 1])
  BY <1>1
<1>4. \A i \in 1..Len(t) : i + 1 \in 1..Len(s) /\ i + 1 # 1 /\ t[i] = s[i + 1]
  BY <1>1
<1>5. 1 \in 1..Len(s)
  BY <1>1
<1>6. ToSet(s) = {s[1]} \cup ToSet(t)
  BY <1>2, <1>3, <1>4, <1>5
<1>7. ASSUME IsInjective(s) PROVE s[1] \notin ToSet(t) /\ IsInjective(t)
  <2>1. \A i, j \in 1..Len(s) : s[i] = s[j] => i = j
    BY <1>1, <1>7 DEF IsInjective
  <2>2. s[1] \notin ToSet(t)
    BY <1>2, <1>4, <1>5, <2>1
  <2>3. \A i, j \in 1..Len(t) : t[i] = t[j] => i = j
    BY <1>1, <1>4, <2>1
  <2>4. QED BY <1>1, <2>2, <2>3 DEF IsInjective
<1>8. QED BY <1>1, <1>5, <1>6, <1>7 DEF t

LEMMA ConcatDistinct ==
    ASSUME NEW S, NEW a \in Seq(S), NEW b \in Seq(S), IsInjective(a), IsInjective(b),
           ToSet(a) \cap ToSet(b) = {}
    PROVE  IsInjective(a \o b)
<1> DEFINE c == a \o b
<1>1. /\ c \in Seq(S) /\ Len(c) = Len(a) + Len(b)
      /\ \A i \in 1..Len(a) + Len(b) : c[i] = IF i <= Len(a) THEN a[i] ELSE b[i - Len(a)]
  BY ConcatProperties
<1> HIDE DEF c
<1>2. /\ \A i, j \in 1..Len(a) : a[i] = a[j] => i = j
      /\ \A i, j \in 1..Len(b) : b[i] = b[j] => i = j
      /\ \A i \in 1..Len(a), j \in 1..Len(b) : a[i] # b[j]
      /\ Len(a) \in Nat /\ Len(b) \in Nat
  BY DEF IsInjective, ToSet
<1>3. \A i \in 1..Len(c) : \/ i \in 1..Len(a) /\ c[i] = a[i]
                           \/ i - Len(a) \in 1..Len(b) /\ c[i] = b[i - Len(a)] /\ i > Len(a)
  BY <1>1, <1>2
<1>4. ASSUME NEW i \in 1..Len(c), NEW j \in 1..Len(c), c[i] = c[j] PROVE i = j
  <2>1. CASE i \in 1..Len(a) /\ c[i] = a[i]
    BY <1>2, <1>3, <1>4, <2>1
  <2>2. CASE i - Len(a) \in 1..Len(b) /\ c[i] = b[i - Len(a)] /\ i > Len(a)
    <3>1. j - Len(a) \in 1..Len(b) /\ c[j] = b[j - Len(a)]
      BY <1>2, <1>3, <1>4, <2>2
    <3>2. i - Len(a) = j - Len(a)
      BY <1>2, <1>4, <2>2, <3>1
    <3>3. QED BY <1>2, <3>2
  <2>3. QED BY <1>3, <2>1, <2>2
<1>5. QED BY <1>1, <1>4 DEF IsInjective, c

LEMMA AppendDistinct ==
    ASSUME NEW S, NEW s \in Seq(S), NEW e \in S, IsInjective(s), e \notin ToSet(s)
    PROVE  IsInjective(Append(s, e))
<1> DEFINE a == Append(s, e)
<1>1. /\ a \in Seq(S) /\ Len(a) = Len(s) + 1 /\ a[Len(s) + 1] = e
      /\ \A i \in 1..Len(s) : a[i] = s[i]
  BY AppendProperties
<1> HIDE DEF a
<1>2. /\ \A i, j \in 1..Len(s) : s[i] = s[j] => i = j
      /\ \A i \in 1..Len(s) : s[i] # e
      /\ Len(s) \in Nat
  BY DEF IsInjective, ToSet
<1>3. \A i \in 1..Len(a) : i \in 1..Len(s) \/ i = Len(s) + 1
  BY <1>1, <1>2
<1>4. \A i, j \in 1..Len(a) : a[i] = a[j] => i = j
  BY <1>1, <1>2, <1>3
<1>5. QED BY <1>1, <1>4 DEF IsInjective, a

LEMMA KeepDistinct ==
    ASSUME NEW S, NEW s \in Seq(S), NEW P
    PROVE  /\ KeepIn(s, P) \in Seq(S)
           /\ ToSet(KeepIn(s, P)) = ToSet(s) \cap P
           /\ IsInjective(s) => IsInjective(KeepIn(s, P))
<1> DEFINE k == KeepIn(s, P)
           R == {r \in S \X S : r[1] # r[2]}
<1>1. k \in Seq(S) /\ ToSet(k) = ToSet(s) \cap P
  <2> DEFINE All == S \X S
  <2>1. \A i, j \in 1..Len(s) : i < j => <<s[i], s[j]>> \in All
    OBVIOUS
  <2> HIDE DEF All
  <2>2. QED BY <2>1, KeepInProperties
<1>2. ASSUME IsInjective(s) PROVE IsInjective(k)
  <2>1. \A i, j \in 1..Len(s) : i < j => <<s[i], s[j]>> \in R
    <3>1. \A i, j \in 1..Len(s) : s[i] = s[j] => i = j
      BY <1>2 DEF IsInjective
    <3>2. QED BY <3>1
  <2> HIDE DEF R
  <2>2. \A i, j \in 1..Len(k) : i < j => <<k[i], k[j]>> \in R
    BY <2>1, KeepInProperties
  <2>3. \A i, j \in 1..Len(k) : i < j => k[i] # k[j]
    BY <2>2 DEF R
  <2> HIDE DEF k
  <2>4. DOMAIN k = 1..Len(k) /\ Len(k) \in Nat
    BY <1>1
  <2>5. QED BY <2>3, <2>4 DEF IsInjective
<1>3. QED BY <1>1, <1>2

LEMMA WithoutProperties ==
    ASSUME NEW S, NEW s \in Seq(S), NEW x
    PROVE  /\ Without(s, x) \in Seq(S)
           /\ ToSet(Without(s, x)) = ToSet(s) \ {x}
           /\ IsInjective(s) => IsInjective(Without(s, x))
<1> DEFINE P == {s[i] : i \in DOMAIN s} \ {x}
<1>1. Without(s, x) = KeepIn(s, P)
  BY DEF Without
<1>2. ToSet(s) \cap P = ToSet(s) \ {x}
  BY DEF ToSet
<1> HIDE DEF P
<1>3. QED BY <1>1, <1>2, KeepDistinct

(***************************************************************************)
(* The order of the elements of a list without repetitions.                *)
(***************************************************************************)

(***************************************************************************)
(* The order of a list without repetitions.                                *)
(***************************************************************************)

\* a stands before b in s.
Before(s, a, b) == \E i, j \in DOMAIN s : i < j /\ s[i] = a /\ s[j] = b

\* In a list without repetitions, Before is a strict total order.
LEMMA BeforeIsOrder ==
    ASSUME NEW S, NEW s \in Seq(S), IsInjective(s)
    PROVE  /\ \A a, b : Before(s, a, b) => /\ a \in ToSet(s) /\ b \in ToSet(s)
                                           /\ a # b /\ ~Before(s, b, a)
           /\ \A a, b \in ToSet(s) : a # b => Before(s, a, b) \/ Before(s, b, a)
<1>1. /\ DOMAIN s = 1..Len(s) /\ Len(s) \in Nat
      /\ ToSet(s) = {s[i] : i \in 1..Len(s)}
      /\ \A i, j \in 1..Len(s) : s[i] = s[j] => i = j
  BY DEF IsInjective, ToSet
<1>2. ASSUME NEW a, NEW b, Before(s, a, b)
      PROVE  a \in ToSet(s) /\ b \in ToSet(s) /\ a # b /\ ~Before(s, b, a)
  <2>1. PICK i \in 1..Len(s), j \in 1..Len(s) : i < j /\ s[i] = a /\ s[j] = b
    BY <1>1, <1>2 DEF Before
  <2>2. a # b
    BY <1>1, <2>1
  <2>3. ASSUME Before(s, b, a) PROVE FALSE
    <3>1. PICK k \in 1..Len(s), l \in 1..Len(s) : k < l /\ s[k] = b /\ s[l] = a
      BY <1>1, <2>3 DEF Before
    <3>2. k = j /\ l = i
      BY <1>1, <2>1, <3>1
    <3>3. QED BY <2>1, <3>1, <3>2
  <2>4. QED BY <1>1, <2>1, <2>2, <2>3
<1>3. ASSUME NEW a \in ToSet(s), NEW b \in ToSet(s), a # b
      PROVE  Before(s, a, b) \/ Before(s, b, a)
  <2>1. PICK i \in 1..Len(s), j \in 1..Len(s) : s[i] = a /\ s[j] = b
    BY <1>1
  <2>2. i < j \/ j < i
    BY <1>3, <2>1
  <2>3. QED BY <1>1, <2>1, <2>2 DEF Before
<1>4. QED BY <1>2, <1>3

\* Who stands before whom in two lists, one after the other.
LEMMA BeforeConcat ==
    ASSUME NEW S, NEW s \in Seq(S), NEW t \in Seq(S), NEW a, NEW b
    PROVE  Before(s \o t, a, b) <=> \/ Before(s, a, b) \/ Before(t, a, b)
                                    \/ a \in ToSet(s) /\ b \in ToSet(t)
<1> DEFINE c == s \o t
           m == Len(s)
           n == Len(t)
<1>1. /\ c \in Seq(S) /\ DOMAIN c = 1..m + n /\ DOMAIN s = 1..m /\ DOMAIN t = 1..n
      /\ m \in Nat /\ n \in Nat
      /\ \A i \in 1..m + n : c[i] = IF i <= m THEN s[i] ELSE t[i - m]
  BY ConcatProperties
<1>2. ToSet(s) = {s[i] : i \in 1..m} /\ ToSet(t) = {t[i] : i \in 1..n}
  BY <1>1 DEF ToSet
<1> HIDE DEF c, m, n
<1>3. /\ \A i \in 1..m : i \in 1..m + n /\ c[i] = s[i]
      /\ \A i \in 1..n : i + m \in 1..m + n /\ c[i + m] = t[i]
      /\ \A i \in 1..m + n : i \in 1..m \/ (i > m /\ i - m \in 1..n /\ c[i] = t[i - m])
  BY <1>1
<1>4. ASSUME Before(c, a, b)
      PROVE  Before(s, a, b) \/ Before(t, a, b) \/ (a \in ToSet(s) /\ b \in ToSet(t))
  <2>1. PICK i \in 1..m + n, j \in 1..m + n : i < j /\ c[i] = a /\ c[j] = b
    BY <1>1, <1>4 DEF Before
  <2>2. CASE i \in 1..m /\ j \in 1..m
    BY <1>1, <1>3, <2>1, <2>2 DEF Before
  <2>3. CASE i \in 1..m /\ j > m
    <3>1. s[i] = a
      BY <1>3, <2>1, <2>3
    <3>2. j - m \in 1..n /\ t[j - m] = b
      BY <1>1, <1>3, <2>1, <2>3
    <3>3. QED BY <1>2, <2>3, <3>1, <3>2
  <2>4. CASE i > m
    <3>1. j > m /\ i - m < j - m
      BY <1>1, <2>1, <2>4
    <3>2. i - m \in 1..n /\ j - m \in 1..n /\ t[i - m] = a /\ t[j - m] = b
      BY <1>1, <1>3, <2>1, <2>4, <3>1
    <3>3. QED BY <1>1, <3>1, <3>2 DEF Before
  <2>5. QED BY <1>1, <1>3, <2>1, <2>2, <2>3, <2>4
<1>5. ASSUME Before(s, a, b) PROVE Before(c, a, b)
  BY <1>1, <1>3, <1>5 DEF Before
<1>6. ASSUME Before(t, a, b) PROVE Before(c, a, b)
  <2>1. PICK i \in 1..n, j \in 1..n : i < j /\ t[i] = a /\ t[j] = b
    BY <1>1, <1>6 DEF Before
  <2>2. PICK k \in 1..m + n : k = i + m
    BY <1>3
  <2>3. PICK l \in 1..m + n : l = j + m
    BY <1>3
  <2>4. k < l
    BY <1>1, <2>1, <2>2, <2>3
  <2>5. c[k] = a /\ c[l] = b
    BY <1>3, <2>1, <2>2, <2>3
  <2>6. QED BY <1>1, <2>4, <2>5 DEF Before
<1>7. ASSUME a \in ToSet(s), b \in ToSet(t) PROVE Before(c, a, b)
  <2>1. PICK i \in 1..m : s[i] = a
    BY <1>2, <1>7
  <2>2. PICK j \in 1..n : t[j] = b
    BY <1>2, <1>7
  <2>3. i < j + m
    BY <1>1
  <2>4. QED BY <1>1, <1>3, <2>1, <2>2, <2>3 DEF Before
<1>8. QED BY <1>4, <1>5, <1>6, <1>7 DEF c

\* What is appended stands after the others.
LEMMA BeforeAppend ==
    ASSUME NEW S, NEW s \in Seq(S), NEW e \in S, NEW a, NEW b
    PROVE  Before(Append(s, e), a, b) <=> Before(s, a, b) \/ (a \in ToSet(s) /\ b = e)
<1>0. <<e>> \in Seq(S)
  OBVIOUS
<1>1. PICK t \in Seq(S) : t = <<e>>
  BY <1>0
<1>2. Append(s, e) = s \o t
  BY <1>1, AppendIsConcat
<1>3. ToSet(t) = {e} /\ ~Before(t, a, b)
  BY <1>1 DEF ToSet, Before
<1>4. QED BY <1>2, <1>3, BeforeConcat

\* The first element stands before the others.
LEMMA BeforeTail ==
    ASSUME NEW S, NEW s \in Seq(S), s # <<>>, IsInjective(s), NEW a, NEW b
    PROVE  Before(s, a, b) <=> \/ Before(Tail(s), a, b)
                               \/ a = Head(s) /\ b \in ToSet(Tail(s))
<1>1. PICK y \in S, t \in Seq(S) : y = Head(s) /\ t = Tail(s)
  BY HeadAndTail
<1>2. s = <<y>> \o t
  <2>1. /\ Len(s) \in Nat \ {0} /\ Len(t) = Len(s) - 1
        /\ \A i \in 1..Len(t) : t[i] = s[i + 1]
        /\ y = s[1]
    BY <1>1, HeadTailProperties, EmptySeq
  <2>2. /\ <<y>> \in Seq(S) /\ Len(<<y>>) = 1 /\ <<y>>[1] = y
        /\ <<y>> \o t \in Seq(S) /\ Len(<<y>> \o t) = 1 + Len(t)
        /\ \A i \in 1..1 + Len(t) : (<<y>> \o t)[i] = IF i <= 1 THEN <<y>>[i] ELSE t[i - 1]
    BY ConcatProperties
  <2>3. ASSUME NEW i \in 1..Len(s) PROVE s[i] = (<<y>> \o t)[i]
    <3>1. CASE i = 1
      BY <2>1, <2>2, <3>1
    <3>2. CASE i # 1
      <4>1. i - 1 \in 1..Len(t) /\ i \in 1..1 + Len(t) /\ ~(i <= 1)
        BY <2>1, <3>2
      <4>2. QED BY <2>1, <2>2, <4>1
    <3>3. QED BY <3>1, <3>2
  <2>4. Len(s) = Len(<<y>> \o t)
    BY <2>1, <2>2
  <2>5. QED BY <2>2, <2>3, <2>4, SeqEqual
<1>3. ToSet(<<y>>) = {y} /\ ~Before(<<y>>, a, b) /\ <<y>> \in Seq(S)
  BY DEF ToSet, Before
<1>4. QED BY <1>1, <1>2, <1>3, BeforeConcat

\* Erasing keeps the order.
LEMMA BeforeKeep ==
    ASSUME NEW S, NEW s \in Seq(S), IsInjective(s), NEW P, NEW a, NEW b
    PROVE  Before(KeepIn(s, P), a, b) <=> Before(s, a, b) /\ a \in P /\ b \in P
<1>1. PICK k \in Seq(S) : /\ k = KeepIn(s, P) /\ ToSet(k) = ToSet(s) \cap P
                          /\ IsInjective(k)
  BY KeepDistinct
<1> DEFINE R == {r \in S \X S : Before(s, r[1], r[2])}
<1>2. \A i, j \in 1..Len(s) : i < j => <<s[i], s[j]>> \in R
  BY DEF Before
<1> HIDE DEF R
<1>3. \A i, j \in 1..Len(k) : i < j => <<k[i], k[j]>> \in R
  BY <1>1, <1>2, KeepInProperties
<1>4. \A u, v : Before(k, u, v) => Before(s, u, v)
  <2> SUFFICES ASSUME NEW u, NEW v, Before(k, u, v) PROVE Before(s, u, v)
    OBVIOUS
  <2>1. PICK i \in 1..Len(k), j \in 1..Len(k) : i < j /\ k[i] = u /\ k[j] = v
    BY DEF Before
  <2>2. QED BY <1>3, <2>1 DEF R
<1>5. ASSUME Before(s, a, b), a \in P, b \in P PROVE Before(k, a, b)
  <2>1. a \in ToSet(k) /\ b \in ToSet(k) /\ a # b /\ ~Before(s, b, a)
    BY <1>1, <1>5, BeforeIsOrder
  <2>2. Before(k, a, b) \/ Before(k, b, a)
    BY <1>1, <2>1, BeforeIsOrder
  <2>3. QED BY <1>4, <2>1, <2>2
<1>6. ASSUME Before(k, a, b) PROVE a \in P /\ b \in P
  BY <1>1, <1>6, BeforeIsOrder
<1>7. QED BY <1>1, <1>4, <1>5, <1>6

\* Taking one element out keeps the order of the others.
LEMMA BeforeWithout ==
    ASSUME NEW S, NEW s \in Seq(S), IsInjective(s), NEW x, NEW a, NEW b
    PROVE  Before(Without(s, x), a, b) <=> Before(s, a, b) /\ a # x /\ b # x
<1>1. PICK P : P = {s[i] : i \in DOMAIN s} \ {x}
  OBVIOUS
<1>2. P = ToSet(s) \ {x}
  BY <1>1 DEF ToSet
<1>3. Without(s, x) = KeepIn(s, P)
  BY <1>1 DEF Without
<1>4. Before(s, a, b) => a \in ToSet(s) /\ b \in ToSet(s)
  BY BeforeIsOrder
<1>5. QED BY <1>2, <1>3, <1>4, BeforeKeep

\* A list is determined by what is in it and in which order.
LEMMA SameOrder ==
    ASSUME NEW S, NEW s \in Seq(S), NEW t \in Seq(S), IsInjective(s), IsInjective(t),
           ToSet(s) = ToSet(t), \A a, b : Before(s, a, b) => Before(t, a, b)
    PROVE  s = t
<1>0. PICK K : K = ToSet(s) /\ K = ToSet(t)
  OBVIOUS
<1>1. PICK m \in Nat : m = Len(s)
  OBVIOUS
<1>2. PICK n \in Nat : n = Len(t)
  OBVIOUS
<1>3. /\ DOMAIN s = 1..m /\ DOMAIN t = 1..n
      /\ \A i \in 1..m : s[i] \in K
      /\ \A i \in 1..n : t[i] \in K
      /\ \A e \in K : (\E i \in 1..m : s[i] = e) /\ (\E i \in 1..n : t[i] = e)
      /\ \A i, j \in 1..m : s[i] = s[j] => i = j
      /\ \A i, j \in 1..n : t[i] = t[j] => i = j
  <2>1. K = {s[i] : i \in 1..m} /\ DOMAIN s = 1..m
    BY <1>0, <1>1 DEF ToSet
  <2>2. K = {t[i] : i \in 1..n} /\ DOMAIN t = 1..n
    <3>1. K = ToSet(t)
      BY <1>0
    <3>2. ToSet(t) = {t[i] : i \in 1..n} /\ DOMAIN t = 1..n
      BY <1>2 DEF ToSet
    <3>3. QED BY <3>1, <3>2
  <2>3. \A e \in K : (\E i \in 1..m : s[i] = e) /\ (\E i \in 1..n : t[i] = e)
    <3>1. \A e \in K : \E i \in 1..m : s[i] = e
      BY <2>1
    <3>2. \A e \in K : \E i \in 1..n : t[i] = e
      BY <2>2
    <3>3. QED BY <3>1, <3>2
  <2>4. (\A i \in 1..m : s[i] \in K) /\ (\A i \in 1..n : t[i] \in K)
    <3>1. \A i \in 1..m : s[i] \in K
      BY <2>1
    <3>2. \A i \in 1..n : t[i] \in K
      BY <2>2
    <3>3. QED BY <3>1, <3>2
  <2>5. QED BY <2>1, <2>2, <2>3, <2>4 DEF IsInjective
<1>4. \A a, b \in K : Before(s, a, b) => Before(t, a, b)
  OBVIOUS
<1>5. \A a, b \in K : a # b => Before(s, a, b) \/ Before(s, b, a)
  BY <1>0, BeforeIsOrder
<1>6. \A a, b \in K : ~(Before(t, a, b) /\ Before(t, b, a))
  BY BeforeIsOrder
<1>7. \A i \in 1..m : i \in 1..n /\ s[i] = t[i]
  <2> DEFINE Bad == {i \in 1..m : ~(i \in 1..n /\ s[i] = t[i])}
  <2> SUFFICES ASSUME Bad # {} PROVE FALSE
    OBVIOUS
  <2>1. PICK i \in Bad : \A j \in Bad : i <= j
    BY NatMin, Bad \subseteq Nat
  <2>2. i \in 1..m /\ ~(i \in 1..n /\ s[i] = t[i])
    BY <2>1
  <2>3. \A j \in 1..m : j < i => j \in 1..n /\ s[j] = t[j]
    BY <2>1
  <2> HIDE DEF Bad
  <2>4. PICK k \in 1..n : t[k] = s[i]
    BY <1>3, <2>2
  <2>5. ~(k < i)
    BY <1>3, <2>2, <2>3, <2>4
  <2>6. i < k /\ i \in 1..n
    BY <2>2, <2>4, <2>5
  <2>7. Before(t, t[i], s[i])
    BY <1>3, <2>4, <2>6 DEF Before
  <2>8. t[i] # s[i] /\ t[i] \in K /\ s[i] \in K
    BY <1>3, <2>2, <2>6
  <2>9. Before(s, t[i], s[i])
    BY <1>4, <1>5, <1>6, <2>7, <2>8
  <2>10. PICK j \in 1..m, l \in 1..m : j < l /\ s[j] = t[i] /\ s[l] = s[i]
    BY <1>3, <2>9 DEF Before
  <2>11. l = i
    BY <1>3, <2>2, <2>10
  <2>12. j \in 1..n /\ t[j] = t[i]
    BY <2>3, <2>10, <2>11
  <2>13. QED BY <1>3, <2>6, <2>10, <2>11, <2>12
<1>8. m = n
  <2>1. m <= n
    BY <1>7, m = 0 \/ m \in 1..m
  <2> SUFFICES ASSUME m < n PROVE FALSE
    BY <2>1
  <2>2. n \in 1..n
    BY <2>1
  <2>3. PICK k \in 1..m : s[k] = t[n]
    BY <1>3, <2>2
  <2>4. t[k] = t[n] /\ k \in 1..n
    BY <1>7, <2>3
  <2>5. QED BY <1>3, <2>2, <2>3, <2>4
<1>9. QED BY <1>1, <1>2, <1>7, <1>8, SeqEqual
=============================================================================
