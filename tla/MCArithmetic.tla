---------------------------- MODULE MCArithmetic ----------------------------
(***************************************************************************)
(* Field elements and scalars of the signature library: inputs, and what   *)
(* the arithmetic should give.                                             *)
(***************************************************************************)
EXTENDS Probe

-----------------------------------------------------------------------------
(* Field elements: in the ring of the integers mod 2^15 - 19; with limbs wide *)
(* enough that a limb has room for its products; with room for the multiples  *)
(* of the modulus; and at the sizes of the code where no number is computed.  *)

SmallField  == INSTANCE FieldElement WITH EvenWidth <- 2, OddWidth <- 1, Wrap <- 19
WideField   == INSTANCE FieldElement WITH EvenWidth <- 12, OddWidth <- 11, Wrap <- 3
MiddleField == INSTANCE FieldElement WITH EvenWidth <- 6, OddWidth <- 5, Wrap <- 3
Field25519  == INSTANCE FieldElement WITH EvenWidth <- 26, OddWidth <- 25, Wrap <- 19

Limb(i, v) == [j \in 0..9 |-> IF j = i THEN v ELSE 0]
Mixed(m, v) == [j \in 0..9 |-> IF (m \div ((j % 5) + 1)) % 2 = 0 THEN v ELSE -v]
Bound(i) == (165 * 2^(IF i % 2 = 0 THEN 12 ELSE 11)) \div 100
Extreme(m) == [j \in 0..9 |-> LET v == Bound(j) IN CASE (m \div ((j % 5) + 1)) % 3 = 0 -> v
                                                    [] (m \div ((j % 5) + 1)) % 3 = 1 -> -v
                                                    [] OTHER -> v - m]

\* Canonical limbs, and the same number with q times the modulus added and a
\* unit borrowed from the limbs after those of a set.
Top(i) == 2^(IF i % 2 = 0 THEN 6 ELSE 5) - 1
Canonicals == {[i \in 0..9 |-> 0], Limb(0, 1), Limb(9, 31),
               [i \in 0..9 |-> IF i = 0 THEN 60 ELSE Top(i)],
               [i \in 0..9 |-> IF i = 0 THEN 59 ELSE Top(i)],
               [i \in 0..9 |-> IF i \in {4, 9} THEN 0 ELSE Top(i)],
               [i \in 0..9 |-> IF i = 3 THEN 1 ELSE IF i = 9 THEN 31 ELSE 0]}
Spread(r, q, borrow) ==
    [i \in 0..9 |-> r[i] + (IF i = 0 THEN -3 * q ELSE 0) + (IF i = 9 THEN 32 * q ELSE 0)
                     + (IF i \in borrow THEN Top(i) + 1 ELSE 0) - (IF i - 1 \in borrow THEN 1 ELSE 0)]

TryField ==
    \/ \E i, j \in 0..9, v \in {-3, 1, 2} : Try("ring", <<Limb(i, v), Limb(j, 1)>>)
    \/ \E m, n \in 0..9 : Try("ring", <<Mixed(m, 3), Mixed(n, 2)>>)
    \/ \E m, n \in 0..9 : Try("wide", <<Extreme(m), Extreme(n)>>)
    \/ \E r \in Canonicals, q \in -1..1, borrow \in SUBSET {0, 2, 3, 7, 8} :
            Try("canonical", <<Spread(r, q, borrow), r>>)
    \/ Try("sizes", 0)

\* Field arithmetic is exact: every product, square and sum of limbs is that of
\* the ring; products of loose limbs are reduced again and never overflow; the
\* packed limbs are those of the least representative; loading and packing keep
\* every bit; the two addition chains compute the powers that an inverse and a
\* square root need (fe.c).
FieldExact ==
    /\ Probes("ring") => SmallField!RingExact(Input[1], Input[2])
    /\ Probes("wide") => WideField!ProductsReduced(Input[1], Input[2])
    /\ Probes("canonical") => MiddleField!ReducesTo(Input[1], Input[2])
    /\ Probes("sizes") => /\ Field25519!ProductsFit
                          /\ Field25519!BytesExact
                          /\ Field25519!PowersExact

-----------------------------------------------------------------------------
(* Scalars: modulo an order of 24 bits, and with limbs of 8 bits and the      *)
(* coefficients of the code scaled down as much, where only limbs are looked  *)
(* at.                                                                        *)

SmallScalar == INSTANCE Scalar WITH Width <- 2, Folds <- <<1, 0, 1, -2, 1, -1>>
WideScalar  == INSTANCE Scalar WITH Width <- 8, Folds <- <<81, 57, 80, -122, 17, -83>>

Loaded(m, top, low) == [k \in 0..23 |-> IF k = 23 THEN top ELSE IF (m \div ((k % 7) + 1)) % 2 = 0 THEN low ELSE 0]
Twelve(m, v) == [k \in 0..23 |-> IF k > 11 THEN 0 ELSE (v * k + m) % 4]

TryScalar ==
    \/ \E k \in 0..23, v \in 1..3, low \in {0, 3} : Try("scalar", [j \in 0..23 |-> IF j = k THEN v ELSE low])
    \/ \E a, b \in {<<3, 0>>, <<1, 1>>, <<2, 3>>, <<3, 2>>, <<0, 0>>, <<1, 0>>}, c \in {<<0, 0>>, <<3, 0>>, <<1, 3>>} :
            Try("muladd", <<Twelve(a[1], a[2]), Twelve(b[1], b[2]), Twelve(c[1], c[2])>>)
    \/ \E m \in 0..9, top \in {0, 1, 255, 65535}, low \in {128, 255} : Try("limbs", Loaded(m, top, low))

\* Reduction modulo the order of the base point is exact, with limbs that fit
\* the bytes they are stored in (sc.c).
ScalarsExact ==
    /\ Probes("scalar") => SmallScalar!SameScalar(Input)
    /\ Probes("muladd") => SmallScalar!SameProduct(Input[1], Input[2], Input[3])
    /\ Probes("limbs") => WideScalar!Stored(WideScalar!sc_reduce(Input))
    /\ Probes("sizes") => SmallScalar!BitsKept
=============================================================================
