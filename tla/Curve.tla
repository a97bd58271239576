-------------------------------- MODULE Curve --------------------------------
(***************************************************************************)
(* Points of the curve -x^2 + y^2 = 1 + d x^2 y^2 (Engine/Crypt/ge.c).     *)
(*                                                                         *)
(* The operations of a field element are parameters: an instance gives     *)
(* them the arithmetic of a small field, where every point can be tried,   *)
(* or the bounds of their limbs, to see that none is used too loose.  The  *)
(* length of a scalar is a parameter too.                                  *)
(***************************************************************************)
EXTENDS Integers, SequencesExt

CONSTANTS
    fe_add(_, _), fe_sub(_, _), fe_neg(_), fe_mul(_, _), fe_sq(_), fe_sq2(_),
    fe_invert(_), fe_pow22523(_), fe_isnegative(_), fe_isnonzero(_),
    fe_frombytes(_), fe_tobytes(_),
    fe_0, fe_1, d, d2, sqrtm1,
    Bytes,          \* of a scalar: 32 in the code
    Precomputed(_)  \* ge_precomp of the multiples of the base point

-----------------------------------------------------------------------------
(* Representations. *)

P2(X, Y, Z)      == [X |-> X, Y |-> Y, Z |-> Z]
P3(X, Y, Z, T)   == [X |-> X, Y |-> Y, Z |-> Z, T |-> T]
P1P1(X, Y, Z, T) == [X |-> X, Y |-> Y, Z |-> Z, T |-> T]
Precomp(yplusx, yminusx, xy2d) == [yplusx |-> yplusx, yminusx |-> yminusx, xy2d |-> xy2d]

ge_p2_0 == P2(fe_0, fe_1, fe_1)
ge_p3_0 == P3(fe_0, fe_1, fe_1, fe_0)
ge_p3_to_p2(p) == P2(p.X, p.Y, p.Z)
ge_p1p1_to_p2(p) == P2(fe_mul(p.X, p.T), fe_mul(p.Y, p.Z), fe_mul(p.Z, p.T))
ge_p1p1_to_p3(p) == P3(fe_mul(p.X, p.T), fe_mul(p.Y, p.Z), fe_mul(p.Z, p.T), fe_mul(p.X, p.Y))
ge_p3_to_cached(p) ==
    [YplusX |-> fe_add(p.Y, p.X), YminusX |-> fe_sub(p.Y, p.X), Z |-> p.Z, T2d |-> fe_mul(p.T, d2)]

-----------------------------------------------------------------------------
(* The group. *)

\* The products of an addition put together; a subtraction swaps Z and T.
Plus(plus, minus, dxy, zz)  ==
    P1P1(fe_sub(plus, minus), fe_add(plus, minus), fe_add(zz, dxy), fe_sub(zz, dxy))
Minus(plus, minus, dxy, zz) ==
    P1P1(fe_sub(plus, minus), fe_add(plus, minus), fe_sub(zz, dxy), fe_add(zz, dxy))

ge_add(p, q) ==
    LET zz == fe_mul(p.Z, q.Z)
    IN  Plus(fe_mul(fe_add(p.Y, p.X), q.YplusX), fe_mul(fe_sub(p.Y, p.X), q.YminusX),
             fe_mul(q.T2d, p.T), fe_add(zz, zz))
ge_sub(p, q) ==
    LET zz == fe_mul(p.Z, q.Z)
    IN  Minus(fe_mul(fe_add(p.Y, p.X), q.YminusX), fe_mul(fe_sub(p.Y, p.X), q.YplusX),
              fe_mul(q.T2d, p.T), fe_add(zz, zz))
ge_madd(p, q) ==
    Plus(fe_mul(fe_add(p.Y, p.X), q.yplusx), fe_mul(fe_sub(p.Y, p.X), q.yminusx),
         fe_mul(q.xy2d, p.T), fe_add(p.Z, p.Z))
ge_msub(p, q) ==
    Minus(fe_mul(fe_add(p.Y, p.X), q.yminusx), fe_mul(fe_sub(p.Y, p.X), q.yplusx),
          fe_mul(q.xy2d, p.T), fe_add(p.Z, p.Z))

ge_p2_dbl(p) ==
    LET xx == fe_sq(p.X)
        yy == fe_sq(p.Y)
        sum == fe_add(yy, xx)
        difference == fe_sub(yy, xx)
    IN  P1P1(fe_sub(fe_sq(fe_add(p.X, p.Y)), sum), sum, difference, fe_sub(fe_sq2(p.Z), difference))
ge_p3_dbl(p) == ge_p2_dbl(ge_p3_to_p2(p))

-----------------------------------------------------------------------------
(* Bytes. *)

\* The bytes of y, with the sign of x in the last bit.
ge_tobytes(p) ==
    LET recip == fe_invert(p.Z)
    IN  <<fe_tobytes(fe_mul(p.Y, recip)), fe_isnegative(fe_mul(p.X, recip))>>
ge_p3_tobytes(p) == ge_tobytes(ge_p3_to_p2(p))

NoPoint == [X |-> -1]

\* The negative of the point with that y and that sign; x is a square root.
ge_frombytes_negate_vartime(s) ==
    LET y == fe_frombytes(s[1])
        u == fe_sub(fe_sq(y), fe_1)
        v == fe_add(fe_mul(fe_sq(y), d), fe_1)
        v3 == fe_mul(fe_sq(v), v)
        uv7 == fe_mul(fe_mul(fe_sq(v3), v), u)
        root == fe_mul(fe_mul(fe_pow22523(uv7), v3), u)
        vxx == fe_mul(fe_sq(root), v)
        x == IF fe_isnonzero(fe_sub(vxx, u)) THEN fe_mul(root, sqrtm1) ELSE root
        signed == IF fe_isnegative(x) = s[2] THEN fe_neg(x) ELSE x
    IN  IF fe_isnonzero(fe_sub(vxx, u)) /\ fe_isnonzero(fe_add(vxx, u)) THEN NoPoint
        ELSE P3(signed, y, fe_1, fe_mul(signed, y))

-----------------------------------------------------------------------------
(* Multiples of the base point, by signed digits from -8 to 8. *)

\* base[pos][j - 1] is j * 256^pos * B; its negative has y + x and y - x swapped.
select(pos, b) ==
    LET t == IF b = 0 THEN Precomp(fe_1, fe_1, fe_0)
             ELSE Precomputed((IF b < 0 THEN -b ELSE b) * 256^pos)
    IN  IF b < 0 THEN Precomp(t.yminusx, t.yplusx, fe_neg(t.xy2d)) ELSE t

\* The digits of a, least first: each carries so that it is at most 8.
SignedDigits(a) ==
    LET last == 2 * Bytes
        CarryOut(e, i) ==
            LET carry == (e[i] + 8) \div 16
            IN  [e EXCEPT ![i] = @ - 16 * carry, ![i + 1] = @ + carry]
    IN  FoldLeft(CarryOut, [i \in 1..last |-> (a \div 16^(i - 1)) % 16], [i \in 1..last - 1 |-> i])

ge_scalarmult_base(a) ==
    LET e == SignedDigits(a)
        AddDigit(h, i) == ge_p1p1_to_p3(ge_madd(h, select((i - 1) \div 2, e[i])))
        odd == FoldLeft(AddDigit, ge_p3_0, [k \in 1..Bytes |-> 2 * k])
        Twice(p) == ge_p2_dbl(ge_p1p1_to_p2(p))
        shifted == ge_p1p1_to_p3(Twice(Twice(Twice(ge_p3_dbl(odd)))))
    IN  FoldLeft(AddDigit, shifted, [k \in 1..Bytes |-> 2 * k - 1])

-----------------------------------------------------------------------------
(* a * A + b * B, by odd digits from -15 to 15 with zeros between them. *)

Bits == 0..8 * Bytes - 1
Binary(a) == [i \in Bits |-> (a \div 2^i) % 2]

\* Mutant of AddAbove: the carry stops at the first bit.
AddOneBit(r, k) == [r EXCEPT ![k] = 1 - @]

\* 2^k is added to the bits of r from k up; what runs past the top is lost.
AddAbove(r, k) ==
    LET zeros == {j \in Bits : j >= k /\ r[j] = 0}
        stop == IF zeros = {} THEN 8 * Bytes ELSE CHOOSE j \in zeros : \A l \in zeros : j <= l
    IN  [j \in Bits |-> IF j \in k..stop - 1 THEN 0 ELSE IF j = stop THEN 1 ELSE r[j]]

\* Digit i takes in the bits above it, as long as it stays within 15.
RECURSIVE Absorb(_, _, _)
Absorb(r, i, b) ==
    IF b > 6 \/ i + b \notin Bits \/ r[i] = 0 THEN r
    ELSE IF r[i + b] = 0 THEN Absorb(r, i, b + 1)
    ELSE IF r[i] + r[i + b] * 2^b <= 15
         THEN Absorb([r EXCEPT ![i] = @ + r[i + b] * 2^b, ![i + b] = 0], i, b + 1)
    ELSE IF r[i] - r[i + b] * 2^b >= -15
         THEN Absorb(AddAbove([r EXCEPT ![i] = @ - r[i + b] * 2^b], i + b), i, b + 1)
    ELSE r

slide(a) == FoldLeft(LAMBDA r, i : Absorb(r, i, 1), Binary(a), [k \in 1..8 * Bytes |-> k - 1])

\* A, 3A, 5A, ... 15A, cached.
OddMultiples(A) ==
    LET A2 == ge_p1p1_to_p3(ge_p3_dbl(A))
        AddTwo(seq, k) == Append(seq, ge_p3_to_cached(ge_p1p1_to_p3(ge_add(A2, Last(seq)))))
    IN  FoldLeft(AddTwo, <<ge_p3_to_cached(A)>>, <<2, 3, 4, 5, 6, 7, 8>>)

ge_double_scalarmult_vartime(a, A, b) ==
    LET aslide == slide(a)
        bslide == slide(b)
        Ai == OddMultiples(A)
        used == {i \in Bits : aslide[i] # 0 \/ bslide[i] # 0}
        top == IF used = {} THEN -1 ELSE CHOOSE i \in used : \A j \in used : j <= i
        AddA(t, e) == CASE e > 0 -> ge_add(ge_p1p1_to_p3(t), Ai[e \div 2 + 1])
                        [] e < 0 -> ge_sub(ge_p1p1_to_p3(t), Ai[(-e) \div 2 + 1])
                        [] e = 0 -> t
        AddB(t, e) == CASE e > 0 -> ge_madd(ge_p1p1_to_p3(t), Precomputed(2 * (e \div 2) + 1))
                        [] e < 0 -> ge_msub(ge_p1p1_to_p3(t), Precomputed(2 * ((-e) \div 2) + 1))
                        [] e = 0 -> t
        Step(r, i) == ge_p1p1_to_p2(AddB(AddA(ge_p2_dbl(r), aslide[i]), bslide[i]))
    IN  FoldLeft(Step, ge_p2_0, [k \in 1..top + 1 |-> top + 1 - k])
=============================================================================
