----------------------------- MODULE FieldElement -----------------------------
(***************************************************************************)
(* Field elements of the signature library (Engine/Crypt/fe.c): ten signed *)
(* limbs of alternating width, with the top wrapping around into limb 0    *)
(* times Wrap.  In the code EvenWidth = 26, OddWidth = 25 and Wrap = 19,   *)
(* so that the ring is the integers mod 2^255 - 19.  The limbs, the order  *)
(* of the carries and every coefficient are those of the code; the widths  *)
(* are parameters, since TLC's integers have 32 bits.                      *)
(***************************************************************************)
EXTENDS Integers, SequencesExt

CONSTANTS EvenWidth, OddWidth, Wrap

Limbs == 0..9
Width(i) == IF i % 2 = 0 THEN EvenWidth ELSE OddWidth
Position(i) == (EvenWidth + OddWidth) * (i \div 2) + (i % 2) * EvenWidth
Upward == <<0, 1, 2, 3, 4, 5, 6, 7, 8, 9>>
Sum(f) == FoldLeft(LAMBDA sum, i : sum + f[i], 0, Upward)

-----------------------------------------------------------------------------
(* Carries. *)

\* c moves from limb i to the next one.
Move(h, i, c) ==
    [h EXCEPT ![i] = @ - c * 2^Width(i),
              ![(i + 1) % 10] = @ + (IF i = 9 THEN Wrap * c ELSE c)]

\* Rounds to the nearest, so that what is left has at most half the width.
Carry(h, i) == Move(h, i, (h[i] + 2^(Width(i) - 1)) \div 2^Width(i))

\* Mutant of CarryAll: the last carry is forgotten.
CarryOnce(h) == FoldLeft(Carry, h, <<0, 4, 1, 5, 2, 6, 3, 7, 4, 8, 9>>)

\* After a product: two chains side by side, and 4 and 0 once more.
CarryAll(h) == FoldLeft(Carry, h, <<0, 4, 1, 5, 2, 6, 3, 7, 4, 8, 9, 0>>)

\* After a load or a product with a small number.
CarryOddEven(h) == FoldLeft(Carry, h, <<9, 1, 3, 5, 7, 0, 2, 4, 6, 8>>)

-----------------------------------------------------------------------------
(* Operations. *)

fe_0 == [i \in Limbs |-> 0]
fe_1 == [i \in Limbs |-> IF i = 0 THEN 1 ELSE 0]
fe_add(f, g) == [i \in Limbs |-> f[i] + g[i]]
fe_sub(f, g) == [i \in Limbs |-> f[i] - g[i]]
fe_neg(f)    == [i \in Limbs |-> -f[i]]
fe_cmov(f, g, b)  == IF b = 1 THEN g ELSE f
fe_cswap(f, g, b) == IF b = 1 THEN <<g, f>> ELSE <<f, g>>

\* Two odd limbs meet half a bit below the position of their product.
Coefficient(i, j) == (IF i % 2 = 1 /\ j % 2 = 1 THEN 2 ELSE 1) * (IF i + j >= 10 THEN Wrap ELSE 1)

\* What limb i is multiplied with before, in 32 bits: as a factor f of fe_mul, as
\* a factor g, and in the squares.
Before == [mulF |-> [i \in Limbs |-> IF i % 2 = 1 THEN {2} ELSE {}],
           mulG |-> [i \in Limbs |-> IF i = 0 THEN {} ELSE {Wrap}],
           sq   |-> [i \in Limbs |-> (IF i < 8 THEN {2} ELSE {})
                                     \cup (CASE i \in {5, 7, 9} -> {2 * Wrap}
                                             [] i \in {6, 8} -> {Wrap} [] OTHER -> {})]]

fe_mul(f, g) ==
    CarryAll([k \in Limbs |->
        Sum([i \in Limbs |-> LET j == (k - i) % 10 IN Coefficient(i, j) * f[i] * g[j]])])

\* Each pair of limbs is multiplied once, and twice counted.
Squares(f) ==
    [k \in Limbs |->
        Sum([i \in Limbs |->
                LET j == (k - i) % 10
                    times == CASE i < j -> 2 [] i = j -> 1 [] i > j -> 0
                IN  times * Coefficient(i, j) * f[i] * f[j]])]
fe_sq(f)  == CarryAll(Squares(f))
fe_sq2(f) == LET h == Squares(f) IN CarryAll([k \in Limbs |-> h[k] + h[k]])

\* The product with 121666, here with n.
fe_mul121666(f, n) == CarryOddEven([i \in Limbs |-> f[i] * n])

\* The carry out of the top, from an estimate of it.
Quotient(h) ==
    FoldLeft(LAMBDA q, i : (h[i] + q) \div 2^Width(i),
             (Wrap * h[9] + 2^(OddWidth - 1)) \div 2^OddWidth, Upward)

\* The limbs that fe_tobytes packs: those of the least representative.
Canonical(h) ==
    LET least == [h EXCEPT ![0] = @ + Wrap * Quotient(h)]
        Floor(g, i) == Move(g, i, g[i] \div 2^Width(i))
        low == FoldLeft(Floor, least, <<0, 1, 2, 3, 4, 5, 6, 7, 8>>)
    IN  [low EXCEPT ![9] = @ % 2^OddWidth]

fe_isnegative(f) == Canonical(f)[0] % 2
fe_isnonzero(f)  == \E i \in Limbs : Canonical(f)[i] # 0

-----------------------------------------------------------------------------
(* Packing, at the sizes of the code. *)

\* fe_frombytes: for limb i the first byte it loads, how many (load_3, load_4)
\* and how far they are shifted; the top bit of the last byte is masked.
Loads == <<<<0, 4, 0>>, <<4, 3, 6>>, <<7, 3, 5>>, <<10, 3, 3>>, <<13, 3, 2>>,
           <<16, 4, 0>>, <<20, 3, 7>>, <<23, 3, 5>>, <<26, 3, 4>>, <<29, 3, 2>>>>

\* fe_tobytes: the limbs a byte is made of, each shifted right.
Packs == <<{<<0, 0>>}, {<<0, 8>>}, {<<0, 16>>}, {<<0, 24>>, <<1, -2>>}, {<<1, 6>>}, {<<1, 14>>},
           {<<1, 22>>, <<2, -3>>}, {<<2, 5>>}, {<<2, 13>>}, {<<2, 21>>, <<3, -5>>}, {<<3, 3>>},
           {<<3, 11>>}, {<<3, 19>>, <<4, -6>>}, {<<4, 2>>}, {<<4, 10>>}, {<<4, 18>>},
           {<<5, 0>>}, {<<5, 8>>}, {<<5, 16>>}, {<<5, 24>>, <<6, -1>>}, {<<6, 7>>}, {<<6, 15>>},
           {<<6, 23>>, <<7, -3>>}, {<<7, 5>>}, {<<7, 13>>}, {<<7, 21>>, <<8, -4>>}, {<<8, 4>>},
           {<<8, 12>>}, {<<8, 20>>, <<9, -6>>}, {<<9, 2>>}, {<<9, 10>>}, {<<9, 18>>}>>

-----------------------------------------------------------------------------
(* Powers.  A power of z is the set of the bits of its exponent. *)

RECURSIVE Times(_, _)
Times(a, b) ==
    IF a \cap b = {} THEN a \cup b
    ELSE Times((a \cup b) \ (a \cap b), {k + 1 : k \in a \cap b})
Squared(a, n) == {k + n : k \in a}

\* z^(2^250 - 1) from t = z^31, shared by both chains.
Ladder(t) ==
    LET t10 == Times(Squared(t, 5), t)
        t20 == Times(Squared(t10, 10), t10)
        t40 == Times(Squared(t20, 20), t20)
        t50 == Times(Squared(t40, 10), t10)
        t100 == Times(Squared(t50, 50), t50)
        t200 == Times(Squared(t100, 100), t100)
    IN  Times(Squared(t200, 50), t50)

fe_invert(z) ==
    LET z2 == Squared(z, 1)
        z9 == Times(z, Squared(z2, 2))
        z11 == Times(z2, z9)
        t == Times(z9, Squared(z11, 1))
    IN  Times(Squared(Ladder(t), 5), z11)

fe_pow22523(z) ==
    LET z9 == Times(z, Squared(Squared(z, 1), 2))
        z11 == Times(Squared(z, 1), z9)
    IN  Times(Squared(Ladder(Times(z9, Squared(z11, 1))), 2), z)

-----------------------------------------------------------------------------
(* What they should give. *)

Modulus == 2^Position(10) - Wrap
Val(h) == FoldLeft(LAMBDA v, i : (v * 2^Width(i) + h[i]) % Modulus, 0, Reverse(Upward))

\* The limbs stand for the sum, difference, product and square in the ring.
RingExact(f, g) ==
    /\ Val(fe_add(f, g)) = (Val(f) + Val(g)) % Modulus
    /\ Val(fe_sub(f, g)) = (Val(f) - Val(g)) % Modulus
    /\ Val(fe_neg(f)) = (-Val(f)) % Modulus
    /\ Val(fe_mul(f, g)) = (Val(f) * Val(g)) % Modulus
    /\ Val(fe_sq(f)) = (Val(f) * Val(f)) % Modulus
    /\ Val(fe_sq2(f)) = (2 * Val(f) * Val(f)) % Modulus
    /\ Val(fe_mul121666(f, 121666 % 100)) = (Val(f) * (121666 % 100)) % Modulus

\* |h| is at most tenths/10 of half the width of each limb.
Reduced(h, tenths) == \A i \in Limbs : 20 * h[i] \in -(tenths * 2^Width(i))..(tenths * 2^Width(i))

\* Products of limbs bounded by 1.65 widths come out reduced: the carries reach
\* every limb (the postconditions in the comments of fe_mul and fe_sq).
ProductsReduced(f, g) == Reduced(fe_mul(f, g), 11) /\ Reduced(fe_sq(f), 11)

\* Nothing overflows at the sizes of the code, for limbs bounded by 1.65 widths:
\* no multiple of a limb 32 bits (in units of 2^20 / 100), no sum of products 64
\* bits, twice it in fe_sq2 (in units of 1.65^2 * 2^50, the square of an odd
\* limb's bound; even limbs have twice that bound).
ProductsFit ==
    LET bound(i) == 2 - (i % 2)
    IN  /\ \A use \in DOMAIN Before : \A i \in Limbs : \A n \in Before[use][i] :
            n * 165 * 2^(Width(i) - 20) < 100 * 2^(31 - 20)
        /\ \A k \in Limbs :
            Sum([i \in Limbs |-> LET j == (k - i) % 10 IN Coefficient(i, j) * bound(i) * bound(j)])
                * 2 * 27225 < 8192 * 10000

\* h stands for the number with limbs r, and all its representations give r.
ReducesTo(h, r) ==
    /\ Canonical(h) = r
    /\ fe_isnegative(h) = r[0] % 2
    /\ fe_isnonzero(h) <=> r # fe_0

\* The bit of a limb that bit b of the 32 bytes is loaded into or packed from.
Holder(b) == CHOOSE i \in Limbs : Position(i) <= b /\ b < Position(i) + Width(i)
BytesExact ==
    \A b \in 0..254 :
        /\ {<<i, 8 * (b \div 8 - Loads[i + 1][1]) + (b % 8) + Loads[i + 1][3] + Position(i)>> :
                i \in {l \in Limbs : b \div 8 \in Loads[l + 1][1]..Loads[l + 1][1] + Loads[l + 1][2] - 1}}
           \in {{<<i, b>>} : i \in Limbs}
        /\ {<<p[1], (b % 8) + p[2]>> : p \in {q \in Packs[b \div 8 + 1] : (b % 8) + q[2] \in 0..Width(q[1]) - 1}}
           = {<<Holder(b), b - Position(Holder(b))>>}

\* z^(p - 2), p - 2 = 2^255 - 21, and z^((p - 5) / 8), (p - 5) / 8 = 2^252 - 3.
PowersExact ==
    /\ Times(fe_invert({0}), {0, 2, 4}) = {255}
    /\ Times(fe_pow22523({0}), {0, 1}) = {252}
=============================================================================
