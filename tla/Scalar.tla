-------------------------------- MODULE Scalar --------------------------------
(***************************************************************************)
(* Scalars of the signature library (Engine/Crypt/sc.c): numbers modulo    *)
(* the order L of the base point, as limbs of Width bits, 24 of them       *)
(* before and 12 after a reduction.  In the code Width = 21 and L =        *)
(* 2^252 + delta, where delta is minus the number with the six signed      *)
(* limbs Folds.  The steps and their order are those of the code; Width    *)
(* and Folds are parameters, since TLC's integers have 32 bits.            *)
(***************************************************************************)
EXTENDS Integers, SequencesExt

CONSTANTS
    Width,
    Folds    \* <<666643, 470296, 654183, -997805, 136657, -683901>> in the code

Limbs == 0..23

\* 2^(12 * Width) is the number with the limbs Folds: limb k goes into the six
\* limbs from the twelfth below it.
Fold(s, k) ==
    [j \in Limbs |-> CASE j = k -> 0
                       [] j \in k - 12..k - 7 -> s[j] + s[k] * Folds[j - k + 13]
                       [] OTHER -> s[j]]

Move(s, k, c) == [s EXCEPT ![k] = @ - c * 2^Width, ![k + 1] = @ + c]
Round(s, k) == Move(s, k, (s[k] + 2^(Width - 1)) \div 2^Width)
Floor(s, k) == Move(s, k, s[k] \div 2^Width)

Up(from, to, step) == [i \in 1..(to - from) \div step + 1 |-> from + step * (i - 1)]
Down(from, to) == [i \in 1..from - to + 1 |-> from - i + 1]

\* Folds and carries from the loaded limbs to the stored ones.
Reduce(s) ==
    LET s1 == FoldLeft(Fold, s, Down(23, 18))
        s2 == FoldLeft(Round, s1, Up(6, 16, 2) \o Up(7, 15, 2))
        s3 == FoldLeft(Fold, s2, Down(17, 12))
        s4 == FoldLeft(Round, s3, Up(0, 10, 2) \o Up(1, 11, 2))
        s5 == FoldLeft(Floor, Fold(s4, 12), Up(0, 11, 1))
    IN  FoldLeft(Floor, Fold(s5, 12), Up(0, 10, 1))

\* The limbs of a * b + c for twelve limbs each, one limb by one carried.
Product(a, b, c) ==
    [k \in Limbs |->
        FoldLeft(LAMBDA sum, i : sum + (IF k - i \in 0..11 THEN a[i] * b[k - i] ELSE 0),
                 IF k \in 0..11 THEN c[k] ELSE 0, Up(0, 11, 1))]
Carried(s) == FoldLeft(Round, s, Up(0, 22, 2) \o Up(1, 21, 2))

sc_reduce(s) == Reduce(s)
sc_muladd(a, b, c) == Reduce(Carried(Product(a, b, c)))

-----------------------------------------------------------------------------
(* Loading and packing, at the sizes of the code. *)

\* For each limb the first byte it is loaded from, how many (load_3, load_4) and
\* how far they are shifted to the right; sc_muladd loads the first twelve.
Loads == <<<<0, 3, 0>>, <<2, 4, 5>>, <<5, 3, 2>>, <<7, 4, 7>>, <<10, 4, 4>>, <<13, 3, 1>>,
           <<15, 4, 6>>, <<18, 3, 3>>, <<21, 3, 0>>, <<23, 4, 5>>, <<26, 3, 2>>, <<28, 4, 7>>,
           <<31, 4, 4>>, <<34, 3, 1>>, <<36, 4, 6>>, <<39, 3, 3>>, <<42, 3, 0>>, <<44, 4, 5>>,
           <<47, 3, 2>>, <<49, 4, 7>>, <<52, 4, 4>>, <<55, 3, 1>>, <<57, 4, 6>>, <<60, 4, 3>>>>

\* All limbs but the last loaded, 23 in sc_reduce and 11 in sc_muladd, are masked
\* to their 21 bits: the bits of limb i that bit b of the bytes is loaded into.
LoadedInto(b, last) ==
    {<<i, 8 * (b \div 8 - Loads[i + 1][1]) + (b % 8) - Loads[i + 1][3]>> :
        i \in {l \in 0..last : b \div 8 \in Loads[l + 1][1]..Loads[l + 1][1] + Loads[l + 1][2] - 1}}
Kept(i, p, last) == p >= 0 /\ (i < last => p < 21)

\* The limbs a byte of the result is made of, each shifted to the right.
Packs == <<{<<0, 0>>}, {<<0, 8>>}, {<<0, 16>>, <<1, -5>>}, {<<1, 3>>}, {<<1, 11>>},
           {<<1, 19>>, <<2, -2>>}, {<<2, 6>>}, {<<2, 14>>, <<3, -7>>}, {<<3, 1>>}, {<<3, 9>>},
           {<<3, 17>>, <<4, -4>>}, {<<4, 4>>}, {<<4, 12>>}, {<<4, 20>>, <<5, -1>>}, {<<5, 7>>},
           {<<5, 15>>, <<6, -6>>}, {<<6, 2>>}, {<<6, 10>>}, {<<6, 18>>, <<7, -3>>}, {<<7, 5>>},
           {<<7, 13>>}, {<<8, 0>>}, {<<8, 8>>}, {<<8, 16>>, <<9, -5>>}, {<<9, 3>>}, {<<9, 11>>},
           {<<9, 19>>, <<10, -2>>}, {<<10, 6>>}, {<<10, 14>>, <<11, -7>>}, {<<11, 1>>},
           {<<11, 9>>}, {<<11, 17>>}>>

-----------------------------------------------------------------------------
(* What they should give. *)

FoldsValue == FoldLeft(LAMBDA v, i : v * 2^Width + Folds[i], 0, <<6, 5, 4, 3, 2, 1>>)
Order == 2^(12 * Width) - FoldsValue
Val(s) == FoldLeft(LAMBDA v, k : (v * 2^Width + s[k]) % Order, 0, Down(23, 0))
MulVal(a, b) == FoldLeft(LAMBDA v, k : (v * 2^Width + Val(a) * b[k]) % Order, 0, Down(11, 0))

SameScalar(s) == Val(sc_reduce(s)) = Val(s)
SameProduct(a, b, c) == Val(sc_muladd(a, b, c)) = (MulVal(a, b) + Val(c)) % Order

\* The twelve limbs that are stored have their width, the last one a bit more,
\* and the others are empty.
Stored(s) ==
    /\ \A k \in 0..10 : s[k] \in 0..2^Width - 1
    /\ s[11] \in 0..2^(Width + 1) - 1
    /\ \A k \in 12..23 : s[k] = 0

\* Every bit of the bytes is loaded into its place, in one limb, and packed from
\* there: limb 11 is at bit 231 and holds all that is above.
Home(b, last) == LET i == IF b >= 21 * last THEN last ELSE b \div 21 IN <<i, b - 21 * i>>
BitsKept ==
    /\ \A last \in {11, 23} : \A b \in 0..(IF last = 11 THEN 255 ELSE 511) :
        {l \in LoadedInto(b, last) : Kept(l[1], l[2], last)} = {Home(b, last)}
    /\ \A b \in 0..255 :
        {q \in {<<p[1], (b % 8) + p[2]>> : p \in Packs[b \div 8 + 1]} : Kept(q[1], q[2], 11)}
            = {Home(b, 11)}
=============================================================================
