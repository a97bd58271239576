------------------------------- MODULE MCCurve -------------------------------
(***************************************************************************)
(* The curve over the integers mod 101, which has 13 * 8 points: scalars   *)
(* have two bytes, and 30 stands for 121666.  The group law, the hash and  *)
(* the products that the algorithms are compared with are defined here.    *)
(***************************************************************************)
EXTENDS Probe

P == 101
Inv == [z \in 0..P - 1 |-> IF z = 0 THEN 0 ELSE CHOOSE y \in 1..P - 1 : (z * y) % P = 1]
RECURSIVE Power(_, _)
Power(z, n) == IF n = 0 THEN 1 ELSE (z * Power(z, n - 1)) % P
FAdd(f, g) == (f + g) % P
FSub(f, g) == (f - g) % P
FNeg(f)    == (-f) % P
FMul(f, g) == (f * g) % P
FSq(f)     == (f * f) % P
FSq2(f)    == (2 * f * f) % P
FInvert(f) == Inv[f]
FRoot      == [z \in 0..P - 1 |-> Power(z, (P - 5) \div 8)]
FPow(f)    == FRoot[f]
FOdd(f)    == f % 2
FNonzero(f) == f # 0
FBytes(f)  == f % P
FTimes(f)  == (30 * f) % P
D == 63

\* The group law itself, on pairs <<x, y>>; the points, and the base point.
Group(p, q) ==
    LET k == (D * p[1] * q[1]) % P
        m == (k * p[2] * q[2]) % P
    IN  <<((p[1] * q[2] + q[1] * p[2]) * Inv[(1 + m) % P]) % P,
          ((p[2] * q[2] + p[1] * q[1]) * Inv[(1 - m) % P]) % P>>
Zero == <<0, 1>>
Opposite(p) == <<(-p[1]) % P, p[2]>>
Points == {p \in (0..P - 1) \X (0..P - 1) :
              (p[2] * p[2] - p[1] * p[1] - 1 - ((D * p[1] * p[1]) % P) * p[2] * p[2]) % P = 0}
RECURSIVE Multiple(_, _)
Multiple(n, p) ==
    IF n = 0 THEN Zero
    ELSE LET half == Multiple(n \div 2, Group(p, p)) IN IF n % 2 = 1 THEN Group(half, p) ELSE half
BasePoint == <<6, 24>>
BaseMultiples == [n \in 0..12 |-> Multiple(n, BasePoint)]
PrecompOf(p) == [yplusx |-> (p[2] + p[1]) % P, yminusx |-> (p[2] - p[1]) % P,
                 xy2d |-> (2 * D * p[1] * p[2]) % P]
Precomputed(n) == PrecompOf(BaseMultiples[n % 13])

\* An unknown hash, a reduction and a product modulo the order of the base point.
Mix(bytes) == FoldLeft(LAMBDA v, byte : (31 * v + byte) % 65521, 7, bytes)
Hash(bytes) == <<Mix(bytes), (Mix(bytes) * 17 + 5) % 65536>>
SReduce(pair) == (pair[1] + 65536 * (pair[2] % 13)) % 13
SMulAdd(a, b, c) == ((a % 13) * (b % 13) + c) % 13

Ed == INSTANCE Ed25519 WITH
    fe_add <- FAdd, fe_sub <- FSub, fe_neg <- FNeg, fe_mul <- FMul, fe_sq <- FSq, fe_sq2 <- FSq2,
    fe_invert <- FInvert, fe_pow22523 <- FPow, fe_isnegative <- FOdd, fe_isnonzero <- FNonzero,
    fe_frombytes <- FBytes, fe_tobytes <- FBytes, fe_0 <- 0, fe_1 <- 1, d <- D, d2 <- (2 * D) % P,
    sqrtm1 <- 10, Bytes <- 2, Precomputed <- Precomputed,
    sha512 <- Hash, sc_reduce <- SReduce, sc_muladd <- SMulAdd, fe_mul121666 <- FTimes

\* In hundredths of 2^25: what a product may be used with, and what it gives.
MAdd(f, g) == f + g
MNeg(f)    == IF f <= 110 THEN f ELSE 9999
MMul(f, g) == IF f <= 330 /\ g <= 330 THEN 101 ELSE 9999
MSq(f)     == MMul(f, f)
MTimes(f)  == IF f <= 220 THEN 110 ELSE 9999
MLoose(f)  == f > 220
MSign(f)   == IF f <= 220 THEN 0 ELSE 9999
Loosest(n) == [yplusx |-> 100, yminusx |-> 100, xy2d |-> 100]

Bounds == INSTANCE Ed25519 WITH
    fe_add <- MAdd, fe_sub <- MAdd, fe_neg <- MNeg, fe_mul <- MMul, fe_sq <- MSq, fe_sq2 <- MSq,
    fe_invert <- MSq, fe_pow22523 <- MSq, fe_isnegative <- MSign, fe_isnonzero <- MLoose,
    fe_frombytes <- MSign, fe_tobytes <- MSign, fe_0 <- 0, fe_1 <- 1, d <- 100, d2 <- 100,
    sqrtm1 <- 100, Bytes <- 2, Precomputed <- Loosest,
    sha512 <- Hash, sc_reduce <- SReduce, sc_muladd <- SMulAdd, fe_mul121666 <- MTimes

-----------------------------------------------------------------------------
(* What the curve should give. *)

\* The point p with denominator z; what a point in either representation is.
Extended(p, z) == Ed!P3((p[1] * z) % P, (p[2] * z) % P, z, (p[1] * p[2] * z) % P)
Projective(r) == <<(r.X * Inv[r.Z]) % P, (r.Y * Inv[r.Z]) % P>>
Completed(r)  == <<(r.X * Inv[r.Z]) % P, (r.Y * Inv[r.T]) % P>>
Encoded(p) == <<p[2], p[1] % 2>>

Sums(p, q, y, z) ==
    LET e == Extended(p, y)
        f == Ed!ge_p3_to_cached(Extended(q, z))
        sum == Ed!ge_add(e, f)
    IN  /\ Completed(sum) = Group(p, q)
        /\ Ed!ge_p1p1_to_p3(sum) = Extended(Group(p, q), Ed!ge_p1p1_to_p2(sum).Z)
        /\ Completed(Ed!ge_sub(e, f)) = Group(p, Opposite(q))
        /\ Completed(Ed!ge_madd(e, PrecompOf(q))) = Group(p, q)
        /\ Completed(Ed!ge_msub(e, PrecompOf(q))) = Group(p, Opposite(q))
        /\ Completed(Ed!ge_p3_dbl(e)) = Group(p, p)
        /\ Ed!ge_p3_tobytes(e) = Encoded(p)

\* The bytes of a point give its negative; all others give none.  The sign of
\* x = 0 is not looked at.
Decodes(y, sign) ==
    LET got == Ed!ge_frombytes_negate_vartime(<<y, sign>>)
        points == {p \in Points : p[2] = y % P /\ (p[1] = 0 \/ p[1] % 2 = sign)}
    IN  IF points = {} THEN got = Ed!NoPoint
        ELSE \E p \in points : got = Extended(Opposite(p), 1)

\* Odd digits within 15, whose sum is the scalar, if it has no bit in the top three.
Slides(a) ==
    LET r == Ed!slide(a)
    IN  /\ FoldLeft(LAMBDA v, i : 2 * v + r[15 - i], 0, [k \in 1..16 |-> k - 1]) = a
        /\ \A i \in Ed!Bits : r[i] = 0 \/ (r[i] % 2 = 1 /\ r[i] \in -15..15)

BaseTimes(n) == BaseMultiples[n % 13]
OnBase(a) == Projective(Ed!ge_scalarmult_base(a)) = BaseTimes(a)
Both(a, A, b) ==
    Projective(Ed!ge_double_scalarmult_vartime(a, Extended(A, 3), b)) = Group(Multiple(a, A), BaseTimes(b))

\* No product gets limbs that are too loose for it, whatever point it is for.
LimbsFit ==
    LET point == Bounds!P3(101, 101, 101, 101)
        cached == Bounds!ge_p3_to_cached(point)
        results == {Bounds!ge_add(point, cached), Bounds!ge_sub(point, cached),
                    Bounds!ge_madd(point, Loosest(1)), Bounds!ge_msub(point, Loosest(1)),
                    Bounds!ge_p3_dbl(point)}
        rung == Bounds!Rung(101, [x2 |-> 101, z2 |-> 101, x3 |-> 101, z3 |-> 101, swap |-> 0], 1)
    IN  /\ \A r \in results : {r.X, r.Y, r.Z, r.T} \subseteq 0..330
        /\ \A r \in results : Bounds!ge_p1p1_to_p3(r) = point
        /\ Bounds!ge_frombytes_negate_vartime(<<0, 1>>) = Bounds!P3(101, 0, 1, 101)
        /\ Bounds!ge_p3_tobytes(point) = <<0, 0>>
        /\ {rung.x2, rung.z2, rung.x3, rung.z3} = {101}

-----------------------------------------------------------------------------
(* What signatures and shared secrets should be. *)

\* A signature verifies if and only if the equation holds for its S, which is
\* not reduced but has no bit in the top three.
VerifiesExactly(signature, message, public) ==
    LET h == SReduce(Hash(signature.R \o public \o message))
        keys == {p \in Points : p[2] = public[1] % P /\ (p[1] = 0 \/ p[1] % 2 = public[2])}
    IN  Ed!ed25519_verify(signature, message, public) <=>
            /\ signature.S < 2^13
            /\ \E A \in keys : Encoded(Group(BaseTimes(signature.S), Opposite(Multiple(h, A)))) = signature.R

\* What is signed verifies, with a key moved by a scalar as well; whoever has
\* only the public key can move it to the same one.
SignsVerify(seed, message, scalar) ==
    LET keys == Ed!ed25519_create_keypair(<<seed>>)
        moved == Ed!ed25519_add_scalar(keys, scalar)
        Signed(k) == Ed!ed25519_verify(Ed!ed25519_sign(message, k.public, k.private), message, k.public)
    IN  /\ keys.public = Encoded(BaseTimes(keys.private.a))
        /\ Signed(keys) /\ Signed(moved)
        /\ moved.public = Ed!AddToPublic(keys.public, scalar)

\* Two that exchange public keys get the same secret, (1 + y) / (1 - y) of the
\* product of both keys.
SharesSecret(seed, other) ==
    LET one == Ed!ed25519_create_keypair(<<seed>>)
        two == Ed!ed25519_create_keypair(<<other>>)
        y == BaseTimes((one.private.a % 13) * (two.private.a % 13))[2]
    IN  /\ Ed!ed25519_key_exchange(one.public, two.private) = ((1 + y) * Inv[(1 - y) % P]) % P
        /\ Ed!ed25519_key_exchange(two.public, one.private) = ((1 + y) * Inv[(1 - y) % P]) % P

-----------------------------------------------------------------------------
Scalars == {0, 1, 7, 8, 15, 16, 23, 127, 128, 136, 255, 256, 4095, 8191}
Some == {BasePoint, Zero, <<0, P - 1>>, Multiple(5, BasePoint)}
        \cup {p \in Points : p[1] \in {1, 20} \/ p[2] = 0}

TryCurve ==
    \/ \E p \in Points, q \in Some : Try("sum", <<p, q, 1 + ((p[2] + 7 * q[2]) % 100), 1 + (p[1] % 100)>>)
    \/ \E y \in 0..127, sign \in 0..1 : Try("decode", <<y, sign>>)
    \/ \E a \in {(k * 577) % 8192 : k \in 0..500} \cup Scalars : Try("slide", a)
    \/ \E a \in {(k * 577) % 32768 : k \in 0..100} \cup Scalars : Try("base", a)
    \/ \E a \in Scalars, b \in {3, 13, 8191, 5461}, A \in Some : Try("both", <<a, A, b>>)
    \/ Try("loose", 0)

TrySigning ==
    \/ \E seed \in 0..5, message \in {<<>>, <<1>>, <<2, 1>>}, scalar \in {0, 3, 32767, 40000} :
            Try("sign", <<seed, message, scalar>>)
    \/ \E seed \in 0..2, more \in {0, 1, 13, 8203, 2^13 - 13, 24583}, public \in {<<1, 0>>, <<2, 1>>, <<24, 0>>} :
            LET keys == Ed!ed25519_create_keypair(<<seed>>)
                signature == Ed!ed25519_sign(<<1>>, keys.public, keys.private)
                with == [signature EXCEPT !.S = @ + more]
            IN  Try("verify", <<with, <<1>>, keys.public>>) \/ Try("verify", <<with, <<2>>, public>>)
    \/ \E seed, other \in 0..5 : Try("exchange", <<seed, other>>)

\* The formulas, tables and scalar multiplications compute the group law of the
\* curve for every point and denominator, and points survive their bytes (ge.c).
CurveExact ==
    /\ Probes("sum") => Sums(Input[1], Input[2], Input[3], Input[4])
    /\ Probes("decode") => Decodes(Input[1], Input[2])
    /\ Probes("slide") => Slides(Input)
    /\ Probes("base") => OnBase(Input)
    /\ Probes("both") => Both(Input[1], Input[2], Input[3])
    /\ Probes("loose") => LimbsFit

\* A signature verifies if and only if it is one; keys that are moved and
\* secrets that are shared are the same on both sides (keypair.c, sign.c,
\* verify.c, add_scalar.c, key_exchange.c).
SignaturesExact ==
    /\ Probes("sign") => SignsVerify(Input[1], Input[2], Input[3])
    /\ Probes("verify") => VerifiesExactly(Input[1], Input[2], Input[3])
    /\ Probes("exchange") => SharesSecret(Input[1], Input[2])
=============================================================================
