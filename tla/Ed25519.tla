------------------------------- MODULE Ed25519 -------------------------------
(***************************************************************************)
(* Signatures and key agreement over the curve of module Curve             *)
(* (Engine/Crypt/keypair.c, sign.c, verify.c, add_scalar.c,                *)
(* key_exchange.c).  The game only calls ed25519_verify.                   *)
(*                                                                         *)
(* A hash is an unknown function: its value is the pair of its halves.     *)
(***************************************************************************)
EXTENDS Curve

CONSTANTS
    sha512(_),           \* of a sequence of bytes
    sc_reduce(_),        \* of such a pair
    sc_muladd(_, _, _),
    fe_mul121666(_)

Low(hash)  == hash[1]
High(hash) == hash[2]

\* The three lowest bits and the highest are cleared, the next one is set.
Clamp(a) == LET top == 2^(8 * Bytes - 2) IN top + ((a - (a % 8)) % top)

ed25519_create_keypair(seed) ==
    LET a == Clamp(Low(sha512(seed)))
    IN  [public |-> ge_p3_tobytes(ge_scalarmult_base(a)),
         private |-> [a |-> a, prefix |-> High(sha512(seed))]]

ed25519_sign(message, public, private) ==
    LET r == sc_reduce(sha512(<<private.prefix>> \o message))
        R == ge_p3_tobytes(ge_scalarmult_base(r))
        hram == sc_reduce(sha512(R \o public \o message))
    IN  [R |-> R, S |-> sc_muladd(hram, private.a, r)]

\* Mutant of ed25519_verify: the three highest bits of S are not looked at.
VerifyAnyS(signature, message, public) ==
    LET A == ge_frombytes_negate_vartime(public)
        h == sc_reduce(sha512(signature.R \o public \o message))
    IN  A # NoPoint /\ ge_tobytes(ge_double_scalarmult_vartime(h, A, signature.S)) = signature.R

ed25519_verify(signature, message, public) ==
    LET A == ge_frombytes_negate_vartime(public)
        h == sc_reduce(sha512(signature.R \o public \o message))
    IN  /\ signature.S < 2^(8 * Bytes - 3)
        /\ A # NoPoint
        /\ ge_tobytes(ge_double_scalarmult_vartime(h, A, signature.S)) = signature.R

\* The key moved by a scalar: with the private key, or from the public one.
Moved(scalar) == scalar % 2^(8 * Bytes - 1)
AddToPrivate(private, scalar) ==
    [a |-> sc_muladd(1, Moved(scalar), private.a), prefix |-> Low(sha512(<<private.prefix, scalar>>))]
AddToPublic(public, scalar) ==
    LET negative == ge_frombytes_negate_vartime(public)
        T == [negative EXCEPT !.X = fe_neg(@), !.T = fe_neg(@)]
    IN  ge_p3_tobytes(ge_p1p1_to_p3(ge_add(ge_scalarmult_base(Moved(scalar)), ge_p3_to_cached(T))))
ed25519_add_scalar(keys, scalar) ==
    LET private == AddToPrivate(keys.private, scalar)
    IN  [private |-> private, public |-> ge_p3_tobytes(ge_scalarmult_base(private.a))]

\* One bit of the ladder; s has the points (x2:z2) and (x3:z3), whose
\* difference is x1.
Rung(x1, s, b) ==
    LET swapped == b # s.swap
        x2 == IF swapped THEN s.x3 ELSE s.x2
        z2 == IF swapped THEN s.z3 ELSE s.z2
        x3 == IF swapped THEN s.x2 ELSE s.x3
        z3 == IF swapped THEN s.z2 ELSE s.z3
        sum == fe_add(x2, z2)
        difference == fe_sub(x2, z2)
        da == fe_mul(fe_sub(x3, z3), sum)
        cb == fe_mul(fe_add(x3, z3), difference)
        bb == fe_sq(difference)
        aa == fe_sq(sum)
        e == fe_sub(aa, bb)
    IN  [x2 |-> fe_mul(aa, bb), z2 |-> fe_mul(e, fe_add(bb, fe_mul121666(e))),
         x3 |-> fe_sq(fe_add(da, cb)), z3 |-> fe_mul(x1, fe_sq(fe_sub(da, cb))), swap |-> b]

ed25519_key_exchange(public, private) ==
    LET e == Clamp(private.a)
        y == fe_frombytes(public[1])
        x1 == fe_mul(fe_add(y, fe_1), fe_invert(fe_sub(fe_1, y)))
        start == [x2 |-> fe_1, z2 |-> fe_0, x3 |-> x1, z3 |-> fe_1, swap |-> 0]
        end == FoldLeft(LAMBDA s, k : Rung(x1, s, (e \div 2^(8 * Bytes - 1 - k)) % 2), start,
                        [k \in 1..8 * Bytes - 1 |-> k])
    IN  fe_tobytes(IF end.swap = 1 THEN fe_mul(end.x3, fe_invert(end.z3))
                                   ELSE fe_mul(end.x2, fe_invert(end.z2)))
=============================================================================
