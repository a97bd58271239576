-------------------------- MODULE Sha512Compress --------------------------
(***************************************************************************)
(* What a block does to the state of the hash (Engine/Crypt/sha512.c).     *)
(*                                                                         *)
(* A word is the function of its 64 bits, the lowest at 0.                 *)
(***************************************************************************)
EXTENDS Integers, SequencesExt

Word(parts) == [i \in 0..63 |-> (parts[4 - i \div 16] \div 2^(i % 16)) % 2]

K(n) == Word(<<
    <<\h428a, \h2f98, \hd728, \hae22>>, <<\h7137, \h4491, \h23ef, \h65cd>>,
    <<\hb5c0, \hfbcf, \hec4d, \h3b2f>>, <<\he9b5, \hdba5, \h8189, \hdbbc>>,
    <<\h3956, \hc25b, \hf348, \hb538>>, <<\h59f1, \h11f1, \hb605, \hd019>>,
    <<\h923f, \h82a4, \haf19, \h4f9b>>, <<\hab1c, \h5ed5, \hda6d, \h8118>>,
    <<\hd807, \haa98, \ha303, \h0242>>, <<\h1283, \h5b01, \h4570, \h6fbe>>,
    <<\h2431, \h85be, \h4ee4, \hb28c>>, <<\h550c, \h7dc3, \hd5ff, \hb4e2>>,
    <<\h72be, \h5d74, \hf27b, \h896f>>, <<\h80de, \hb1fe, \h3b16, \h96b1>>,
    <<\h9bdc, \h06a7, \h25c7, \h1235>>, <<\hc19b, \hf174, \hcf69, \h2694>>,
    <<\he49b, \h69c1, \h9ef1, \h4ad2>>, <<\hefbe, \h4786, \h384f, \h25e3>>,
    <<\h0fc1, \h9dc6, \h8b8c, \hd5b5>>, <<\h240c, \ha1cc, \h77ac, \h9c65>>,
    <<\h2de9, \h2c6f, \h592b, \h0275>>, <<\h4a74, \h84aa, \h6ea6, \he483>>,
    <<\h5cb0, \ha9dc, \hbd41, \hfbd4>>, <<\h76f9, \h88da, \h8311, \h53b5>>,
    <<\h983e, \h5152, \hee66, \hdfab>>, <<\ha831, \hc66d, \h2db4, \h3210>>,
    <<\hb003, \h27c8, \h98fb, \h213f>>, <<\hbf59, \h7fc7, \hbeef, \h0ee4>>,
    <<\hc6e0, \h0bf3, \h3da8, \h8fc2>>, <<\hd5a7, \h9147, \h930a, \ha725>>,
    <<\h06ca, \h6351, \he003, \h826f>>, <<\h1429, \h2967, \h0a0e, \h6e70>>,
    <<\h27b7, \h0a85, \h46d2, \h2ffc>>, <<\h2e1b, \h2138, \h5c26, \hc926>>,
    <<\h4d2c, \h6dfc, \h5ac4, \h2aed>>, <<\h5338, \h0d13, \h9d95, \hb3df>>,
    <<\h650a, \h7354, \h8baf, \h63de>>, <<\h766a, \h0abb, \h3c77, \hb2a8>>,
    <<\h81c2, \hc92e, \h47ed, \haee6>>, <<\h9272, \h2c85, \h1482, \h353b>>,
    <<\ha2bf, \he8a1, \h4cf1, \h0364>>, <<\ha81a, \h664b, \hbc42, \h3001>>,
    <<\hc24b, \h8b70, \hd0f8, \h9791>>, <<\hc76c, \h51a3, \h0654, \hbe30>>,
    <<\hd192, \he819, \hd6ef, \h5218>>, <<\hd699, \h0624, \h5565, \ha910>>,
    <<\hf40e, \h3585, \h5771, \h202a>>, <<\h106a, \ha070, \h32bb, \hd1b8>>,
    <<\h19a4, \hc116, \hb8d2, \hd0c8>>, <<\h1e37, \h6c08, \h5141, \hab53>>,
    <<\h2748, \h774c, \hdf8e, \heb99>>, <<\h34b0, \hbcb5, \he19b, \h48a8>>,
    <<\h391c, \h0cb3, \hc5c9, \h5a63>>, <<\h4ed8, \haa4a, \he341, \h8acb>>,
    <<\h5b9c, \hca4f, \h7763, \he373>>, <<\h682e, \h6ff3, \hd6b2, \hb8a3>>,
    <<\h748f, \h82ee, \h5def, \hb2fc>>, <<\h78a5, \h636f, \h4317, \h2f60>>,
    <<\h84c8, \h7814, \ha1f0, \hab72>>, <<\h8cc7, \h0208, \h1a64, \h39ec>>,
    <<\h90be, \hfffa, \h2363, \h1e28>>, <<\ha450, \h6ceb, \hde82, \hbde9>>,
    <<\hbef9, \ha3f7, \hb2c6, \h7915>>, <<\hc671, \h78f2, \he372, \h532b>>,
    <<\hca27, \h3ece, \hea26, \h619c>>, <<\hd186, \hb8c7, \h21c0, \hc207>>,
    <<\heada, \h7dd6, \hcde0, \heb1e>>, <<\hf57d, \h4f7f, \hee6e, \hd178>>,
    <<\h06f0, \h67aa, \h7217, \h6fba>>, <<\h0a63, \h7dc5, \ha2c8, \h98a6>>,
    <<\h113f, \h9804, \hbef9, \h0dae>>, <<\h1b71, \h0b35, \h131c, \h471b>>,
    <<\h28db, \h77f5, \h2304, \h7d84>>, <<\h32ca, \hab7b, \h40c7, \h2493>>,
    <<\h3c9e, \hbe0a, \h15c9, \hbebc>>, <<\h431d, \h67c4, \h9c10, \h0d4c>>,
    <<\h4cc5, \hd4be, \hcb3e, \h42b6>>, <<\h597f, \h299c, \hfc65, \h7e2a>>,
    <<\h5fcb, \h6fab, \h3ad6, \hfaec>>, <<\h6c44, \h198c, \h4a47, \h5817>>>>[n])

Initial == [i \in 1..8 |-> Word(<<
    <<\h6a09, \he667, \hf3bc, \hc908>>, <<\hbb67, \hae85, \h84ca, \ha73b>>,
    <<\h3c6e, \hf372, \hfe94, \hf82b>>, <<\ha54f, \hf53a, \h5f1d, \h36f1>>,
    <<\h510e, \h527f, \hade6, \h82d1>>, <<\h9b05, \h688c, \h2b3e, \h6c1f>>,
    <<\h1f83, \hd9ab, \hfb41, \hbd6b>>, <<\h5be0, \hcd19, \h137e, \h2179>>>>[i])]

\* Words are added modulo 2^64, by parts of 16 bits.
Part(w, k) == FoldLeft(LAMBDA v, i : 2 * v + w[16 * k - i], 0, [i \in 1..16 |-> i])
Plus(words) ==
    LET Carry(sum, k) ==
            LET column == FoldLeft(LAMBDA v, w : v + Part(w, k), sum[1], words)
            IN  <<column \div 65536, column % 65536>> \o Tail(sum)
    IN  Word(SubSeq(FoldLeft(Carry, <<0>>, <<1, 2, 3, 4>>), 2, 5))

\* x rotated right by n, or shifted.
S(x, n, i) == x[(i + n) % 64]
R(x, n, i) == IF i + n < 64 THEN x[i + n] ELSE 0
Sigma0(x) == [i \in 0..63 |-> (S(x, 28, i) + S(x, 34, i) + S(x, 39, i)) % 2]
Sigma1(x) == [i \in 0..63 |-> (S(x, 14, i) + S(x, 18, i) + S(x, 41, i)) % 2]
Gamma0(x) == [i \in 0..63 |-> (S(x, 1, i) + S(x, 8, i) + R(x, 7, i)) % 2]
Gamma1(x) == [i \in 0..63 |-> (S(x, 19, i) + S(x, 61, i) + R(x, 6, i)) % 2]
Ch(x, y, z)  == [i \in 0..63 |-> IF x[i] = 1 THEN y[i] ELSE z[i]]
Maj(x, y, z) == [i \in 0..63 |-> IF x[i] + y[i] + z[i] >= 2 THEN 1 ELSE 0]

\* The code's rounds take the words a to h in turns; here they move up by one.
Round(s, k, w) ==
    LET t0 == <<s[8], Sigma1(s[5]), Ch(s[5], s[6], s[7]), k, w>>
        t1 == <<Sigma0(s[1]), Maj(s[1], s[2], s[3])>>
    IN  <<Plus(t0 \o t1), s[1], s[2], s[3], Plus(t0 \o <<s[4]>>), s[5], s[6], s[7]>>

\* A block's compression advances by 16 words of the schedule (most significant
\* byte first, as loaded), then by 8 rounds, and adds what it began with.
Begin(state, block) ==
    LET Load(j) == [i \in 0..63 |-> (block[8 * j - i \div 8] \div 2^(i % 8)) % 2]
    IN  [state |-> state, W |-> [j \in 1..16 |-> Load(j)], S |-> state, done |-> 0]

Advance(c) ==
    LET More(W, k) ==
            LET i == Len(W) + 1
            IN  Append(W, Plus(<<Gamma1(W[i - 2]), W[i - 7], Gamma0(W[i - 15]), W[i - 16]>>))
        Next(s, k) == Round(s, K(c.done + k), c.W[c.done + k])
    IN  IF Len(c.W) < 80 THEN [c EXCEPT !.W = FoldLeft(More, @, [k \in 1..16 |-> k])]
        ELSE [c EXCEPT !.S = FoldLeft(Next, @, [k \in 1..8 |-> k]), !.done = @ + 8]

Finished(c) == c.done = 80
Feedback(c) == [j \in 1..8 |-> Plus(<<c.state[j], c.S[j]>>)]
=============================================================================
