------------------------------- MODULE MCHash -------------------------------
(***************************************************************************)
(* The hash: its padding at every length with blocks of 8 bytes whose      *)
(* compression forgets nothing, and digests that are known.                *)
(***************************************************************************)
EXTENDS Probe

SHA == INSTANCE Sha512Compress
\* What a message is cut into, with the sizes of the code and with small ones.
Full == INSTANCE Sha512 WITH BlockSize <- 128, LengthAt <- 120, LengthRoom <- 112,
            Initial <- <<>>, Compress <- Append
Blocks == INSTANCE Sha512 WITH BlockSize <- 8, LengthAt <- 6, LengthRoom <- 4,
            Initial <- <<>>, Compress <- Append

\* The digests of "abc" and of the bytes 0 to 111, which the mark and the
\* length spread over two blocks.
Known == <<
    [message |-> <<97, 98, 99>>,
     digest |-> <<<<\hddaf, \h35a1, \h9361, \h7aba>>, <<\hcc41, \h7349, \hae20, \h4131>>,
               <<\h12e6, \hfa4e, \h89a9, \h7ea2>>, <<\h0a9e, \heee6, \h4b55, \hd39a>>,
               <<\h2192, \h992a, \h274f, \hc1a8>>, <<\h36ba, \h3c23, \ha3fe, \hebbd>>,
               <<\h454d, \h4423, \h643c, \he80e>>, <<\h2a9a, \hc94f, \ha54c, \ha49f>>>>],
    [message |-> [i \in 1..112 |-> i - 1],
     digest |-> <<<<\hc5fb, \hd731, \hd19d, \h2ae1>>, <<\h180f, \h001b, \he72c, \h2c1a>>,
               <<\haba1, \hd7b0, \h94b3, \h7488>>, <<\h80e2, \h4593, \hb8e1, \h17a7>>,
               <<\h50e1, \h1c1b, \hd867, \hcc2f>>, <<\h96da, \hce8c, \h8b74, \habd2>>,
               <<\hd5c4, \hf236, \hbe44, \h4e77>>, <<\hd30d, \h1916, \h1740, \h70b9>>>>]>>

\* The blocks of a message: the mark, the fewest zeros, and its length in bits
\* in the last four bytes.
Padded(message) ==
    LET bits == 8 * Len(message)
        zeros == CHOOSE k \in 0..7 : (Len(message) + 1 + k + 4) % 8 = 0
        all == message \o <<128>> \o [i \in 1..zeros |-> 0] \o <<0, 0, bits \div 256, bits % 256>>
    IN  [b \in 1..Len(all) \div 8 |-> SubSeq(all, 8 * b - 7, 8 * b)]

InPieces(message, i, j) ==
    LET one == Blocks!sha512_update(Blocks!sha512_init, SubSeq(message, 1, i))
        two == Blocks!sha512_update(one, SubSeq(message, i + 1, j))
    IN  Blocks!sha512_final(Blocks!sha512_update(two, SubSeq(message, j + 1, Len(message))))

TryHash ==
    \/ \E n \in 0..20, i \in 0..20, j \in 0..20 :
            i <= j /\ j <= n /\ Try("pieces", <<[k \in 1..n |-> k], i, j>>)
    \/ \E k \in 1..2 :
            LET blocks == Full!sha512(Known[k].message)
            IN  Try("digest", [k |-> k, rest |-> Tail(blocks), c |-> SHA!Begin(SHA!Initial, Head(blocks))])

\* A digest takes many steps: the blocks are compressed one after the other.
Digest ==
    /\ Probes("digest")
    /\ IF SHA!Finished(Input.c)
       THEN /\ Input.rest # <<>>
            /\ probe' = <<"digest", [Input EXCEPT !.rest = Tail(@),
                                       !.c = SHA!Begin(SHA!Feedback(@), Head(Input.rest))]>>
       ELSE probe' = <<"digest", [Input EXCEPT !.c = SHA!Advance(@)]>>

\* A message has its digest, and the same whichever pieces it comes in (sha512.c).
HashExact ==
    /\ Probes("pieces") => InPieces(Input[1], Input[2], Input[3]) = Padded(Input[1])
    /\ Probes("digest") /\ SHA!Finished(Input.c) /\ Input.rest = <<>> =>
            SHA!Feedback(Input.c) = [j \in 1..8 |-> SHA!Word(Known[Input.k].digest[j])]
=============================================================================
