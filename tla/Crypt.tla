-------------------------------- MODULE Crypt --------------------------------
(***************************************************************************)
(* Signed join scripts (Engine/Crypt/Crypt.cpp): base64 and the format     *)
(* --|pslx|sign|<signature>|<code>.  A character of base64 is the number   *)
(* it stands for, 0..63; other characters have other numbers.              *)
(***************************************************************************)
EXTENDS Integers, SequencesExt

CONSTANTS
    IntBits,         \* width of the int the decoder shifts in (32 in the code)
    SignatureBytes,  \* 64 in the code
    Verifies(_, _)   \* ed25519_verify of a signature and a code

Alphabet == 0..63
Pipe == 64
Prefix == <<65, Pipe, 66, Pipe, 67, Pipe>>   \* --|pslx|sign|

\* Mutant of Shift: the bits that were not written yet are dropped.
ShiftShort(val, sextet) == (val * 64 + sextet) % 256

\* val << 6 overflows an int after five characters: undefined, and the usual
\* build wraps around.
Shift(val, sextet) == (val * 64 + sextet) % 2^IntBits

Decoded(state, c) ==
    IF state.stopped \/ c \notin Alphabet THEN [state EXCEPT !.stopped = TRUE]
    ELSE LET val == Shift(state.val, c)
             bits == state.bits + 6
         IN  IF bits < 0 THEN [state EXCEPT !.val = val, !.bits = bits]
             ELSE [state EXCEPT !.val = val, !.bits = bits - 8,
                                !.out = Append(@, (val \div 2^bits) % 256)]

Base64Decode(input) ==
    FoldLeft(Decoded, [out |-> <<>>, val |-> 0, bits |-> -8, stopped |-> FALSE], input).out

Refused == [ok |-> FALSE, code |-> <<>>]

VerifySign(content) ==
    LET rest == SubSeq(content, Len(Prefix) + 1, Len(content))
        end == SelectInSeq(rest, LAMBDA c : c = Pipe)
        signature == Base64Decode(SubSeq(rest, 1, end - 1))
        code == SubSeq(rest, end + 1, Len(rest))
    IN  IF ~IsPrefix(Prefix, content) THEN Refused
        ELSE IF end = 0 \/ Len(signature) # SignatureBytes THEN Refused
        ELSE IF Verifies(signature, code) THEN [ok |-> TRUE, code |-> code] ELSE Refused

-----------------------------------------------------------------------------
(* What they should give. *)

\* Bit k of a sequence of sextets, the first bit of the first sextet first.
Bit(sextets, k) == (sextets[k \div 6 + 1] \div 2^(5 - (k % 6))) % 2

\* The bytes whose bits are those of the sextets, as many as are complete.
BytesOf(sextets) ==
    [b \in 1..((6 * Len(sextets)) \div 8) |->
        FoldLeft(LAMBDA byte, k : 2 * byte + Bit(sextets, 8 * (b - 1) + k),
                 0, <<0, 1, 2, 3, 4, 5, 6, 7>>)]

\* Decoding is exact up to the first character outside the alphabet.
DecodesExactly(input) ==
    LET stop == SelectInSeq(input, LAMBDA c : c \notin Alphabet)
    IN  Base64Decode(input) = BytesOf(IF stop = 0 THEN input ELSE SubSeq(input, 1, stop - 1))

\* A script runs only if it is exactly what was signed, pipes included.
RunsOnlySigned(content) ==
    LET result == VerifySign(content)
    IN  result.ok => \E i \in DOMAIN content :
            LET sextets == SubSeq(content, Len(Prefix) + 1, i - 1)
            IN  /\ content = Prefix \o sextets \o <<Pipe>> \o result.code
                /\ Pipe \notin ToSet(sextets)
                /\ Verifies(Base64Decode(sextets), result.code)
                /\ Len(Base64Decode(sextets)) = SignatureBytes
=============================================================================
