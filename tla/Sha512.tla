------------------------------- MODULE Sha512 -------------------------------
(***************************************************************************)
(* The hash of Engine/Crypt/sha512.c.                                      *)
(*                                                                         *)
(* The context collects bytes into blocks; the size of a block, of the     *)
(* length at its end and what compresses a block are parameters, so that   *)
(* the padding can be tried at every length with small blocks.             *)
(***************************************************************************)
EXTENDS Integers, SequencesExt

CONSTANTS
    BlockSize,      \* bytes of a block: 128 in the code
    LengthAt,       \* where the zeros end: 120 in the code
    LengthRoom,     \* where they end if the length is to fit: 112 in the code
    Initial,        \* state of an empty context
    Compress(_, _)  \* state, block: the next state

sha512_init == [state |-> Initial, buf |-> <<>>, length |-> 0]

Compressed(md, block) == [md EXCEPT !.state = Compress(@, block)]

\* Whole blocks are compressed in place, if the buffer is empty; the rest is
\* collected in the buffer, which is compressed when it is full.
RECURSIVE sha512_update(_, _)
sha512_update(md, in) ==
    LET room == BlockSize - Len(md.buf)
        n == IF Len(in) < room THEN Len(in) ELSE room
        filled == md.buf \o SubSeq(in, 1, n)
        rest == SubSeq(in, n + 1, Len(in))
    IN  IF in = <<>> THEN md
        ELSE IF n < room THEN [md EXCEPT !.buf = filled]
        ELSE sha512_update([Compressed(md, filled) EXCEPT !.buf = <<>>, !.length = @ + 8 * BlockSize], rest)

Zeros(n) == [i \in 1..n |-> 0]
\* The length, most significant byte first.
LengthBytes(length) ==
    [i \in 1..BlockSize - LengthAt |->
        LET place == BlockSize - LengthAt - i IN IF place > 3 THEN 0 ELSE (length \div 256^place) % 256]

\* A mark, zeros and the length; a block of its own if the length has no room.
sha512_final(md) ==
    LET length == md.length + 8 * Len(md.buf)
        marked == Append(md.buf, 128)
        early == Len(marked) > LengthRoom
        flushed == IF early THEN Compressed(md, marked \o Zeros(BlockSize - Len(marked))) ELSE md
        kept == IF early THEN <<>> ELSE marked
    IN  Compressed(flushed, kept \o Zeros(LengthAt - Len(kept)) \o LengthBytes(length)).state

sha512(message) == sha512_final(sha512_update(sha512_init, message))
=============================================================================
