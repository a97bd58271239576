------------------------------- MODULE Lists -------------------------------
(***************************************************************************)
(* Erasing from a container by a condition, as erase(remove_if(...)) does. *)
(***************************************************************************)
EXTENDS Integers, Sequences

\* The elements among the first n of s that are in P, in their order.
Kept(s, P) ==
    LET kept[n \in 0..Len(s)] ==
            IF n = 0 THEN <<>>
            ELSE IF s[n] \in P THEN Append(kept[n - 1], s[n]) ELSE kept[n - 1]
    IN  kept

\* The elements of s that are in P: SelectSeq for a set, as a recursive
\* function, so that it can be reasoned about.
KeepIn(s, P) == Kept(s, P)[Len(s)]

\* s without x.
Without(s, x) == KeepIn(s, {s[i] : i \in DOMAIN s} \ {x})
=============================================================================
