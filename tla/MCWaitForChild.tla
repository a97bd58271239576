--------------------------- MODULE MCWaitForChild ---------------------------
(* Model checking of WaitForChild: coroutines are interchangeable, and so are *)
(* instances.                                                                 *)
EXTENDS WaitForChild, TLC

Symmetric == Permutations(Coroutine) \cup Permutations(Parts)

\* What coroutines can be answered with.
AnyAnswer == Parts \cup (1..MaxFires) \cup {NoAnswer}
=============================================================================
