--------------------------- MODULE MCReplication ---------------------------
(* Model checking of Replication: instances made by scripts, and the names   *)
(* they get, are interchangeable.                                            *)
EXTENDS Replication, TLC

Symmetric == Permutations(Parts) \cup Permutations(Names) \cup Permutations(Conns)
=============================================================================
