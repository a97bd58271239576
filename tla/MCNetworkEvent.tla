--------------------------- MODULE MCNetworkEvent ---------------------------
(* Model checking of NetworkEvent: clients and events are interchangeable.   *)
EXTENDS NetworkEvent, TLC

Symmetric == Permutations(Client) \cup Permutations(Event)
=============================================================================
