-------------------------------- MODULE Probe --------------------------------
(***************************************************************************)
(* A behaviour that tries the pure algorithms of the repository on bounded *)
(* inputs.  It has one step: it picks an algorithm and an input for it.    *)
(* Each property compares what the algorithm gives for that input with a   *)
(* definition of what it should give.                                      *)
(***************************************************************************)
EXTENDS Integers, FiniteSets, SequencesExt

VARIABLE probe   \* which algorithm, and its input

Start == <<"none", 0>>
Try(algorithm, input) == probe = Start /\ probe' = <<algorithm, input>>
Probes(algorithm) == probe[1] = algorithm
Input == probe[2]
=============================================================================
