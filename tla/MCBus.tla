------------------------------- MODULE MCBus --------------------------------
(* The workers are alike, and so are the payloads.                         *)
EXTENDS Bus

BusSymmetry == Permutations(Workers) \cup Permutations(Payloads)
=============================================================================
