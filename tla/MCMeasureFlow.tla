--------------------------- MODULE MCMeasureFlow ---------------------------
(* A ramp of two phases, one request and then two.                         *)
EXTENDS MeasureFlow, TLC

RampOfTwo == <<1, 2>>

Symmetry == Permutations(Runs) \cup Permutations(Streams)
=============================================================================
