--------------------------- MODULE MCRunRegistry ---------------------------
(* The small instances of RunRegistry that TLC explores.                   *)
EXTENDS RunRegistry, TLC

\* Identifiers, sessions and requests are interchangeable.
Symmetry == Permutations(Runs) \cup Permutations(Owners) \cup Permutations(Streams)
=============================================================================
