---------------------------- MODULE MCPathFiles ----------------------------
(* PathReading for TLC; the contents of objects that are no states are hidden. *)
EXTENDS PathReading, TLC
Symmetry == Permutations(State \ {InitState})
View ==
  <<w, given, live, mixed \cap live,
    [s \in State |-> IF s \in live THEN <<pathOS[s], taken[s]>> ELSE <<>>]>>
=============================================================================
