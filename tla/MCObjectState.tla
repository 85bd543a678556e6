--------------------------- MODULE MCObjectState ---------------------------
(* ObjectState on an object of a few bytes.                                *)
EXTENDS ObjectState, TLC
Symmetry == Permutations(Offset) \cup Permutations(Byte)
=============================================================================
