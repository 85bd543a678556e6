--------------------------- MODULE MCAddressSpace ---------------------------
(***************************************************************************)
(* AddressSpace on small sets.  What is left in a deleted space, or at an  *)
(* address no space binds, is never read: View hides it.                   *)
(***************************************************************************)
EXTENDS AddressSpace, TLC

Symmetry == Permutations(Handle) \cup Permutations(Space \ {InitSpace})

View ==
  LET used == Handle \ Free
  IN <<[s \in spaces |-> <<cowKey[s], objects[s]>>],
       [h \in used |-> <<object[h], owner[h], contents[h]>>]>>
=============================================================================
