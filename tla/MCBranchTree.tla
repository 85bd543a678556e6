---------------------------- MODULE MCBranchTree ----------------------------
(* BranchTree for TLC.  Symmetry is not used: a temporal property is checked. *)
EXTENDS BranchSearch
=============================================================================
