-------------------------- MODULE MCExecutorStates --------------------------
(* ExecutorStates for TLC: the addresses other than the first one are      *)
(* interchangeable.                                                        *)
EXTENDS ExecutorStates, TLC

Symmetry == Permutations(State \ {InitState})
=============================================================================
