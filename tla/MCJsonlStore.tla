---------------------------- MODULE MCJsonlStore ----------------------------
(* JsonlStore on a small instance; the cfg file gives the constants.       *)
EXTENDS JsonlStore, TLC

\* Neither keys nor values are told apart.
Symmetry == Permutations(Keys) \cup Permutations(Values)
===============================================================================
