----------------------------- MODULE MCReconcile -----------------------------
(* Reconcile on small instances; the cfg files give the constants.         *)
EXTENDS Reconcile, TLC

\* Symbols are interchangeable.
Symmetry == Permutations(Symbols)
===============================================================================
