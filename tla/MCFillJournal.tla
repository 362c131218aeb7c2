----------------------------- MODULE MCFillJournal -----------------------------
(* FillJournal on small instances; the cfg files give the constants.       *)
EXTENDS FillJournal, TLC

\* Order ids are interchangeable.
Symmetry == Permutations(Orders)
===============================================================================
