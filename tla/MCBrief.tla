------------------------------- MODULE MCBrief -------------------------------
(* Brief on a small instance.                                              *)
EXTENDS Brief, TLC

CONSTANTS a, b

Sym == Permutations(Symbols)
===============================================================================
