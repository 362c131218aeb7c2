----------------------------- MODULE MCReflection -----------------------------
(* Reflection on a small instance; the cfg files give the constants.       *)
EXTENDS Reflection
===============================================================================
