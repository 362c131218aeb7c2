------------------------------ MODULE MCLiveTick ------------------------------
(* LiveTick on a small instance.                                           *)
EXTENDS LiveTick
===============================================================================
