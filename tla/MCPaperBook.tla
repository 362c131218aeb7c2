----------------------------- MODULE MCPaperBook -----------------------------
(* PaperBook on a small instance.                                          *)
EXTENDS PaperBook

CONSTANTS a, b

\* Six is a multiple of every holding, so 6^n can be averaged n times.
SixToThe == [n \in 0 .. MaxOrders |-> 6 ^ n]
===============================================================================
