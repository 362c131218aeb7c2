---------------------------- MODULE MCTickOrders ----------------------------
(* TickOrders on small instances; the cfg files choose between them.       *)
EXTENDS TickOrders

CONSTANT e  \* an equity that may be sold short

LongOnly == {0, 2}
LongShort == {-1, 2}
===============================================================================
