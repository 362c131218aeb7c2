------------------------------ MODULE FillLedger ------------------------------
(***************************************************************************)
(* What the fill journal promises, with no stream, poll, watermark or      *)
(* process in sight: a write-once ledger of real executions.  The venue    *)
(* executes each order up to its size; the ledger books an order at most   *)
(* once, for a quantity the venue has really executed by then, and a       *)
(* booked line is never changed or erased.  FillJournal implements this.   *)
(***************************************************************************)
EXTENDS Naturals

CONSTANTS
  Orders,   \* order ids
  Lot       \* the size of every order

VARIABLES
  executed, \* executed[o]: quantity of o the venue has filled so far
  ledger    \* ledger[o]: quantity booked for o, 0 while it is not booked

vars == <<executed, ledger>>

Init ==
  /\ executed = [o \in Orders |-> 0]
  /\ ledger = [o \in Orders |-> 0]

Execute(o) ==
  /\ \E q \in (executed[o] + 1) .. Lot : executed' = [executed EXCEPT ![o] = q]
  /\ UNCHANGED ledger

Book(o) ==
  /\ ledger[o] = 0
  /\ \E q \in 1 .. executed[o] : ledger' = [ledger EXCEPT ![o] = q]
  /\ UNCHANGED executed

Next == \E o \in Orders : Execute(o) \/ Book(o)

Spec == Init /\ [][Next]_vars
===============================================================================
