------------------------------ MODULE Execution ------------------------------
(***************************************************************************)
(* One execution of PaperBroker: what a market order costs and what its    *)
(* fill does to the position (PaperBroker._execute, Position.apply).       *)
(* Prices are multiples of a unit chosen so that every quotient is whole.  *)
(***************************************************************************)
EXTENDS Integers

CONSTANTS
  Prices,       \* prices the oracle may quote
  SlippageBps,  \* slippage and fee, in parts of Bps
  FeeBps,
  Bps           \* 10_000 in the code

ASSUME ExecutionAssumption ==
  /\ Prices \subseteq Nat \ {0} /\ {SlippageBps, FeeBps} \subseteq Nat
  /\ Bps \in Nat \ {0} /\ SlippageBps <= Bps
  /\ \A p \in Prices : (p * SlippageBps) % Bps = 0

Sized(n) == IF n < 0 THEN -n ELSE n
Signed(f) == IF f.side = "buy" THEN f.qty ELSE -f.qty

\* Market orders pay the slippage.
FillPrice(side, px) ==
  LET slip == (px * SlippageBps) \div Bps
  IN IF side = "buy" THEN px + slip ELSE px - slip

Fee(qty, px) == (qty * px * FeeBps) \div Bps

\* The fill of an order at the price quoted.
FillOf(o, px) ==
  LET at == FillPrice(o.side, px)
  IN [symbol |-> o.symbol, side |-> o.side, qty |-> o.qty,
      price |-> at, fee |-> Fee(o.qty, at)]

\* Mutant: the fee comes out of what is paid for a buy.
PaidFeeInside(f) ==
  IF f.side = "buy" THEN f.qty * f.price - f.fee ELSE - f.qty * f.price + f.fee

\* What a fill takes out of the cash.
Paid(f) ==
  IF f.side = "buy" THEN f.qty * f.price + f.fee ELSE - f.qty * f.price + f.fee

NoPosition == [qty |-> 0, avg |-> 0, realized |-> 0]

\* Does a fill go through zero; does it add to the position.
Crosses(p, f) == p.qty * (p.qty + Signed(f)) < 0
Adds(p, f) == Sized(p.qty + Signed(f)) > Sized(p.qty)

\* Mutant: the average is not weighted by quantity.
AppliedAveraging(p, f) ==
  IF p.qty = 0 \/ Crosses(p, f)
    THEN [qty |-> p.qty + Signed(f), avg |-> f.price,
          realized |-> p.realized +
            (IF p.qty = 0 THEN 0 ELSE Signed(f) * (p.avg - f.price))]
  ELSE IF Adds(p, f)
    THEN [p EXCEPT !.qty = @ + Signed(f), !.avg = (@ + f.price) \div 2]
  ELSE [p EXCEPT !.qty = @ + Signed(f), !.realized = @ - Signed(f) * (f.price - p.avg)]

\* Position.apply: a fill opens a position or goes through zero, adds to the
\* position, or reduces it.
Applied(p, f) ==
  IF p.qty = 0 \/ Crosses(p, f)
    THEN [qty |-> p.qty + Signed(f), avg |-> f.price,
          realized |-> p.realized +
            (IF p.qty = 0 THEN 0 ELSE Signed(f) * (p.avg - f.price))]
  ELSE IF Adds(p, f)
    THEN [p EXCEPT !.qty = @ + Signed(f),
                   !.avg = (@ * Sized(p.qty) + f.price * f.qty)
                             \div Sized(p.qty + Signed(f))]
  ELSE [p EXCEPT !.qty = @ + Signed(f), !.realized = @ - Signed(f) * (f.price - p.avg)]

===============================================================================
