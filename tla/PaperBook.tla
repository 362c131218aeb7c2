------------------------------ MODULE PaperBook ------------------------------
(***************************************************************************)
(* PaperBroker with Position, and the tax ledgers fed with its fills.      *)
(*                                                                         *)
(* A market order executes inside submit: cash and position change and the *)
(* fill waits in a deque until fills() is drained.  A limit order is kept  *)
(* until it is cancelled; nothing ever fills it.  CryptoLIFOPolicy and     *)
(* FrenchPFUPolicy absorb the drained fills, one by one, in order.         *)
(*                                                                         *)
(* Prices are multiples of a unit so small that slippage, fees and average *)
(* prices are whole numbers (Scale): the Decimals of the code, as integers.*)
(***************************************************************************)
EXTENDS Execution, Sequences, FiniteSetsExt, SequencesExt

CONSTANTS
  Symbols,
  Sizes,         \* order quantities
  StartingCash,
  MaxHeld,       \* bound: holdings, long or short
  MaxOrders,     \* bound: orders submitted in one behaviour
  MaxResting,    \* bound: limit orders waiting at a time
  Scale          \* Scale[n]: multiples of it can be averaged over n more orders

ASSUME BookAssumption ==
  /\ IsFiniteSet(Symbols) /\ Sizes \subseteq Nat \ {0}
  /\ StartingCash \in Nat /\ {MaxHeld, MaxOrders, MaxResting} \subseteq Nat

ASSUME ScaleAssumption ==
  /\ MaxHeld # 0 /\ Scale \in [0 .. MaxOrders -> Nat \ {0}]
  /\ \A n \in 1 .. MaxOrders, q \in 1 .. MaxHeld : Scale[n] % (q * Scale[n - 1]) = 0
  /\ \A n \in 0 .. MaxOrders, p \in Prices, side \in {"buy", "sell"} :
       FillPrice(side, p) % Scale[n] = 0

VARIABLES
  quote,    \* price_fn: the latest price of a symbol, 0 when there is none
  cash,
  pos,      \* _positions
  fills,    \* _fills: executed, not yet drained
  resting,  \* _open_orders
  lifo,     \* the ledger of CryptoLIFOPolicy
  fifo,     \* the ledger of FrenchPFUPolicy
  sent,     \* orders submitted so far
  fees,     \* history: fees of all fills
  tape,     \* history: what the ledgers have absorbed, unit by unit
  shorted,  \* history: symbols that have been held short
  crossed   \* history: symbols one fill of which went through zero

bookVars == <<cash, pos, fills, fees, shorted, crossed>>
ledgerVars == <<lifo, fifo, tape>>
vars == <<quote, bookVars, resting, ledgerVars, sent>>

Order == [symbol : Symbols, side : {"buy", "sell"}, qty : Sizes]

-------------------------------------------------------------------------------
(* The broker.                                                             *)

Quote(s) ==
  /\ \E p \in Prices \ {quote[s]} : quote' = [quote EXCEPT ![s] = p]
  /\ UNCHANGED <<bookVars, resting, ledgerVars, sent>>

\* submit of a market order; without a price it raises and changes nothing.
SubmitMarket(o) ==
  /\ quote[o.symbol] # 0
  /\ sent < MaxOrders /\ Sized(pos[o.symbol].qty + Signed(o)) <= MaxHeld
  /\ sent' = sent + 1
  /\ LET f   == FillOf(o, quote[o.symbol])
         old == pos[o.symbol]
         new == Applied(old, f)
     IN /\ cash' = cash - Paid(f)
        /\ pos' = [pos EXCEPT ![o.symbol] = new]
        /\ fills' = Append(fills, f)
        /\ fees' = fees + f.fee
        /\ shorted' = IF new.qty < 0 THEN shorted \cup {o.symbol} ELSE shorted
        /\ crossed' = IF Crosses(old, f) THEN crossed \cup {o.symbol} ELSE crossed
  /\ UNCHANGED <<quote, resting, ledgerVars>>

\* submit of a limit or stop order, and cancel.
SubmitLimit(o) ==
  /\ sent < MaxOrders /\ Cardinality(resting) < MaxResting
  /\ sent' = sent + 1
  /\ resting' = resting \cup {o}
  /\ UNCHANGED <<quote, bookVars, ledgerVars>>

Cancel(o) ==
  /\ o \in resting
  /\ resting' = resting \ {o}
  /\ UNCHANGED <<quote, bookVars, ledgerVars, sent>>

Nav == cash + SumFunction([s \in Symbols |->
         pos[s].qty * (IF quote[s] # 0 THEN quote[s] ELSE pos[s].avg)])

-------------------------------------------------------------------------------
(* The ledgers.                                                            *)

\* Mutant: a lot sold in part is dropped as a whole.
SoldWholeLots(lots, qty, price) ==
  LET Step(acc, lot) ==
        LET take == Min({lot.qty, acc.rest})
        IN [rest |-> acc.rest - take,
            gain |-> acc.gain + take * (price - lot.price),
            lots |-> IF take > 0 THEN acc.lots ELSE Append(acc.lots, lot)]
  IN FoldLeft(Step, [rest |-> qty, gain |-> 0, lots |-> <<>>], lots)

\* Mutant: a lot that is sold out stays, with quantity zero.
SoldKeepsEmpty(lots, qty, price) ==
  LET Step(acc, lot) ==
        LET take == Min({lot.qty, acc.rest})
        IN [rest |-> acc.rest - take,
            gain |-> acc.gain + take * (price - lot.price),
            lots |-> Append(acc.lots, [lot EXCEPT !.qty = @ - take])]
  IN FoldLeft(Step, [rest |-> qty, gain |-> 0, lots |-> <<>>], lots)

\* A sell of qty takes from the lots, in the order given, until it is covered;
\* what the lots do not cover is dropped.
Sold(lots, qty, price) ==
  LET Step(acc, lot) ==
        LET take == Min({lot.qty, acc.rest})
        IN [rest |-> acc.rest - take,
            gain |-> acc.gain + take * (price - lot.price),
            lots |-> IF take = lot.qty THEN acc.lots
                     ELSE Append(acc.lots, [lot EXCEPT !.qty = @ - take])]
  IN FoldLeft(Step, [rest |-> qty, gain |-> 0, lots |-> <<>>], lots)

Bought(l, f) == [l EXCEPT !.lots = Append(@, [qty |-> f.qty, price |-> f.price])]

\* FrenchPFUPolicy.absorb: the oldest lots go first.
AbsorbFifo(l, f) ==
  LET sale == Sold(l.lots, f.qty, f.price)
  IN IF f.side = "buy" THEN Bought(l, f)
     ELSE [lots |-> sale.lots, realized |-> l.realized + sale.gain]

\* Mutant: lots are put back in the order they were consumed in.
AbsorbLifoReversed(l, f) ==
  LET sale == Sold(Reverse(l.lots), f.qty, f.price)
  IN IF f.side = "buy" THEN Bought(l, f)
     ELSE [lots |-> sale.lots, realized |-> l.realized + sale.gain]

\* CryptoLIFOPolicy.absorb: the newest lots go first.
AbsorbLifo(l, f) ==
  LET sale == Sold(Reverse(l.lots), f.qty, f.price)
  IN IF f.side = "buy" THEN Bought(l, f)
     ELSE [lots |-> Reverse(sale.lots), realized |-> l.realized + sale.gain]

\* fills() yields the oldest fill and both ledgers absorb it.
Drain ==
  /\ fills # <<>>
  /\ LET f == Head(fills)
     IN /\ lifo' = [lifo EXCEPT ![f.symbol] = AbsorbLifo(@, f)]
        /\ fifo' = [fifo EXCEPT ![f.symbol] = AbsorbFifo(@, f)]
        /\ tape' = [tape EXCEPT ![f.symbol] =
                     @ \o [k \in 1 .. f.qty |-> [side |-> f.side, price |-> f.price]]]
  /\ fills' = Tail(fills)
  /\ UNCHANGED <<quote, cash, pos, fees, shorted, crossed, resting, sent>>

-------------------------------------------------------------------------------
Init ==
  /\ quote = [s \in Symbols |-> 0]
  /\ cash = StartingCash /\ fees = 0
  /\ pos = [s \in Symbols |-> NoPosition]
  /\ fills = <<>> /\ resting = {} /\ sent = 0
  /\ lifo = [s \in Symbols |-> [lots |-> <<>>, realized |-> 0]]
  /\ fifo = lifo
  /\ tape = [s \in Symbols |-> <<>>]
  /\ shorted = {} /\ crossed = {}

Next ==
  \/ \E s \in Symbols : Quote(s)
  \/ \E o \in Order : SubmitMarket(o) \/ SubmitLimit(o) \/ Cancel(o)
  \/ Drain

Spec == Init /\ [][Next]_vars

-------------------------------------------------------------------------------
(* Properties.                                                             *)

Lot == [qty : Nat \ {0}, price : Nat]
Ledger == [lots : Seq(Lot), realized : Int]

\* Types; in particular no ledger keeps an empty lot.
TypeOK ==
  /\ quote \in [Symbols -> Prices \cup {0}]
  /\ cash \in Int /\ fees \in Nat
  /\ pos \in [Symbols -> [qty : -MaxHeld .. MaxHeld, avg : Nat, realized : Int]]
  /\ fills \in Seq([symbol : Symbols, side : {"buy", "sell"}, qty : Sizes,
                    price : Nat, fee : Nat])
  /\ resting \subseteq Order /\ sent \in 0 .. MaxOrders
  /\ lifo \in [Symbols -> Ledger] /\ fifo \in [Symbols -> Ledger]
  /\ tape \in [Symbols -> Seq([side : {"buy", "sell"}, price : Nat])]
  /\ shorted \subseteq Symbols /\ crossed \subseteq Symbols

\* The books balance: what is in the account and what it cost, less the profit
\* booked, is the starting cash less fees.  For accounts in which no fill went
\* through zero: Position.apply then books profit on more than was closed.
BookBalances ==
  crossed = {} =>
    cash + SumFunction([s \in Symbols |-> pos[s].qty * pos[s].avg - pos[s].realized])
      = StartingCash - fees

LotQty(lots) == SumFunction([k \in DOMAIN lots |-> lots[k].qty])

\* Once the fills are drained, both ledgers hold lots for exactly the position.  For
\* symbols never short: absorb drops the part of a sell that has no lots.
LotsCoverPosition ==
  fills = <<>> =>
    \A s \in Symbols \ shorted :
      LotQty(lifo[s].lots) = pos[s].qty /\ LotQty(fifo[s].lots) = pos[s].qty

\* A position that is closed and drained has made the same money by LIFO lots, by FIFO
\* lots and by the average price of Position; for symbols never short.
ClosedProfitAgrees ==
  fills = <<>> =>
    \A s \in Symbols \ shorted :
      pos[s].qty = 0 =>
        lifo[s].realized = pos[s].realized /\ fifo[s].realized = pos[s].realized

\* The ledgers of the tax policies and PaperBroker's Position agree, on what is held and
\* on what a closed position has made.
LotsAgreeWithPosition == LotsCoverPosition /\ ClosedProfitAgrees

\* What the two cost bases mean, from the tape: the k-th unit sold was the k-th bought;
\* or it was the last one bought that made the holding what it was before the sale, so
\* that as many units were sold as bought in between.
Units(t, i, side) == Cardinality({k \in 1 .. i : t[k].side = side})
Open(t, i) == Units(t, i, "buy") - Units(t, i, "sell")

NthBuy(t, n) == CHOOSE j \in DOMAIN t : t[j].side = "buy" /\ Units(t, j, "buy") = n
LastBuy(t, i, open) == Max({j \in 1 .. i : t[j].side = "buy" /\ Open(t, j) = open})

Sells(t) == {i \in DOMAIN t : t[i].side = "sell"}

FifoProfit(t) ==
  SumFunction([i \in Sells(t) |-> t[i].price - t[NthBuy(t, Units(t, i, "sell"))].price])

LifoProfit(t) ==
  SumFunction([i \in Sells(t) |-> t[i].price - t[LastBuy(t, i - 1, Open(t, i - 1))].price])

\* The ledgers realise what their names say, for symbols never held short
\* (CryptoLIFOPolicy.absorb, FrenchPFUPolicy.absorb).
CostBasisIsRight ==
  \A s \in Symbols \ shorted :
    fifo[s].realized = FifoProfit(tape[s]) /\ lifo[s].realized = LifoProfit(tape[s])

\* A trade costs exactly slippage and fee: nav() before and after a fill differ by
\* nothing else, whichever side, also through zero.
TradeCostsSlippageAndFee ==
  [][sent' # sent /\ cash' # cash =>
       Nav' = Nav - (fees' - fees)
                - LET f == Last(fills')
                  IN f.qty * Sized(f.price - quote[f.symbol])]_vars

===============================================================================
