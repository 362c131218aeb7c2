-------------------------------- MODULE Brief --------------------------------
(***************************************************************************)
(* daily_brief: what a night's session is told of the day, computed from   *)
(* the journals of orders and fills.                                       *)
(*                                                                         *)
(* An order is journalled by the tick that sends it, with the tick's time  *)
(* in its client id; it executes later, or never; its fill is journalled   *)
(* by a later tick, stamped with the time it executed.  A brief reads the  *)
(* rows of the last Window hours, both ends included.  Old rows may carry  *)
(* a second copy of a fill under another run id.                           *)
(***************************************************************************)
EXTENDS Integers, Sequences, FiniteSetsExt

CONSTANTS
  Symbols,
  Notionals,   \* what an execution moves: qty * price
  Fee,         \* fee on a row (zero at Alpaca, not at PaperBroker)
  Window,      \* 24 hours
  Night,       \* hours from one nightly brief to the next, by the cron
  MaxTime,     \* bound: hours
  MaxOrders,   \* bound: orders
  MaxCopies    \* bound: rows journalled twice

ASSUME BriefAssumption ==
  /\ Notionals \subseteq Nat /\ Fee \in Nat
  /\ Window \in Nat \ {0} /\ Night \in Nat \ {0}
  /\ {MaxTime, MaxOrders, MaxCopies} \subseteq Nat

Sides == {"buy", "sell"}
Runs == {"run", "older run"}
NotYet == -1

VARIABLES
  now,
  orders,    \* the orders sent, with what the venue made of them
  rows,      \* mall["fills"]: the keys (run_id, order_id), in order of insertion
  cash,      \* the account's cash (may be below zero: it is a difference)
  opening,   \* history: the cash when each hour began
  next,      \* when the cron fires
  reported,  \* history: orders whose fill was in a nightly brief
  tardy      \* history: orders executed but not journalled at a nightly brief

nightVars == <<next, reported, tardy>>
briefVars == <<now, orders, rows, cash, opening, nightVars>>

Ids == DOMAIN orders
Executed(i) == orders[i].filled # NotYet
Journalled == {rows[k].id : k \in DOMAIN rows}

-------------------------------------------------------------------------------
(* The journals the brief reads.                                           *)

\* A tick sends an order and journals it.
SendOrder ==
  /\ Len(orders) < MaxOrders
  /\ \E s \in Symbols, d \in Sides, n \in Notionals :
       orders' = Append(orders, [symbol |-> s, side |-> d, notional |-> n,
                                 tick |-> now, filled |-> NotYet])
  /\ UNCHANGED <<now, rows, cash, opening, nightVars>>

\* The venue executes an order.
Execute(i) ==
  /\ ~Executed(i)
  /\ orders' = [orders EXCEPT ![i].filled = now]
  /\ cash' = cash - Fee
       + (IF orders[i].side = "buy" THEN - orders[i].notional ELSE orders[i].notional)
  /\ UNCHANGED <<now, rows, opening, nightVars>>

\* A tick drains a fill.
JournalFill(i) ==
  /\ Executed(i) /\ i \notin Journalled
  /\ rows' = Append(rows, [run |-> "run", id |-> i])
  /\ UNCHANGED <<now, orders, cash, opening, nightVars>>

\* A restart of old journalled the fill once more under its own run id.
Rejournal(i) ==
  /\ i \in Journalled /\ [run |-> "older run", id |-> i] \notin {rows[k] : k \in DOMAIN rows}
  /\ Len(rows) - Cardinality(Journalled) < MaxCopies
  /\ rows' = Append(rows, [run |-> "older run", id |-> i])
  /\ UNCHANGED <<now, orders, cash, opening, nightVars>>

-------------------------------------------------------------------------------
(* daily_brief.                                                            *)

\* Mutant: the window is open at its start.
InWindowAfterStart(ts) == now - Window < ts /\ ts <= now

\* _in_window
InWindow(ts) == now - Window <= ts /\ ts <= now

\* Mutant: every row counts.
FillsInWindowAll == {k \in DOMAIN rows : InWindow(orders[rows[k].id].filled)}

\* The fill rows of the window, the first of each order (_dedupe_by_order_id).
FillsInWindow ==
  {k \in DOMAIN rows :
     /\ InWindow(orders[rows[k].id].filled)
     /\ \A j \in 1 .. k - 1 : rows[j].id # rows[k].id}

\* Mutant: orders of any day.
OrdersInWindowAll == Ids

\* Orders have no time of their own: the tick in the client id stands for it.
OrdersInWindow == {i \in Ids : InWindow(orders[i].tick)}

Row(k) == orders[rows[k].id]

\* What a fill row moved the cash by.
CashOf(r) == (IF r.side = "buy" THEN - r.notional ELSE r.notional) - Fee

\* Orders without a fill on their symbol and side in the window.
Unfilled ==
  {i \in OrdersInWindow :
     \A k \in FillsInWindow :
       Row(k).symbol # orders[i].symbol \/ Row(k).side # orders[i].side}

\* approx_realized_cash_change
CashChange == SumFunctionOnSet([k \in DOMAIN rows |-> CashOf(Row(k))], FillsInWindow)

\* The brief of the nightly session.
NightlyBrief ==
  /\ now = next
  /\ next' = now + Night
  /\ reported' = reported \cup {rows[k].id : k \in FillsInWindow}
  /\ tardy' = tardy \cup {i \in Ids : Executed(i) /\ i \notin Journalled}
  /\ UNCHANGED <<now, orders, rows, cash, opening>>

Elapse ==
  /\ now < MaxTime /\ now < next
  /\ now' = now + 1
  /\ opening' = Append(opening, cash)
  /\ UNCHANGED <<orders, rows, cash, nightVars>>

-------------------------------------------------------------------------------
BriefInit ==
  /\ now = 0 /\ next = Night
  /\ orders = <<>> /\ rows = <<>>
  /\ cash = 0 /\ opening = <<0>>
  /\ reported = {} /\ tardy = {}

BriefNext ==
  \/ SendOrder \/ Elapse \/ NightlyBrief
  \/ \E i \in Ids : Execute(i) \/ JournalFill(i) \/ Rejournal(i)

BriefSpec == BriefInit /\ [][BriefNext]_briefVars

-------------------------------------------------------------------------------
(* Properties.  A brief can be read at any time (hedger brief, hedger       *)
(* status), so what it says must be right in every state.                   *)

Settled == \A i \in Ids : Executed(i) => i \in Journalled

\* Once every fill is journalled, approx_realized_cash_change is what the
\* account's cash has moved by in the window, fees and twice-journalled fills
\* notwithstanding.
CashChangeIsTheAccounts ==
  Settled =>
    CashChange = cash - opening[1 + Max({0, now - Window})]

\* An order flagged as unfilled has not been filled, once every fill is journalled
\* (an order executes no earlier than its tick, so its fill is in the window too).
FlaggedIsUnfilled ==
  Settled => \A i \in Unfilled : ~Executed(i)

\* With nights no further apart than the window, a nightly brief leaves no gap to
\* the one before: every fill journalled by now, unless it executed before an
\* earlier night and missed that one's journal, has been in a nightly brief.
NightsReportEverything ==
  [][next' # next => Journalled \ tardy \subseteq reported']_briefVars

===============================================================================
