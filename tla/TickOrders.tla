------------------------------ MODULE TickOrders ------------------------------
(***************************************************************************)
(* Runner.tick: from target positions to orders, against a venue that      *)
(* keeps filling and cancelling while the tick runs.                       *)
(*                                                                         *)
(* A tick reads the positions, sizes its decisions, reads the orders still *)
(* open, and orders for every decided symbol what is missing to the        *)
(* target, counting open orders as held.  The two reads are separate calls *)
(* with broker calls in between.  A client order id is made of the         *)
(* process, the tick's second and the symbol; the venue refuses to accept  *)
(* one twice.                                                              *)
(*                                                                         *)
(* Quantities are whole units; target weight times NAV over price is a     *)
(* target quantity.  Whatever drops a decision (no bar, risk or tax veto)  *)
(* is one choice.  `faults' counts the mishaps and bounds them.            *)
(***************************************************************************)
EXTENDS Integers, FiniteSets

CONSTANTS
  Symbols,    \* the universe
  Crypto,     \* symbols that trade around the clock
  Shortable,  \* symbols the venue lets an account sell without holding them
  Targets,    \* target quantities the strategy may ask for
  MinTrade,   \* smallest quantity that is not a dust trade
  Env,        \* which mishaps this instance allows
  MaxFaults   \* bound: mishaps in one behaviour

Mishaps == {"race", "lookup_error", "cancel", "reject", "timeout",
            "crash", "tick_error", "close", "retarget", "veto", "clock_error"}

ASSUME TickAssumption ==
  /\ Crypto \subseteq Symbols /\ Shortable \subseteq Symbols
  /\ Targets \subseteq Int /\ Targets # {}
  /\ MinTrade \in Nat \ {0}
  /\ Env \subseteq Mishaps
  /\ MaxFaults \in Nat

VARIABLES
  held,     \* venue: positions
  buying,   \* venue: quantity of the open buy orders
  selling,  \* venue: quantity of the open sell orders
  open,     \* venue: is the equity market open
  want,     \* what the strategy asks for
  pc,       \* where the tick thread is
  late,     \* has the second of the latest tick passed
  hours,    \* market_open, as read when the tick started
  todo,     \* symbols of the approved decisions not yet looked at
  goal,     \* the target quantities of those decisions
  seen,     \* positions, as read by the tick
  pending,  \* pending, as looked up by the tick
  sent,     \* the symbol whose order was just accepted, to be journalled
  ids,      \* symbols whose client order id of this second was accepted
  rows,     \* symbols with a row of this second in mall["orders"]
  faults,   \* mishaps so far
  peak,     \* history: highest and lowest target decided, or 0
  trough,
  cutBuys,  \* history: quantity of buy and sell orders cancelled
  cutSells,
  blind,    \* history: symbols the tick has once seen less than all of
  raised    \* history: accepted orders whose submit or journal write raised

venueVars == <<held, buying, selling, open>>
tickVars  == <<hours, todo, goal, seen, pending, sent>>
keyVars   == <<ids, rows, raised>>
histVars  == <<peak, trough, cutBuys, cutSells, blind>>
vars == <<venueVars, want, pc, late, tickVars, keyVars, histVars, faults>>

Zero == [s \in Symbols |-> 0]

Mishap(m) == m \in Env /\ faults < MaxFaults /\ faults' = faults + 1

\* What the account holds once every open order has filled.
Exposure(s) == held[s] + buying[s] - selling[s]

-------------------------------------------------------------------------------
(* The venue and the strategy (outside this component).                    *)

\* Open orders fill one unit at a time, while the symbol trades.  Between the
\* two reads of a tick this is a mishap: the tick sees the unit in neither.
Fill(s) ==
  /\ open \/ s \in Crypto
  /\ \/ /\ buying[s] > 0
        /\ buying' = [buying EXCEPT ![s] = @ - 1]
        /\ held' = [held EXCEPT ![s] = @ + 1]
        /\ UNCHANGED selling
     \/ /\ selling[s] > 0
        /\ selling' = [selling EXCEPT ![s] = @ - 1]
        /\ held' = [held EXCEPT ![s] = @ - 1]
        /\ UNCHANGED buying
  /\ IF pc = "lookup"
       THEN Mishap("race") /\ blind' = blind \cup {s}
       ELSE UNCHANGED <<faults, blind>>
  /\ UNCHANGED <<open, want, pc, late, tickVars, keyVars,
                 peak, trough, cutBuys, cutSells>>

\* The open orders of one side die: cancelled, or expired at the close.
Cancel(s) ==
  /\ Mishap("cancel")
  /\ \/ /\ buying[s] > 0
        /\ buying' = [buying EXCEPT ![s] = 0]
        /\ cutBuys' = [cutBuys EXCEPT ![s] = @ + buying[s]]
        /\ UNCHANGED <<selling, cutSells>>
     \/ /\ selling[s] > 0
        /\ selling' = [selling EXCEPT ![s] = 0]
        /\ cutSells' = [cutSells EXCEPT ![s] = @ + selling[s]]
        /\ UNCHANGED <<buying, cutBuys>>
  /\ UNCHANGED <<held, open, want, pc, late, tickVars, keyVars,
                 peak, trough, blind>>

MarketClose ==
  /\ Mishap("close")
  /\ open /\ open' = FALSE
  /\ UNCHANGED <<held, buying, selling, want, pc, late, tickVars, keyVars, histVars>>

MarketOpen ==
  /\ ~open /\ open' = TRUE
  /\ UNCHANGED <<held, buying, selling, want, pc, late, tickVars, keyVars, histVars,
                 faults>>

\* A new bar, new news or a new price: the strategy asks for something else.
Retarget(s) ==
  /\ Mishap("retarget")
  /\ \E t \in Targets \ {want[s]} : want' = [want EXCEPT ![s] = t]
  /\ UNCHANGED <<venueVars, pc, late, tickVars, keyVars, histVars>>

NextSecond ==
  /\ ~late /\ late' = TRUE
  /\ UNCHANGED <<venueVars, want, pc, tickVars, keyVars, histVars, faults>>

-------------------------------------------------------------------------------
(* The tick thread.                                                        *)

\* The locals of the tick are gone.
Forget ==
  /\ todo' = {} /\ goal' = Zero /\ seen' = Zero /\ pending' = Zero
  /\ hours' = TRUE /\ sent' = {}

\* tick_ts, is_market_open, bars and signals.  When the clock cannot be read the
\* market counts as open.  Ids of an earlier second never come up again.
StartTick ==
  /\ pc = "idle"
  /\ pc' = "positions"
  /\ \/ hours' = open /\ UNCHANGED faults
     \/ Mishap("clock_error") /\ hours' = TRUE
  /\ late' = FALSE
  /\ IF late THEN ids' = {} /\ rows' = {} /\ raised' = {} ELSE UNCHANGED keyVars
  /\ UNCHANGED <<venueVars, want, todo, goal, seen, pending, sent, histVars>>

\* The positions are read, the decisions sized, and some of them dropped.
ReadPositions ==
  /\ pc = "positions"
  /\ pc' = "lookup"
  /\ seen' = held
  /\ goal' = want
  /\ \/ todo' = Symbols /\ UNCHANGED faults
     \/ Mishap("veto") /\ todo' \in SUBSET Symbols
  /\ peak' = [s \in Symbols |-> IF want[s] > peak[s] THEN want[s] ELSE peak[s]]
  /\ trough' = [s \in Symbols |-> IF want[s] < trough[s] THEN want[s] ELSE trough[s]]
  /\ UNCHANGED <<venueVars, want, late, hours, pending, sent, keyVars,
                 cutBuys, cutSells, blind>>

\* open_orders: the signed remaining quantity of the orders working at the venue.
Working(s) == buying[s] - selling[s]

\* pending_qty: the signed remaining quantity of the open orders, or nothing
\* when the call fails.
LookUpPending ==
  /\ pc = "lookup"
  /\ pc' = "orders"
  /\ \/ /\ pending' = [s \in Symbols |-> Working(s)]
        /\ UNCHANGED <<faults, blind>>
     \/ /\ Mishap("lookup_error")
        /\ pending' = Zero
        /\ blind' = blind \cup {s \in Symbols : buying[s] + selling[s] > 0}
  /\ UNCHANGED <<venueVars, want, late, hours, todo, goal, seen, sent, keyVars,
                 peak, trough, cutBuys, cutSells>>

\* Mutant: only what is held counts, open orders do not.
MissingIgnoresOpen(s) == goal[s] - seen[s]

\* What is missing to the target; open orders count as already held.
Missing(s) == goal[s] - (seen[s] + pending[s])

Abs(n) == IF n < 0 THEN -n ELSE n

\* Mutant: equities are skipped when the market is open.
SkipsWhenOpen(s) ==
  Abs(Missing(s)) < MinTrade \/ (hours /\ s \notin Crypto)

\* No order is sent for a dust trade, nor for an equity outside market hours.
Skips(s) == Abs(Missing(s)) < MinTrade \/ (~hours /\ s \notin Crypto)

Skip(s) ==
  /\ pc = "orders" /\ s \in todo
  /\ Skips(s)
  /\ todo' = todo \ {s}
  /\ UNCHANGED <<venueVars, want, pc, late, hours, goal, seen, pending, sent,
                 keyVars, histVars, faults>>

\* The venue takes an order whose client id is new, unless it would sell what
\* the account does not have.
Accepts(s) ==
  /\ s \notin ids
  /\ Missing(s) > 0 \/ s \in Shortable \/ selling[s] - Missing(s) <= held[s]

\* Mutant: the quantity of a sell order keeps its sign.
AcceptSigned(s) ==
  /\ ids' = ids \cup {s}
  /\ IF Missing(s) > 0
       THEN /\ buying' = [buying EXCEPT ![s] = @ + Missing(s)]
            /\ UNCHANGED selling
       ELSE /\ selling' = [selling EXCEPT ![s] = @ + Missing(s)]
            /\ UNCHANGED buying
  /\ UNCHANGED <<held, open>>

Accept(s) ==
  /\ ids' = ids \cup {s}
  /\ IF Missing(s) > 0
       THEN /\ buying' = [buying EXCEPT ![s] = @ + Missing(s)]
            /\ UNCHANGED selling
       ELSE /\ selling' = [selling EXCEPT ![s] = @ - Missing(s)]
            /\ UNCHANGED buying
  /\ UNCHANGED <<held, open>>

\* broker.submit returns: its order is journalled next.
Submit(s) ==
  /\ pc = "orders" /\ s \in todo
  /\ ~Skips(s) /\ Accepts(s)
  /\ Accept(s)
  /\ pc' = "log"
  /\ todo' = todo \ {s} /\ sent' = {s}
  /\ UNCHANGED <<want, late, hours, goal, seen, pending, rows, raised,
                 histVars, faults>>

\* Mutant: a submit that raised is journalled all the same.
SubmitRaisesLogged(s) ==
  /\ pc = "orders" /\ s \in todo
  /\ ~Skips(s)
  /\ todo' = todo \ {s}
  /\ \/ ~Accepts(s) /\ UNCHANGED <<venueVars, ids, raised, faults>>
     \/ Mishap("reject") /\ UNCHANGED <<venueVars, ids, raised>>
     \/ Mishap("timeout") /\ Accepts(s) /\ Accept(s) /\ raised' = raised \cup {s}
  /\ rows' = rows \cup {s}
  /\ UNCHANGED <<want, pc, late, hours, goal, seen, pending, sent, histVars>>

\* broker.submit raises and the decision is dropped: the venue refused the
\* order, or it took the order and the answer got lost.
SubmitRaises(s) ==
  /\ pc = "orders" /\ s \in todo
  /\ ~Skips(s)
  /\ todo' = todo \ {s}
  /\ \/ ~Accepts(s) /\ UNCHANGED <<venueVars, ids, raised, faults>>
     \/ Mishap("reject") /\ UNCHANGED <<venueVars, ids, raised>>
     \/ Mishap("timeout") /\ Accepts(s) /\ Accept(s) /\ raised' = raised \cup {s}
  /\ UNCHANGED <<want, pc, late, hours, goal, seen, pending, sent, rows, histVars>>

\* mall["orders"][(run_id, client_order_id)] = ...
LogOrder ==
  /\ pc = "log"
  /\ pc' = "orders"
  /\ rows' = rows \cup sent
  /\ sent' = {}
  /\ UNCHANGED <<venueVars, want, late, hours, todo, goal, seen, pending, ids, raised,
                 histVars, faults>>

EndTick ==
  /\ pc = "orders" /\ todo = {}
  /\ pc' = "idle"
  /\ Forget
  /\ UNCHANGED <<venueVars, want, late, keyVars, histVars, faults>>

\* A read of the account or the journal write raises: the tick is over.
TickError ==
  /\ Mishap("tick_error")
  /\ pc \in {"positions", "lookup", "log"}
  /\ pc' = "idle"
  /\ Forget
  /\ raised' = raised \cup sent
  /\ UNCHANGED <<venueVars, want, late, ids, rows, histVars>>

\* The process dies anywhere; the next one has a run_id of its own, so its
\* client ids are new.
Crash ==
  /\ Mishap("crash")
  /\ pc # "idle"
  /\ pc' = "idle"
  /\ late' = TRUE
  /\ Forget
  /\ ids' = {} /\ rows' = {} /\ raised' = {}
  /\ UNCHANGED <<venueVars, want, histVars>>

-------------------------------------------------------------------------------
Init ==
  /\ held = Zero /\ buying = Zero /\ selling = Zero /\ open = TRUE
  /\ want \in [Symbols -> Targets]
  /\ pc = "idle" /\ late = TRUE /\ hours = TRUE /\ todo = {}
  /\ goal = Zero /\ seen = Zero /\ pending = Zero /\ sent = {}
  /\ ids = {} /\ rows = {} /\ raised = {}
  /\ faults = 0 /\ peak = Zero /\ trough = Zero
  /\ cutBuys = Zero /\ cutSells = Zero /\ blind = {}

Venue ==
  \/ \E s \in Symbols : Fill(s) \/ Cancel(s) \/ Retarget(s)
  \/ MarketClose \/ MarketOpen \/ NextSecond

Orders == \E s \in Symbols : Skip(s) \/ Submit(s) \/ SubmitRaises(s)

Tick == StartTick \/ ReadPositions \/ LookUpPending \/ Orders \/ LogOrder \/ EndTick

Next == Venue \/ Tick \/ TickError \/ Crash

Spec == Init /\ [][Next]_vars

\* The scheduler keeps ticking, time passes, the market opens again, and the
\* venue fills a market order sooner or later while its symbol trades.  (Strong
\* fairness of Fill: `race' keeps it disabled during one step of every tick.)
FairSpec ==
  /\ Spec
  /\ WF_vars(Tick) /\ WF_vars(NextSecond) /\ WF_vars(MarketOpen)
  /\ \A s \in Symbols : SF_vars(Fill(s))

-------------------------------------------------------------------------------
(* Properties.                                                             *)

TypeOK ==
  /\ held \in [Symbols -> Int]
  /\ buying \in [Symbols -> Nat] /\ selling \in [Symbols -> Nat]
  /\ open \in BOOLEAN /\ late \in BOOLEAN /\ hours \in BOOLEAN
  /\ want \in [Symbols -> Targets]
  /\ pc \in {"idle", "positions", "lookup", "orders", "log"}
  /\ goal \in [Symbols -> Int]
  /\ seen \in [Symbols -> Int] /\ pending \in [Symbols -> Int]
  /\ todo \in SUBSET Symbols /\ sent \in SUBSET Symbols
  /\ ids \in SUBSET Symbols /\ rows \in SUBSET Symbols /\ raised \in SUBSET Symbols
  /\ faults \in 0 .. MaxFaults
  /\ peak \in [Symbols -> Int] /\ trough \in [Symbols -> Int]
  /\ cutBuys \in [Symbols -> Nat] /\ cutSells \in [Symbols -> Nat]
  /\ blind \in SUBSET Symbols

\* Held and working quantity together never leave the range of what has been
\* decided so far, except by the part of an order that died unfilled: retries,
\* restarts, lost answers and ticks on top of each other's orders trade nothing
\* twice (the open-order accounting of Runner.tick) -- for a symbol the tick was
\* never blind to.
NoOverTrade ==
  \A s \in Symbols \ blind :
    /\ Exposure(s) <= peak[s] + cutSells[s]
    /\ Exposure(s) >= trough[s] - cutBuys[s]

\* A row in mall["orders"] stands for an order the venue accepted, and at the end
\* of a tick only an order whose answer got lost has none.
OrdersLogExact ==
  /\ rows \subseteq ids
  /\ pc = "idle" => ids = rows \cup raised

\* The venue lets the account hold the target (an order that would sell short
\* where that is not allowed is refused whole, and nothing is sold).
Attainable(s) == want[s] >= 0 \/ s \in Shortable

\* Why they hold.  While orders are being sent, what the tick believes of a
\* symbol it has still to look at is off by cancelled orders at most.
BeliefInv ==
  /\ pc = "lookup" => \A s \in Symbols \ blind : seen[s] = held[s]
  /\ pc \in {"orders", "log"} =>
       \A s \in todo \ blind :
         /\ Exposure(s) <= seen[s] + pending[s] + cutSells[s]
         /\ Exposure(s) >= seen[s] + pending[s] - cutBuys[s]
  /\ pc \in {"lookup", "orders", "log"} =>
       \A s \in Symbols : trough[s] <= goal[s] /\ goal[s] <= peak[s]
  /\ NoOverTrade

\* Accepted orders are the journalled ones, those whose answer got lost, and the
\* one about to be journalled.
KeysInv ==
  /\ ids = rows \cup raised \cup sent
  /\ sent # {} => pc = "log"

\* Once the mishaps are over the account gets to the target, less than a dust
\* trade away, and stays there: no order is lost for good, none is repeated for
\* ever (Runner.tick, run again and again by run_scheduler).
ReachesTarget ==
  <>[](\A s \in Symbols : Attainable(s) => Abs(held[s] - want[s]) < MinTrade)

\* No over-trade, ever: "Open orders count as already-held: recomputing them is
\* how an unfilled sell got resubmitted on the next tick" (Runner.tick).
OpenOrdersCountAsHeld ==
  \A s \in Symbols : trough[s] <= Exposure(s) /\ Exposure(s) <= peak[s]

===============================================================================
