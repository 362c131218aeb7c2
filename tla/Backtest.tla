------------------------------- MODULE Backtest -------------------------------
(***************************************************************************)
(* backtest_simple: bar by bar, a strategy, a sizer, optionally a          *)
(* middleware, and the PaperBroker.  A step is one bar of all symbols.     *)
(*                                                                         *)
(* Quantities are whole multiples of a unit that stands for the floats of  *)
(* the code: in the run, prices and weights are powers of two and          *)
(* StartingCash has a factor of two for every quotient, so none rounds.  A *)
(* bar opens and closes at one price.  The broker's averages are left out: *)
(* nothing of the engine reads them.                                       *)
(*                                                                         *)
(* Bars come at the times of a calendar, with gaps where the market is     *)
(* closed.  What the live runner would hand to the strategy on the same    *)
(* bars is set beside what the engine hands to it.                         *)
(***************************************************************************)
EXTENDS Execution, Decisions, Strategies

CONSTANTS
  Listed,        \* the symbols, in the order of the dict of bars
  Setups,        \* strategy, sizer, middleware and context of a run
  StartingCash,
  LiveSpan,      \* time back from a live tick for which the runner fetches bars
  LiveDelay,     \* time from the last bar to the live tick
  MaxBars        \* bound: bars of a run

Symbols == Range(Listed)

\* Bars a strategy looks back.
Needs == [sma_crossover |-> Slow, donchian_breakout |-> Max({Slow, AtrWindow}) + 1,
          bollinger_meanrev |-> BandWindow + 1, pead_drift |-> DriftWindow + 1,
          news_embed |-> 1, pairs_zscore |-> Lookback, xs_momentum |-> Formation + Skip + 1,
          llm_news |-> NewsCloses]

\* What an entry of context_fn's answer is when the caller does not supply it.
NoEvent == [ts |-> 0, sue |-> 0]
NoFeatures == <<>>

\* What llm_news can ask: closes, for some of the symbols.
CloseLists == UNION {[1 .. n -> Prices] : n \in 0 .. NewsCloses}
Prompts == UNION {[asked -> CloseLists] : asked \in SUBSET Symbols}

ASSUME BacktestAssumption ==
  /\ Listed \in Seq(Symbols) /\ Listed # <<>> /\ IsInjective(Listed)
  /\ {StartingCash, MaxBars} \subseteq Nat \ {0} /\ {LiveSpan, LiveDelay} \subseteq Nat
  /\ \A x \in Setups :
       /\ x.strategy \in DOMAIN Needs
       /\ {x.pair.a, x.pair.b} \subseteq Symbols
       /\ Prompts \subseteq DOMAIN x.reply
       /\ \A p \in Prompts : x.reply[p].entries \in Seq(Range(x.reply[p].entries))
       /\ x.calendar \in Seq(Nat) /\ Len(x.calendar) >= MaxBars

VARIABLES
  setup,
  bars,    \* the bars so far, by symbol
  cash,
  held,    \* quantities of the broker's positions; a symbol never traded has none
  trades,  \* the result's trades
  last     \* history: the last bar's NAV, known symbols and decisions

vars == <<setup, bars, cash, held, trades, last>>

\* The sum of a sequence of numbers.
Tally(xs) ==
  LET Up[n \in 0 .. Len(xs)] == IF n = 0 THEN 0 ELSE Up[n - 1] + xs[n]
  IN Up[Len(xs)]

\* strategies.get(name), on windows of bars and a context.
Signals(window, context) ==
  LET One(score) == ForEach(Listed, score)
      name == setup.strategy
  IN CASE name = "sma_crossover"     -> One([s \in Symbols |-> Sma(window[s])])
       [] name = "donchian_breakout" -> One([s \in Symbols |-> Donchian(window[s])])
       [] name = "bollinger_meanrev" -> One([s \in Symbols |-> Bollinger(window[s])])
       [] name = "pead_drift" -> One([s \in Symbols |-> Pead(window[s], context.event)])
       [] name = "news_embed" -> One([s \in Symbols |-> NewsEmbed(window[s], context.features)])
       [] name = "pairs_zscore" ->
            Pairs(window[setup.pair.a], window[setup.pair.b], setup.pair)
       [] name = "xs_momentum" -> XsMomentum(window, Listed)
       [] name = "llm_news"    -> LlmNews(window, context.headlines, setup.reply)

\* A strategy that raises ends the backtest.
Raises(window, context) ==
  setup.strategy = "llm_news" /\ LlmRaises(window, context.headlines, setup.reply)

\* context_fn's answer.
Context == [event |-> setup.event, features |-> setup.features, headlines |-> setup.headlines]

\* The context of Runner.tick has the news and the time of the tick, nothing else.
LiveContext == [Context EXCEPT !.event = NoEvent, !.features = NoFeatures]

\* Runner.fetch_window, with the last of the bars just in: those of a span of time.
Fetched(w) ==
  LastOf(w, Cardinality({k \in DOMAIN w : w[k].ts + LiveSpan >= Last(w).ts + LiveDelay}))

LiveWindow == [s \in Symbols |-> Fetched(bars[s])]

\* The sizer, then the middleware: cap_position_weight or none.
DecisionsOn(signals) ==
  LET sized == IF setup.sizer = "equal_weight" THEN EqualWeight(signals)
               ELSE KellyCapped(signals)
      Vetted(d) == CHOOSE v \in CapPosition(d) : TRUE
  IN IF setup.guarded THEN [k \in DOMAIN sized |-> Vetted(sized[k])] ELSE sized

PriceOf(series, s) == Last(series[s]).close

\* What is held of a symbol.
Qty(positions, s) == IF s \in DOMAIN positions THEN positions[s] ELSE 0

Nav(series) ==
  cash + Tally([k \in DOMAIN Listed |-> Qty(held, Listed[k]) * PriceOf(series, Listed[k])])

\* The fill of a market order of n shares, n < 0 for a sale.
Filled(s, n, px) ==
  FillOf([symbol |-> s, side |-> IF n > 0 THEN "buy" ELSE "sell", qty |-> Magnitude(n)], px)

\* The positions after a fill.
HeldAfter(positions, f) ==
  [s \in DOMAIN positions \cup {f.symbol} |->
     Qty(positions, s) + IF s = f.symbol THEN Signed(f) ELSE 0]

\* Mutant: of two trades in a symbol only the last is kept.
TradedByBar(book, s, n, px) ==
  LET f == Filled(s, n, px)
  IN IF n = 0 THEN book
     ELSE [cash   |-> book.cash - Paid(f),
           held   |-> HeldAfter(book.held, f),
           trades |-> Append(SelectSeq(book.trades, LAMBDA t : t.symbol # s), f)]

\* A market order and its fill.
Traded(book, s, n, px) ==
  LET f == Filled(s, n, px)
  IN IF n = 0 THEN book
     ELSE [cash   |-> book.cash - Paid(f),
           held   |-> HeldAfter(book.held, f),
           trades |-> Append(book.trades, f)]

\* Mutant: positions() copies the positions, too.
TowardsFromCopy(book, d, nav, known, px) ==
  LET current == IF d.symbol \in known THEN held[d.symbol] ELSE 0
  IN Traded(book, d.symbol, ((d.weight * nav) \div WeightUnit - current * px) \div px, px)

\* The order that takes a symbol to its target.  positions() has copied the dict
\* but not the positions: of a symbol known before the bar it shows what is held
\* now, of others nothing.
Towards(book, d, nav, known, px) ==
  LET current == IF d.symbol \in known THEN book.held[d.symbol] ELSE 0
  IN Traded(book, d.symbol, ((d.weight * nav) \div WeightUnit - current * px) \div px, px)

\* The book after the orders of a bar, decision by decision.
Worked(book, decisions, nav, known, closes) ==
  LET Up[n \in 0 .. Len(decisions)] ==
        IF n = 0 THEN book
        ELSE LET before == Up[n - 1]
                 d == decisions[n]
             IN Towards(before, d, nav, known, closes[d.symbol])
  IN Up[Len(decisions)]

-------------------------------------------------------------------------------

NoBar == [nav |-> StartingCash, known |-> {}, decisions |-> <<>>]

Init ==
  /\ setup \in Setups
  /\ bars = [s \in Symbols |-> <<>>]
  /\ cash = StartingCash /\ held = <<>> /\ trades = <<>>
  /\ last = NoBar

Advance(closes) ==
  /\ Len(bars[Listed[1]]) < MaxBars
  /\ bars' = [s \in Symbols |->
       Append(bars[s], [ts |-> setup.calendar[Len(bars[s]) + 1], high |-> closes[s],
                        low |-> closes[s], close |-> closes[s]])]
  /\ UNCHANGED setup
  /\ ~Raises(bars', Context)

\* A bar without signals: only the NAV is recorded.
Quiet(closes) ==
  /\ Advance(closes)
  /\ Signals(bars', Context) = <<>>
  /\ last' = [nav |-> Nav(bars'), known |-> DOMAIN held, decisions |-> <<>>]
  /\ UNCHANGED <<cash, held, trades>>

\* A bar with signals: decisions are made on the NAV before the first order.
Trade(closes) ==
  /\ Advance(closes)
  /\ LET signals   == Signals(bars', Context)
         decisions == DecisionsOn(signals)
         nav       == Nav(bars')
         known     == DOMAIN held
         book == Worked([cash |-> cash, held |-> held, trades |-> trades], decisions,
                        nav, known, closes)
     IN /\ signals # <<>>
        /\ cash' = book.cash /\ held' = book.held /\ trades' = book.trades
        /\ last' = [nav |-> nav, known |-> known, decisions |-> decisions]

Next == \E closes \in [Symbols -> Prices] : Quiet(closes) \/ Trade(closes)

Spec == Init /\ [][Next]_vars

-------------------------------------------------------------------------------
(* Properties.                                                             *)

\* Types; weights stay within what the sizers may hand out.
TypeOK ==
  /\ setup \in Setups
  /\ \A s \in Symbols : Len(bars[s]) <= MaxBars
  /\ cash \in Int /\ DOMAIN held \subseteq Symbols /\ \A s \in DOMAIN held : held[s] \in Int
  /\ \A k \in DOMAIN trades : trades[k].symbol \in Symbols /\ trades[k].qty > 0
  /\ \A k \in DOMAIN last.decisions : last.decisions[k].weight \in -SizerMax .. SizerMax

\* A symbol decided on in a bar holds, after it, the last decision's weight of the
\* NAV before the bar's first order, to the whole unit and exactly where nothing
\* rounds, whatever it held and however often it was decided on; excepted are symbols
\* first bought in a bar that decides on them twice (they are bought twice).
OnTarget ==
  \A k \in DOMAIN last.decisions :
    LET s == last.decisions[k].symbol
        again == {j \in DOMAIN last.decisions : last.decisions[j].symbol = s}
        share == WeightUnit * PriceOf(bars, s)
    IN k = Max(again) /\ (s \in last.known \/ again = {k})
         => last.decisions[k].weight * last.nav - Qty(held, s) * share \in 0 .. share - 1

\* The trades of the result account for all the cash and every position: they are
\* what a promotion decision is judged by.
TradesAccountForBook ==
  /\ cash = StartingCash - Tally([k \in DOMAIN trades |-> Paid(trades[k])])
  /\ \A s \in Symbols :
       Tally([k \in DOMAIN trades |->
                IF trades[k].symbol = s THEN Signed(trades[k]) ELSE 0]) = Qty(held, s)

\* What a strategy of prices, or of prices and headlines, says on the backtest's ever
\* longer windows it says on the bars of the last LiveSpan, all that Runner.fetch_window
\* hands out, whenever those are as many as it looks back: no bar before them has a
\* part in a signal (strategies, backtest_simple, Runner.tick).  pead_drift and
\* news_embed have no context live, and with a shorter window a strategy is silent.
LiveParity ==
  /\ setup.strategy \notin {"pead_drift", "news_embed"}
  /\ \A s \in Symbols : Len(LiveWindow[s]) >= Needs[setup.strategy]
  => Signals(bars, Context) = Signals(LiveWindow, LiveContext)

===============================================================================
