----------------------------- MODULE Strategies ------------------------------
(***************************************************************************)
(* The registered strategies, as operators from windows of bars to         *)
(* sequences of signals.  A window is the sequence of a symbol's bars,     *)
(* oldest first; `ranking' lists the symbols in the order of the dict.     *)
(* Of a score its sign is kept: tanh and decay do not change it.  Means    *)
(* and deviations are compared as whole numbers, multiplied out.           *)
(***************************************************************************)
EXTENDS Selection, FiniteSetsExt, SequencesExt

CONSTANTS
  Fast, Slow,          \* sma_crossover and donchian_breakout
  AtrWindow,           \* donchian_breakout
  BandWindow, BandStd, \* bollinger_meanrev
  Lookback, EntryZ,    \* pairs_zscore
  Formation, Skip,     \* xs_momentum
  MinUniverse,
  DriftWindow,         \* pead_drift
  NewsCloses           \* llm_news: closes of a symbol in the prompt

ASSUME StrategyAssumption ==
  /\ {Fast, Slow, AtrWindow, BandWindow, Lookback, Formation, DriftWindow} \subseteq Nat \ {0}
  /\ Fast > 1 /\ Fast <= Slow
  /\ {BandStd, EntryZ, Skip, MinUniverse, NewsCloses} \subseteq Nat

LastOf(w, n) == SubSeq(w, Len(w) - n + 1, Len(w))
Total(f(_), w) == FoldLeft(LAMBDA sum, x : sum + f(x), 0, w)
Square(n) == n * n
Close(b) == b.close
Signal(s, score) == [symbol |-> s, score |-> score]

\* One signal per symbol with a score, in the order of `ranking'; score[s] is the set
\* of the symbol's score, or empty.
ForEach(ranking, score) ==
  LET scored == Kept(ranking, {k \in DOMAIN ranking : score[ranking[k]] # {}})
  IN [k \in DOMAIN scored |-> Signal(scored[k], CHOOSE x \in score[scored[k]] : TRUE)]

-------------------------------------------------------------------------------
(* Strategies of one symbol: the set of the score, or none.                *)

\* Mutant: the slow average runs over all bars there are.
SmaExpanding(w) ==
  IF Len(w) < Slow THEN {}
  ELSE {IF Total(Close, LastOf(w, Fast)) * Len(w) > Total(Close, w) * Fast THEN 1 ELSE 0}

\* 1 when the average of the fast bars is above that of the slow ones, else 0.
Above(fast, slow) ==
  IF Total(Close, fast) * Slow > Total(Close, slow) * Fast THEN 1 ELSE 0

Sma(w) == IF Len(w) < Slow THEN {} ELSE {Above(LastOf(w, Fast), LastOf(w, Slow))}

\* The true range of bar k.
TrueRange(w, k) ==
  LET Gap(n) == IF n < 0 THEN -n ELSE n
  IN Max({w[k].high - w[k].low, Gap(w[k].high - w[k - 1].close),
          Gap(w[k].low - w[k - 1].close)})

\* A close outside the channel of the bars before it, unless the market did not
\* move at all over the recent bars.
Breakout(fast, recent) ==
  LET channel == Front(fast)
      upper == Max({b.high : b \in Range(channel)})
      lower == Min({b.low : b \in Range(channel)})
      moved == \E k \in 2 .. Len(recent) : TrueRange(recent, k) > 0
  IN IF ~moved THEN {}
     ELSE IF Last(fast).close > upper THEN {1}
     ELSE IF Last(fast).close < lower THEN {-1} ELSE {}

\* Slow is only a minimum of bars.
Donchian(w) ==
  IF Len(w) < Slow + 1 \/ Len(w) < AtrWindow + 1 THEN {}
  ELSE Breakout(LastOf(w, Fast), LastOf(w, AtrWindow + 1))

\* -1, 1 or nothing, as the last of xs is at least z deviations above or below their
\* mean.  (Everything is multiplied by the number of values.)
Reversal(xs, z) ==
  LET n   == Len(xs)
      sum == FoldLeft(+, 0, xs)
      gap == n * Last(xs) - sum
      var == Total(LAMBDA x : Square(n * x - sum), xs)
  IN IF var = 0 \/ Square(gap) * (n - 1) < Square(z) * var THEN {}
     ELSE {IF gap > 0 THEN -1 ELSE IF gap < 0 THEN 1 ELSE 0}

Closes(w) == [k \in DOMAIN w |-> w[k].close]

Bollinger(w) ==
  IF Len(w) < BandWindow + 1 THEN {}
  ELSE Reversal(Closes(LastOf(w, BandWindow)), BandStd)

\* Bars since an event: a suffix of the window, or nothing before the event.
BarsSince(w, ts) == Cardinality({k \in DOMAIN w : \A j \in k .. Len(w) : w[j].ts >= ts})

\* The sign of the surprise, for DriftWindow bars; in the last of them the decay
\* makes it 0.  A surprise below the threshold is 0 here.
Pead(w, event) ==
  LET since == BarsSince(w, event.ts)
  IN IF event.sue = 0 \/ since = 0 \/ since > DriftWindow THEN {}
     ELSE {IF since = DriftWindow THEN 0 ELSE event.sue}

\* The score of the feature store for the session of the last bar, if it has one.
NewsEmbed(w, features) ==
  IF w = <<>> \/ Last(w).ts \notin DOMAIN features THEN {}
  ELSE {features[Last(w).ts]}

-------------------------------------------------------------------------------
(* Strategies of several symbols.                                          *)

\* Both legs of a pair, against each other, by the spread a - beta * b of their
\* last bars.
Legs(la, lb, pair) ==
  LET spread == [i \in 1 .. Lookback |-> la[i].close - pair.beta * lb[i].close]
      score  == Reversal(spread, EntryZ)
  IN IF score = {} THEN <<>>
     ELSE LET x == CHOOSE x \in score : TRUE
          IN <<Signal(pair.a, x), Signal(pair.b, -x)>>

Pairs(wa, wb, pair) ==
  IF Len(wa) < Lookback \/ Len(wb) < Lookback THEN <<>>
  ELSE Legs(LastOf(wa, Lookback), LastOf(wb, Lookback), pair)

Need == Formation + Skip + 1

\* Did s do worse than t over the formation window, which ends Skip bars ago?
Worse(recent, s, t) ==
  recent[s][Formation + 1].close * recent[t][1].close
    < recent[t][Formation + 1].close * recent[s][1].close

\* The symbols from worst to best; ties keep the dict's order.
Ranked(listed, recent) ==
  LET Up[n \in 0 .. Len(listed)] ==
        IF n = 0 THEN <<>>
        ELSE LET ranked == Up[n - 1]
                 below  == {k \in DOMAIN ranked : ~Worse(recent, listed[n], ranked[k])}
             IN InsertAt(ranked, Cardinality(below) + 1, listed[n])
  IN Up[Len(listed)]

\* The quantiles are a fifth of the symbols, at least one.
Extremes(ranked) ==
  LET n       == Len(ranked)
      few     == Max({1, n \div 5})
      winners == LastOf(ranked, few)
      losers  == SubSeq(ranked, 1, few)
  IN IF n = 0 \/ n < MinUniverse THEN <<>>
     ELSE [k \in DOMAIN winners |-> Signal(winners[k], 1)]
          \o [k \in DOMAIN losers |-> Signal(losers[k], -1)]

\* Winners and losers among the symbols with enough bars.
XsMomentum(bars, ranking) ==
  LET enough == {s \in DOMAIN bars : Len(bars[s]) >= Need}
      recent == [s \in enough |-> LastOf(bars[s], Need)]
  IN Extremes(Ranked(Kept(ranking, {k \in DOMAIN ranking : ranking[k] \in enough}), recent))

\* The prompt: the last closes of every symbol with headlines.
Prompt(bars, headlines) ==
  [s \in DOMAIN bars \cap headlines |->
     Closes(LastOf(bars[s], Min({Len(bars[s]), NewsCloses})))]

\* reply says what the language model answers to a prompt: the list it is asked for,
\* with or without text around it; prose without a list, which counts as an empty one;
\* or brackets around something else.  Symbols not asked about are kept as long as they
\* have bars, others are skipped, and nothing keeps a symbol from coming twice.
LlmNews(bars, headlines, reply) ==
  LET prompt  == Prompt(bars, headlines)
      entries == reply[prompt].entries
  IN IF DOMAIN prompt = {} \/ reply[prompt].kind # "list" THEN <<>>
     ELSE Kept(entries, {k \in DOMAIN entries : entries[k].symbol \in DOMAIN bars})

\* The second attempt to parse a reply is not guarded.
LlmRaises(bars, headlines, reply) ==
  LET prompt == Prompt(bars, headlines)
  IN DOMAIN prompt # {} /\ reply[prompt].kind = "broken"

===============================================================================
