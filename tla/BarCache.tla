------------------------------- MODULE BarCache -------------------------------
(***************************************************************************)
(* Bars between source and strategy: the sources' answer, BarStore and the *)
(* gap filling of Runner.fetch_window, for one symbol.                     *)
(*                                                                         *)
(* A bar is known by its timestamp, a multiple of Delta; what it says is   *)
(* how much of it has passed, so that a bar still forming differs from its *)
(* final form.  Bars are a function from timestamps to contents.           *)
(***************************************************************************)
EXTENDS Integers, FiniteSets, FiniteSetsExt

CONSTANTS
  Delta,       \* length of a bar, longer than the unit of time (a millisecond)
  WindowBars,  \* lookback_bars + 5
  PageLimit    \* bars in one answer of an exchange

ASSUME BarAssumption == {Delta, WindowBars, PageLimit} \subseteq Nat \ {0} /\ Delta > 1

\* What a bar says at a time.
Content(ts, time) == Min({time - ts, Delta})

Stamps(start, end) == {ts \in start .. end : ts % Delta = 0}

\* AlpacaSource.bars: one answer with everything.
AlpacaBars(start, end, time) == [ts \in Stamps(start, end) |-> Content(ts, time)]

\* CCXTSource.bars: pages of bars from `since', which is then set after the page.
CcxtBars(start, end, time) ==
  LET Page(since) ==
        {ts \in Stamps(since, time) : Cardinality(Stamps(since, ts)) <= PageLimit}
      from[since \in start .. Max({start, time + 1})] ==
        IF since >= end \/ Page(since) = {} THEN {}
        ELSE IF Max(Page(since)) > end THEN {ts \in Page(since) : ts <= end}
        ELSE Page(since) \cup from[Max(Page(since)) + 1]
  IN [ts \in from[start] |-> Content(ts, time)]

\* The window a tick asks for.
WindowStart(end) == end - Delta * WindowBars

\* BarStore.read_bars
ReadBars(cache, start, end) == [ts \in DOMAIN cache \cap start .. end |-> cache[ts]]

\* Rows of two functions; those of the first win.
Over(winning, other) ==
  [ts \in DOMAIN winning \cup DOMAIN other |->
     IF ts \in DOMAIN winning THEN winning[ts] ELSE other[ts]]

\* Mutant: rows already stored win.
WrittenKeepingOld(cache, new) == Over(cache, new)

\* BarStore.__setitem__: rows are merged, those written last win.
Written(cache, new) == Over(new, cache)

\* Mutant: what follows the newest cached bar is fetched.
FetchStartAfterLast(cached, end) ==
  IF cached = <<>> THEN WindowStart(end) ELSE Max(DOMAIN cached) + Delta

\* From one bar before the newest cached one, or everything.
FetchStart(cached, end) ==
  IF cached = <<>> THEN WindowStart(end) ELSE Max(DOMAIN cached) - Delta

\* Cached and new bars, new ones first.
Merged(cached, new) == Over(new, cached)

===============================================================================
