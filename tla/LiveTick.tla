------------------------------- MODULE LiveTick -------------------------------
(***************************************************************************)
(* The rest of Runner.tick around the orders: bars through the cache, news *)
(* and its throttle, the day's opening NAV with drawdown breaker and daily *)
(* alert, the fee journal.  The scheduler runs one tick at a time; between *)
(* ticks time passes, and the process may restart.                         *)
(*                                                                         *)
(* Orders and fills are TickOrders and FillJournal.  One symbol and one    *)
(* decision per tick stand for the loop over decisions: the breaker's      *)
(* state does not change in it.                                            *)
(***************************************************************************)
EXTENDS BarCache, Decisions

CONSTANTS
  Navs,          \* what the broker may report
  UsualNav,      \* what it reports when the NAV does not vary
  AlertLoss,     \* drawdown_alert_pct, in WeightUnits of the opening NAV
  DayLength,
  NewsEvery,     \* news_refresh_minutes
  NewsLookback,  \* 24 hours, of fetch and context alike
  FeeLookback,   \* 2 days
  FeePage,       \* page_size
  Start,         \* time of the first tick
  MaxTime,       \* bound: time
  MaxPosts,      \* bound: headlines and fee activities that come up
  Focuses        \* bound: the parts of the environment, one of which varies in a
                 \* behaviour: "bars", "nav", "news", "fees"

ASSUME LiveAssumption ==
  /\ Navs \subseteq Nat \ {0} /\ UsualNav \in Navs /\ AlertLoss \in Nat
  /\ {DayLength, NewsEvery, NewsLookback, FeeLookback, FeePage, Start} \subseteq Nat \ {0}
  /\ {MaxTime, MaxPosts} \subseteq Nat

None == -1

VARIABLES
  focus,
  now,
  source,     \* "alpaca" or "ccxt"
  delay,      \* how far the end of the window is pulled back: stocks of alpaca
  cache,      \* the symbol's rows in BarStore
  torn,       \* its file was cut off in a write
  headlines,  \* times at which headlines have come up
  news,       \* those in mall["news"]
  fetched,    \* _last_news_fetch
  activities, \* fee activities at the broker: their times, in order
  fees,       \* positions of those in mall["fees"]
  opening,    \* _nav_today_open
  alerted,    \* _alerted_drawdown
  alertDay,   \* _last_alert_day
  first,      \* history: NAV of the day's first tick, None before it
  restarts,   \* history: restarts of the day
  alerts,     \* history: alerts of the day
  fell,       \* history: a tick of the day ended with the loss of the alert
  tick        \* history: the last tick, as long as no time has passed

barVars    == <<source, delay, cache, torn>>
newsVars   == <<headlines, news, fetched>>
feeVars    == <<activities, fees>>
memoryVars == <<opening, alerted, alertDay>>
dayVars    == <<first, restarts, alerts, fell>>
vars == <<focus, now, barVars, newsVars, feeVars, memoryVars, dayVars, tick>>

Today == now \div DayLength
NoTick == [window |-> <<>>, vetted |-> <<>>, news |-> FALSE, fees |-> FALSE]

Vary(part, usual, others) == IF focus = part THEN {usual} \cup others ELSE {usual}

-------------------------------------------------------------------------------
(* fetch_window.                                                           *)

SourceBars(start, end) ==
  IF source = "alpaca" THEN AlpacaBars(start, end, now) ELSE CcxtBars(start, end, now)

\* What a tick gets and what is cached then.  An error of the source or of reading
\* leaves the symbol without bars; one of writing loses only the rows.
Fetched(outcome) ==
  LET end    == now - delay
      cached == ReadBars(cache, WindowStart(end), end)
      new    == SourceBars(FetchStart(cached, end), end)
  IN IF torn \/ outcome = "source fails" THEN [window |-> <<>>, cache |-> cache]
     ELSE [window |-> Merged(cached, new),
           cache  |-> IF outcome = "ok" THEN Written(cache, new) ELSE cache]

-------------------------------------------------------------------------------
(* refresh_news.                                                           *)

Due == fetched = None \/ now - fetched >= NewsEvery

\* Mutant: the time of the fetch is taken before it has worked.
NewsAfterStamped(works, got) ==
  IF ~Due THEN [news |-> news, fetched |-> fetched]
  ELSE [news |-> news \cup got, fetched |-> now]

\* Mutant: items are stored under the time of the fetch.
NewsAfterByFetch(works, got) ==
  IF ~Due THEN [news |-> news, fetched |-> fetched]
  ELSE [news |-> news \cup {now : h \in got}, fetched |-> IF works THEN now ELSE fetched]

\* The store and the time of the last fetch; an error may have let some items in.
NewsAfter(works, got) ==
  IF ~Due THEN [news |-> news, fetched |-> fetched]
  ELSE [news |-> news \cup got, fetched |-> IF works THEN now ELSE fetched]

NewsNow == {h \in headlines : h >= now - NewsLookback}

-------------------------------------------------------------------------------
(* journal_fees.                                                           *)

\* AlpacaBroker.fees: one page, the newest first.  Activities are in order of their
\* times, so the recent ones are the last.
FeeAnswer ==
  LET recent == {k \in DOMAIN activities : activities[k] >= now - FeeLookback}
  IN [i \in 1 .. Min({FeePage, Cardinality(recent)}) |-> Len(activities) - i + 1]

\* Mutant: the loop ends at the first activity it knows.
FeesAfterUpToKnown(n) ==
  fees \cup {FeeAnswer[k] : k \in {j \in 1 .. n : \A i \in 1 .. j : FeeAnswer[i] \notin fees}}

\* The journal after the first n of the answer; what it has is passed over.
FeesAfter(n) == fees \cup {FeeAnswer[k] : k \in 1 .. n}

-------------------------------------------------------------------------------
(* The day's opening NAV, breaker and alert.                               *)

\* Mutant: the opening NAV is taken at every tick.
OpenedEachTick(nav) == [opening |-> nav, alerted |-> alertDay = Today /\ alerted]

\* Mutant: the flag of the alert is not reset.
OpenedKeepingFlag(nav) ==
  [opening |-> IF alertDay = Today THEN opening ELSE nav, alerted |-> alerted]

\* Mutant: the flag of the alert is reset at every tick.
OpenedResettingFlag(nav) ==
  [opening |-> IF alertDay = Today THEN opening ELSE nav, alerted |-> FALSE]

\* The first tick of a day in this process takes its NAV and resets the flag.
Opened(nav) ==
  IF alertDay = Today THEN [opening |-> opening, alerted |-> alerted]
  ELSE [opening |-> nav, alerted |-> FALSE]

\* At the end of a tick: is the loss that of the alert.
Alarming(opened, navAfter) ==
  opened > 0 /\ (opened - navAfter) * WeightUnit >= AlertLoss * opened

-------------------------------------------------------------------------------
(* Steps.                                                                  *)

Init ==
  /\ focus \in Focuses
  /\ now = Start
  /\ source \in Vary("bars", "alpaca", {"ccxt"})
  /\ delay \in IF source = "alpaca" THEN Vary("bars", 0, {1}) ELSE {0}
  /\ cache = <<>> /\ torn = FALSE
  /\ headlines = {} /\ news = {} /\ fetched = None
  /\ activities = <<>> /\ fees = {}
  /\ opening = None /\ alerted = FALSE /\ alertDay = None
  /\ first = None /\ restarts = 0 /\ alerts = 0 /\ fell = FALSE
  /\ tick = NoTick

\* The bars and the news of a tick.
Gathered(fetch, works, got) ==
  /\ cache' = Fetched(fetch).cache
  /\ news' = NewsAfter(works, got).news /\ fetched' = NewsAfter(works, got).fetched
  /\ UNCHANGED <<focus, now, source, delay, torn, headlines, activities>>

\* A tick whose first call to the broker fails.
TickWithoutNav ==
  \E fetch \in Vary("bars", "ok", {"source fails", "write fails"}) :
  \E works \in Vary("news", TRUE, {FALSE}) :
  \E got \in IF works THEN {NewsNow} ELSE SUBSET NewsNow :
    /\ Gathered(fetch, works, got)
    /\ tick' = [NoTick EXCEPT !.window = Fetched(fetch).window, !.news = works]
    /\ UNCHANGED <<fees, memoryVars, dayVars>>

\* The NAV the breaker has let the tick's decision through at, or nothing: without
\* bars there is no decision.
Vetted(window, opened, navNow) ==
  LET decision == [symbol |-> "symbol", weight |-> 1]
  IN IF window = <<>> \/ RiskChain(decision, opened, navNow) = {} THEN <<>> ELSE <<navNow>>

\* What is remembered of the day after a tick that began at nav, and the alert; done:
\* the last call to the broker has worked.
DayAfter(nav, navAfter, done) ==
  LET day   == Opened(nav)
      falls == done /\ Alarming(day.opening, navAfter)
  IN /\ opening' = day.opening /\ alertDay' = Today
     /\ alerted' = (day.alerted \/ falls)
     /\ alerts' = IF falls /\ ~day.alerted THEN alerts + 1 ELSE alerts
     /\ first' = IF first = None THEN nav ELSE first
     /\ fell' = (fell \/ falls)
     /\ UNCHANGED restarts

\* A tick from the NAV on.  The NAV is read for the sizes, for the breaker and at
\* the end; when the last call fails, the alert is not looked at.
FromNav(fetch, works, got, nav, navNow, navAfter, done, n) ==
  /\ Gathered(fetch, works, got)
  /\ DayAfter(nav, navAfter, done)
  /\ fees' = FeesAfter(n)
  /\ tick' = [window |-> Fetched(fetch).window,
              vetted |-> Vetted(Fetched(fetch).window, Opened(nav).opening, navNow),
              news |-> works, fees |-> n = Len(FeeAnswer)]

TickFromNav ==
  \E fetch \in Vary("bars", "ok", {"source fails", "write fails"}) :
  \E works \in Vary("news", TRUE, {FALSE}) :
  \E got \in IF works THEN {NewsNow} ELSE SUBSET NewsNow :
  \E nav, navNow, navAfter \in Vary("nav", UsualNav, Navs) :
  \E done \in Vary("nav", TRUE, {FALSE}) :
  \E n \in Vary("fees", Len(FeeAnswer), 0 .. Len(FeeAnswer)) :
    FromNav(fetch, works, got, nav, navNow, navAfter, done, n)

\* The process ends and starts again; its memory is gone.
Forget ==
  /\ opening' = None /\ alerted' = FALSE /\ alertDay' = None
  /\ fetched' = None
  /\ restarts' = restarts + 1
  /\ tick' = NoTick

Restart ==
  /\ restarts = 0
  /\ Forget
  /\ UNCHANGED <<focus, now, barVars, headlines, news, feeVars, first, alerts, fell>>

\* It ends while the file of bars is written: the file is in place, and cut off.
CrashInWrite ==
  /\ focus = "bars" /\ restarts = 0 /\ ~torn
  /\ Fetched("ok").window # <<>>
  /\ Forget
  /\ torn' = TRUE /\ cache' = <<>>
  /\ UNCHANGED <<focus, now, source, delay, headlines, news, feeVars, first, alerts, fell>>

\* Time passes; on a new day the day's history starts over.
Elapse ==
  /\ now < MaxTime
  /\ now' = now + 1
  /\ tick' = NoTick
  /\ IF (now + 1) \div DayLength = Today THEN UNCHANGED dayVars
     ELSE first' = None /\ restarts' = 0 /\ alerts' = 0 /\ fell' = FALSE
  /\ UNCHANGED <<focus, barVars, newsVars, feeVars, memoryVars>>

PostHeadline ==
  /\ focus = "news" /\ now \notin headlines /\ Cardinality(headlines) < MaxPosts
  /\ headlines' = headlines \cup {now}
  /\ tick' = NoTick
  /\ UNCHANGED <<focus, now, barVars, news, fetched, feeVars, memoryVars, dayVars>>

PostActivity ==
  /\ focus = "fees" /\ Len(activities) < MaxPosts
  /\ activities' = Append(activities, now)
  /\ tick' = NoTick
  /\ UNCHANGED <<focus, now, barVars, newsVars, fees, memoryVars, dayVars>>

Next ==
  \/ TickWithoutNav \/ TickFromNav \/ Restart \/ CrashInWrite
  \/ Elapse \/ PostHeadline \/ PostActivity

Spec == Init /\ [][Next]_vars

-------------------------------------------------------------------------------
(* Properties.                                                             *)

TypeOK ==
  /\ now \in Nat /\ torn \in BOOLEAN
  /\ \A ts \in DOMAIN cache : ts % Delta = 0 /\ cache[ts] \in 0 .. Delta
  /\ news \subseteq headlines /\ fetched \in Nat \cup {None}
  /\ fees \subseteq DOMAIN activities
  /\ opening \in Nat \cup {None} /\ alerted \in BOOLEAN /\ alertDay \in Nat \cup {None}
  /\ first \in Nat \cup {None} /\ {restarts, alerts} \subseteq Nat /\ fell \in BOOLEAN

\* A strategy never sees that bars are cached: it gets what the source would answer
\* for the whole window (and maybe a bar before it), over failed fetches and writes
\* and over outages.
WindowIsTheSources ==
  LET end == now - delay
  IN tick.window # <<>> =>
       \E start \in WindowStart(end) - Delta .. WindowStart(end) :
         tick.window = AlpacaBars(start, end, now)

\* A row fetched while its bar was forming does not stay behind in the cache: all
\* rows that a window can still reach are final, but the newest.  (Behind an outage
\* longer than the window one stays as it was.)
CachedBarsAreFinal ==
  \A ts \in DOMAIN cache :
    WindowStart(now - delay) <= ts /\ ts < Max(DOMAIN cache) => cache[ts] = Delta

\* The opening NAV and the flag of the alert are of the process: the first tick after
\* a restart starts the day again, for the breaker and for the alert.

\* The breaker: without a restart on the day, no decision gets through while the
\* NAV is more than LossMax below that of the day's first tick.
BreakerHolds ==
  restarts = 0 => \A k \in DOMAIN tick.vetted :
    ~((tick.vetted[k] - first) * WeightUnit < - LossMax * first)

\* The alert of the drawdown: once a day, without a restart on it, whatever the NAVs
\* and the ticks that fail (Runner.tick, "notify once per day").
AlertedOnce == restarts = 0 => alerts <= 1

\* A loss seen at the end of a tick has been alerted on the same day.
LossIsAlerted == fell => alerts > 0

\* After a fee call that got through its answer, nothing recent on the page is
\* missing, also not what an earlier call that broke off had left out.
FeesAreComplete == tick.fees => Range(FeeAnswer) \subseteq fees

\* After a tick on which the news source works, all headlines of the lookback
\* older than the throttle are stored, also after fetches that failed.
NewsIsRetried ==
  tick.news => {h \in NewsNow : h <= now - NewsEvery} \subseteq news

===============================================================================
