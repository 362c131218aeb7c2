---------------------------- MODULE LiveTickProofs ----------------------------
(***************************************************************************)
(* What a tick guarantees for any NAVs, limits, lengths of days, bars,     *)
(* windows and pages, and any number of headlines and fees: the breaker,   *)
(* the alert of the day, the news over failed fetches, the window through  *)
(* the cache of bars, and the fees.                                        *)
(***************************************************************************)
EXTENDS LiveTick, FiniteSetTheorems, NaturalsInduction, TLAPS

\* Days are counted up.
LEMMA DaysGrow ==
  ASSUME NEW t \in Nat
  PROVE  /\ t \div DayLength \in Nat
         /\ t \div DayLength <= (t + 1) \div DayLength
         /\ (t + 1) \div DayLength \in Nat
  BY LiveAssumption

\* A decision the risk chain lets through has passed the breaker.
LEMMA ChainEndsWithBreaker ==
  ASSUME NEW d, NEW opened, NEW navNow, RiskChain(d, opened, navNow) # {}
  PROVE  ~(opened > 0 /\ (navNow - opened) * WeightUnit < - LossMax * opened)
  BY DEF RiskChain, Chain, BlockOnLoss

-------------------------------------------------------------------------------

\* What the process remembers of a day, against what the day has seen.
DayTypes ==
  /\ now \in Nat /\ restarts \in Nat /\ alerts \in Nat
  /\ first \in Navs \cup {None}
  /\ alertDay \in Nat \cup {None} /\ alertDay <= Today

MemoryOfDay ==
  /\ alertDay = Today => opening \in Navs /\ first \in Navs
  /\ restarts = 0 /\ alertDay = Today => opening = first
  /\ restarts = 0 /\ alertDay # Today => first = None

AlertsOfDay ==
  /\ alerts <= restarts + 1
  /\ ~(alertDay = Today /\ alerted) => alerts <= restarts
  /\ alertDay = Today /\ alerted => alerts > 0
  /\ fell => alerts > 0

DayInv == DayTypes /\ MemoryOfDay /\ AlertsOfDay /\ BreakerHolds

LEMMA DayInit == Init => DayInv
  <1> SUFFICES ASSUME Init PROVE DayInv
    OBVIOUS
  <1>1. Today \in Nat
    BY DaysGrow, LiveAssumption DEF Init, Today
  <1>2. DayTypes
    BY <1>1, LiveAssumption DEF Init, DayTypes, None
  <1>3. alertDay # Today
    BY <1>1 DEF Init, None
  <1>4. MemoryOfDay /\ AlertsOfDay
    BY <1>3 DEF Init, MemoryOfDay, AlertsOfDay
  <1>5. BreakerHolds
    BY DEF Init, BreakerHolds, NoTick
  <1> QED BY <1>2, <1>4, <1>5 DEF DayInv

\* A tick from the NAV on: the first of the day sets what is remembered, and what
\* is let through has been compared with it.
LEMMA TickKeepsDay ==
  ASSUME DayInv, TickFromNav
  PROVE  DayInv'
  <1>0. \E fetch, works, got, n, nav, navNow, navAfter, done :
          /\ nav \in Vary("nav", UsualNav, Navs)
          /\ navNow \in Vary("nav", UsualNav, Navs)
          /\ FromNav(fetch, works, got, nav, navNow, navAfter, done, n)
    BY Zenon DEF TickFromNav
  <1>1. PICK fetch, works, got, n, nav, navNow, navAfter, done :
          /\ nav \in Vary("nav", UsualNav, Navs)
          /\ navNow \in Vary("nav", UsualNav, Navs)
          /\ FromNav(fetch, works, got, nav, navNow, navAfter, done, n)
    BY <1>0
  <1>2. now' = now /\ Today' = Today
    BY <1>1, Zenon DEF FromNav, Gathered, Today
  <1>3. DayAfter(nav, navAfter, done)
    BY <1>1, Zenon DEF FromNav
  <1>4. nav \in Navs /\ navNow \in Navs
    BY <1>1, LiveAssumption DEF Vary
  <1>5. Today \in Nat /\ None \notin Nat /\ None \notin Navs
    BY DaysGrow, LiveAssumption DEF DayInv, DayTypes, Today, None
  <1>6. DayTypes'
    BY <1>2, <1>3, <1>4, <1>5, LiveAssumption DEF DayInv, DayTypes, DayAfter, Opened
  <1>7. MemoryOfDay'
    BY <1>2, <1>3, <1>4, <1>5, LiveAssumption
       DEF DayInv, DayTypes, MemoryOfDay, DayAfter, Opened
  <1>8. AlertsOfDay'
    <2> DEFINE was   == alertDay = Today /\ alerted
               falls == done /\ Alarming(Opened(nav).opening, navAfter)
    <2>1. Opened(nav).alerted <=> was
      BY Zenon DEF Opened
    <2>2. /\ alerts' = IF falls /\ ~was THEN alerts + 1 ELSE alerts
          /\ alerted' <=> was \/ falls
          /\ fell' <=> fell \/ falls
          /\ restarts' = restarts /\ alertDay' = Today'
      BY <1>2, <1>3, <2>1 DEF DayAfter
    <2> HIDE DEF was, falls
    <2>3. /\ alerts \in Nat /\ restarts \in Nat
          /\ alerts <= restarts + 1 /\ (~was => alerts <= restarts)
          /\ (was => alerts > 0) /\ (fell => alerts > 0)
      BY DEF DayInv, DayTypes, AlertsOfDay, was
    <2> QED BY <2>2, <2>3 DEF AlertsOfDay
  <1>9. BreakerHolds'
    <2> SUFFICES ASSUME restarts' = 0, NEW k \in DOMAIN tick'.vetted
                 PROVE  ~((tick'.vetted[k] - first') * WeightUnit < - LossMax * first')
      BY DEF BreakerHolds
    <2>1. tick'.vetted = <<navNow>> /\ RiskChain([symbol |-> "symbol", weight |-> 1],
                                                 Opened(nav).opening, navNow) # {}
      BY <1>1 DEF Vetted, FromNav
    <2>2. tick'.vetted[k] = navNow
      BY <2>1
    <2>3. opening' = Opened(nav).opening /\ opening' = first' /\ opening' \in Navs
      BY <1>2, <1>3, <1>7 DEF MemoryOfDay, DayAfter
    <2>4. ~(first' > 0 /\ (navNow - first') * WeightUnit < - LossMax * first')
      BY <2>1, <2>3, ChainEndsWithBreaker
    <2>5. first' > 0
      BY <2>3, LiveAssumption
    <2> QED BY <2>2, <2>4, <2>5
  <1> QED BY <1>6, <1>7, <1>8, <1>9 DEF DayInv

\* A restart forgets the day; it also counts.
LEMMA ForgetKeepsDay ==
  ASSUME DayInv, Forget, now' = now, UNCHANGED <<first, alerts, fell>>
  PROVE  DayInv'
  <1>1. Today' = Today /\ Today \in Nat
    BY DaysGrow DEF DayInv, DayTypes, Today
  <1>2. /\ restarts \in Nat /\ restarts' = restarts + 1 /\ alertDay' = None /\ alerted' = FALSE
        /\ first' = first /\ alerts' = alerts /\ fell' = fell /\ now' = now
    BY DEF DayInv, DayTypes, Forget
  <1>3. alertDay' # Today' /\ alertDay' <= Today' /\ restarts' # 0
    BY <1>1, <1>2 DEF None
  <1>4. DayTypes'
    BY <1>2, <1>3 DEF DayInv, DayTypes
  <1>5. MemoryOfDay' /\ AlertsOfDay'
    BY <1>2, <1>3 DEF DayInv, DayTypes, MemoryOfDay, AlertsOfDay
  <1>6. BreakerHolds'
    BY <1>3 DEF BreakerHolds
  <1> QED BY <1>4, <1>5, <1>6 DEF DayInv

\* On a new day what is remembered is of an older one.
LEMMA ElapseKeepsDay ==
  ASSUME DayInv, Elapse
  PROVE  DayInv'
  <1>1. /\ Today \in Nat /\ Today' \in Nat /\ Today <= Today'
        /\ Today' = (now + 1) \div DayLength
    BY DaysGrow DEF DayInv, DayTypes, Elapse, Today
  <1>2. BreakerHolds'
    BY DEF BreakerHolds, Elapse, NoTick
  <1>3. CASE (now + 1) \div DayLength = Today
    BY <1>1, <1>2, <1>3 DEF DayInv, DayTypes, MemoryOfDay, AlertsOfDay, Elapse,
       memoryVars, dayVars
  <1>4. CASE (now + 1) \div DayLength # Today
    <2>1. alertDay' < Today'
      BY <1>1, <1>4 DEF DayInv, DayTypes, Elapse, memoryVars, None
    <2>2. first' = None /\ restarts' = 0 /\ alerts' = 0 /\ fell' = FALSE
      BY <1>4 DEF Elapse
    <2>3. now' \in Nat /\ alerted' = alerted /\ alertDay' = alertDay
      BY DEF DayInv, DayTypes, Elapse, memoryVars
    <2>4. DayTypes'
      BY <1>1, <2>1, <2>2, <2>3 DEF DayInv, DayTypes
    <2>5. MemoryOfDay' /\ AlertsOfDay'
      BY <1>1, <2>1, <2>2, <2>3 DEF DayInv, DayTypes, MemoryOfDay, AlertsOfDay, None
    <2> QED BY <1>2, <2>4, <2>5 DEF DayInv
  <1> QED BY <1>3, <1>4

LEMMA DayStep == DayInv /\ [Next]_vars => DayInv'
  <1> SUFFICES ASSUME DayInv, [Next]_vars PROVE DayInv'
    OBVIOUS
  <1>1. CASE TickWithoutNav
    <2>1. UNCHANGED <<now, memoryVars, dayVars>> /\ tick'.vetted = <<>>
      BY <1>1 DEF TickWithoutNav, Gathered, NoTick
    <2> QED BY <2>1 DEF DayInv, DayTypes, MemoryOfDay, AlertsOfDay, BreakerHolds, Today,
            memoryVars, dayVars
  <1>2. CASE TickFromNav
    BY <1>2, TickKeepsDay
  <1>3. CASE Restart
    BY <1>3, ForgetKeepsDay DEF Restart
  <1>4. CASE CrashInWrite
    BY <1>4, ForgetKeepsDay DEF CrashInWrite
  <1>5. CASE Elapse
    BY <1>5, ElapseKeepsDay
  <1>6. CASE PostHeadline \/ PostActivity
    BY <1>6 DEF PostHeadline, PostActivity, DayInv, DayTypes, MemoryOfDay, AlertsOfDay,
       BreakerHolds, Today, NoTick, memoryVars, dayVars
  <1>7. CASE UNCHANGED vars
    BY <1>7 DEF vars, DayInv, DayTypes, MemoryOfDay, AlertsOfDay, BreakerHolds, Today,
       memoryVars, dayVars
  <1> QED BY <1>1, <1>2, <1>3, <1>4, <1>5, <1>6, <1>7 DEF Next

LEMMA DayAlways == Spec => []DayInv
  BY DayInit, DayStep, PTL DEF Spec

\* The drawdown breaker (block_when_loss_exceeds with the runner's opening NAV): on
\* a day without a restart nothing gets through below the limit.
THEOREM BreakerCorrect == Spec => []BreakerHolds
  <1>1. DayInv => BreakerHolds
    BY DEF DayInv
  <1> QED BY <1>1, DayAlways, PTL

\* The drawdown alert goes out at most once on a day without a restart.
THEOREM AlertOnceCorrect == Spec => []AlertedOnce
  <1>1. DayInv => AlertedOnce
    BY DEF DayInv, DayTypes, AlertsOfDay, AlertedOnce
  <1> QED BY <1>1, DayAlways, PTL

\* A loss seen at the end of a tick is alerted on that day.
THEOREM AlertCorrect == Spec => []LossIsAlerted
  <1>1. DayInv => LossIsAlerted
    BY DEF DayInv, AlertsOfDay, LossIsAlerted
  <1> QED BY <1>1, DayAlways, PTL

-------------------------------------------------------------------------------

\* What the last fetch that worked could have seen is stored.
NewsSeen ==
  /\ now \in Nat /\ headlines \subseteq Nat
  /\ fetched # None =>
       /\ fetched \in Nat /\ fetched <= now
       /\ {h \in headlines : fetched - NewsLookback <= h /\ h < fetched} \subseteq news

NewsInv == NewsSeen /\ NewsIsRetried

LEMMA NewsInit == Init => NewsInv
  BY LiveAssumption DEF Init, NewsInv, NewsSeen, NewsIsRetried, NoTick

\* refresh_news: fetching now, being throttled, and a fetch that fails.
LEMMA RefreshKeepsNews ==
  ASSUME NewsInv, NEW fetch, NEW works, NEW got, works => got = NewsNow,
         Gathered(fetch, works, got), tick'.news <=> works
  PROVE  NewsInv'
  <1>1. /\ now' = now /\ headlines' = headlines
        /\ news' = NewsAfter(works, got).news /\ fetched' = NewsAfter(works, got).fetched
        /\ NewsNow' = NewsNow
    BY Zenon DEF Gathered, NewsNow
  <1>2. /\ now \in Nat /\ headlines \subseteq Nat /\ NewsNow \subseteq headlines
        /\ NewsEvery \in Nat \ {0} /\ NewsLookback \in Nat \ {0}
    BY LiveAssumption DEF NewsInv, NewsSeen, NewsNow
  <1>3. CASE ~Due
    <2>1. news' = news /\ fetched' = fetched /\ fetched # None /\ fetched \in Nat
          /\ fetched <= now /\ ~(now - fetched >= NewsEvery)
      BY <1>1, <1>3 DEF NewsAfter, Due, NewsInv, NewsSeen
    <2>2. NewsSeen'
      BY <1>1, <2>1 DEF NewsInv, NewsSeen
    <2>3. ASSUME NEW h \in NewsNow, h <= now - NewsEvery
          PROVE  h \in news
      <3>1. h \in headlines /\ h \in Nat /\ h >= now - NewsLookback
        BY <1>2 DEF NewsNow
      <3>2. fetched - NewsLookback <= h /\ h < fetched
        BY <1>2, <2>1, <2>3, <3>1
      <3> QED BY <2>1, <3>1, <3>2 DEF NewsInv, NewsSeen
    <2>4. NewsIsRetried'
      BY <1>1, <2>1, <2>3 DEF NewsIsRetried
    <2> QED BY <2>2, <2>4 DEF NewsInv
  <1>4. CASE Due /\ works
    <2>1. news' = news \cup NewsNow /\ fetched' = now
      BY <1>1, <1>4 DEF NewsAfter
    <2>2. NewsSeen'
      BY <1>1, <1>2, <2>1 DEF NewsSeen, NewsNow
    <2>3. NewsIsRetried'
      BY <1>1, <2>1 DEF NewsIsRetried
    <2> QED BY <2>2, <2>3 DEF NewsInv
  <1>5. CASE Due /\ ~works
    <2>1. news \subseteq news' /\ fetched' = fetched
      BY <1>1, <1>5 DEF NewsAfter
    <2> QED BY <1>1, <1>5, <2>1 DEF NewsInv, NewsSeen, NewsIsRetried
  <1> QED BY <1>3, <1>4, <1>5

LEMMA NewsStep == NewsInv /\ [Next]_vars => NewsInv'
  <1> SUFFICES ASSUME NewsInv, [Next]_vars PROVE NewsInv'
    OBVIOUS
  <1>1. CASE TickWithoutNav
    <2>1. PICK fetch, works, got :
            /\ got \in IF works THEN {NewsNow} ELSE SUBSET NewsNow
            /\ Gathered(fetch, works, got)
            /\ tick' = [NoTick EXCEPT !.window = Fetched(fetch).window, !.news = works]
      BY <1>1, Zenon DEF TickWithoutNav
    <2>2. tick'.news = works
      BY <2>1, Zenon DEF NoTick
    <2> QED BY <2>1, <2>2, RefreshKeepsNews
  <1>2. CASE TickFromNav
    <2>1. \E fetch, works, got, n, nav, navNow, navAfter, done :
            /\ got \in IF works THEN {NewsNow} ELSE SUBSET NewsNow
            /\ FromNav(fetch, works, got, nav, navNow, navAfter, done, n)
      BY <1>2, Zenon DEF TickFromNav
    <2>2. PICK fetch, works, got, n, nav, navNow, navAfter, done :
            /\ got \in IF works THEN {NewsNow} ELSE SUBSET NewsNow
            /\ FromNav(fetch, works, got, nav, navNow, navAfter, done, n)
      BY <2>1
    <2>3. Gathered(fetch, works, got) /\ tick'.news = works
      BY <2>2, Zenon DEF FromNav
    <2> QED BY <2>2, <2>3, RefreshKeepsNews
  <1>3. CASE Restart \/ CrashInWrite
    <2>1. UNCHANGED <<now, headlines>> /\ fetched' = None /\ ~tick'.news
      BY <1>3 DEF Restart, CrashInWrite, Forget, NoTick
    <2> QED BY <2>1 DEF NewsInv, NewsSeen, NewsIsRetried
  <1>4. CASE Elapse
    BY <1>4 DEF Elapse, newsVars, NoTick, NewsInv, NewsSeen, NewsIsRetried
  <1>5. CASE PostHeadline
    <2>1. headlines' = headlines \cup {now} /\ UNCHANGED <<now, news, fetched>>
          /\ ~tick'.news
      BY <1>5 DEF PostHeadline, NoTick
    <2> QED BY <2>1 DEF NewsInv, NewsSeen, NewsIsRetried
  <1>6. CASE PostActivity
    <2>1. UNCHANGED <<now, newsVars>> /\ ~tick'.news
      BY <1>6 DEF PostActivity, NoTick
    <2> QED BY <2>1 DEF newsVars, NewsInv, NewsSeen, NewsIsRetried
  <1>7. CASE UNCHANGED vars
    <2>1. UNCHANGED <<now, newsVars, tick>>
      BY <1>7 DEF vars
    <2> QED BY <2>1 DEF newsVars, NewsInv, NewsSeen, NewsIsRetried, NewsNow
  <1> QED BY <1>1, <1>2, <1>3, <1>4, <1>5, <1>6, <1>7 DEF Next

\* refresh_news loses no headline to a failed fetch: the next one that works brings
\* it, whatever the throttle, the lookback and the times of the headlines are.
THEOREM NewsCorrect == Spec => []NewsIsRetried
  <1>1. NewsInv => NewsIsRetried
    BY DEF NewsInv
  <1> QED BY <1>1, NewsInit, NewsStep, PTL DEF Spec

-------------------------------------------------------------------------------
(* Numbers and sets of them.                                               *)

LEMMA LeastNumber ==
  ASSUME NEW S \in SUBSET Nat, S # {}
  PROVE  \E m \in S : \A n \in S : m <= n
  <1> DEFINE Less == {p \in Nat \X Nat : p[1] < p[2]}
  <1>1. IsWellFoundedOn(Less, Nat)
    BY NatLessThanWellFounded DEF OpToRel
  <1>2. \A m, n \in Nat : <<n, m>> \in Less <=> n < m
    OBVIOUS
  <1>3. PICK m \in S : \A n \in S : <<n, m>> \notin Less
    BY <1>1, WFMin, Zenon
  <1> HIDE DEF Less
  <1>4. ASSUME NEW n \in S PROVE m <= n
    <2>1. ~(n < m)
      BY <1>2, <1>3
    <2> QED BY <2>1
  <1> QED BY <1>4

\* Sets of integers with a bound have a least element, and a maximum.
LEMMA LeastIs ==
  ASSUME NEW S \in SUBSET Int, S # {}, NEW b \in Int, \A x \in S : b <= x
  PROVE  \E y \in S : \A x \in S : y <= x
  <1> DEFINE D == {n \in Nat : b + n \in S}
  <1>1. PICK x \in S : TRUE
    OBVIOUS
  <1>2. x - b \in Nat /\ b + (x - b) = x
    BY <1>1
  <1>3. D \in SUBSET Nat /\ D # {}
    BY <1>1, <1>2
  <1>4. PICK m \in D : \A n \in D : m <= n
    <2> HIDE DEF D
    <2> QED BY <1>3, LeastNumber
  <1>5. ASSUME NEW z \in S PROVE b + m <= z
    <2>1. z - b \in Nat /\ b + (z - b) = z
      OBVIOUS
    <2>2. z - b \in D
      BY <2>1
    <2> QED BY <1>4, <2>1, <2>2
  <1> QED BY <1>4, <1>5

LEMMA MaxIs ==
  ASSUME NEW S \in SUBSET Int, S # {}, NEW b \in Int, \A x \in S : x <= b
  PROVE  Max(S) \in S /\ \A x \in S : x <= Max(S)
  <1> DEFINE N == {n \in Int : -n \in S}
  <1>1. PICK x \in S : TRUE
    OBVIOUS
  <1>2. -x \in Int /\ -(-x) = x
    OBVIOUS
  <1>3. N \in SUBSET Int /\ N # {} /\ -b \in Int /\ \A n \in N : -b <= n
    BY <1>1, <1>2
  <1>4. PICK m \in N : \A n \in N : m <= n
    <2> HIDE DEF N
    <2> QED BY <1>3, LeastIs
  <1>5. ASSUME NEW z \in S PROVE -m >= z
    <2>1. -z \in Int /\ -(-z) = z
      OBVIOUS
    <2>2. -z \in N
      BY <2>1
    <2> QED BY <1>4, <2>2
  <1>6. \E y \in S : \A z \in S : y >= z
    BY <1>4, <1>5
  <1> QED BY <1>6 DEF Max

LEMMA MinOfTwo ==
  ASSUME NEW a \in Int, NEW b \in Int
  PROVE  Min({a, b}) = IF a <= b THEN a ELSE b
  BY DEF Min

LEMMA MaxOfTwo ==
  ASSUME NEW a \in Int, NEW b \in Int
  PROVE  Max({a, b}) = IF a >= b THEN a ELSE b
  BY DEF Max

LEMMA DeltaType == Delta \in Nat \ {0} /\ Delta > 1 /\ WindowBars \in Nat \ {0} /\ PageLimit \in Nat \ {0}
  BY BarAssumption

\* Two stamps are a bar apart.
LEMMA StampGap ==
  ASSUME NEW a \in Int, NEW b \in Int, a % Delta = 0, b % Delta = 0, a < b
  PROVE  a + Delta <= b
  <1> DEFINE m == a \div Delta
             n == b \div Delta
  <1>1. a = Delta * m /\ b = Delta * n /\ m \in Int /\ n \in Int
    BY DeltaType
  <1> HIDE DEF m, n
  <1>2. m < n
    BY <1>1, DeltaType
  <1>3. Delta * (m + 1) <= Delta * n
    BY <1>1, <1>2, DeltaType
  <1>4. Delta * (m + 1) = Delta * m + Delta
    BY <1>1, DeltaType
  <1> QED BY <1>1, <1>3, <1>4, DeltaType

LEMMA ContentIs ==
  ASSUME NEW ts \in Int, NEW time \in Int, ts <= time
  PROVE  Content(ts, time) \in 0 .. Delta /\ (ts + Delta <= time => Content(ts, time) = Delta)
  BY DeltaType, MinOfTwo DEF Content

-------------------------------------------------------------------------------
(* The pages of an exchange.                                               *)

LEMMA StampsType ==
  ASSUME NEW s \in Int, NEW e \in Int
  PROVE  /\ Stamps(s, e) \in SUBSET Int /\ IsFiniteSet(Stamps(s, e))
         /\ \A ts \in Stamps(s, e) : s <= ts /\ ts <= e /\ ts % Delta = 0
  <1>1. IsFiniteSet(s .. e)
    BY FS_Interval
  <1>2. Stamps(s, e) \in SUBSET (s .. e)
    BY DEF Stamps
  <1> QED BY <1>1, <1>2, FS_Subset DEF Stamps

PageOf(since, time) == {ts \in Stamps(since, time) : Cardinality(Stamps(since, ts)) <= PageLimit}

\* A page has the first bars there are.
LEMMA PageIs ==
  ASSUME NEW since \in Int, NEW time \in Int
  PROVE  /\ PageOf(since, time) = {} => Stamps(since, time) = {}
         /\ PageOf(since, time) # {} =>
              /\ Max(PageOf(since, time)) \in since .. time
              /\ Max(PageOf(since, time)) % Delta = 0
              /\ PageOf(since, time) = Stamps(since, Max(PageOf(since, time)))
  <1> DEFINE P == PageOf(since, time)
  <1>1. P \in SUBSET Stamps(since, time) /\ P \in SUBSET Int /\ \A ts \in P : ts <= time
    BY StampsType DEF PageOf
  <1>2. ASSUME Stamps(since, time) # {} PROVE P # {}
    <2>1. PICK u \in Stamps(since, time) : \A x \in Stamps(since, time) : u <= x
      BY <1>2, StampsType, LeastIs
    <2>2. Stamps(since, u) = {u}
      BY <2>1 DEF Stamps
    <2>3. Cardinality(Stamps(since, u)) = 1
      BY <2>2, FS_Singleton
    <2> QED BY <2>1, <2>3, DeltaType DEF PageOf
  <1>3. ASSUME P # {}
        PROVE  Max(P) \in since .. time /\ Max(P) % Delta = 0 /\ P = Stamps(since, Max(P))
    <2> DEFINE mx == Max(P)
    <2>1. mx \in P /\ \A x \in P : x <= mx
      <3> HIDE DEF P
      <3> QED BY <1>1, <1>3, MaxIs
    <2> HIDE DEF mx
    <2>2. mx \in Int /\ since <= mx /\ mx <= time /\ mx % Delta = 0
      BY <1>1, <2>1, StampsType
    <2>3. ASSUME NEW ts \in Stamps(since, mx) PROVE ts \in P
      <3>1. ts \in Stamps(since, time) /\ ts \in Int /\ Stamps(since, ts) \subseteq Stamps(since, mx)
        BY <2>2 DEF Stamps
      <3>2. /\ IsFiniteSet(Stamps(since, mx)) /\ IsFiniteSet(Stamps(since, ts))
        BY <2>2, <3>1, StampsType
      <3>3. Cardinality(Stamps(since, ts)) <= Cardinality(Stamps(since, mx))
        BY <3>1, <3>2, FS_Subset
      <3>4. Cardinality(Stamps(since, ts)) \in Nat /\ Cardinality(Stamps(since, mx)) \in Nat
        BY <3>2, FS_CardinalityType
      <3>5. Cardinality(Stamps(since, mx)) <= PageLimit
        BY <2>1 DEF PageOf
      <3> QED BY <3>1, <3>3, <3>4, <3>5, DeltaType DEF PageOf
    <2>4. P \subseteq Stamps(since, mx)
      BY <1>1, <2>1, <2>2 DEF Stamps
    <2> QED BY <2>2, <2>3, <2>4 DEF mx
  <1> QED BY <1>2, <1>3

\* The pages from a time on, as the loop of CcxtBars puts them together from f.
Pages(f, since, end, time) ==
  IF since >= end \/ PageOf(since, time) = {} THEN {}
  ELSE IF Max(PageOf(since, time)) > end THEN {ts \in PageOf(since, time) : ts <= end}
  ELSE PageOf(since, time) \cup f[Max(PageOf(since, time)) + 1]

From(f, start, end, time) ==
  f = [since \in start .. Max({start, time + 1}) |-> Pages(f, since, end, time)]

LEMMA CcxtIs ==
  ASSUME NEW start, NEW end, NEW time
  PROVE  CcxtBars(start, end, time)
           = [ts \in (CHOOSE f : From(f, start, end, time))[start] |-> Content(ts, time)]
  BY DEF CcxtBars, From, Pages, PageOf

\* What the loop is to return.
Wanted(since, end) == IF since >= end THEN {} ELSE Stamps(since, end)

LEMMA PagesAreWanted ==
  ASSUME NEW since \in Int, NEW end \in Int, NEW time \in Int, end <= time, NEW f,
         PageOf(since, time) # {} /\ Max(PageOf(since, time)) <= end =>
           f[Max(PageOf(since, time)) + 1] = Wanted(Max(PageOf(since, time)) + 1, end)
  PROVE  Pages(f, since, end, time) = Wanted(since, end)
  <1> DEFINE P == PageOf(since, time)
             mx == Max(P)
  <1>1. CASE since >= end
    BY <1>1 DEF Pages, Wanted
  <1>2. CASE since < end /\ P = {}
    <2>1. Stamps(since, time) = {}
      BY <1>2, PageIs
    <2>2. Stamps(since, end) = {}
      BY <2>1 DEF Stamps
    <2> QED BY <1>2, <2>2 DEF Pages, Wanted
  <1>3. CASE since < end /\ P # {}
    <2>1. mx \in since .. time /\ mx % Delta = 0 /\ P = Stamps(since, mx)
      BY <1>3, PageIs
    <2> HIDE DEF P, mx
    <2>2. CASE mx > end
      <3>1. {ts \in P : ts <= end} = Stamps(since, end)
        BY <2>1, <2>2 DEF Stamps
      <3> QED BY <1>3, <2>2, <3>1 DEF Pages, Wanted, P, mx
    <2>3. CASE mx <= end
      <3>1. Wanted(mx + 1, end) = Stamps(mx + 1, end)
        <4>1. CASE mx + 1 < end
          BY <2>1, <4>1 DEF Wanted
        <4>2. CASE mx + 1 > end
          BY <2>1, <4>2 DEF Wanted, Stamps
        <4>3. CASE mx + 1 = end
          <5>1. end % Delta # 0
            BY <2>1, <4>3, StampGap, DeltaType
          <5> QED BY <2>1, <4>3, <5>1 DEF Wanted, Stamps
        <4> QED BY <2>1, <4>1, <4>2, <4>3
      <3>2. Stamps(since, mx) \cup Stamps(mx + 1, end) = Stamps(since, end)
        BY <2>1, <2>3 DEF Stamps
      <3>3. Pages(f, since, end, time) = P \cup f[mx + 1]
        BY <1>3, <2>1, <2>3 DEF Pages, P, mx
      <3>4. f[mx + 1] = Wanted(mx + 1, end)
        BY <1>3, <2>3 DEF P, mx
      <3> QED BY <1>3, <2>1, <3>1, <3>2, <3>3, <3>4 DEF Wanted
    <2> QED BY <2>1, <2>2, <2>3
  <1> QED BY <1>1, <1>2, <1>3

\* The loop has one outcome: from the last page back, each is what is wanted.
LEMMA FromIs ==
  ASSUME NEW start \in Int, NEW end \in Int, NEW time \in Int, end <= time,
         NEW f, From(f, start, end, time), NEW since \in start .. Max({start, time + 1})
  PROVE  f[since] = Wanted(since, end)
  <1> DEFINE U   == Max({start, time + 1})
             Bad == {k \in Nat : U - k \in start .. U /\ f[U - k] # Wanted(U - k, end)}
  <1>1. U \in Int /\ start <= U /\ time + 1 <= U
    BY MaxOfTwo
  <1>2. \A x \in start .. U : f[x] = Pages(f, x, end, time)
    BY DEF From
  <1> HIDE DEF U
  <1>3. Bad = {}
    <2> SUFFICES ASSUME Bad # {} PROVE FALSE
      OBVIOUS
    <2>1. PICK m \in Bad : \A n \in Bad : m <= n
      <3>1. Bad \in SUBSET Nat
        OBVIOUS
      <3> HIDE DEF Bad
      <3> QED BY <3>1, LeastNumber
    <2> DEFINE x  == U - m
               mx == Max(PageOf(x, time))
    <2>2. m \in Nat /\ x \in start .. U /\ x \in Int /\ f[x] # Wanted(x, end)
      BY <1>1, <2>1
    <2> HIDE DEF x
    <2>3. ASSUME PageOf(x, time) # {}, mx <= end
          PROVE  f[mx + 1] = Wanted(mx + 1, end)
      <3>1. mx \in x .. time
        BY <2>2, <2>3, PageIs
      <3> HIDE DEF mx
      <3>2. mx + 1 \in start .. U /\ U - (mx + 1) \in Nat /\ U - (mx + 1) < m
            /\ U - (U - (mx + 1)) = mx + 1
        BY <1>1, <2>2, <3>1 DEF x
      <3>3. U - (mx + 1) \notin Bad
        BY <2>1, <2>2, <3>2
      <3> QED BY <3>2, <3>3
    <2>4. Pages(f, x, end, time) = Wanted(x, end)
      BY <2>2, <2>3, PagesAreWanted
    <2> QED BY <1>2, <2>2, <2>4
  <1>4. U - since \in Nat /\ U - (U - since) = since /\ since \in start .. U
    BY <1>1 DEF U
  <1>5. U - since \notin Bad
    BY <1>3
  <1> QED BY <1>4, <1>5

\* However an exchange cuts its answer into pages, the loop of CCXTSource.bars puts
\* together what one answer with everything holds.
THEOREM PagingLosesNothing ==
  ASSUME NEW start \in Int, NEW end \in Int, NEW time \in Int, start < end, end <= time
  PROVE  CcxtBars(start, end, time) = AlpacaBars(start, end, time)
  <1> DEFINE U == Max({start, time + 1})
             g == [since \in start .. U |-> Wanted(since, end)]
  <1>1. U \in Int /\ start <= U /\ time + 1 <= U
    BY MaxOfTwo
  <1>2. From(g, start, end, time)
    <2> SUFFICES ASSUME NEW since \in start .. U
                 PROVE  Pages(g, since, end, time) = Wanted(since, end)
      BY DEF From
    <2>1. since \in Int /\ start <= since
      BY <1>1
    <2> DEFINE mx == Max(PageOf(since, time))
    <2>2. ASSUME PageOf(since, time) # {}, mx <= end
          PROVE  g[mx + 1] = Wanted(mx + 1, end)
      <3>1. mx \in since .. time
        BY <2>1, <2>2, PageIs
      <3> HIDE DEF mx, U
      <3>2. mx + 1 \in start .. U
        BY <1>1, <2>1, <3>1
      <3> QED BY <3>2
    <2> HIDE DEF g
    <2> QED BY <2>1, <2>2, PagesAreWanted
  <1> DEFINE f == CHOOSE h : From(h, start, end, time)
  <1>3. From(f, start, end, time)
    <2> HIDE DEF g
    <2> QED BY <1>2
  <1> HIDE DEF f
  <1>4. start \in start .. U
    BY <1>1
  <1>5. f[start] = Stamps(start, end)
    <2>1. f[start] = Wanted(start, end)
      BY <1>3, <1>4, FromIs
    <2> QED BY <2>1 DEF Wanted
  <1>6. CcxtBars(start, end, time) = [ts \in f[start] |-> Content(ts, time)]
    BY CcxtIs DEF f
  <1> QED BY <1>5, <1>6 DEF AlpacaBars

-------------------------------------------------------------------------------
(* The cache.                                                              *)

\* The rows kept for windows that end at a time: those a window can still reach have
\* no gap before the newest, and only the newest may be of a bar that was forming.
Rows(c, end) ==
  /\ DOMAIN c \subseteq Int
  /\ \A ts \in DOMAIN c : ts % Delta = 0 /\ ts <= end /\ c[ts] \in 0 .. Delta
  /\ \A ts, later \in DOMAIN c : WindowStart(end) <= ts /\ ts < later => c[ts] = Delta
  /\ \A later \in DOMAIN c : Stamps(WindowStart(end), later) \subseteq DOMAIN c

BarsInv ==
  /\ now \in Nat /\ delay \in Nat /\ source \in {"alpaca", "ccxt"}
  /\ Rows(cache, now - delay)
  /\ WindowIsTheSources

LEMMA WindowStartIs ==
  ASSUME NEW end \in Int
  PROVE  WindowStart(end) \in Int /\ WindowStart(end) < end
  <1>1. Delta * WindowBars \in Nat /\ Delta * WindowBars > 0
    BY DeltaType
  <1> QED BY <1>1 DEF WindowStart

LEMMA EmptyFunction ==
  ASSUME NEW S, NEW e(_), S = {}
  PROVE  [x \in S |-> e(x)] = <<>>
  OBVIOUS

\* fetch_window on the rows c: what is fetched again covers all that was not final.
LEMMA FetchIsRight ==
  ASSUME NEW c, NEW end \in Int, NEW time \in Int, end <= time, Rows(c, end)
  PROVE  LET cached == ReadBars(c, WindowStart(end), end)
             from   == FetchStart(cached, end)
             new    == AlpacaBars(from, end, time)
         IN /\ from \in Int /\ from < end
            /\ Rows(Written(c, new), end)
            /\ \E start \in WindowStart(end) - Delta .. WindowStart(end) :
                 Merged(cached, new) = AlpacaBars(start, end, time)
  <1> DEFINE ws     == WindowStart(end)
             cached == ReadBars(c, ws, end)
             from   == FetchStart(cached, end)
             new    == AlpacaBars(from, end, time)
             D      == DOMAIN c \cap ws .. end
  <1>1. ws \in Int /\ ws < end
    BY WindowStartIs
  <1>2. /\ DOMAIN c \subseteq Int
        /\ \A ts \in DOMAIN c : ts % Delta = 0 /\ ts <= end /\ c[ts] \in 0 .. Delta
        /\ \A ts, later \in DOMAIN c : ws <= ts /\ ts < later => c[ts] = Delta
        /\ \A later \in DOMAIN c : Stamps(ws, later) \subseteq DOMAIN c
    BY DEF Rows
  <1>3. cached = [ts \in D |-> c[ts]] /\ DOMAIN cached = D
    BY DEF ReadBars
  \* Every row before what is fetched is final, and there is no gap up to there.
  <1>4. /\ from \in Int /\ from < end /\ ws - Delta <= from
        /\ \A ts \in DOMAIN c : ws <= ts /\ ts < from => c[ts] = Delta /\ ts + Delta <= end
        /\ \A ts \in Stamps(ws, from) : ts < from => ts \in DOMAIN c
    <2>1. CASE cached = <<>>
      <3>1. from = ws
        BY <2>1 DEF FetchStart
      <3> HIDE DEF from, ws
      <3>2. \A ts \in Stamps(ws, from) : ~(ts < from)
        BY <1>1, <3>1 DEF Stamps
      <3>3. \A ts \in DOMAIN c : ~(ws <= ts /\ ts < from)
        BY <1>1, <1>2, <3>1
      <3> QED BY <1>1, <3>1, <3>2, <3>3, DeltaType
    <2>2. CASE cached # <<>>
      <3> DEFINE L == Max(D)
      <3>1. D # {}
        BY <1>3, <2>2, EmptyFunction
      <3>2. L \in D /\ \A x \in D : x <= L
        <4>1. D \in SUBSET Int /\ \A x \in D : x <= end
          BY <1>1, <1>2
        <4> HIDE DEF D
        <4> QED BY <3>1, <4>1, MaxIs
      <3>3. from = L - Delta
        BY <1>3, <2>2 DEF FetchStart
      <3> HIDE DEF L
      <3>4. L \in Int /\ ws <= L /\ L <= end /\ L \in DOMAIN c
        BY <1>1, <1>2, <3>2
      <3> HIDE DEF from, D
      <3>5. \A ts \in DOMAIN c : ws <= ts /\ ts < from => c[ts] = Delta /\ ts + Delta <= end
        BY <1>2, <3>3, <3>4, DeltaType
      <3>6. ASSUME NEW ts \in Stamps(ws, from), ts < from PROVE ts \in DOMAIN c
        <4>1. ts \in Stamps(ws, L)
          BY <1>1, <3>3, <3>4, <3>6, DeltaType DEF Stamps
        <4> QED BY <1>2, <3>4, <4>1
      <3> QED BY <1>1, <3>3, <3>4, <3>5, <3>6, DeltaType
    <2> QED BY <2>1, <2>2
  <1> HIDE DEF ws, cached, from
  <1>5. DOMAIN new = Stamps(from, end) /\ \A ts \in Stamps(from, end) : new[ts] = Content(ts, time)
    BY DEF AlpacaBars
  <1>6. \A ts \in Stamps(from, end) :
          /\ ts \in Int /\ from <= ts /\ ts <= end /\ ts % Delta = 0
          /\ Content(ts, time) \in 0 .. Delta
          /\ ts + Delta <= end => Content(ts, time) = Delta
    <2> SUFFICES ASSUME NEW ts \in Stamps(from, end)
                 PROVE  /\ ts \in Int /\ from <= ts /\ ts <= end /\ ts % Delta = 0
                        /\ Content(ts, time) \in 0 .. Delta
                        /\ ts + Delta <= end => Content(ts, time) = Delta
      OBVIOUS
    <2>1. ts \in Int /\ from <= ts /\ ts <= end /\ ts % Delta = 0
      BY <1>4 DEF Stamps
    <2>2. ts <= time /\ (ts + Delta <= end => ts + Delta <= time)
      BY <2>1, DeltaType
    <2> QED BY <2>1, <2>2, ContentIs
  <1>7. Rows(Written(c, new), end)
    <2> DEFINE w == Written(c, new)
    <2>1. /\ DOMAIN w = Stamps(from, end) \cup DOMAIN c
          /\ \A ts \in DOMAIN w : w[ts] = IF ts \in Stamps(from, end) THEN Content(ts, time) ELSE c[ts]
      BY <1>5, Zenon DEF Written, Over
    <2> HIDE DEF w, new
    <2>2. DOMAIN w \subseteq Int
          /\ \A ts \in DOMAIN w : ts % Delta = 0 /\ ts <= end /\ w[ts] \in 0 .. Delta
      BY <1>2, <1>6, <2>1
    <2>3. ASSUME NEW ts \in DOMAIN w, NEW later \in DOMAIN w, ws <= ts, ts < later
          PROVE  w[ts] = Delta
      <3>1. ts \in Int /\ later \in Int /\ ts + Delta <= later /\ later <= end
        BY <2>2, <2>3, StampGap
      <3>2. ts + Delta <= end
        BY <3>1, DeltaType
      <3>3. CASE ts \in Stamps(from, end)
        BY <1>6, <2>1, <3>2, <3>3
      <3>4. CASE ts \notin Stamps(from, end)
        <4>1. ts \in DOMAIN c /\ ts <= end /\ ts % Delta = 0
          BY <2>1, <2>2, <3>4
        <4>2. ts < from
          BY <1>4, <3>1, <3>4, <4>1 DEF Stamps
        <4> QED BY <1>4, <2>1, <2>3, <3>4, <4>1, <4>2
      <3> QED BY <3>3, <3>4
    <2>4. ASSUME NEW later \in DOMAIN w, NEW ts \in Stamps(ws, later)
          PROVE  ts \in DOMAIN w
      <3>1. ts \in Int /\ ws <= ts /\ ts <= later /\ later <= end /\ ts % Delta = 0 /\ later \in Int
        BY <1>1, <2>2 DEF Stamps
      <3>2. CASE from <= ts
        BY <1>4, <2>1, <3>1, <3>2 DEF Stamps
      <3>3. CASE ts < from
        <4>1. ts \in Stamps(ws, from)
          BY <1>1, <1>4, <3>1, <3>3 DEF Stamps
        <4> QED BY <1>4, <2>1, <3>3, <4>1
      <3> QED BY <1>4, <3>1, <3>2, <3>3
    <2> QED BY <2>2, <2>3, <2>4 DEF Rows, ws, w
  <1>8. \E start \in ws - Delta .. ws : Merged(cached, new) = AlpacaBars(start, end, time)
    <2> DEFINE start == IF from < ws THEN from ELSE ws
    <2>1. start \in ws - Delta .. ws /\ start \in Int /\ start <= from /\ start <= ws
      BY <1>1, <1>4, DeltaType
    <2>2. Merged(cached, new)
            = [ts \in Stamps(from, end) \cup D |-> IF ts \in Stamps(from, end)
                                                   THEN Content(ts, time) ELSE c[ts]]
      <3>1. \A ts \in D : cached[ts] = c[ts]
        BY <1>3
      <3> HIDE DEF new, D
      <3> QED BY <1>3, <1>5, <3>1 DEF Merged, Over
    <2>3. Stamps(from, end) \cup D = Stamps(start, end)
      <3>1. Stamps(from, end) \subseteq Stamps(start, end)
        BY <1>4, <2>1 DEF Stamps
      <3>2. D \subseteq Stamps(start, end)
        BY <1>1, <1>2, <2>1 DEF Stamps
      <3>3. ASSUME NEW ts \in Stamps(start, end), ts \notin Stamps(from, end)
            PROVE  ts \in D
        <4>1. ts \in Int /\ start <= ts /\ ts <= end /\ ts % Delta = 0 /\ ts < from
          BY <1>4, <2>1, <3>3 DEF Stamps
        <4>2. ts \in Stamps(ws, from)
          BY <1>1, <1>4, <4>1 DEF Stamps
        <4> QED BY <1>1, <1>4, <4>1, <4>2 DEF Stamps
      <3> QED BY <3>1, <3>2, <3>3
    <2>4. ASSUME NEW ts \in D, ts \notin Stamps(from, end)
          PROVE  c[ts] = Content(ts, time)
      <3>1. ts \in DOMAIN c /\ ts \in Int /\ ws <= ts /\ ts <= end /\ ts % Delta = 0
        BY <1>1, <1>2
      <3>2. ts < from
        BY <1>4, <2>4, <3>1 DEF Stamps
      <3>3. c[ts] = Delta /\ ts + Delta <= end
        BY <1>4, <3>1, <3>2
      <3>4. ts <= time /\ ts + Delta <= time
        BY <3>1, <3>3, DeltaType
      <3> QED BY <3>1, <3>3, <3>4, ContentIs
    <2> HIDE DEF D, start, new
    <2>5. Merged(cached, new) = AlpacaBars(start, end, time)
      BY <2>2, <2>3, <2>4 DEF AlpacaBars
    <2> QED BY <2>1, <2>5
  <1> QED BY <1>4, <1>7, <1>8 DEF ws, cached, from

\* What a tick gets and caches, whatever fails on the way.
LEMMA FetchedIsRight ==
  ASSUME BarsInv, NEW outcome
  PROVE  /\ Rows(Fetched(outcome).cache, now - delay)
         /\ Fetched(outcome).window # <<>> =>
              \E start \in WindowStart(now - delay) - Delta .. WindowStart(now - delay) :
                Fetched(outcome).window = AlpacaBars(start, now - delay, now)
  <1> DEFINE end    == now - delay
             cached == ReadBars(cache, WindowStart(end), end)
             from   == FetchStart(cached, end)
             new    == SourceBars(from, end)
  <1>1. end \in Int /\ now \in Int /\ end <= now /\ Rows(cache, end)
    BY DEF BarsInv
  <1>2. CASE torn \/ outcome = "source fails"
    <2>1. Fetched(outcome) = [window |-> <<>>, cache |-> cache]
      BY <1>2, Zenon DEF Fetched
    <2> QED BY <1>1, <2>1
  <1>3. CASE ~(torn \/ outcome = "source fails")
    <2>1. Fetched(outcome) = [window |-> Merged(cached, new),
                              cache  |-> IF outcome = "ok" THEN Written(cache, new) ELSE cache]
      BY <1>3, Zenon DEF Fetched
    <2> HIDE DEF end
    <2>2. /\ from \in Int /\ from < end
          /\ Rows(Written(cache, AlpacaBars(from, end, now)), end)
          /\ \E start \in WindowStart(end) - Delta .. WindowStart(end) :
               Merged(cached, AlpacaBars(from, end, now)) = AlpacaBars(start, end, now)
      BY <1>1, FetchIsRight
    <2> HIDE DEF cached, from
    <2>3. new = AlpacaBars(from, end, now)
      BY <1>1, <2>2, PagingLosesNothing DEF SourceBars
    <2> HIDE DEF new
    <2>4. Rows(Written(cache, new), end)
      BY <2>2, <2>3
    <2>5. \E start \in WindowStart(end) - Delta .. WindowStart(end) :
            Merged(cached, new) = AlpacaBars(start, end, now)
      BY <2>2, <2>3
    <2>6. Rows(Fetched(outcome).cache, end)
      BY <1>1, <2>1, <2>4
    <2>7. Fetched(outcome).window = Merged(cached, new)
      BY <2>1
    <2> QED BY <2>5, <2>6, <2>7 DEF end
  <1> QED BY <1>2, <1>3

LEMMA NoRows ==
  ASSUME NEW end \in Int
  PROVE  Rows(<<>>, end)
  BY DEF Rows

\* When time passes, a window reaches less far back and no row is of the future.
LEMMA RowsLater ==
  ASSUME NEW c, NEW end \in Int, Rows(c, end)
  PROVE  Rows(c, end + 1)
  <1>1. WindowStart(end) \in Int /\ WindowStart(end + 1) = WindowStart(end) + 1
    <2>1. Delta * WindowBars \in Int
      BY DeltaType
    <2> QED BY <2>1 DEF WindowStart
  <1> DEFINE ws == WindowStart(end)
             Later(s) == \A later \in DOMAIN c : Stamps(s, later) \subseteq DOMAIN c
             Final(s) == \A ts, later \in DOMAIN c : s <= ts /\ ts < later => c[ts] = Delta
  <1>2. /\ DOMAIN c \subseteq Int
        /\ \A ts \in DOMAIN c : ts % Delta = 0 /\ ts <= end /\ c[ts] \in 0 .. Delta
        /\ Final(ws) /\ Later(ws)
    BY DEF Rows
  <1> HIDE DEF ws
  <1>3. \A ts \in DOMAIN c : ts % Delta = 0 /\ ts <= end + 1 /\ c[ts] \in 0 .. Delta
    BY <1>2
  <1>4. Final(ws + 1)
    BY <1>1, <1>2 DEF ws
  <1>5. Later(ws + 1)
    <2>1. ASSUME NEW later \in DOMAIN c, NEW ts \in Stamps(ws + 1, later)
          PROVE  ts \in DOMAIN c
      <3>1. ts \in Stamps(ws, later)
        BY <1>1, <1>2 DEF Stamps, ws
      <3> QED BY <1>2, <3>1
    <2> QED BY <2>1
  <1> QED BY <1>1, <1>2, <1>3, <1>4, <1>5 DEF Rows, ws

LEMMA BarsInit == Init => BarsInv
  <1> SUFFICES ASSUME Init PROVE BarsInv
    OBVIOUS
  <1>1. now \in Nat /\ delay \in Nat /\ source \in {"alpaca", "ccxt"}
    BY LiveAssumption DEF Init, Vary
  <1>2. Rows(cache, now - delay)
    BY <1>1, NoRows DEF Init
  <1>3. tick.window = <<>>
    BY DEF Init, NoTick
  <1> QED BY <1>1, <1>2, <1>3 DEF BarsInv, WindowIsTheSources

\* A tick is the fetch, and nothing else moves the bars.
LEMMA TickKeepsBars ==
  ASSUME BarsInv, NEW fetch, NEW works, NEW got, Gathered(fetch, works, got),
         tick'.window = Fetched(fetch).window
  PROVE  BarsInv'
  <1>1. UNCHANGED <<now, source, delay>> /\ cache' = Fetched(fetch).cache
    BY Zenon DEF Gathered
  <1>2. Rows(cache', now' - delay')
    BY <1>1, FetchedIsRight
  <1>3. WindowIsTheSources'
    BY <1>1, FetchedIsRight DEF WindowIsTheSources
  <1> QED BY <1>1, <1>2, <1>3 DEF BarsInv

LEMMA BarsStep == BarsInv /\ [Next]_vars => BarsInv'
  <1> SUFFICES ASSUME BarsInv, [Next]_vars PROVE BarsInv'
    OBVIOUS
  <1>1. CASE TickWithoutNav
    <2>1. PICK fetch, works, got :
            /\ Gathered(fetch, works, got)
            /\ tick' = [NoTick EXCEPT !.window = Fetched(fetch).window, !.news = works]
      BY <1>1, Zenon DEF TickWithoutNav
    <2>2. tick'.window = Fetched(fetch).window
      BY <2>1, Zenon DEF NoTick
    <2> QED BY <2>1, <2>2, TickKeepsBars
  <1>2. CASE TickFromNav
    <2>1. \E fetch, works, got, n, nav, navNow, navAfter, done :
            FromNav(fetch, works, got, nav, navNow, navAfter, done, n)
      BY <1>2, Zenon DEF TickFromNav
    <2>2. PICK fetch, works, got, n, nav, navNow, navAfter, done :
            FromNav(fetch, works, got, nav, navNow, navAfter, done, n)
      BY <2>1
    <2>3. Gathered(fetch, works, got) /\ tick'.window = Fetched(fetch).window
      BY <2>2, Zenon DEF FromNav
    <2> QED BY <2>3, TickKeepsBars
  <1>3. CASE Restart
    <2>1. UNCHANGED <<now, source, delay, cache>> /\ tick'.window = <<>>
      BY <1>3 DEF Restart, Forget, NoTick, barVars
    <2> QED BY <2>1 DEF BarsInv, WindowIsTheSources
  <1>4. CASE CrashInWrite
    <2>1. UNCHANGED <<now, source, delay>> /\ cache' = <<>> /\ tick'.window = <<>>
      BY <1>4 DEF CrashInWrite, Forget, NoTick
    <2>2. Rows(cache', now' - delay')
      BY <2>1, NoRows DEF BarsInv
    <2> QED BY <2>1, <2>2 DEF BarsInv, WindowIsTheSources
  <1>5. CASE Elapse
    <2>1. UNCHANGED <<source, delay, cache>> /\ now' = now + 1 /\ tick'.window = <<>>
      BY <1>5 DEF Elapse, NoTick, barVars
    <2>2. now' - delay' = (now - delay) + 1 /\ now - delay \in Int
      BY <2>1 DEF BarsInv
    <2>3. Rows(cache', now' - delay')
      BY <2>1, <2>2, RowsLater DEF BarsInv
    <2> QED BY <2>1, <2>3 DEF BarsInv, WindowIsTheSources
  <1>6. CASE PostHeadline \/ PostActivity
    <2>1. UNCHANGED <<now, source, delay, cache>> /\ tick'.window = <<>>
      BY <1>6 DEF PostHeadline, PostActivity, NoTick, barVars
    <2> QED BY <2>1 DEF BarsInv, WindowIsTheSources
  <1>7. CASE UNCHANGED vars
    <2>1. UNCHANGED <<now, source, delay, cache, tick>>
      BY <1>7 DEF vars, barVars
    <2> QED BY <2>1 DEF BarsInv, WindowIsTheSources
  <1> QED BY <1>1, <1>2, <1>3, <1>4, <1>5, <1>6, <1>7 DEF Next

LEMMA BarsAlways == Spec => []BarsInv
  BY BarsInit, BarsStep, PTL DEF Spec

\* fetch_window through the cache gives a strategy what the source would answer for
\* the whole window, over failed fetches, failed writes, outages and restarts.
THEOREM WindowCorrect == Spec => []WindowIsTheSources
  <1>1. BarsInv => WindowIsTheSources
    BY DEF BarsInv
  <1> QED BY <1>1, BarsAlways, PTL

\* BarStore keeps no row of a bar that was forming, but the newest.
THEOREM RowsAreFinal == Spec => []CachedBarsAreFinal
  <1>1. BarsInv => CachedBarsAreFinal
    <2> SUFFICES ASSUME BarsInv, NEW ts \in DOMAIN cache,
                        WindowStart(now - delay) <= ts, ts < Max(DOMAIN cache)
                 PROVE  cache[ts] = Delta
      BY DEF CachedBarsAreFinal
    <2>1. /\ DOMAIN cache \in SUBSET Int /\ DOMAIN cache # {} /\ now - delay \in Int
          /\ \A x \in DOMAIN cache : x <= now - delay
      BY DEF BarsInv, Rows
    <2>2. Max(DOMAIN cache) \in DOMAIN cache
      BY <2>1, MaxIs
    <2> QED BY <2>2 DEF BarsInv, Rows
  <1> QED BY <1>1, BarsAlways, PTL

-------------------------------------------------------------------------------
(* The fees, and the types.                                                *)

FeesInv ==
  /\ now \in Nat /\ activities \in Seq(Nat)
  /\ fees \subseteq DOMAIN activities
  /\ FeesAreComplete

\* AlpacaBroker.fees answers with activities there are.
LEMMA FeeAnswerIs ==
  ASSUME activities \in Seq(Nat), now \in Nat
  PROVE  /\ Len(FeeAnswer) \in Nat /\ DOMAIN FeeAnswer = 1 .. Len(FeeAnswer)
         /\ \A i \in DOMAIN FeeAnswer : FeeAnswer[i] \in DOMAIN activities
  <1> DEFINE recent == {k \in DOMAIN activities : activities[k] >= now - FeeLookback}
             m      == Min({FeePage, Cardinality(recent)})
  <1>1. DOMAIN activities = 1 .. Len(activities) /\ Len(activities) \in Nat
    OBVIOUS
  <1>2. Cardinality(recent) \in Nat /\ Cardinality(recent) <= Len(activities)
    <2>1. recent \subseteq 1 .. Len(activities)
      BY <1>1
    <2>2. IsFiniteSet(1 .. Len(activities)) /\ Cardinality(1 .. Len(activities)) = Len(activities)
      <3> DEFINE n == Len(activities)
      <3>1. n \in Nat /\ n \in Int /\ 1 \in Int
        BY <1>1
      <3> HIDE DEF n
      <3>2. IsFiniteSet(1 .. n) /\ Cardinality(1 .. n) = IF 1 > n THEN 0 ELSE n - 1 + 1
        BY <3>1, FS_Interval
      <3> QED BY <3>1, <3>2 DEF n
    <2> HIDE DEF recent
    <2>3. IsFiniteSet(recent) /\ Cardinality(recent) <= Cardinality(1 .. Len(activities))
      BY <2>1, <2>2, FS_Subset, Zenon
    <2>4. Cardinality(recent) \in Nat
      BY <2>3, FS_CardinalityType, Zenon
    <2> QED BY <2>2, <2>3, <2>4
  <1> HIDE DEF recent
  <1>3. m \in Nat /\ m <= Len(activities)
    <2> DEFINE c == Cardinality(recent)
    <2>1. FeePage \in Nat /\ FeePage \in Int
      BY LiveAssumption
    <2>2. c \in Nat /\ c \in Int /\ c <= Len(activities)
      BY <1>2
    <2> HIDE DEF c
    <2>3. Min({FeePage, c}) = IF FeePage <= c THEN FeePage ELSE c
      BY <2>1, <2>2, MinOfTwo, Zenon
    <2> QED BY <1>1, <2>1, <2>2, <2>3 DEF c
  <1>4. FeeAnswer = [i \in 1 .. m |-> Len(activities) - i + 1]
    BY DEF FeeAnswer, recent
  <1> HIDE DEF m
  <1>5. DOMAIN FeeAnswer = 1 .. m /\ Len(FeeAnswer) = m
    BY <1>3, <1>4
  <1>6. \A i \in 1 .. m : FeeAnswer[i] \in 1 .. Len(activities)
    BY <1>1, <1>3, <1>4
  <1> QED BY <1>1, <1>3, <1>5, <1>6

LEMMA FeesInit == Init => FeesInv
  BY LiveAssumption DEF Init, FeesInv, FeesAreComplete, NoTick

LEMMA FeesStep == FeesInv /\ [Next]_vars => FeesInv'
  <1> SUFFICES ASSUME FeesInv, [Next]_vars PROVE FeesInv'
    OBVIOUS
  <1>1. CASE TickWithoutNav
    <2>1. PICK fetch, works, got :
            /\ Gathered(fetch, works, got)
            /\ tick' = [NoTick EXCEPT !.window = Fetched(fetch).window, !.news = works]
            /\ fees' = fees
      BY <1>1, Zenon DEF TickWithoutNav
    <2>2. ~tick'.fees /\ UNCHANGED <<now, activities, fees>>
      BY <2>1, Zenon DEF NoTick, Gathered
    <2> QED BY <2>2 DEF FeesInv, FeesAreComplete
  <1>2. CASE TickFromNav
    <2>1. \E fetch, works, got, n, nav, navNow, navAfter, done :
            /\ n \in Vary("fees", Len(FeeAnswer), 0 .. Len(FeeAnswer))
            /\ FromNav(fetch, works, got, nav, navNow, navAfter, done, n)
      BY <1>2, Zenon DEF TickFromNav
    <2>2. PICK fetch, works, got, n, nav, navNow, navAfter, done :
            /\ n \in Vary("fees", Len(FeeAnswer), 0 .. Len(FeeAnswer))
            /\ FromNav(fetch, works, got, nav, navNow, navAfter, done, n)
      BY <2>1
    <2>3. /\ UNCHANGED <<now, activities>>
          /\ fees' = fees \cup {FeeAnswer[k] : k \in 1 .. n}
          /\ tick'.fees <=> n = Len(FeeAnswer)
      BY <2>2, Zenon DEF FromNav, Gathered, FeesAfter
    <2>4. FeeAnswer' = FeeAnswer
      BY <2>3 DEF FeeAnswer
    <2>5. /\ Len(FeeAnswer) \in Nat /\ DOMAIN FeeAnswer = 1 .. Len(FeeAnswer)
          /\ \A i \in DOMAIN FeeAnswer : FeeAnswer[i] \in DOMAIN activities
      BY FeeAnswerIs DEF FeesInv
    <2>6. n \in 0 .. Len(FeeAnswer)
      BY <2>2, <2>5 DEF Vary
    <2>7. fees' \subseteq DOMAIN activities'
      <3>1. \A k \in 1 .. n : FeeAnswer[k] \in DOMAIN activities
        BY <2>5, <2>6
      <3>2. fees \subseteq DOMAIN activities /\ DOMAIN activities' = DOMAIN activities
        BY <2>3 DEF FeesInv
      <3> HIDE DEF FeesInv
      <3> QED BY <2>3, <3>1, <3>2
    <2>8. FeesAreComplete'
      BY <2>3, <2>4, <2>5 DEF FeesAreComplete, Range
    <2> QED BY <2>3, <2>7, <2>8 DEF FeesInv
  <1>3. CASE Restart \/ CrashInWrite
    <2>1. ~tick'.fees /\ UNCHANGED <<now, activities, fees>>
      BY <1>3 DEF Restart, CrashInWrite, Forget, NoTick, feeVars
    <2> QED BY <2>1 DEF FeesInv, FeesAreComplete
  <1>4. CASE Elapse
    <2>1. ~tick'.fees /\ now' = now + 1 /\ UNCHANGED <<activities, fees>>
      BY <1>4 DEF Elapse, NoTick, feeVars
    <2> QED BY <2>1 DEF FeesInv, FeesAreComplete
  <1>5. CASE PostHeadline
    <2>1. ~tick'.fees /\ UNCHANGED <<now, activities, fees>>
      BY <1>5 DEF PostHeadline, NoTick, feeVars
    <2> QED BY <2>1 DEF FeesInv, FeesAreComplete
  <1>6. CASE PostActivity
    <2>1. ~tick'.fees /\ activities' = Append(activities, now) /\ UNCHANGED <<now, fees>>
      BY <1>6 DEF PostActivity, NoTick
    <2> QED BY <2>1 DEF FeesInv, FeesAreComplete
  <1>7. CASE UNCHANGED vars
    <2>1. UNCHANGED <<now, activities, fees, tick>>
      BY <1>7 DEF vars, feeVars
    <2> QED BY <2>1 DEF FeesInv, FeesAreComplete, FeeAnswer
  <1> QED BY <1>1, <1>2, <1>3, <1>4, <1>5, <1>6, <1>7 DEF Next

LEMMA FeesAlways == Spec => []FeesInv
  BY FeesInit, FeesStep, PTL DEF Spec

\* journal_fees leaves out nothing of an answer it got through, also not what an
\* earlier call that broke off left out.
THEOREM FeesCorrect == Spec => []FeesAreComplete
  <1>1. FeesInv => FeesAreComplete
    BY DEF FeesInv
  <1> QED BY <1>1, FeesAlways, PTL

\* The types the other invariants do not have.
MemoryTypes ==
  /\ torn \in BOOLEAN /\ alerted \in BOOLEAN /\ fell \in BOOLEAN
  /\ opening \in Navs \cup {None}
  /\ news \subseteq headlines

LEMMA MemoryInit == Init => MemoryTypes
  BY DEF Init, MemoryTypes

LEMMA MemoryStep == MemoryTypes /\ [Next]_vars => MemoryTypes'
  <1> SUFFICES ASSUME MemoryTypes, [Next]_vars PROVE MemoryTypes'
    OBVIOUS
  <1>1. ASSUME NEW fetch, NEW works, NEW got, Gathered(fetch, works, got),
               got \in IF works THEN {NewsNow} ELSE SUBSET NewsNow
        PROVE  torn' \in BOOLEAN /\ news' \subseteq headlines'
    <2>1. /\ UNCHANGED <<torn, headlines>>
          /\ news' = news \/ news' = news \cup got
      <3>1. NewsAfter(works, got).news = news \/ NewsAfter(works, got).news = news \cup got
        BY DEF NewsAfter
      <3>2. UNCHANGED <<torn, headlines>> /\ news' = NewsAfter(works, got).news
        BY <1>1, Zenon DEF Gathered
      <3> QED BY <3>1, <3>2
    <2>2. got \subseteq headlines
      BY <1>1 DEF NewsNow
    <2> QED BY <2>1, <2>2 DEF MemoryTypes
  <1>2. CASE TickWithoutNav
    <2>1. PICK fetch, works, got :
            /\ got \in IF works THEN {NewsNow} ELSE SUBSET NewsNow
            /\ Gathered(fetch, works, got)
            /\ UNCHANGED <<memoryVars, dayVars>>
      BY <1>2, Zenon DEF TickWithoutNav
    <2> QED BY <1>1, <2>1 DEF MemoryTypes, memoryVars, dayVars
  <1>3. CASE TickFromNav
    <2>1. \E fetch, works, got, n, nav, navNow, navAfter, done :
            /\ got \in IF works THEN {NewsNow} ELSE SUBSET NewsNow
            /\ nav \in Vary("nav", UsualNav, Navs)
            /\ FromNav(fetch, works, got, nav, navNow, navAfter, done, n)
      BY <1>3, Zenon DEF TickFromNav
    <2>2. PICK fetch, works, got, n, nav, navNow, navAfter, done :
            /\ got \in IF works THEN {NewsNow} ELSE SUBSET NewsNow
            /\ nav \in Vary("nav", UsualNav, Navs)
            /\ FromNav(fetch, works, got, nav, navNow, navAfter, done, n)
      BY <2>1
    <2>3. Gathered(fetch, works, got) /\ DayAfter(nav, navAfter, done)
      BY <2>2, Zenon DEF FromNav
    <2>4. alerted' \in BOOLEAN /\ fell' \in BOOLEAN
      BY <2>3, Zenon DEF DayAfter
    <2>5. opening' \in Navs \cup {None}
      <3>1. nav \in Navs
        BY <2>2, LiveAssumption DEF Vary
      <3> QED BY <2>3, <3>1 DEF DayAfter, Opened, MemoryTypes
    <2> QED BY <1>1, <2>2, <2>3, <2>4, <2>5 DEF MemoryTypes
  <1>4. CASE Restart \/ CrashInWrite
    BY <1>4 DEF Restart, CrashInWrite, Forget, MemoryTypes, barVars
  <1>5. CASE Elapse
    <2>1. UNCHANGED <<torn, alerted, opening, news, headlines>> /\ fell' \in {fell, FALSE}
      BY <1>5 DEF Elapse, barVars, memoryVars, newsVars, dayVars
    <2> QED BY <2>1 DEF MemoryTypes
  <1>6. CASE PostHeadline \/ PostActivity
    BY <1>6 DEF PostHeadline, PostActivity, MemoryTypes, barVars, memoryVars, newsVars, dayVars
  <1>7. CASE UNCHANGED vars
    BY <1>7 DEF vars, MemoryTypes, barVars, memoryVars, newsVars, dayVars
  <1> QED BY <1>2, <1>3, <1>4, <1>5, <1>6, <1>7 DEF Next

\* Every variable of a tick keeps its type; what is cached are rows of whole bars,
\* what is journalled are headlines and fees there have been.
THEOREM TypeCorrect == Spec => []TypeOK
  <1>1. Spec => []MemoryTypes
    BY MemoryInit, MemoryStep, PTL DEF Spec
  <1>2. Spec => []NewsInv
    BY NewsInit, NewsStep, PTL DEF Spec
  <1>3. BarsInv /\ FeesInv /\ DayInv /\ NewsInv /\ MemoryTypes => TypeOK
    BY LiveAssumption DEF BarsInv, Rows, FeesInv, DayInv, DayTypes, NewsInv, NewsSeen, MemoryTypes,
       TypeOK, None
  <1> QED BY <1>1, <1>2, <1>3, BarsAlways, FeesAlways, DayAlways, PTL

===============================================================================
