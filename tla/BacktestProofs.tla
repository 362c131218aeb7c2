---------------------------- MODULE BacktestProofs ----------------------------
(***************************************************************************)
(* What a backtest guarantees for any symbols, strategies' parameters,     *)
(* prices, costs, calendar and number of bars, and any span of the live    *)
(* runner.                                                                 *)
(*                                                                         *)
(* The lists with a condition, the ranking, the sums and the orders of a   *)
(* bar are recursive over the positions of a sequence.  Recursion says     *)
(* that such a function exists, ByPosition is the induction over it.       *)
(***************************************************************************)
EXTENDS Backtest, FiniteSetTheorems, TLAPS

-------------------------------------------------------------------------------
(* Recursion over positions.                                               *)

\* A set of numbers has a least one: the intervals 0 .. n have a smallest one.
LEMMA LeastNumber ==
  ASSUME NEW S \in SUBSET Nat, S # {}
  PROVE  \E m \in S : \A n \in S : m <= n
  <1> DEFINE I == {0 .. n : n \in S}
  <1>1. I \subseteq FiniteSubsetsOf(Nat) /\ I # {}
    <2>1. ASSUME NEW n \in S PROVE 0 .. n \in SUBSET Nat /\ IsFiniteSet(0 .. n)
      BY FS_Interval
    <2> QED BY <2>1 DEF FiniteSubsetsOf
  <1>2. \E i \in I : \A j \in I : <<j, i>> \notin StrictSubsetOrdering(Nat)
    BY <1>1, FS_StrictSubsetOrderingWellFounded, WFMin, Zenon
  <1>3. PICK m \in S : \A n \in S : <<0 .. n, 0 .. m>> \notin StrictSubsetOrdering(Nat)
    BY <1>2
  <1>4. ASSUME NEW n \in S, n < m PROVE FALSE
    <2>1. 0 .. n \subseteq Nat /\ 0 .. m \subseteq Nat /\ 0 .. n \subseteq 0 .. m
      BY <1>4
    <2>2. m \in 0 .. m /\ m \notin 0 .. n
      BY <1>4
    <2> QED BY <1>3, <2>1, <2>2 DEF StrictSubsetOrdering
  <1> QED BY <1>4

\* A set with zero and the successor of each number in it below n has all up to n.
LEMMA ByPosition ==
  ASSUME NEW n \in Nat, NEW P, 0 \in P, \A k \in 1 .. n : k - 1 \in P => k \in P
  PROVE  0 .. n \subseteq P
  <1> DEFINE out == {k \in 0 .. n : k \notin P}
  <1> SUFFICES ASSUME out # {} PROVE FALSE
    OBVIOUS
  <1>1. out \in SUBSET Nat
    OBVIOUS
  <1>2. PICK m \in out : \A k \in out : m <= k
    <2> HIDE DEF out
    <2> QED BY <1>1, LeastNumber
  <1>3. m \in 1 .. n /\ m - 1 \in 0 .. n /\ ~(m <= m - 1)
    BY <1>2
  <1>4. m - 1 \in P
    BY <1>2, <1>3
  <1> QED BY <1>2, <1>3, <1>4

\* The functions that go from b by n steps of F.
Runs(n, S, b, F) ==
  {up \in [0 .. n -> S] : up[0] = b /\ \A k \in 1 .. n : up[k] = F[<<up[k - 1], k>>]}

LEMMA Recursion ==
  ASSUME NEW n \in Nat, NEW S, NEW b \in S, NEW F \in [S \X (1 .. n) -> S]
  PROVE  Runs(n, S, b, F) # {}
  <1> DEFINE Ups(m) == {up \in [0 .. m -> S] :
                          up[0] = b /\ \A k \in 1 .. m : up[k] = F[<<up[k - 1], k>>]}
             P == {m \in 0 .. n : Ups(m) # {}}
  <1>1. 0 \in P
    <2>1. [k \in 0 .. 0 |-> b] \in Ups(0)
      OBVIOUS
    <2> QED BY <2>1
  <1>2. ASSUME NEW m \in 1 .. n, m - 1 \in P PROVE m \in P
    <2>1. PICK up \in Ups(m - 1) : TRUE
      BY <1>2
    <2> DEFINE more == [k \in 0 .. m |-> IF k = m THEN F[<<up[m - 1], m>>] ELSE up[k]]
    <2>2. up \in [0 .. m - 1 -> S] /\ m - 1 \in 0 .. m - 1 /\ up[0] = b
      BY <2>1
    <2>3. F[<<up[m - 1], m>>] \in S
      BY <2>2
    <2>4. more \in [0 .. m -> S] /\ more[0] = b
      BY <2>2, <2>3
    <2>5. ASSUME NEW k \in 1 .. m PROVE more[k] = F[<<more[k - 1], k>>]
      <3>1. more[k - 1] = up[k - 1]
        BY <2>2
      <3>2. CASE k = m
        <4>1. more[m] = F[<<up[m - 1], m>>]
          OBVIOUS
        <4> HIDE DEF more
        <4> QED BY <3>1, <3>2, <4>1
      <3>3. CASE k # m
        <4>1. k \in 1 .. m - 1 /\ more[k] = up[k]
          BY <3>3
        <4> QED BY <2>1, <3>1, <4>1
      <3> QED BY <3>2, <3>3
    <2>6. more \in Ups(m)
      <3> HIDE DEF more
      <3> QED BY <2>4, <2>5
    <2> HIDE DEF Ups
    <2> QED BY <2>6
  <1>3. 0 .. n \subseteq P
    <2> HIDE DEF P
    <2> QED BY <1>1, <1>2, ByPosition
  <1>4. Ups(n) # {}
    BY <1>3
  <1> QED BY <1>4 DEF Runs

-------------------------------------------------------------------------------
(* Lists with a condition, and sums.                                       *)

\* What is kept are elements of the sequence.
LEMMA KeptType ==
  ASSUME NEW seq, Len(seq) \in Nat, NEW keep, NEW T,
         \A k \in 1 .. Len(seq) : k \in keep => seq[k] \in T
  PROVE  Kept(seq, keep) \in Seq(T)
  <1> DEFINE n == Len(seq)
             More(x, k) == IF k \in keep THEN Append(x, seq[k]) ELSE x
             F == [y \in Seq(T) \X (1 .. n) |-> More(y[1], y[2])]
             IsUp(up) == up = [k \in 0 .. n |-> IF k = 0 THEN <<>> ELSE More(up[k - 1], k)]
             Up == CHOOSE up : IsUp(up)
  <1>1. ASSUME NEW x \in Seq(T), NEW k \in 1 .. n PROVE More(x, k) \in Seq(T)
    OBVIOUS
  <1> HIDE DEF More
  <1>2. F \in [Seq(T) \X (1 .. n) -> Seq(T)]
    BY <1>1
  <1>3. PICK up \in Runs(n, Seq(T), <<>>, F) : TRUE
    <2>1. n \in Nat /\ <<>> \in Seq(T)
      OBVIOUS
    <2> HIDE DEF F, n
    <2> QED BY <1>2, <2>1, Recursion
  <1>4. ASSUME NEW k \in 1 .. n PROVE up[k] = More(up[k - 1], k)
    <2>1. k - 1 \in 0 .. n /\ up[k - 1] \in Seq(T)
      BY DEF Runs
    <2> QED BY <2>1 DEF Runs
  <1>5. IsUp(up)
    BY <1>4 DEF Runs
  <1>6. IsUp(Up)
    BY <1>5
  <1>7. Kept(seq, keep) = Up[n]
    BY DEF Kept, More
  <1> DEFINE P == {k \in 0 .. n : Up[k] \in Seq(T)}
  <1> HIDE DEF Up
  <1>8. 0 \in P
    BY <1>6
  <1>9. ASSUME NEW k \in 1 .. n, k - 1 \in P PROVE k \in P
    <2>1. Up[k] = More(Up[k - 1], k)
      <3> HIDE DEF More
      <3>1. k \in 0 .. n /\ k # 0
        OBVIOUS
      <3>2. \A j \in 0 .. n : Up[j] = IF j = 0 THEN <<>> ELSE More(Up[j - 1], j)
        BY <1>6
      <3> QED BY <3>1, <3>2
    <2>2. Up[k - 1] \in Seq(T)
      BY <1>9
    <2>3. Up[k] \in Seq(T)
      BY <1>1, <2>1, <2>2
    <2> QED BY <2>3
  <1>10. n \in Nat /\ n \in 0 .. n
    OBVIOUS
  <1>11. 0 .. n \subseteq P
    <2> HIDE DEF P, n
    <2> QED BY <1>8, <1>9, <1>10, ByPosition
  <1> QED BY <1>7, <1>10, <1>11

\* The running sums of xs.
Sums(xs, n, up) ==
  up \in [0 .. n -> Int] /\ up[0] = 0 /\ \A k \in 1 .. n : up[k] = up[k - 1] + xs[k]

LEMMA TallyIs ==
  ASSUME NEW xs, Len(xs) \in Nat, \A k \in 1 .. Len(xs) : xs[k] \in Int
  PROVE  \E up : Sums(xs, Len(xs), up) /\ Tally(xs) = up[Len(xs)]
  <1> DEFINE n == Len(xs)
             F == [y \in Int \X (1 .. n) |-> y[1] + xs[y[2]]]
             IsUp(up) == up = [k \in 0 .. n |-> IF k = 0 THEN 0 ELSE up[k - 1] + xs[k]]
             Up == CHOOSE up : IsUp(up)
  <1>1. F \in [Int \X (1 .. n) -> Int]
    OBVIOUS
  <1>2. PICK up \in Runs(n, Int, 0, F) : TRUE
    <2>1. n \in Nat /\ 0 \in Int
      OBVIOUS
    <2> HIDE DEF F, n
    <2> QED BY <1>1, <2>1, Recursion
  <1>3. ASSUME NEW k \in 1 .. n PROVE up[k] = up[k - 1] + xs[k]
    <2>1. k - 1 \in 0 .. n /\ up[k - 1] \in Int
      BY DEF Runs
    <2> QED BY <2>1 DEF Runs
  <1>4. IsUp(up)
    BY <1>3 DEF Runs
  <1>5. IsUp(Up)
    BY <1>4
  <1>6. Tally(xs) = Up[n]
    BY DEF Tally
  <1> DEFINE P == {k \in 0 .. n : Up[k] \in Int}
  <1> HIDE DEF Up
  <1>7. 0 \in P
    BY <1>5
  <1>8. ASSUME NEW k \in 1 .. n, k - 1 \in P PROVE k \in P
    <2>1. Up[k] = Up[k - 1] + xs[k]
      BY <1>5
    <2> QED BY <1>8, <2>1
  <1>9. n \in Nat
    OBVIOUS
  <1>10. 0 .. n \subseteq P
    <2> HIDE DEF P, n
    <2> QED BY <1>7, <1>8, <1>9, ByPosition
  <1>11. Up \in [0 .. n -> Int]
    BY <1>5, <1>10
  <1>12. Sums(xs, n, Up)
    BY <1>5, <1>11 DEF Sums
  <1> QED BY <1>6, <1>12

LEMMA TallyType ==
  ASSUME NEW xs, Len(xs) \in Nat, \A k \in 1 .. Len(xs) : xs[k] \in Int
  PROVE  Tally(xs) \in Int
  <1>1. PICK up : Sums(xs, Len(xs), up) /\ Tally(xs) = up[Len(xs)]
    BY TallyIs
  <1> QED BY <1>1 DEF Sums

LEMMA TallyAppend ==
  ASSUME NEW xs \in Seq(Int), NEW y \in Int
  PROVE  Tally(Append(xs, y)) = Tally(xs) + y
  <1> DEFINE more == Append(xs, y)
             n == Len(xs)
  <1>1. /\ n \in Nat /\ Len(more) = n + 1 /\ more[n + 1] = y
        /\ \A k \in 1 .. n : xs[k] \in Int /\ more[k] = xs[k]
    OBVIOUS
  <1>2. \A k \in 1 .. n + 1 : more[k] \in Int
    BY <1>1
  <1> HIDE DEF more, n
  <1>3. PICK f : Sums(xs, n, f) /\ Tally(xs) = f[n]
    BY <1>1, TallyIs DEF n
  <1>4. PICK g : Sums(more, n + 1, g) /\ Tally(more) = g[n + 1]
    <2>1. n + 1 \in Nat
      BY <1>1
    <2> QED BY <1>1, <1>2, <2>1, TallyIs
  <1> DEFINE P == {k \in 0 .. n : f[k] = g[k]}
  <1>5. 0 \in P
    BY <1>1, <1>3, <1>4 DEF Sums
  <1>6. ASSUME NEW k \in 1 .. n, k - 1 \in P PROVE k \in P
    <2>1. f[k] = f[k - 1] + xs[k] /\ g[k] = g[k - 1] + more[k]
      BY <1>1, <1>3, <1>4 DEF Sums
    <2> QED BY <1>1, <1>6, <2>1
  <1>7. 0 .. n \subseteq P
    <2> HIDE DEF P
    <2> QED BY <1>1, <1>5, <1>6, ByPosition
  <1>8. f[n] = g[n] /\ g[n + 1] = g[n] + y
    BY <1>1, <1>4, <1>7 DEF Sums
  <1> QED BY <1>3, <1>4, <1>8 DEF more

LEMMA TallyEmpty == Tally(<<>>) = 0
  <1>1. Len(<<>>) = 0 /\ \A k \in 1 .. 0 : <<>>[k] \in Int
    OBVIOUS
  <1>2. PICK up : Sums(<<>>, 0, up) /\ Tally(<<>>) = up[0]
    BY <1>1, TallyIs
  <1> QED BY <1>2 DEF Sums

\* A ranking of symbols is of those listed.
LEMMA RankedType ==
  ASSUME NEW T, NEW listed \in Seq(T), NEW recent
  PROVE  Ranked(listed, recent) \in Seq(T)
  <1> DEFINE n == Len(listed)
             Below(x, k) == {j \in DOMAIN x : ~Worse(recent, listed[k], x[j])}
             More(x, k) == InsertAt(x, Cardinality(Below(x, k)) + 1, listed[k])
             F == [y \in Seq(T) \X (1 .. n) |-> More(y[1], y[2])]
             IsUp(up) == up = [k \in 0 .. n |-> IF k = 0 THEN <<>> ELSE More(up[k - 1], k)]
             Up == CHOOSE up : IsUp(up)
  <1>1. ASSUME NEW x \in Seq(T), NEW k \in 1 .. n PROVE More(x, k) \in Seq(T)
    <2> DEFINE i == Cardinality(Below(x, k)) + 1
    <2>1. Len(x) \in Nat /\ DOMAIN x = 1 .. Len(x) /\ IsFiniteSet(1 .. Len(x))
          /\ Cardinality(1 .. Len(x)) = Len(x)
      <3>1. Len(x) \in Nat /\ DOMAIN x = 1 .. Len(x)
        OBVIOUS
      <3>2. ASSUME NEW m \in Nat PROVE IsFiniteSet(1 .. m) /\ Cardinality(1 .. m) = m
        BY FS_Interval
      <3> QED BY <3>1, <3>2
    <2>2. Below(x, k) \subseteq 1 .. Len(x)
      BY <2>1
    <2>3. Cardinality(Below(x, k)) \in Nat /\ Cardinality(Below(x, k)) <= Len(x)
      <3> HIDE DEF Below
      <3>1. IsFiniteSet(Below(x, k)) /\ Cardinality(Below(x, k)) <= Cardinality(1 .. Len(x))
        BY <2>1, <2>2, FS_Subset
      <3> QED BY <2>1, <3>1, FS_CardinalityType
    <2>4. i \in 1 .. Len(x) + 1
      <3> HIDE DEF Below
      <3> QED BY <2>1, <2>3
    <2> HIDE DEF i
    <2>5. SubSeq(x, 1, i - 1) \in Seq(T) /\ SubSeq(x, i, Len(x)) \in Seq(T)
      BY <2>1, <2>4
    <2>6. listed[k] \in T
      OBVIOUS
    <2>7. InsertAt(x, i, listed[k]) \in Seq(T)
      BY <2>5, <2>6 DEF InsertAt
    <2> QED BY <2>7 DEF i
  <1> HIDE DEF More
  <1>2. F \in [Seq(T) \X (1 .. n) -> Seq(T)]
    BY <1>1
  <1>3. PICK up \in Runs(n, Seq(T), <<>>, F) : TRUE
    <2>1. n \in Nat /\ <<>> \in Seq(T)
      OBVIOUS
    <2> HIDE DEF F, n
    <2> QED BY <1>2, <2>1, Recursion
  <1>4. ASSUME NEW k \in 1 .. n PROVE up[k] = More(up[k - 1], k)
    <2>1. k - 1 \in 0 .. n /\ up[k - 1] \in Seq(T)
      BY DEF Runs
    <2> QED BY <2>1 DEF Runs
  <1>5. IsUp(up)
    BY <1>4 DEF Runs
  <1>6. IsUp(Up)
    BY <1>5
  <1>7. Ranked(listed, recent) = Up[n]
    BY DEF Ranked, More
  <1> DEFINE P == {k \in 0 .. n : Up[k] \in Seq(T)}
  <1> HIDE DEF Up
  <1>8. 0 \in P
    BY <1>6
  <1>9. ASSUME NEW k \in 1 .. n, k - 1 \in P PROVE k \in P
    <2>1. Up[k] = More(Up[k - 1], k)
      <3> HIDE DEF More
      <3>1. k \in 0 .. n /\ k # 0
        OBVIOUS
      <3>2. \A j \in 0 .. n : Up[j] = IF j = 0 THEN <<>> ELSE More(Up[j - 1], j)
        BY <1>6
      <3> QED BY <3>1, <3>2
    <2>2. Up[k - 1] \in Seq(T)
      BY <1>9
    <2>3. Up[k] \in Seq(T)
      BY <1>1, <2>1, <2>2
    <2> QED BY <2>3
  <1>10. n \in Nat /\ n \in 0 .. n
    OBVIOUS
  <1>11. 0 .. n \subseteq P
    <2> HIDE DEF P, n
    <2> QED BY <1>8, <1>9, <1>10, ByPosition
  <1> QED BY <1>7, <1>10, <1>11

-------------------------------------------------------------------------------
(* Signals and decisions.                                                  *)

\* A sequence of signals or decisions on symbols there are.
Named(xs) ==
  /\ Len(xs) \in Nat /\ DOMAIN xs = 1 .. Len(xs)
  /\ \A k \in 1 .. Len(xs) : xs[k].symbol \in Symbols

Decided(xs) == Named(xs) /\ \A k \in 1 .. Len(xs) : xs[k].weight \in -SizerMax .. SizerMax

LEMMA MinOfTwo ==
  ASSUME NEW a \in Int, NEW b \in Int
  PROVE  Min({a, b}) = IF a <= b THEN a ELSE b
  BY DEF Min

LEMMA MaxOfTwo ==
  ASSUME NEW a \in Int, NEW b \in Int
  PROVE  Max({a, b}) = IF a <= b THEN b ELSE a
  BY DEF Max

LEMMA ForEachNamed ==
  ASSUME NEW score
  PROVE  Named(ForEach(Listed, score))
  <1> DEFINE scored == Kept(Listed, {k \in DOMAIN Listed : score[Listed[k]] # {}})
             xs == ForEach(Listed, score)
  <1>1. scored \in Seq(Symbols)
    <2>1. Len(Listed) \in Nat /\ \A k \in 1 .. Len(Listed) : Listed[k] \in Symbols
      BY BacktestAssumption
    <2> QED BY <2>1, KeptType
  <1>2. xs = [k \in DOMAIN scored |-> Signal(scored[k], CHOOSE x \in score[scored[k]] : TRUE)]
    BY DEF ForEach
  <1> HIDE DEF scored, xs
  <1>3. /\ Len(scored) \in Nat /\ DOMAIN scored = 1 .. Len(scored)
        /\ \A k \in 1 .. Len(scored) : scored[k] \in Symbols
    BY <1>1
  <1>4. Len(xs) = Len(scored) /\ DOMAIN xs = 1 .. Len(xs)
    BY <1>2, <1>3
  <1>5. ASSUME NEW k \in 1 .. Len(xs) PROVE xs[k].symbol \in Symbols
    BY <1>2, <1>3, <1>4 DEF Signal
  <1> QED BY <1>3, <1>4, <1>5 DEF Named, xs

LEMMA ExtremesNamed ==
  ASSUME NEW ranked \in Seq(Symbols)
  PROVE  Named(Extremes(ranked))
  <1> DEFINE n == Len(ranked)
             few == Max({1, n \div 5})
             winners == LastOf(ranked, few)
             losers == SubSeq(ranked, 1, few)
             T == [symbol : Symbols, score : Int]
             high == [k \in DOMAIN winners |-> Signal(winners[k], 1)]
             low  == [k \in DOMAIN losers |-> Signal(losers[k], -1)]
  <1>1. CASE n = 0 \/ n < MinUniverse
    <2>1. Extremes(ranked) = <<>>
      BY <1>1 DEF Extremes
    <2> QED BY <2>1 DEF Named
  <1>2. CASE ~(n = 0 \/ n < MinUniverse)
    <2>1. n \in Nat \ {0} /\ n \div 5 \in Nat /\ n \div 5 <= n
      BY <1>2
    <2>2. few \in 1 .. n
      <3>1. few = IF 1 <= n \div 5 THEN n \div 5 ELSE 1
        BY <2>1, MaxOfTwo
      <3> HIDE DEF few
      <3> QED BY <2>1, <3>1
    <2>3. Extremes(ranked) = high \o low
      BY <1>2 DEF Extremes
    <2> HIDE DEF few
    <2>4. winners \in Seq(Symbols) /\ losers \in Seq(Symbols)
      BY <2>1, <2>2 DEF LastOf
    <2>5. ASSUME NEW seq \in Seq(Symbols), NEW x \in Int
          PROVE  [k \in DOMAIN seq |-> Signal(seq[k], x)] \in Seq(T)
      <3>1. Len(seq) \in Nat /\ DOMAIN seq = 1 .. Len(seq)
        OBVIOUS
      <3>2. ASSUME NEW k \in 1 .. Len(seq) PROVE Signal(seq[k], x) \in T
        BY DEF Signal
      <3> HIDE DEF T
      <3> QED BY <3>1, <3>2
    <2>6. high \in Seq(T) /\ low \in Seq(T)
      <3> HIDE DEF winners, losers, T
      <3> QED BY <2>4, <2>5
    <2> HIDE DEF high, low
    <2>7. high \o low \in Seq(T)
      BY <2>6
    <2>8. ASSUME NEW xs \in Seq(T) PROVE Named(xs)
      <3>1. Len(xs) \in Nat /\ DOMAIN xs = 1 .. Len(xs) /\ \A k \in 1 .. Len(xs) : xs[k] \in T
        <4> HIDE DEF T
        <4> QED OBVIOUS
      <3> QED BY <3>1 DEF Named
    <2> QED BY <2>3, <2>7, <2>8
  <1> QED BY <1>1, <1>2

Bars == [ts : Nat, high : Prices, low : Prices, close : Prices]

\* What is asked of the language model is one of the prompts.
LEMMA PromptIs ==
  ASSUME NEW window \in [Symbols -> Seq(Bars)], NEW headlines
  PROVE  Prompt(window, headlines) \in Prompts
  <1> DEFINE asked == Symbols \cap headlines
             m(s) == Min({Len(window[s]), NewsCloses})
             closes(s) == Closes(LastOf(window[s], m(s)))
  <1>1. Prompt(window, headlines) = [s \in asked |-> closes(s)]
    BY DEF Prompt
  <1>2. ASSUME NEW s \in Symbols PROVE closes(s) \in CloseLists
    <2> DEFINE w == window[s]
               ends == LastOf(w, m(s))
    <2>1. w \in Seq(Bars) /\ Len(w) \in Nat /\ NewsCloses \in Nat
      BY StrategyAssumption
    <2>2. m(s) \in 0 .. Len(w) /\ m(s) \in 0 .. NewsCloses
      <3>1. m(s) = IF Len(w) <= NewsCloses THEN Len(w) ELSE NewsCloses
        BY <2>1, MinOfTwo
      <3> HIDE DEF m
      <3> QED BY <2>1, <3>1
    <2>3. ends = SubSeq(w, Len(w) - m(s) + 1, Len(w))
      BY DEF LastOf
    <2> HIDE DEF m, w, ends
    <2>4. Len(ends) = m(s) /\ DOMAIN ends = 1 .. m(s) /\ \A k \in 1 .. m(s) : ends[k] \in Bars
      BY <2>1, <2>2, <2>3
    <2>5. Closes(ends) = [k \in 1 .. m(s) |-> ends[k].close]
      BY <2>4 DEF Closes
    <2>6. Closes(ends) \in [1 .. m(s) -> Prices]
      BY <2>4, <2>5 DEF Bars
    <2> QED BY <2>2, <2>6 DEF CloseLists, ends, w, m
  <1> HIDE DEF closes
  <1>3. [s \in asked |-> closes(s)] \in [asked -> CloseLists]
    BY <1>2
  <1> QED BY <1>1, <1>3 DEF Prompts

LEMMA SignalsNamed ==
  ASSUME setup \in Setups, NEW window \in [Symbols -> Seq(Bars)], NEW context
  PROVE  Named(Signals(window, context))
  <1>1. CASE setup.strategy \in {"sma_crossover", "donchian_breakout", "bollinger_meanrev",
                                "pead_drift", "news_embed"}
    <2>1. \E score : Signals(window, context) = ForEach(Listed, score)
      BY <1>1 DEF Signals
    <2> QED BY <2>1, ForEachNamed
  <1>2. CASE setup.strategy = "pairs_zscore"
    <2>1. Signals(window, context) = Pairs(window[setup.pair.a], window[setup.pair.b], setup.pair)
      BY <1>2 DEF Signals
    <2>2. \/ Signals(window, context) = <<>>
          \/ \E x, y : Signals(window, context)
                        = <<Signal(setup.pair.a, x), Signal(setup.pair.b, y)>>
      BY <2>1 DEF Pairs, Legs
    <2>3. setup.pair.a \in Symbols /\ setup.pair.b \in Symbols
      BY BacktestAssumption
    <2>4. CASE Signals(window, context) = <<>>
      BY <2>4 DEF Named
    <2>5. ASSUME NEW x, NEW y,
                 Signals(window, context) = <<Signal(setup.pair.a, x), Signal(setup.pair.b, y)>>
          PROVE  Named(Signals(window, context))
      BY <2>3, <2>5 DEF Named, Signal
    <2> QED BY <2>2, <2>4, <2>5
  <1>3. CASE setup.strategy = "xs_momentum"
    <2> DEFINE enough == {s \in DOMAIN window : Len(window[s]) >= Need}
               listed == Kept(Listed, {k \in DOMAIN Listed : Listed[k] \in enough})
    <2>1. \E recent : Signals(window, context) = Extremes(Ranked(listed, recent))
      BY <1>3 DEF Signals, XsMomentum
    <2>2. listed \in Seq(Symbols)
      <3>1. Len(Listed) \in Nat /\ \A k \in 1 .. Len(Listed) : Listed[k] \in Symbols
        BY BacktestAssumption
      <3> HIDE DEF enough
      <3> QED BY <3>1, KeptType
    <2> HIDE DEF listed
    <2> QED BY <2>1, <2>2, RankedType, ExtremesNamed
  <1>4. CASE setup.strategy = "llm_news"
    <2> DEFINE prompt == Prompt(window, context.headlines)
               entries == setup.reply[prompt].entries
               T == {e \in Range(entries) : e.symbol \in Symbols}
               kept == Kept(entries, {k \in DOMAIN entries : entries[k].symbol \in Symbols})
    <2>1. Signals(window, context) \in {<<>>, kept}
      BY <1>4 DEF Signals, LlmNews
    <2>2. entries \in Seq(Range(entries))
      <3>1. prompt \in Prompts
        BY PromptIs
      <3> QED BY <3>1, BacktestAssumption
    <2>3. Len(entries) \in Nat /\ \A k \in 1 .. Len(entries) : entries[k] \in Range(entries)
      <3> HIDE DEF entries
      <3> QED BY <2>2
    <2>4. kept \in Seq(T)
      <3> HIDE DEF entries
      <3> QED BY <2>3, KeptType
    <2>5. ASSUME NEW xs \in Seq(T) PROVE Named(xs)
      BY DEF Named
    <2>6. Named(<<>>)
      BY DEF Named
    <2> QED BY <2>1, <2>4, <2>5, <2>6
  <1>5. setup.strategy \in DOMAIN Needs
    BY BacktestAssumption
  <1>6. DOMAIN Needs = {"sma_crossover", "donchian_breakout", "bollinger_meanrev",
                        "pead_drift", "news_embed", "pairs_zscore", "xs_momentum", "llm_news"}
    BY DEF Needs
  <1> QED BY <1>1, <1>2, <1>3, <1>4, <1>5, <1>6

LEMMA SignIs ==
  ASSUME NEW w \in 0 .. SizerMax, NEW n
  PROVE  w * SignOf(n) \in -SizerMax .. SizerMax
  <1>1. SignOf(n) \in {-1, 0, 1}
    BY DEF SignOf
  <1>2. SizerMax \in Nat
    BY DecisionAssumption
  <1> QED BY <1>1, <1>2

LEMMA EqualWeightDecided ==
  ASSUME NEW signals, Named(signals)
  PROVE  Decided(EqualWeight(signals))
  <1> DEFINE T == {e \in Range(signals) : e.symbol \in Symbols}
             actives == Kept(signals, {k \in DOMAIN signals : signals[k].score # 0})
             w == Min({SizerMax, WeightUnit \div Len(actives)})
             xs == EqualWeight(signals)
  <1>1. actives \in Seq(T)
    <2>1. Len(signals) \in Nat /\ \A k \in 1 .. Len(signals) : signals[k] \in T
      BY DEF Named, Range
    <2> HIDE DEF T
    <2> QED BY <2>1, KeptType
  <1>2. xs = [k \in DOMAIN actives |-> Target(actives[k], w * SignOf(actives[k].score))]
    BY DEF EqualWeight
  <1> HIDE DEF actives, xs
  <1>3. /\ Len(actives) \in Nat /\ DOMAIN actives = 1 .. Len(actives)
        /\ \A k \in 1 .. Len(actives) : actives[k] \in T
    <2> HIDE DEF T
    <2> QED BY <1>1
  <1>4. Len(xs) = Len(actives) /\ DOMAIN xs = 1 .. Len(xs)
    BY <1>2, <1>3
  <1>5. ASSUME NEW k \in 1 .. Len(xs)
        PROVE  xs[k].symbol \in Symbols /\ xs[k].weight \in -SizerMax .. SizerMax
    <2>1. actives[k].symbol \in Symbols
      BY <1>3, <1>4
    <2>2. Len(actives) \in Nat \ {0} /\ SizerMax \in Nat /\ WeightUnit \in Nat
      BY <1>3, <1>4, DecisionAssumption
    <2>3. WeightUnit \div Len(actives) \in Nat
      BY <2>2
    <2>4. w \in 0 .. SizerMax
      <3>1. w = IF SizerMax <= WeightUnit \div Len(actives) THEN SizerMax
                ELSE WeightUnit \div Len(actives)
        BY <2>2, <2>3, MinOfTwo
      <3> HIDE DEF w
      <3> QED BY <2>2, <2>3, <3>1
    <2> HIDE DEF w
    <2>5. xs[k] = Target(actives[k], w * SignOf(actives[k].score))
      BY <1>2, <1>3, <1>4
    <2> QED BY <2>1, <2>4, <2>5, SignIs DEF Target
  <1> QED BY <1>3, <1>4, <1>5 DEF Named, Decided, xs

LEMMA KellyDecided ==
  ASSUME NEW signals, Named(signals)
  PROVE  Decided(KellyCapped(signals))
  <1> DEFINE w == Min({SizerMax, KellyWeight})
             xs == KellyCapped(signals)
  <1>1. xs = [k \in DOMAIN signals |-> Target(signals[k], w * SignOf(signals[k].score))]
    BY DEF KellyCapped
  <1> HIDE DEF xs
  <1>2. Len(xs) = Len(signals) /\ DOMAIN xs = 1 .. Len(xs) /\ Len(xs) \in Nat
    BY <1>1 DEF Named
  <1>3. ASSUME NEW k \in 1 .. Len(xs)
        PROVE  xs[k].symbol \in Symbols /\ xs[k].weight \in -SizerMax .. SizerMax
    <2>1. signals[k].symbol \in Symbols
      BY <1>2 DEF Named
    <2>2. w \in 0 .. SizerMax
      <3>1. SizerMax \in Nat /\ KellyWeight \in Nat
        BY DecisionAssumption
      <3>2. w = IF SizerMax <= KellyWeight THEN SizerMax ELSE KellyWeight
        BY <3>1, MinOfTwo
      <3> HIDE DEF w
      <3> QED BY <3>1, <3>2
    <2> HIDE DEF w
    <2>3. xs[k] = Target(signals[k], w * SignOf(signals[k].score))
      BY <1>1, <1>2 DEF Named
    <2> QED BY <2>1, <2>2, <2>3, SignIs DEF Target
  <1> QED BY <1>2, <1>3 DEF Named, Decided, xs

\* A sizer's decision is a symbol with a weight, and stays one under the cap.
LEMMA CapKeeps ==
  ASSUME NEW s, NEW w \in -SizerMax .. SizerMax,
         NEW v \in CapPosition([symbol |-> s, weight |-> w])
  PROVE  v.symbol = s /\ v.weight \in -SizerMax .. SizerMax
  <1> DEFINE x == IF Magnitude(w) > PositionMax THEN PositionMax * SignOf(w) ELSE w
  <1>1. v = [symbol |-> s, weight |-> x]
    BY DEF CapPosition
  <1>2. SizerMax \in Nat /\ PositionMax \in Nat
    BY DecisionAssumption
  <1>3. x \in -SizerMax .. SizerMax
    BY <1>2 DEF Magnitude, SignOf
  <1> QED BY <1>1, <1>3

LEMMA SizedIsTargets ==
  ASSUME NEW signals, NEW xs, xs \in {EqualWeight(signals), KellyCapped(signals)},
         NEW k \in DOMAIN xs
  PROVE  xs[k] = [symbol |-> xs[k].symbol, weight |-> xs[k].weight]
  <1>1. \E s, w : xs[k] = [symbol |-> s, weight |-> w]
    <2>1. CASE xs = EqualWeight(signals)
      BY <2>1 DEF EqualWeight, Target
    <2>2. CASE xs = KellyCapped(signals)
      BY <2>2 DEF KellyCapped, Target
    <2> QED BY <2>1, <2>2
  <1> QED BY <1>1

LEMMA DecisionsDecided ==
  ASSUME NEW signals, Named(signals)
  PROVE  Decided(DecisionsOn(signals))
  <1> DEFINE sized == IF setup.sizer = "equal_weight" THEN EqualWeight(signals)
                      ELSE KellyCapped(signals)
             Vetted(d) == CHOOSE v \in CapPosition(d) : TRUE
             xs == DecisionsOn(signals)
  <1>1. Decided(sized) /\ sized \in {EqualWeight(signals), KellyCapped(signals)}
    BY EqualWeightDecided, KellyDecided
  <1>2. xs = IF setup.guarded THEN [k \in DOMAIN sized |-> Vetted(sized[k])] ELSE sized
    BY DEF DecisionsOn
  <1> HIDE DEF sized, xs
  <1>3. CASE ~setup.guarded
    BY <1>1, <1>2, <1>3 DEF xs
  <1>4. CASE setup.guarded
    <2>1. Len(xs) = Len(sized) /\ DOMAIN xs = 1 .. Len(xs) /\ Len(xs) \in Nat
      BY <1>1, <1>2, <1>4 DEF Decided, Named
    <2>2. ASSUME NEW k \in 1 .. Len(xs)
          PROVE  xs[k].symbol \in Symbols /\ xs[k].weight \in -SizerMax .. SizerMax
      <3> DEFINE d == sized[k]
      <3>1. d.symbol \in Symbols /\ d.weight \in -SizerMax .. SizerMax /\ k \in DOMAIN sized
        BY <1>1, <2>1 DEF Decided, Named
      <3>2. d = [symbol |-> d.symbol, weight |-> d.weight]
        BY <1>1, <3>1, SizedIsTargets
      <3>3. xs[k] = Vetted(d)
        BY <1>2, <1>4, <3>1
      <3> HIDE DEF d
      <3>4. Vetted(d) \in CapPosition(d)
        BY DEF CapPosition
      <3> HIDE DEF Vetted
      <3>5. Vetted(d) \in CapPosition([symbol |-> d.symbol, weight |-> d.weight])
        BY <3>2, <3>4
      <3> QED BY <3>1, <3>3, <3>5, CapKeeps
    <2> QED BY <2>1, <2>2 DEF Decided, Named, xs
  <1> QED BY <1>3, <1>4

-------------------------------------------------------------------------------
(* Quotients.                                                              *)

LEMMA Quotient ==
  ASSUME NEW a \in Int, NEW d \in Nat \ {0}
  PROVE  a \div d \in Int /\ a % d \in 0 .. d - 1 /\ a = d * (a \div d) + (a % d)
  OBVIOUS

\* A quotient is the number whose multiple leaves a remainder.
LEMMA QuotientIs ==
  ASSUME NEW a \in Int, NEW d \in Nat \ {0}, NEW q \in Int, NEW r \in 0 .. d - 1,
         a = d * q + r
  PROVE  a \div d = q
  <1> DEFINE p == a \div d
             e == a % d
  <1>1. p \in Int /\ e \in 0 .. d - 1 /\ a = d * p + e
    BY Quotient
  <1> HIDE DEF p, e
  <1>2. d * (p - q) = r - e /\ p - q \in Int
    BY <1>1
  <1>3. -d < d * (p - q) /\ d * (p - q) < d
    BY <1>1, <1>2
  <1> DEFINE x == p - q
  <1>4. x \in Int /\ -d < d * x /\ d * x < d
    BY <1>2, <1>3
  <1> HIDE DEF x
  <1>5. ~(x >= 1)
    <2>1. ASSUME x >= 1 PROVE d * x >= d
      BY <1>4, <2>1
    <2> QED BY <1>4, <2>1
  <1>6. ~(x <= -1)
    <2>1. ASSUME x <= -1 PROVE d * x <= -d
      BY <1>4, <2>1
    <2> QED BY <1>4, <2>1
  <1>7. x = 0
    BY <1>4, <1>5, <1>6
  <1> QED BY <1>1, <1>7 DEF x, p

LEMMA QuotientShift ==
  ASSUME NEW a \in Int, NEW d \in Nat \ {0}, NEW c \in Int
  PROVE  (a - c * d) \div d = a \div d - c
  <1> DEFINE q == a \div d
             r == a % d
  <1>1. q \in Int /\ r \in 0 .. d - 1 /\ a = d * q + r
    BY Quotient
  <1> HIDE DEF q, r
  <1>2. c * d \in Int /\ a - c * d \in Int
    OBVIOUS
  <1>3. a - c * d = d * (q - c) + r /\ q - c \in Int
    BY <1>1
  <1> DEFINE b == a - c * d
  <1> HIDE DEF b
  <1>4. b \in Int /\ b = d * (q - c) + r
    BY <1>2, <1>3 DEF b
  <1>5. b \div d = q - c
    BY <1>1, <1>3, <1>4, QuotientIs
  <1> QED BY <1>5 DEF b, q

LEMMA QuotientTwice ==
  ASSUME NEW a \in Int, NEW d \in Nat \ {0}, NEW e \in Nat \ {0}
  PROVE  a - ((a \div d) \div e) * (d * e) \in 0 .. d * e - 1
  <1> DEFINE q == a \div d
             r == a % d
             p == q \div e
             t == q % e
  <1>1. q \in Int /\ r \in 0 .. d - 1 /\ a = d * q + r
    BY Quotient
  <1>2. p \in Int /\ t \in 0 .. e - 1 /\ q = e * p + t
    <2> HIDE DEF q
    <2> QED BY <1>1, Quotient
  <1> HIDE DEF q, r, p, t
  <1>3. a - p * (d * e) = d * t + r /\ d * e \in Int
    BY <1>1, <1>2
  <1>4. d * t \in 0 .. d * (e - 1) /\ d * (e - 1) = d * e - d
    BY <1>2
  <1> DEFINE x == d * t
             y == d * e
  <1>5. x \in Int /\ y \in Int /\ 0 <= x /\ x <= y - d
    BY <1>3, <1>4
  <1> HIDE DEF x, y
  <1>6. x + r \in 0 .. y - 1
    BY <1>1, <1>5
  <1> QED BY <1>3, <1>6 DEF x, y, p, q

-------------------------------------------------------------------------------
(* Orders of a bar.                                                        *)

Positions == UNION {[D -> Int] : D \in SUBSET Symbols}
Fills == [symbol : Symbols, side : {"buy", "sell"}, qty : Nat \ {0}, price : Int, fee : Int]

\* The quantities the trades have moved in a symbol, and what they have cost.
Moved(f, s) == IF f.symbol = s THEN Signed(f) ELSE 0
MovedBy(ts, s) == [k \in DOMAIN ts |-> Moved(ts[k], s)]
PaidBy(ts) == [k \in DOMAIN ts |-> Paid(ts[k])]

\* TradesAccountForBook, for any book.
Balanced(book) ==
  /\ book.cash = StartingCash - Tally(PaidBy(book.trades))
  /\ \A s \in Symbols : Tally(MovedBy(book.trades, s)) = Qty(book.held, s)

\* The books a bar comes by that began with positions in the known symbols.
Books(known) ==
  {b \in [cash : Int, held : Positions, trades : Seq(Fills)] :
     known \subseteq DOMAIN b.held /\ Balanced(b)}

LEMMA FilledIs ==
  ASSUME NEW s \in Symbols, NEW n \in Int \ {0}, NEW px \in Prices
  PROVE  /\ Filled(s, n, px) \in Fills /\ Filled(s, n, px).symbol = s
         /\ Signed(Filled(s, n, px)) = n /\ Paid(Filled(s, n, px)) \in Int
  <1> DEFINE f == Filled(s, n, px)
             side == IF n > 0 THEN "buy" ELSE "sell"
             at == FillPrice(side, px)
             fee == Fee(Magnitude(n), at)
  <1>1. f = [symbol |-> s, side |-> side, qty |-> Magnitude(n), price |-> at, fee |-> fee]
    BY DEF Filled, FillOf
  <1>2. at \in Int
    <2>1. px \in Nat /\ SlippageBps \in Nat /\ Bps \in Nat \ {0}
      BY ExecutionAssumption
    <2>2. px * SlippageBps \in Int
      BY <2>1
    <2>3. (px * SlippageBps) \div Bps \in Int
      BY <2>1, <2>2, Quotient
    <2> QED BY <2>1, <2>3 DEF FillPrice
  <1>3. Magnitude(n) \in Nat \ {0}
    BY DEF Magnitude
  <1> HIDE DEF at
  <1>4. fee \in Int
    <2>1. FeeBps \in Nat /\ Bps \in Nat \ {0}
      BY ExecutionAssumption
    <2>2. Magnitude(n) * at \in Int
      BY <1>2, <1>3
    <2>3. Magnitude(n) * at * FeeBps \in Int
      BY <2>1, <2>2
    <2> QED BY <2>1, <2>3, Quotient DEF Fee
  <1> HIDE DEF fee, f
  <1>5. f \in Fills /\ f.symbol = s
    BY <1>1, <1>2, <1>3, <1>4 DEF Fills
  <1>6. Signed(f) = n
    BY <1>1 DEF Signed, Magnitude
  <1>7. Paid(f) \in Int
    <2>1. f.qty * f.price \in Int /\ f.fee \in Int
      BY <1>1, <1>2, <1>3, <1>4
    <2> QED BY <2>1 DEF Paid
  <1> QED BY <1>5, <1>6, <1>7 DEF f

LEMMA FillTypes ==
  ASSUME NEW f \in Fills, NEW s
  PROVE  Paid(f) \in Int /\ Signed(f) \in Int /\ Moved(f, s) \in Int /\ f.symbol \in Symbols
  <1>1. /\ f.qty \in Int /\ f.price \in Int /\ f.fee \in Int /\ f.symbol \in Symbols
    BY DEF Fills
  <1>2. f.qty * f.price \in Int
    BY <1>1
  <1> QED BY <1>1, <1>2 DEF Paid, Signed, Moved

LEMMA QtyType ==
  ASSUME NEW h \in Positions, NEW s
  PROVE  Qty(h, s) \in Int
  <1>1. PICK D \in SUBSET Symbols : h \in [D -> Int]
    BY DEF Positions
  <1> QED BY <1>1 DEF Qty

LEMMA HeldAfterIs ==
  ASSUME NEW h \in Positions, NEW f \in Fills
  PROVE  /\ HeldAfter(h, f) \in Positions /\ DOMAIN h \subseteq DOMAIN HeldAfter(h, f)
         /\ \A s \in Symbols : Qty(HeldAfter(h, f), s) = Qty(h, s) + Moved(f, s)
  <1>1. PICK D \in SUBSET Symbols : h \in [D -> Int]
    BY DEF Positions
  <1> DEFINE E == D \cup {f.symbol}
             New(s) == Qty(h, s) + IF s = f.symbol THEN Signed(f) ELSE 0
  <1>2. HeldAfter(h, f) = [s \in E |-> New(s)]
    BY <1>1 DEF HeldAfter
  <1>3. E \in SUBSET Symbols /\ Signed(f) \in Int
    BY FillTypes
  <1>4. \A s : Qty(h, s) \in Int
    BY QtyType
  <1>5. \A s : New(s) \in Int
    BY <1>3, <1>4
  <1>6. [s \in E |-> New(s)] \in [E -> Int]
    <2> HIDE DEF E, New
    <2> QED BY <1>5
  <1>7. HeldAfter(h, f) \in Positions
    <2> HIDE DEF E, New
    <2> QED BY <1>2, <1>3, <1>6 DEF Positions
  <1>8. ASSUME NEW s \in Symbols
        PROVE  Qty(HeldAfter(h, f), s) = Qty(h, s) + Moved(f, s)
    <2>1. CASE s \in E
      <3>1. Qty(HeldAfter(h, f), s) = New(s)
        BY <1>2, <2>1 DEF Qty
      <3> QED BY <3>1 DEF Moved
    <2>2. CASE s \notin E
      <3>1. Qty(HeldAfter(h, f), s) = 0 /\ Qty(h, s) = 0 /\ Moved(f, s) = 0
        BY <1>1, <1>2, <2>2 DEF Qty, Moved
      <3> QED BY <3>1
    <2> QED BY <2>1, <2>2
  <1> QED BY <1>1, <1>2, <1>7, <1>8

\* A fill is accounted for.
LEMMA FillBooked ==
  ASSUME NEW known, NEW b \in Books(known), NEW f \in Fills
  PROVE  [cash |-> b.cash - Paid(f), held |-> HeldAfter(b.held, f),
          trades |-> Append(b.trades, f)] \in Books(known)
  <1> DEFINE ts == b.trades
             more == Append(ts, f)
             h == b.held
             g == HeldAfter(h, f)
             c == b.cash
  <1>1. /\ c \in Int /\ h \in Positions /\ ts \in Seq(Fills) /\ known \subseteq DOMAIN h
        /\ c = StartingCash - Tally(PaidBy(ts))
        /\ \A s \in Symbols : Tally(MovedBy(ts, s)) = Qty(h, s)
    BY DEF Books, Balanced
  <1> HIDE DEF ts, h, c
  <1>2. Len(ts) \in Nat /\ DOMAIN ts = 1 .. Len(ts) /\ \A k \in 1 .. Len(ts) : ts[k] \in Fills
    BY <1>1
  <1>3. /\ more \in Seq(Fills) /\ Len(more) = Len(ts) + 1 /\ more[Len(ts) + 1] = f
        /\ DOMAIN more = 1 .. Len(ts) + 1 /\ \A k \in 1 .. Len(ts) : more[k] = ts[k]
    BY <1>1
  <1> HIDE DEF more
  <1>4. Tally(PaidBy(more)) = Tally(PaidBy(ts)) + Paid(f) /\ Tally(PaidBy(ts)) \in Int
    <2>1. PaidBy(ts) \in Seq(Int)
      <3>1. \A k \in 1 .. Len(ts) : Paid(ts[k]) \in Int
        BY <1>2, FillTypes
      <3> QED BY <1>2, <3>1 DEF PaidBy
    <2>2. PaidBy(more) = Append(PaidBy(ts), Paid(f))
      BY <1>2, <1>3 DEF PaidBy
    <2>3. Paid(f) \in Int
      BY FillTypes
    <2>4. Len(PaidBy(ts)) \in Nat /\ \A k \in 1 .. Len(PaidBy(ts)) : PaidBy(ts)[k] \in Int
      BY <2>1
    <2> QED BY <2>1, <2>2, <2>3, <2>4, TallyAppend, TallyType
  <1>5. ASSUME NEW s \in Symbols
        PROVE  Tally(MovedBy(more, s)) = Tally(MovedBy(ts, s)) + Moved(f, s)
    <2>1. MovedBy(ts, s) \in Seq(Int)
      <3>1. \A k \in 1 .. Len(ts) : Moved(ts[k], s) \in Int
        BY <1>2, FillTypes
      <3> QED BY <1>2, <3>1 DEF MovedBy
    <2>2. MovedBy(more, s) = Append(MovedBy(ts, s), Moved(f, s))
      BY <1>2, <1>3 DEF MovedBy
    <2>3. Moved(f, s) \in Int
      BY FillTypes
    <2> QED BY <2>1, <2>2, <2>3, TallyAppend
  <1>6. /\ g \in Positions /\ known \subseteq DOMAIN g
        /\ \A s \in Symbols : Qty(g, s) = Qty(h, s) + Moved(f, s)
    BY <1>1, HeldAfterIs
  <1> HIDE DEF g
  <1>7. Paid(f) \in Int
    BY FillTypes
  <1>8. c - Paid(f) \in Int /\ c - Paid(f) = StartingCash - Tally(PaidBy(more))
    BY <1>1, <1>4, <1>7, BacktestAssumption
  <1>9. \A s \in Symbols : Tally(MovedBy(more, s)) = Qty(g, s)
    BY <1>1, <1>5, <1>6
  <1>10. [cash |-> c - Paid(f), held |-> g, trades |-> more] \in Books(known)
    BY <1>3, <1>6, <1>8, <1>9 DEF Books, Balanced
  <1> QED BY <1>10 DEF c, g, h, more, ts

LEMMA TradedIs ==
  ASSUME NEW known, NEW b \in Books(known), NEW s \in Symbols, NEW n \in Int,
         NEW px \in Prices
  PROVE  /\ Traded(b, s, n, px) \in Books(known)
         /\ \A t \in Symbols :
              Qty(Traded(b, s, n, px).held, t) = Qty(b.held, t) + IF t = s THEN n ELSE 0
  <1> DEFINE f == Filled(s, n, px)
  <1>1. b.held \in Positions
    BY DEF Books
  <1>2. CASE n = 0
    <2>1. Traded(b, s, n, px) = b
      BY <1>2 DEF Traded
    <2>2. \A t \in Symbols : Qty(b.held, t) \in Int
      BY <1>1, QtyType
    <2> QED BY <1>2, <2>1, <2>2
  <1>3. CASE n # 0
    <2>1. f \in Fills /\ f.symbol = s /\ Signed(f) = n
      BY <1>3, FilledIs
    <2>2. Traded(b, s, n, px) = [cash |-> b.cash - Paid(f), held |-> HeldAfter(b.held, f),
                                 trades |-> Append(b.trades, f)]
      BY <1>3 DEF Traded
    <2> HIDE DEF f
    <2>3. \A t \in Symbols : Qty(HeldAfter(b.held, f), t) = Qty(b.held, t) + Moved(f, t)
      BY <1>1, <2>1, HeldAfterIs
    <2>4. \A t \in Symbols : Moved(f, t) = IF t = s THEN n ELSE 0
      BY <2>1 DEF Moved
    <2> QED BY <2>1, <2>2, <2>3, <2>4, FillBooked
  <1> QED BY <1>2, <1>3

\* What an order aims at: the weight of the NAV, in units of the symbol.
Goal(d, nav, px) == ((d.weight * nav) \div WeightUnit) \div px

LEMMA TowardsIs ==
  ASSUME NEW known, NEW b \in Books(known), NEW d, d.symbol \in Symbols, d.weight \in Int,
         NEW nav \in Int, NEW px \in Prices
  PROVE  /\ Towards(b, d, nav, known, px) \in Books(known)
         /\ \A t \in Symbols \ {d.symbol} :
              Qty(Towards(b, d, nav, known, px).held, t) = Qty(b.held, t)
         /\ d.symbol \in known \/ Qty(b.held, d.symbol) = 0
              => Qty(Towards(b, d, nav, known, px).held, d.symbol) = Goal(d, nav, px)
  <1> DEFINE s == d.symbol
             current == IF s \in known THEN b.held[s] ELSE 0
             a == (d.weight * nav) \div WeightUnit
             n == (a - current * px) \div px
  <1>1. s \in Symbols /\ px \in Nat \ {0} /\ WeightUnit \in Nat \ {0} /\ d.weight * nav \in Int
    BY ExecutionAssumption, DecisionAssumption
  <1>2. a \in Int /\ Goal(d, nav, px) = a \div px /\ a \div px \in Int
    <2>1. a \in Int
      BY <1>1, Quotient
    <2> HIDE DEF a
    <2>2. a \div px \in Int
      BY <1>1, <2>1, Quotient
    <2> QED BY <2>1, <2>2 DEF Goal, a
  <1>3. b.held \in Positions /\ known \subseteq DOMAIN b.held
    BY DEF Books
  <1>4. Qty(b.held, s) \in Int /\ current = IF s \in known THEN Qty(b.held, s) ELSE 0
    BY <1>3, QtyType DEF Qty
  <1>5. Towards(b, d, nav, known, px) = Traded(b, s, n, px)
    BY DEF Towards
  <1> HIDE DEF a, current
  <1>6. current \in Int
    BY <1>4
  <1>7. n = a \div px - current
    BY <1>1, <1>2, <1>6, QuotientShift
  <1> HIDE DEF n
  <1>8. n \in Int
    BY <1>2, <1>6, <1>7
  <1> HIDE DEF s
  <1>9. /\ Traded(b, s, n, px) \in Books(known)
        /\ \A t \in Symbols :
             Qty(Traded(b, s, n, px).held, t) = Qty(b.held, t) + IF t = s THEN n ELSE 0
    BY <1>1, <1>8, TradedIs
  <1>10. \A t \in Symbols : Qty(b.held, t) \in Int
    BY <1>3, QtyType
  <1>11. \A t \in Symbols \ {s} : Qty(Traded(b, s, n, px).held, t) = Qty(b.held, t)
    BY <1>9, <1>10
  <1>12. s \in known \/ Qty(b.held, s) = 0 => Qty(Traded(b, s, n, px).held, s) = a \div px
    BY <1>1, <1>2, <1>4, <1>7, <1>9
  <1> QED BY <1>2, <1>5, <1>9, <1>11, <1>12 DEF s

\* The books after each of the decisions of a bar.
Worksheet(up, book, decisions, nav, known, closes) ==
  /\ up \in [0 .. Len(decisions) -> Books(known)] /\ up[0] = book
  /\ \A k \in 1 .. Len(decisions) :
       up[k] = Towards(up[k - 1], decisions[k], nav, known, closes[decisions[k].symbol])

LEMMA WorkedIs ==
  ASSUME NEW known, NEW book \in Books(known), NEW decisions, Decided(decisions),
         NEW nav \in Int, NEW closes \in [Symbols -> Prices]
  PROVE  \E up : /\ Worksheet(up, book, decisions, nav, known, closes)
                 /\ Worked(book, decisions, nav, known, closes) = up[Len(decisions)]
  <1> DEFINE n == Len(decisions)
             More(x, k) == Towards(x, decisions[k], nav, known, closes[decisions[k].symbol])
             F == [y \in Books(known) \X (1 .. n) |-> More(y[1], y[2])]
             IsUp(up) == up = [k \in 0 .. n |-> IF k = 0 THEN book ELSE More(up[k - 1], k)]
             Up == CHOOSE up : IsUp(up)
  <1>1. ASSUME NEW x \in Books(known), NEW k \in 1 .. n PROVE More(x, k) \in Books(known)
    <2>1. decisions[k].symbol \in Symbols /\ decisions[k].weight \in Int
      BY DecisionAssumption DEF Decided, Named
    <2>2. closes[decisions[k].symbol] \in Prices
      BY <2>1
    <2> QED BY <2>1, <2>2, TowardsIs
  <1>2. n \in Nat
    BY DEF Decided, Named
  <1> HIDE DEF More, n
  <1>3. F \in [Books(known) \X (1 .. n) -> Books(known)]
    BY <1>1
  <1>4. PICK up \in Runs(n, Books(known), book, F) : TRUE
    <2> HIDE DEF F
    <2> QED BY <1>2, <1>3, Recursion
  <1>5. ASSUME NEW k \in 1 .. n PROVE up[k] = More(up[k - 1], k)
    <2>1. k - 1 \in 0 .. n /\ up[k - 1] \in Books(known)
      BY <1>2 DEF Runs
    <2> QED BY <2>1 DEF Runs
  <1>6. IsUp(up)
    BY <1>5 DEF Runs
  <1>7. IsUp(Up)
    BY <1>6
  <1>8. Worked(book, decisions, nav, known, closes) = Up[n]
    BY DEF Worked, More, n
  <1> DEFINE P == {k \in 0 .. n : Up[k] \in Books(known)}
  <1> HIDE DEF Up
  <1>9. 0 \in P
    BY <1>2, <1>7
  <1>10. ASSUME NEW k \in 1 .. n, k - 1 \in P PROVE k \in P
    <2>1. Up[k] = More(Up[k - 1], k)
      BY <1>2, <1>7
    <2> QED BY <1>1, <1>2, <1>10, <2>1
  <1>11. 0 .. n \subseteq P
    <2> HIDE DEF P
    <2> QED BY <1>2, <1>9, <1>10, ByPosition
  <1>12. Up \in [0 .. n -> Books(known)]
    BY <1>7, <1>11
  <1>13. Up[0] = book /\ \A k \in 1 .. n : Up[k] = More(Up[k - 1], k)
    BY <1>2, <1>7
  <1>14. Worksheet(Up, book, decisions, nav, known, closes)
    BY <1>12, <1>13 DEF Worksheet, More, n
  <1> QED BY <1>8, <1>14 DEF n

\* A symbol not decided on up to k keeps its quantity; one decided on last at k, if known
\* before the bar or decided on for the first time, is on the target of that decision.
Untouched(decisions, k, s) == \A j \in 1 .. k : decisions[j].symbol # s
AtTarget(up, decisions, nav, known, closes, k, m) ==
  LET d == decisions[k]
  IN /\ \A j \in k + 1 .. m : decisions[j].symbol # d.symbol
     /\ d.symbol \in known \/ Untouched(decisions, k - 1, d.symbol)
     => Qty(up[m].held, d.symbol) = Goal(d, nav, closes[d.symbol])

LEMMA TargetsMet ==
  ASSUME NEW known, NEW book \in Books(known), known = DOMAIN book.held,
         NEW decisions, Decided(decisions), NEW nav \in Int, NEW closes \in [Symbols -> Prices],
         NEW up, Worksheet(up, book, decisions, nav, known, closes),
         NEW k \in 1 .. Len(decisions)
  PROVE  AtTarget(up, decisions, nav, known, closes, k, Len(decisions))
  <1> DEFINE n == Len(decisions)
             Same(m) == \A s \in Symbols :
                          Untouched(decisions, m, s) => Qty(up[m].held, s) = Qty(book.held, s)
             Met(m) == \A i \in 1 .. m : AtTarget(up, decisions, nav, known, closes, i, m)
             P == {m \in 0 .. n : Same(m) /\ Met(m)}
  <1>1. /\ n \in Nat /\ up \in [0 .. n -> Books(known)] /\ up[0] = book
        /\ \A m \in 1 .. n :
             up[m] = Towards(up[m - 1], decisions[m], nav, known, closes[decisions[m].symbol])
    BY DEF Worksheet, Decided, Named
  <1> HIDE DEF n
  <1>2. 0 \in P
    BY <1>1
  <1>3. ASSUME NEW m \in 1 .. n, m - 1 \in P PROVE m \in P
    <2> DEFINE d == decisions[m]
               px == closes[d.symbol]
               b == up[m - 1]
    <2>1. d.symbol \in Symbols /\ d.weight \in Int
      BY DecisionAssumption DEF Decided, Named, n
    <2>2. px \in Prices /\ m \in 0 .. n /\ m - 1 \in 0 .. n /\ b \in Books(known)
      BY <1>1, <2>1
    <2>3. up[m] = Towards(b, d, nav, known, px)
      BY <1>1
    <2> HIDE DEF d, px, b
    <2>4. /\ \A t \in Symbols \ {d.symbol} : Qty(up[m].held, t) = Qty(b.held, t)
          /\ d.symbol \in known \/ Qty(b.held, d.symbol) = 0
               => Qty(up[m].held, d.symbol) = Goal(d, nav, px)
      BY <2>1, <2>2, <2>3, TowardsIs
    <2>5. Same(m - 1) /\ Met(m - 1)
      BY <1>3
    <2>6. ASSUME NEW s \in Symbols, Untouched(decisions, m, s)
          PROVE  Qty(up[m].held, s) = Qty(book.held, s)
      <3>1. s # d.symbol /\ Untouched(decisions, m - 1, s)
        BY <1>1, <2>6 DEF Untouched, d
      <3> QED BY <2>4, <2>5, <3>1 DEF b
    <2>7. ASSUME NEW i \in 1 .. m PROVE AtTarget(up, decisions, nav, known, closes, i, m)
      <3>1. CASE i = m
        <4>1. ASSUME d.symbol \in known \/ Untouched(decisions, m - 1, d.symbol)
              PROVE  Qty(up[m].held, d.symbol) = Goal(d, nav, px)
          <5>1. ASSUME d.symbol \notin known PROVE Qty(b.held, d.symbol) = 0
            <6>1. Qty(b.held, d.symbol) = Qty(book.held, d.symbol)
              BY <2>1, <2>5, <4>1, <5>1 DEF b
            <6> QED BY <5>1, <6>1 DEF Qty
          <5> QED BY <2>4, <5>1
        <4> QED BY <3>1, <4>1 DEF AtTarget, d, px
      <3>2. CASE i # m
        <4> DEFINE e == decisions[i]
        <4>1. i \in 1 .. m - 1
          BY <3>2
        <4>2. ASSUME \A j \in i + 1 .. m : decisions[j].symbol # e.symbol,
                     e.symbol \in known \/ Untouched(decisions, i - 1, e.symbol)
              PROVE  Qty(up[m].held, e.symbol) = Goal(e, nav, closes[e.symbol])
          <5>1. d.symbol # e.symbol
            BY <4>1, <4>2 DEF d
          <5>2. \A j \in i + 1 .. m - 1 : decisions[j].symbol # e.symbol
            BY <4>1, <4>2
          <5>3. AtTarget(up, decisions, nav, known, closes, i, m - 1)
            BY <2>5, <4>1
          <5>4. Qty(b.held, e.symbol) = Goal(e, nav, closes[e.symbol])
            BY <4>2, <5>2, <5>3 DEF AtTarget, b
          <5>5. e.symbol \in Symbols
            BY <1>1, <4>1 DEF Decided, Named, n
          <5> QED BY <2>4, <5>1, <5>4, <5>5
        <4> QED BY <4>2 DEF AtTarget
      <3> QED BY <3>1, <3>2
    <2> QED BY <2>2, <2>6, <2>7
  <1>4. 0 .. n \subseteq P
    <2> HIDE DEF P
    <2> QED BY <1>1, <1>2, <1>3, ByPosition
  <1>5. n \in 0 .. n /\ k \in 1 .. n
    BY <1>1 DEF n
  <1>6. Met(n)
    BY <1>4, <1>5
  <1> QED BY <1>5, <1>6 DEF n

-------------------------------------------------------------------------------
(* The inductive invariant.                                                *)

\* The bars are aligned.
BarsInv ==
  /\ bars \in [Symbols -> Seq(Bars)]
  /\ \A s \in Symbols : Len(bars[s]) = Len(bars[Listed[1]]) /\ Len(bars[s]) <= MaxBars

Book == [cash |-> cash, held |-> held, trades |-> trades]

IInv ==
  /\ setup \in Setups /\ BarsInv /\ Book \in Books(DOMAIN held)
  /\ Decided(last.decisions)

LEMMA PricesArePositive ==
  ASSUME NEW p \in Prices
  PROVE  p \in Nat \ {0} /\ p \in Int
  BY ExecutionAssumption

LEMMA SymbolsListed ==
  /\ Len(Listed) \in Nat \ {0} /\ DOMAIN Listed = 1 .. Len(Listed)
  /\ \A k \in 1 .. Len(Listed) : Listed[k] \in Symbols
  BY BacktestAssumption

LEMMA IInvInit == Init => IInv
  <1> SUFFICES ASSUME Init PROVE IInv
    OBVIOUS
  <1>1. setup \in Setups
    BY DEF Init
  <1>2. BarsInv
    <2>1. bars = [s \in Symbols |-> <<>>] /\ Listed[1] \in Symbols /\ MaxBars \in Nat
      BY SymbolsListed, BacktestAssumption DEF Init
    <2> QED BY <2>1 DEF BarsInv
  <1>3. Book \in Books(DOMAIN held)
    <2>1. /\ Book = [cash |-> StartingCash, held |-> <<>>, trades |-> <<>>] /\ held = <<>>
          /\ StartingCash \in Int
      BY BacktestAssumption DEF Init, Book
    <2>2. <<>> \in Positions
      <3>1. <<>> \in [{} -> Int]
        OBVIOUS
      <3> QED BY <3>1 DEF Positions
    <2>3. PaidBy(<<>>) = <<>> /\ \A s : MovedBy(<<>>, s) = <<>> /\ Qty(<<>>, s) = 0
      BY DEF PaidBy, MovedBy, Qty
    <2>4. Balanced(Book)
      BY <2>1, <2>3, TallyEmpty DEF Balanced
    <2> QED BY <2>1, <2>2, <2>4 DEF Books
  <1>4. Decided(last.decisions)
    BY DEF Init, NoBar, Decided, Named
  <1> QED BY <1>1, <1>2, <1>3, <1>4 DEF IInv

\* A bar keeps the series aligned; its close is the symbol's price.
LEMMA AdvanceFacts ==
  ASSUME BarsInv, setup \in Setups, NEW closes \in [Symbols -> Prices], Advance(closes)
  PROVE  /\ BarsInv' /\ setup' = setup
         /\ \A s \in Symbols : PriceOf(bars', s) = closes[s]
  <1> DEFINE n == Len(bars[Listed[1]])
             Bar(s) == [ts |-> setup.calendar[n + 1], high |-> closes[s], low |-> closes[s],
                        close |-> closes[s]]
  <1>1. n < MaxBars /\ setup' = setup /\ Listed[1] \in Symbols
    BY SymbolsListed DEF Advance
  <1>2. /\ bars \in [Symbols -> Seq(Bars)]
        /\ \A s \in Symbols : Len(bars[s]) = n
    BY DEF BarsInv
  <1>3. n \in Nat /\ MaxBars \in Nat /\ setup.calendar[n + 1] \in Nat
    <2>1. n \in Nat /\ MaxBars \in Nat
      BY <1>1, <1>2, BacktestAssumption
    <2>2. setup.calendar \in Seq(Nat) /\ Len(setup.calendar) >= MaxBars
      BY BacktestAssumption
    <2>3. n + 1 \in 1 .. Len(setup.calendar)
      BY <1>1, <2>1, <2>2
    <2> QED BY <2>1, <2>2, <2>3
  <1>4. bars' = [s \in Symbols |-> Append(bars[s], Bar(s))]
    BY <1>2 DEF Advance
  <1>5. \A s \in Symbols : Bar(s) \in Bars /\ Bar(s).close = closes[s]
    BY <1>3 DEF Bars
  <1> HIDE DEF n, Bar
  <1>6. ASSUME NEW s \in Symbols
        PROVE  /\ bars'[s] \in Seq(Bars) /\ Len(bars'[s]) = n + 1
               /\ bars'[s][n + 1] = Bar(s)
               /\ \A k \in 1 .. n : bars'[s][k] = bars[s][k]
    <2>1. bars'[s] = Append(bars[s], Bar(s)) /\ bars[s] \in Seq(Bars) /\ Bar(s) \in Bars
      BY <1>2, <1>4, <1>5
    <2> QED BY <1>2, <1>3, <2>1
  <1>7. bars' \in [Symbols -> Seq(Bars)]
    BY <1>4, <1>6
  <1>9. BarsInv'
    BY <1>1, <1>3, <1>6, <1>7 DEF BarsInv
  <1>10. \A s \in Symbols : PriceOf(bars', s) = closes[s]
    BY <1>5, <1>6 DEF PriceOf, Last
  <1> QED BY <1>1, <1>9, <1>10

LEMMA NavType ==
  ASSUME IInv, NEW series, \A s \in Symbols : PriceOf(series, s) \in Prices
  PROVE  Nav(series) \in Int
  <1> DEFINE xs == [k \in DOMAIN Listed |-> Qty(held, Listed[k]) * PriceOf(series, Listed[k])]
  <1>1. cash \in Int /\ held \in Positions
    BY DEF IInv, Books, Book
  <1>2. ASSUME NEW k \in DOMAIN Listed PROVE xs[k] \in Int
    <2>1. Qty(held, Listed[k]) \in Int
      BY <1>1, QtyType
    <2>2. PriceOf(series, Listed[k]) \in Prices
      BY SymbolsListed
    <2>3. PriceOf(series, Listed[k]) \in Int
      BY <2>2, PricesArePositive
    <2> QED BY <2>1, <2>3
  <1>3. Len(xs) = Len(Listed) /\ Len(xs) \in Nat /\ DOMAIN Listed = 1 .. Len(xs)
    BY SymbolsListed
  <1>4. Tally(xs) \in Int
    <2> HIDE DEF xs
    <2> QED BY <1>2, <1>3, TallyType
  <1> QED BY <1>1, <1>4 DEF Nav

\* What a bar with signals does.
LEMMA TradeFacts ==
  ASSUME IInv, NEW closes \in [Symbols -> Prices], Trade(closes)
  PROVE  \E up :
           LET decisions == last'.decisions
               nav == last'.nav
           IN /\ Decided(decisions) /\ nav \in Int /\ last'.known = DOMAIN held
              /\ Worksheet(up, Book, decisions, nav, DOMAIN held, closes)
              /\ Book' = up[Len(decisions)]
  <1> DEFINE decisions == DecisionsOn(Signals(bars', Context))
             nav == Nav(bars')
             known == DOMAIN held
  <1>1. /\ last' = [nav |-> nav, known |-> known, decisions |-> decisions]
        /\ cash' = Worked(Book, decisions, nav, known, closes).cash
        /\ held' = Worked(Book, decisions, nav, known, closes).held
        /\ trades' = Worked(Book, decisions, nav, known, closes).trades
        /\ Advance(closes)
    BY DEF Trade, Book
  <1>2. /\ BarsInv' /\ \A s \in Symbols : PriceOf(bars', s) = closes[s]
        /\ \A s \in Symbols : PriceOf(bars', s) \in Prices
    BY <1>1, AdvanceFacts DEF IInv
  <1>3. Decided(decisions)
    <2>1. bars' \in [Symbols -> Seq(Bars)] /\ setup \in Setups
      BY <1>2 DEF BarsInv, IInv
    <2> QED BY <2>1, SignalsNamed, DecisionsDecided
  <1>4. nav \in Int
    BY <1>2, NavType
  <1>5. Book \in Books(known)
    BY DEF IInv
  <1> HIDE DEF decisions, nav, known
  <1>6. PICK up : /\ Worksheet(up, Book, decisions, nav, known, closes)
                  /\ Worked(Book, decisions, nav, known, closes) = up[Len(decisions)]
    BY <1>3, <1>4, <1>5, WorkedIs
  <1>7. up[Len(decisions)] \in Books(known)
    BY <1>3, <1>6 DEF Worksheet, Decided, Named
  <1>8. Book' = up[Len(decisions)]
    <2> DEFINE b == up[Len(decisions)]
    <2>1. b = [cash |-> b.cash, held |-> b.held, trades |-> b.trades]
      BY <1>7 DEF Books
    <2>2. Book' = [cash |-> cash', held |-> held', trades |-> trades']
      BY DEF Book
    <2> QED BY <1>1, <1>6, <2>1, <2>2
  <1>9. last'.decisions = decisions /\ last'.nav = nav /\ last'.known = known
    BY <1>1
  <1> QED BY <1>3, <1>4, <1>6, <1>8, <1>9 DEF known

LEMMA IInvStep == IInv /\ [Next]_vars => IInv'
  <1> SUFFICES ASSUME IInv, [Next]_vars PROVE IInv'
    OBVIOUS
  <1>1. ASSUME NEW closes \in [Symbols -> Prices], Quiet(closes) PROVE IInv'
    <2>1. /\ Advance(closes) /\ UNCHANGED <<cash, held, trades>>
          /\ last'.decisions = <<>>
      BY <1>1 DEF Quiet
    <2>2. BarsInv' /\ setup' = setup
      BY <2>1, AdvanceFacts DEF IInv
    <2>3. Book' = Book /\ (DOMAIN held)' = DOMAIN held
      BY <2>1 DEF Book
    <2>4. Decided(<<>>)
      BY DEF Decided, Named
    <2> QED BY <2>1, <2>2, <2>3, <2>4 DEF IInv
  <1>2. ASSUME NEW closes \in [Symbols -> Prices], Trade(closes) PROVE IInv'
    <2>1. BarsInv' /\ setup' = setup
      BY <1>2, AdvanceFacts DEF IInv, Trade
    <2>2. Decided(last'.decisions) /\ Book' \in Books(DOMAIN held)
      <3>1. PICK up :
              LET decisions == last'.decisions
                  nav == last'.nav
              IN /\ Decided(decisions) /\ nav \in Int /\ last'.known = DOMAIN held
                 /\ Worksheet(up, Book, decisions, nav, DOMAIN held, closes)
                 /\ Book' = up[Len(decisions)]
        BY <1>2, TradeFacts
      <3> QED BY <3>1 DEF Worksheet, Decided, Named
    <2>3. Book' \in Books(DOMAIN held')
      <3>1. Book'.held = held'
        BY DEF Book
      <3> QED BY <2>2, <3>1 DEF Books
    <2> QED BY <2>1, <2>2, <2>3 DEF IInv
  <1>3. CASE UNCHANGED vars
    <2>1. Book' = Book
      BY <1>3 DEF vars, Book
    <2> QED BY <1>3, <2>1 DEF vars, IInv, BarsInv
  <1> QED BY <1>1, <1>2, <1>3 DEF Next

LEMMA IInvAlways == Spec => []IInv
  BY IInvInit, IInvStep, PTL DEF Spec

-------------------------------------------------------------------------------
(* Types, trades and targets.                                              *)

\* Every variable of the backtest keeps its type, the book names only symbols there are
\* bars of, and no sizer, capped or not, hands out more than its largest weight.
THEOREM TypeCorrect == Spec => []TypeOK
  <1>1. ASSUME IInv PROVE TypeOK
    <2>1. \A s \in Symbols : Len(bars[s]) <= MaxBars
      BY <1>1 DEF IInv, BarsInv
    <2>2. cash \in Int /\ held \in Positions /\ trades \in Seq(Fills)
      BY <1>1 DEF IInv, Book, Books
    <2>3. DOMAIN held \subseteq Symbols /\ \A s \in DOMAIN held : held[s] \in Int
      BY <2>2 DEF Positions
    <2>4. ASSUME NEW k \in DOMAIN trades PROVE trades[k].symbol \in Symbols /\ trades[k].qty > 0
      <3>1. trades[k] \in Fills
        BY <2>2
      <3> QED BY <3>1 DEF Fills
    <2>5. \A k \in DOMAIN last.decisions : last.decisions[k].weight \in -SizerMax .. SizerMax
      BY <1>1 DEF IInv, Decided, Named
    <2> QED BY <1>1, <2>1, <2>2, <2>3, <2>4, <2>5 DEF TypeOK, IInv
  <1> QED BY <1>1, IInvAlways, PTL

\* The trades of a result account for its cash and every position, for any number of
\* bars, of decisions in a bar and of decisions on one symbol (backtest_simple).
THEOREM TradesAreTheBook == Spec => []TradesAccountForBook
  <1>1. ASSUME IInv PROVE TradesAccountForBook
    <2>1. Balanced(Book)
      BY <1>1 DEF IInv, Books
    <2> QED BY <2>1 DEF Balanced, Book, TradesAccountForBook, PaidBy, MovedBy, Moved
  <1> QED BY <1>1, IInvAlways, PTL

LEMMA MaxOfPositions ==
  ASSUME NEW n \in Nat, NEW S \in SUBSET (1 .. n), S # {}
  PROVE  \A j \in S : j <= Max(S)
  <1> DEFINE D == {n - j : j \in S}
  <1>1. D \in SUBSET Nat /\ D # {}
    <2>1. \A j \in S : n - j \in Nat
      OBVIOUS
    <2> QED BY <2>1
  <1>2. PICK m \in D : \A i \in D : m <= i
    <2> HIDE DEF D
    <2> QED BY <1>1, LeastNumber
  <1>3. PICK k \in S : m = n - k
    BY <1>2
  <1>4. \A j \in S : k >= j
    <2>1. ASSUME NEW j \in S PROVE k >= j
      <3>1. n - k <= n - j
        BY <1>2, <1>3
      <3> QED BY <3>1
    <2> QED BY <2>1
  <1>5. Max(S) \in S /\ \A j \in S : Max(S) >= j
    BY <1>3, <1>4 DEF Max
  <1> QED BY <1>5

\* A symbol decided on is on its target after the bar, whatever the strategy, the prices,
\* the costs and the book before, and however often the bar decided on it.
THEOREM TargetsAreMet == Spec => []OnTarget
  <1>1. Init => OnTarget
    BY DEF Init, NoBar, OnTarget
  <1>2. IInv /\ OnTarget /\ [Next]_vars => OnTarget'
    <2> SUFFICES ASSUME IInv, OnTarget, [Next]_vars PROVE OnTarget'
      OBVIOUS
    <2>1. ASSUME NEW closes \in [Symbols -> Prices], Quiet(closes) PROVE OnTarget'
      BY <2>1 DEF Quiet, OnTarget
    <2>2. ASSUME NEW closes \in [Symbols -> Prices], Trade(closes) PROVE OnTarget'
      <3> DEFINE ds == last'.decisions
                 nav == last'.nav
      <3>1. PICK up :
              LET decisions == last'.decisions
              IN /\ Decided(decisions) /\ nav \in Int /\ last'.known = DOMAIN held
                 /\ Worksheet(up, Book, decisions, nav, DOMAIN held, closes)
                 /\ Book' = up[Len(decisions)]
        BY <2>2, TradeFacts
      <3>2. \A s \in Symbols : PriceOf(bars', s) = closes[s]
        BY <2>2, AdvanceFacts DEF IInv, Trade
      <3>3. Book \in Books(DOMAIN held) /\ DOMAIN held = DOMAIN Book.held
        BY DEF IInv, Book
      <3> DEFINE n == Len(ds)
      <3>4. /\ n \in Nat /\ DOMAIN ds = 1 .. n
            /\ \A k \in 1 .. n : ds[k].symbol \in Symbols /\ ds[k].weight \in Int
        BY <3>1, DecisionAssumption DEF Decided, Named
      <3>5. \A k \in 1 .. n : AtTarget(up, ds, nav, DOMAIN held, closes, k, n)
        BY <3>1, <3>3, TargetsMet
      <3>6. held' = up[n].held
        BY <3>1 DEF Book
      <3> HIDE DEF n
      <3>7. ASSUME NEW k \in 1 .. n,
                   k = Max({j \in 1 .. n : ds[j].symbol = ds[k].symbol}),
                   \/ ds[k].symbol \in DOMAIN held
                   \/ {j \in 1 .. n : ds[j].symbol = ds[k].symbol} = {k}
            PROVE  ds[k].weight * nav - Qty(held', ds[k].symbol) * (WeightUnit * closes[ds[k].symbol])
                     \in 0 .. WeightUnit * closes[ds[k].symbol] - 1
        <4> DEFINE s == ds[k].symbol
                   again == {j \in 1 .. n : ds[j].symbol = s}
                   px == closes[s]
                   a == ds[k].weight * nav
        <4>1. \A j \in again : j <= k
          <5>1. again \in SUBSET (1 .. n) /\ again # {} /\ k = Max(again)
            BY <3>7
          <5> HIDE DEF again
          <5> QED BY <3>4, <5>1, MaxOfPositions
        <4>2. \A j \in k + 1 .. n : ds[j].symbol # s
          <5>1. ASSUME NEW j \in k + 1 .. n PROVE j \in 1 .. n /\ ~(j <= k)
            BY <3>4
          <5> QED BY <4>1, <5>1
        <4>3. s \in DOMAIN held \/ Untouched(ds, k - 1, s)
          <5>1. CASE s \in DOMAIN held
            BY <5>1
          <5>2. CASE again = {k}
            <6>1. ASSUME NEW j \in 1 .. k - 1 PROVE j \in 1 .. n /\ j # k
              BY <3>4
            <6> QED BY <5>2, <6>1 DEF Untouched
          <5> QED BY <3>7, <5>1, <5>2
        <4>4. Qty(held', s) = (a \div WeightUnit) \div px
          BY <3>5, <3>6, <4>2, <4>3 DEF AtTarget, Goal
        <4>5. a \in Int /\ WeightUnit \in Nat \ {0} /\ px \in Nat \ {0}
          <5>1. ds[k].weight \in Int /\ px \in Prices
            BY <3>4
          <5>2. a \in Int
            <6>1. nav \in Int
              BY <3>1
            <6> HIDE DEF nav
            <6> QED BY <5>1, <6>1
          <5> HIDE DEF a, px
          <5> QED BY <5>1, <5>2, PricesArePositive, DecisionAssumption
        <4> HIDE DEF a, px
        <4>6. a - ((a \div WeightUnit) \div px) * (WeightUnit * px) \in 0 .. WeightUnit * px - 1
          BY <4>5, QuotientTwice
        <4> QED BY <4>4, <4>6 DEF a, px
      <3>8. ASSUME NEW k \in DOMAIN ds,
                   k = Max({j \in DOMAIN ds : ds[j].symbol = ds[k].symbol}),
                   \/ ds[k].symbol \in last'.known
                   \/ {j \in DOMAIN ds : ds[j].symbol = ds[k].symbol} = {k}
            PROVE  ds[k].weight * last'.nav
                     - Qty(held', ds[k].symbol) * (WeightUnit * PriceOf(bars', ds[k].symbol))
                     \in 0 .. WeightUnit * PriceOf(bars', ds[k].symbol) - 1
        <4>1. PriceOf(bars', ds[k].symbol) = closes[ds[k].symbol]
          BY <3>2, <3>4
        <4>2. last'.known = DOMAIN held /\ last'.nav = nav
          BY <3>1
        <4> HIDE DEF ds
        <4> QED BY <3>4, <3>7, <3>8, <4>1, <4>2
      <3> QED BY <3>8 DEF OnTarget
    <2>3. CASE UNCHANGED vars
      BY <2>3 DEF vars, OnTarget, PriceOf
    <2> QED BY <2>1, <2>2, <2>3 DEF Next
  <1> QED BY <1>1, <1>2, IInvAlways, PTL DEF Spec

-------------------------------------------------------------------------------
(* Parity with live.                                                       *)

\* What the runner hands out of a window is an end of it, however the times of the
\* bars are spread.
LEMMA FetchedIs ==
  ASSUME NEW w \in Seq(Bars)
  PROVE  \E m \in 0 .. Len(w) : Fetched(w) = LastOf(w, m)
  <1> DEFINE late == {k \in DOMAIN w : w[k].ts + LiveSpan >= Last(w).ts + LiveDelay}
  <1>1. Fetched(w) = LastOf(w, Cardinality(late))
    BY DEF Fetched
  <1>2. DOMAIN w = 1 .. Len(w) /\ Len(w) \in Nat
    OBVIOUS
  <1>3. IsFiniteSet(1 .. Len(w)) /\ Cardinality(1 .. Len(w)) = Len(w)
    BY <1>2, FS_Interval
  <1>4. late \subseteq 1 .. Len(w)
    BY <1>2
  <1> HIDE DEF late
  <1>5. IsFiniteSet(late) /\ Cardinality(late) <= Len(w)
    BY <1>3, <1>4, FS_Subset
  <1>6. Cardinality(late) \in Nat
    BY <1>5, FS_CardinalityType
  <1> QED BY <1>1, <1>2, <1>5, <1>6

LEMMA CutIs ==
  ASSUME NEW w \in Seq(Bars)
  PROVE  /\ Len(w) \in Nat /\ DOMAIN w = 1 .. Len(w)
         /\ Fetched(w) \in Seq(Bars)
         /\ Len(Fetched(w)) \in 0 .. Len(w)
         /\ \A k \in 1 .. Len(Fetched(w)) : Fetched(w)[k] = w[Len(w) - Len(Fetched(w)) + k]
  <1>1. PICK m \in 0 .. Len(w) : Fetched(w) = LastOf(w, m)
    BY FetchedIs
  <1>2. Fetched(w) = SubSeq(w, Len(w) - m + 1, Len(w))
    BY <1>1 DEF LastOf
  <1>3. /\ Len(Fetched(w)) = m /\ \A k \in 1 .. m : Fetched(w)[k] = w[Len(w) - m + k]
    BY <1>2
  <1>4. Fetched(w) \in Seq(Bars)
    BY <1>2
  <1> QED BY <1>3, <1>4

\* The last n bars of what is handed out are the last n bars.
LEMMA CutLast ==
  ASSUME NEW w \in Seq(Bars), NEW n \in Nat, n <= Len(Fetched(w))
  PROVE  LastOf(Fetched(w), n) = LastOf(w, n)
  <1> DEFINE c == Fetched(w)
             a == LastOf(c, n)
             b == LastOf(w, n)
  <1>1. /\ Len(w) \in Nat /\ Len(c) \in Nat /\ Len(c) <= Len(w)
        /\ \A k \in 1 .. Len(c) : c[k] = w[Len(w) - Len(c) + k]
    BY CutIs
  <1> HIDE DEF c
  <1>2. a = [k \in 1 .. n |-> c[Len(c) - n + k]]
    BY <1>1 DEF LastOf, c
  <1>3. b = [k \in 1 .. n |-> w[Len(w) - n + k]]
    BY <1>1 DEF LastOf, c
  <1>4. ASSUME NEW k \in 1 .. n PROVE c[Len(c) - n + k] = w[Len(w) - n + k]
    <2>1. Len(c) - n + k \in 1 .. Len(c)
      BY <1>1 DEF c
    <2>2. Len(w) - Len(c) + (Len(c) - n + k) = Len(w) - n + k
      BY <1>1
    <2> QED BY <1>1, <2>1, <2>2
  <1> QED BY <1>2, <1>3, <1>4 DEF c

LEMMA SmaParity ==
  ASSUME NEW w \in Seq(Bars), Slow <= Len(Fetched(w))
  PROVE  Sma(Fetched(w)) = Sma(w)
  <1>1. Slow \in Nat /\ Fast \in Nat /\ Fast <= Slow
    BY StrategyAssumption
  <1>2. Len(w) \in Nat /\ Len(Fetched(w)) \in Nat /\ Slow <= Len(w)
    BY <1>1, CutIs
  <1>3. LastOf(Fetched(w), Fast) = LastOf(w, Fast) /\ LastOf(Fetched(w), Slow) = LastOf(w, Slow)
    BY <1>1, <1>2, CutLast
  <1> QED BY <1>1, <1>2, <1>3 DEF Sma

LEMMA DonchianParity ==
  ASSUME NEW w \in Seq(Bars), Max({Slow, AtrWindow}) + 1 <= Len(Fetched(w))
  PROVE  Donchian(Fetched(w)) = Donchian(w)
  <1>1. Slow \in Nat /\ Fast \in Nat /\ AtrWindow \in Nat /\ Fast <= Slow
    BY StrategyAssumption
  <1>2. Len(w) \in Nat /\ Len(Fetched(w)) \in Nat /\ Len(Fetched(w)) <= Len(w)
    BY CutIs
  <1>3. Slow + 1 <= Len(Fetched(w)) /\ AtrWindow + 1 <= Len(Fetched(w))
    <2>1. Max({Slow, AtrWindow}) = IF Slow <= AtrWindow THEN AtrWindow ELSE Slow
      BY <1>1, MaxOfTwo
    <2> QED BY <1>1, <1>2, <2>1
  <1>4. Fast <= Len(Fetched(w))
    BY <1>1, <1>2, <1>3
  <1>5. LastOf(Fetched(w), Fast) = LastOf(w, Fast)
    BY <1>1, <1>4, CutLast
  <1>6. LastOf(Fetched(w), AtrWindow + 1) = LastOf(w, AtrWindow + 1)
    BY <1>1, <1>3, CutLast
  <1>7. /\ ~(Len(w) < Slow + 1 \/ Len(w) < AtrWindow + 1)
        /\ ~(Len(Fetched(w)) < Slow + 1 \/ Len(Fetched(w)) < AtrWindow + 1)
    BY <1>1, <1>2, <1>3
  <1> QED BY <1>5, <1>6, <1>7 DEF Donchian

LEMMA BollingerParity ==
  ASSUME NEW w \in Seq(Bars), BandWindow + 1 <= Len(Fetched(w))
  PROVE  Bollinger(Fetched(w)) = Bollinger(w)
  <1>1. BandWindow \in Nat
    BY StrategyAssumption
  <1>2. Len(w) \in Nat /\ Len(Fetched(w)) \in Nat /\ Len(Fetched(w)) <= Len(w)
    BY CutIs
  <1>3. LastOf(Fetched(w), BandWindow) = LastOf(w, BandWindow)
    BY <1>1, <1>2, CutLast
  <1> QED BY <1>1, <1>2, <1>3 DEF Bollinger

\* The prompt has the last closes only.
LEMMA PromptParity ==
  ASSUME NEW series \in [Symbols -> Seq(Bars)], NEW cut, NEW headlines,
         cut = [s \in Symbols |-> Fetched(series[s])],
         \A s \in Symbols : Len(cut[s]) >= NewsCloses
  PROVE  Prompt(cut, headlines) = Prompt(series, headlines)
  <1> DEFINE Asked(x, s) == LastOf(x[s], Min({Len(x[s]), NewsCloses}))
  <1>1. ASSUME NEW s \in Symbols PROVE Asked(cut, s) = Asked(series, s)
    <2> DEFINE n == Len(series[s])
               m == Len(Fetched(series[s]))
    <2>1. /\ cut[s] = Fetched(series[s]) /\ series[s] \in Seq(Bars) /\ NewsCloses \in Nat
      BY StrategyAssumption
    <2>2. n \in Nat /\ m \in Nat /\ m <= n /\ NewsCloses <= m
      BY <2>1, CutIs
    <2>3. Min({m, NewsCloses}) = NewsCloses /\ Min({n, NewsCloses}) = NewsCloses
      <3> HIDE DEF m, n
      <3>1. /\ Min({m, NewsCloses}) = (IF m <= NewsCloses THEN m ELSE NewsCloses)
            /\ Min({n, NewsCloses}) = (IF n <= NewsCloses THEN n ELSE NewsCloses)
        BY <2>1, <2>2, MinOfTwo
      <3> QED BY <2>1, <2>2, <3>1
    <2>4. LastOf(Fetched(series[s]), NewsCloses) = LastOf(series[s], NewsCloses)
      BY <2>1, <2>2, CutLast
    <2> QED BY <2>1, <2>3, <2>4
  <1>2. DOMAIN cut = Symbols /\ DOMAIN series = Symbols
    OBVIOUS
  <1>3. \A x : Prompt(x, headlines) = [s \in DOMAIN x \cap headlines |-> Closes(Asked(x, s))]
    BY DEF Prompt
  <1> HIDE DEF Asked
  <1>4. [s \in Symbols \cap headlines |-> Closes(Asked(cut, s))]
          = [s \in Symbols \cap headlines |-> Closes(Asked(series, s))]
    BY <1>1
  <1> QED BY <1>2, <1>3, <1>4

\* The bars before the last ones that a strategy of several symbols looks at.
LEMMA CutPairs ==
  ASSUME NEW wa \in Seq(Bars), NEW wb \in Seq(Bars), NEW pair,
         Lookback <= Len(Fetched(wa)), Lookback <= Len(Fetched(wb))
  PROVE  Pairs(Fetched(wa), Fetched(wb), pair) = Pairs(wa, wb, pair)
  <1>1. Lookback \in Nat
    BY StrategyAssumption
  <1>2. /\ Len(wa) \in Nat /\ Len(Fetched(wa)) \in Nat
        /\ Len(wb) \in Nat /\ Len(Fetched(wb)) \in Nat
        /\ Lookback <= Len(wa) /\ Lookback <= Len(wb)
    <2>1. ASSUME NEW w \in Seq(Bars), Lookback <= Len(Fetched(w))
          PROVE  Len(w) \in Nat /\ Len(Fetched(w)) \in Nat /\ Lookback <= Len(w)
      <3>1. Len(w) \in Nat /\ Len(Fetched(w)) \in 0 .. Len(w)
        BY CutIs
      <3> QED BY <1>1, <2>1, <3>1
    <2> QED BY <2>1
  <1>3. ASSUME NEW w \in {wa, wb}
        PROVE  LastOf(Fetched(w), Lookback) = LastOf(w, Lookback)
    <2>1. w \in Seq(Bars) /\ Lookback <= Len(Fetched(w))
      OBVIOUS
    <2> QED BY <1>1, <2>1, CutLast
  <1>4. /\ LastOf(Fetched(wa), Lookback) = LastOf(wa, Lookback)
        /\ LastOf(Fetched(wb), Lookback) = LastOf(wb, Lookback)
    BY <1>3
  <1>5. /\ ~(Len(wa) < Lookback) /\ ~(Len(wb) < Lookback)
        /\ ~(Len(Fetched(wa)) < Lookback) /\ ~(Len(Fetched(wb)) < Lookback)
    BY <1>1, <1>2
  <1> QED BY <1>4, <1>5 DEF Pairs

LEMMA CutMomentum ==
  ASSUME NEW series \in [Symbols -> Seq(Bars)], NEW cut,
         cut = [s \in Symbols |-> Fetched(series[s])],
         \A s \in Symbols : Len(cut[s]) >= Need
  PROVE  XsMomentum(cut, Listed) = XsMomentum(series, Listed)
  <1> DEFINE Enough(x) == {s \in DOMAIN x : Len(x[s]) >= Need}
             Recent(x) == [s \in Enough(x) |-> LastOf(x[s], Need)]
  <1>1. Need \in Nat
    BY StrategyAssumption DEF Need
  <1>2. ASSUME NEW s \in Symbols
        PROVE  /\ Len(cut[s]) >= Need <=> Len(series[s]) >= Need
               /\ Len(series[s]) >= Need => LastOf(cut[s], Need) = LastOf(series[s], Need)
    <2>1. cut[s] = Fetched(series[s]) /\ series[s] \in Seq(Bars)
      OBVIOUS
    <2>2. Len(series[s]) \in Nat /\ Len(Fetched(series[s])) \in Nat
      BY <2>1, CutIs
    <2>3. Need <= Len(Fetched(series[s])) /\ Need <= Len(series[s])
      BY <1>1, <2>1, <2>2, CutIs
    <2>4. Need <= Len(Fetched(series[s])) => LastOf(Fetched(series[s]), Need) = LastOf(series[s], Need)
      BY <1>1, <2>1, CutLast
    <2> QED BY <1>1, <2>1, <2>2, <2>3, <2>4
  <1>3. DOMAIN cut = Symbols /\ DOMAIN series = Symbols
    OBVIOUS
  <1>4. Enough(cut) = Enough(series)
    BY <1>2, <1>3
  <1>5. Recent(cut) = Recent(series)
    BY <1>2, <1>3, <1>4
  <1>6. \A x : XsMomentum(x, Listed) =
          Extremes(Ranked(Kept(Listed, {k \in DOMAIN Listed : Listed[k] \in Enough(x)}), Recent(x)))
    BY DEF XsMomentum
  <1> HIDE DEF Enough, Recent
  <1> QED BY <1>4, <1>5, <1>6

LEMMA ParityHere ==
  ASSUME IInv
  PROVE  LiveParity
  <1> DEFINE cut == LiveWindow
             need == Needs[setup.strategy]
  <1>1. SUFFICES ASSUME setup.strategy \notin {"pead_drift", "news_embed"},
                        \A s \in Symbols : Len(cut[s]) >= need
                 PROVE  Signals(bars, Context) = Signals(cut, LiveContext)
    BY DEF LiveParity
  <1>2. setup \in Setups /\ bars \in [Symbols -> Seq(Bars)]
    BY DEF IInv, BarsInv
  <1>3. setup.strategy \in DOMAIN Needs /\ setup.pair.a \in Symbols /\ setup.pair.b \in Symbols
    BY <1>2, BacktestAssumption
  <1>4. cut = [s \in Symbols |-> Fetched(bars[s])]
    BY DEF LiveWindow
  <1>5. /\ DOMAIN cut = Symbols /\ DOMAIN bars = Symbols
        /\ \A s \in Symbols : /\ cut[s] = Fetched(bars[s]) /\ bars[s] \in Seq(Bars)
                             /\ Len(cut[s]) \in Nat
    BY <1>2, <1>4, CutIs
  <1> HIDE DEF cut
  <1>6. CASE setup.strategy = "sma_crossover"
    <2>1. \A s \in Symbols : Slow <= Len(Fetched(bars[s]))
      BY <1>1, <1>5, <1>6, StrategyAssumption DEF Needs
    <2>2. \A s \in Symbols : Sma(cut[s]) = Sma(bars[s])
      BY <1>5, <2>1, SmaParity
    <2>3. \A x, c : Signals(x, c) = ForEach(Listed, [s \in Symbols |-> Sma(x[s])])
      BY <1>6 DEF Signals
    <2> QED BY <2>2, <2>3
  <1>7. CASE setup.strategy = "donchian_breakout"
    <2>1. \A s \in Symbols : Max({Slow, AtrWindow}) + 1 <= Len(Fetched(bars[s]))
      <3>1. need = Max({Slow, AtrWindow}) + 1
        BY <1>7 DEF Needs
      <3>2. Max({Slow, AtrWindow}) \in Nat
        <4>1. Slow \in Nat /\ AtrWindow \in Nat
          BY StrategyAssumption
        <4>2. Max({Slow, AtrWindow}) = IF Slow <= AtrWindow THEN AtrWindow ELSE Slow
          BY <4>1, MaxOfTwo
        <4> QED BY <4>1, <4>2
      <3> QED BY <1>1, <1>5, <3>1, <3>2
    <2>2. \A s \in Symbols : Donchian(cut[s]) = Donchian(bars[s])
      BY <1>5, <2>1, DonchianParity
    <2>3. \A x, c : Signals(x, c) = ForEach(Listed, [s \in Symbols |-> Donchian(x[s])])
      BY <1>7 DEF Signals
    <2> QED BY <2>2, <2>3
  <1>8. CASE setup.strategy = "bollinger_meanrev"
    <2>1. \A s \in Symbols : BandWindow + 1 <= Len(Fetched(bars[s]))
      BY <1>1, <1>5, <1>8, StrategyAssumption DEF Needs
    <2>2. \A s \in Symbols : Bollinger(cut[s]) = Bollinger(bars[s])
      BY <1>5, <2>1, BollingerParity
    <2>3. \A x, c : Signals(x, c) = ForEach(Listed, [s \in Symbols |-> Bollinger(x[s])])
      BY <1>8 DEF Signals
    <2> QED BY <2>2, <2>3
  <1>9. CASE setup.strategy = "pairs_zscore"
    <2>1. \A s \in Symbols : Lookback <= Len(Fetched(bars[s]))
      BY <1>1, <1>5, <1>9, StrategyAssumption DEF Needs
    <2>2. Pairs(cut[setup.pair.a], cut[setup.pair.b], setup.pair)
            = Pairs(bars[setup.pair.a], bars[setup.pair.b], setup.pair)
      BY <1>3, <1>5, <2>1, CutPairs
    <2>3. \A x, c : Signals(x, c) = Pairs(x[setup.pair.a], x[setup.pair.b], setup.pair)
      BY <1>9 DEF Signals
    <2> QED BY <2>2, <2>3
  <1>10. CASE setup.strategy = "xs_momentum"
    <2>1. \A s \in Symbols : Len(cut[s]) >= Need
      BY <1>1, <1>10 DEF Needs, Need
    <2>2. XsMomentum(cut, Listed) = XsMomentum(bars, Listed)
      BY <1>2, <1>4, <2>1, CutMomentum
    <2>3. \A x, c : Signals(x, c) = XsMomentum(x, Listed)
      BY <1>10 DEF Signals
    <2> QED BY <2>2, <2>3
  <1>11. CASE setup.strategy = "llm_news"
    <2>1. \A s \in Symbols : Len(cut[s]) >= NewsCloses
      BY <1>1, <1>11 DEF Needs
    <2>2. Prompt(cut, setup.headlines) = Prompt(bars, setup.headlines)
      BY <1>2, <1>4, <2>1, PromptParity
    <2>3. Context.headlines = setup.headlines /\ LiveContext.headlines = setup.headlines
      BY DEF Context, LiveContext
    <2>4. \A x, c : Signals(x, c) = LlmNews(x, c.headlines, setup.reply)
      BY <1>11 DEF Signals
    <2>5. LlmNews(cut, setup.headlines, setup.reply) = LlmNews(bars, setup.headlines, setup.reply)
      BY <1>5, <2>2 DEF LlmNews
    <2> QED BY <2>3, <2>4, <2>5
  <1>12. DOMAIN Needs = {"sma_crossover", "donchian_breakout", "bollinger_meanrev",
                         "pead_drift", "news_embed", "pairs_zscore", "xs_momentum", "llm_news"}
    BY DEF Needs
  <1> QED BY <1>1, <1>3, <1>6, <1>7, <1>8, <1>9, <1>10, <1>11, <1>12

\* On as many of the last bars as it looks back, however the live runner comes by them
\* and however the market's closed hours are spread, a strategy of prices or headlines
\* says what it says on all bars: for any windows, prices, calendars and replies.
THEOREM ParityWithLive == Spec => []LiveParity
  BY ParityHere, IInvAlways, PTL

===============================================================================
