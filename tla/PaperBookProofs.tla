---------------------------- MODULE PaperBookProofs ----------------------------
(***************************************************************************)
(* What PaperBroker and the tax ledgers guarantee for any symbols, sizes,  *)
(* prices, slippage and fee, and any number of orders.                     *)
(*                                                                         *)
(* Averages stay whole, because every price is a multiple of Scale.  With  *)
(* that, cash and positions at cost change together, order by order.  The  *)
(* lots are behind the position by the fills that wait: Drained lists what *)
(* they and their cost come to, fill by fill, until they are equal to it.  *)
(* Lots and tape are compared unit by unit: what the units held cost, as a *)
(* queue and as a stack, is what the lots of FIFO and LIFO have it cost.   *)
(***************************************************************************)
EXTENDS PaperBook, FiniteSetTheorems, NaturalsInduction, TLAPS

-------------------------------------------------------------------------------
(* Numbers and sums.                                                       *)

LEMMA LeastNumber ==
  ASSUME NEW S \in SUBSET Nat, S # {}
  PROVE  \E m \in S : \A n \in S : m <= n
  <1> DEFINE Less == {p \in Nat \X Nat : p[1] < p[2]}
  <1>1. IsWellFoundedOn(Less, Nat)
    BY NatLessThanWellFounded DEF OpToRel
  <1>2. \A m, n \in Nat : <<n, m>> \in Less <=> n < m
    OBVIOUS
  <1>3. PICK m \in S : \A n \in S : <<n, m>> \notin Less
    BY <1>1, WFMin, Zenon
  <1> HIDE DEF Less
  <1>4. ASSUME NEW n \in S PROVE m <= n
    <2>1. ~(n < m)
      BY <1>2, <1>3
    <2> QED BY <2>1
  <1> QED BY <1>4

\* Sets of integers with a bound have a least element, and a maximum.
LEMMA LeastIs ==
  ASSUME NEW S \in SUBSET Int, S # {}, NEW b \in Int, \A x \in S : b <= x
  PROVE  \E y \in S : \A x \in S : y <= x
  <1> DEFINE D == {n \in Nat : b + n \in S}
  <1>1. PICK x \in S : TRUE
    OBVIOUS
  <1>2. x - b \in Nat /\ b + (x - b) = x
    BY <1>1
  <1>3. D \in SUBSET Nat /\ D # {}
    BY <1>1, <1>2
  <1>4. PICK m \in D : \A n \in D : m <= n
    <2> HIDE DEF D
    <2> QED BY <1>3, LeastNumber
  <1>5. ASSUME NEW z \in S PROVE b + m <= z
    <2>1. z - b \in Nat /\ b + (z - b) = z
      OBVIOUS
    <2>2. z - b \in D
      BY <2>1
    <2> QED BY <1>4, <2>1, <2>2
  <1> QED BY <1>4, <1>5

LEMMA MaxIs ==
  ASSUME NEW S \in SUBSET Int, S # {}, NEW b \in Int, \A x \in S : x <= b
  PROVE  Max(S) \in S /\ \A x \in S : x <= Max(S)
  <1> DEFINE N == {n \in Int : -n \in S}
  <1>1. PICK x \in S : TRUE
    OBVIOUS
  <1>2. -x \in Int /\ -(-x) = x
    OBVIOUS
  <1>3. N \in SUBSET Int /\ N # {} /\ -b \in Int /\ \A n \in N : -b <= n
    BY <1>1, <1>2
  <1>4. PICK m \in N : \A n \in N : m <= n
    <2> HIDE DEF N
    <2> QED BY <1>3, LeastIs
  <1>5. ASSUME NEW z \in S PROVE -m >= z
    <2>1. -z \in Int /\ -(-z) = z
      OBVIOUS
    <2>2. -z \in N
      BY <2>1
    <2> QED BY <1>4, <2>2
  <1>6. \E y \in S : \A z \in S : y >= z
    BY <1>4, <1>5
  <1> QED BY <1>6 DEF Max

LEMMA MinOfTwo ==
  ASSUME NEW a \in Int, NEW b \in Int
  PROVE  Min({a, b}) = IF a <= b THEN a ELSE b
  BY DEF Min

\* Of the parts of a finite set some of which are in B, one has no other in B within it.
LEMMA SmallestSet ==
  ASSUME NEW D, IsFiniteSet(D), NEW B, B \subseteq SUBSET D, B # {}
  PROVE  \E T \in B : IsFiniteSet(T) /\ \A U \in B : U \subseteq T => U = T
  <1>1. B \subseteq FiniteSubsetsOf(D)
    BY FS_Subset DEF FiniteSubsetsOf
  <1>2. PICK T \in B : \A U \in B : <<U, T>> \notin StrictSubsetOrdering(D)
    BY <1>1, FS_StrictSubsetOrderingWellFounded, WFMin, Zenon
  <1>3. ASSUME NEW U \in B, U \subseteq T, U # T PROVE FALSE
    BY <1>2, <1>3 DEF StrictSubsetOrdering
  <1>4. IsFiniteSet(T)
    BY FS_Subset
  <1> QED BY <1>3, <1>4

Pick(s) == CHOOSE x \in s : TRUE

\* The sums over all parts of S, as the recursion of SumFunctionOnSet makes them.
Sums(f, S, it) ==
  it = [s \in SUBSET S |-> IF s = {} THEN 0 ELSE f[Pick(s)] + it[s \ {Pick(s)}]]

Sum(f, S) == (CHOOSE it : Sums(f, S, it))[S]

LEMMA SumIsLibrarys ==
  ASSUME NEW f, NEW S
  PROVE  SumFunctionOnSet(f, S) = Sum(f, S)
  BY DEF SumFunctionOnSet, FoldFunctionOnSet, MapThenFoldSet, Sum, Sums, Pick

\* The sums over the parts of two sets agree on what is part of both.
LEMMA SumsAgree ==
  ASSUME NEW f, NEW S, NEW T, NEW a, NEW b, Sums(f, S, a), Sums(f, T, b), IsFiniteSet(S),
         NEW u, u \subseteq S, u \subseteq T
  PROVE  a[u] = b[u]
  <1> DEFINE bad == {s \in SUBSET S : s \subseteq T /\ a[s] # b[s]}
  <1> SUFFICES ASSUME bad # {} PROVE FALSE
    OBVIOUS
  <1>1. bad \subseteq SUBSET S
    OBVIOUS
  <1>2. PICK s \in bad : IsFiniteSet(s) /\ \A t \in bad : t \subseteq s => t = s
    <2> HIDE DEF bad
    <2> QED BY <1>1, SmallestSet
  <1>3. /\ a[s] = IF s = {} THEN 0 ELSE f[Pick(s)] + a[s \ {Pick(s)}]
        /\ b[s] = IF s = {} THEN 0 ELSE f[Pick(s)] + b[s \ {Pick(s)}]
    BY DEF Sums
  <1>4. s # {} /\ Pick(s) \in s
    BY <1>3 DEF Pick
  <1>5. s \ {Pick(s)} \notin bad
    BY <1>2, <1>4
  <1> QED BY <1>3, <1>4, <1>5

LEMMA SumsExist ==
  ASSUME NEW f, NEW S, IsFiniteSet(S)
  PROVE  \E it : Sums(f, S, it)
  <1> DEFINE bad == {s \in SUBSET S : ~ \E it : Sums(f, s, it)}
  <1> SUFFICES ASSUME bad # {} PROVE FALSE
    OBVIOUS
  <1>1. bad \subseteq SUBSET S
    OBVIOUS
  <1>2. PICK s \in bad : IsFiniteSet(s) /\ \A t \in bad : t \subseteq s => t = s
    <2> HIDE DEF bad
    <2> QED BY <1>1, SmallestSet
  <1> DEFINE rest(t) == t \ {Pick(t)}
             G(t) == IF t = {} THEN 0 ELSE f[Pick(t)] + Sum(f, rest(t))
             it == [t \in SUBSET s |-> G(t)]
  <1>3. ASSUME NEW t, t \subseteq s, t # s
        PROVE  /\ \E a : Sums(f, t, a)
               /\ Sum(f, t) = G(t)
    <2>1. \A u : u \subseteq t => \E a : Sums(f, u, a)
      BY <1>2, <1>3
    <2> DEFINE a == CHOOSE x : Sums(f, t, x)
               b == CHOOSE x : Sums(f, rest(t), x)
    <2>2. Sums(f, t, a)
      BY <2>1
    <2>3. a[t] = IF t = {} THEN 0 ELSE f[Pick(t)] + a[rest(t)]
      BY <2>2 DEF Sums
    <2>4. Sums(f, rest(t), b)
      BY <2>1
    <2>5. IsFiniteSet(t)
      BY <1>2, <1>3, FS_Subset
    <2>6. a[rest(t)] = b[rest(t)]
      BY <2>2, <2>4, <2>5, SumsAgree
    <2> QED BY <2>2, <2>3, <2>6 DEF Sum
  <1>4. ASSUME NEW t \in SUBSET s
        PROVE  it[t] = IF t = {} THEN 0 ELSE f[Pick(t)] + it[rest(t)]
    <2>1. CASE t = {}
      BY <2>1
    <2>2. CASE t # {}
      <3>1. Pick(t) \in t
        BY <2>2 DEF Pick
      <3>2. rest(t) \subseteq s /\ rest(t) # s
        BY <3>1
      <3>3. Sum(f, rest(t)) = G(rest(t))
        BY <1>3, <3>2
      <3> QED BY <2>2, <3>2, <3>3
    <2> QED BY <2>1, <2>2
  <1>5. it = [t \in SUBSET s |-> it[t]]
    OBVIOUS
  <1>6. Sums(f, s, it)
    <2> HIDE DEF it
    <2> QED BY <1>4, <1>5 DEF Sums
  <1> QED BY <1>2, <1>6

LEMMA SumEmpty ==
  ASSUME NEW f PROVE Sum(f, {}) = 0
  <1>1. PICK it : Sums(f, {}, it)
    BY SumsExist, FS_EmptySet
  <1>2. Sums(f, {}, CHOOSE x : Sums(f, {}, x))
    BY <1>1
  <1> QED BY <1>2 DEF Sums, Sum

\* The recursion, for the sum itself.
LEMMA SumPick ==
  ASSUME NEW f, NEW S, IsFiniteSet(S), S # {}
  PROVE  Sum(f, S) = f[Pick(S)] + Sum(f, S \ {Pick(S)}) /\ Pick(S) \in S
  <1> DEFINE a == CHOOSE x : Sums(f, S, x)
             R == S \ {Pick(S)}
             b == CHOOSE x : Sums(f, R, x)
  <1>1. Sums(f, S, a) /\ Sums(f, R, b)
    BY SumsExist, FS_Subset
  <1>2. a[S] = f[Pick(S)] + a[R]
    BY <1>1 DEF Sums
  <1>3. a[R] = b[R]
    BY <1>1, SumsAgree
  <1> QED BY <1>2, <1>3 DEF Sum, Pick

LEMMA SumType ==
  ASSUME NEW f, NEW S, IsFiniteSet(S), \A x \in S : f[x] \in Int
  PROVE  Sum(f, S) \in Int
  <1> DEFINE bad == {s \in SUBSET S : Sum(f, s) \notin Int}
  <1> SUFFICES ASSUME bad # {} PROVE FALSE
    OBVIOUS
  <1>1. bad \subseteq SUBSET S
    OBVIOUS
  <1>2. PICK s \in bad : IsFiniteSet(s) /\ \A t \in bad : t \subseteq s => t = s
    <2> HIDE DEF bad
    <2> QED BY <1>1, SmallestSet
  <1>3. s # {}
    BY SumEmpty
  <1>4. Sum(f, s) = f[Pick(s)] + Sum(f, s \ {Pick(s)}) /\ Pick(s) \in s
    BY <1>2, <1>3, SumPick
  <1>5. Sum(f, s \ {Pick(s)}) \in Int
    BY <1>2, <1>4
  <1> QED BY <1>4, <1>5

\* A sum of which one summand changes.
LEMMA SumChange ==
  ASSUME NEW f, NEW g, NEW S, IsFiniteSet(S), NEW x \in S,
         \A y \in S : f[y] \in Int /\ g[y] \in Int,
         \A y \in S \ {x} : g[y] = f[y]
  PROVE  Sum(g, S) = Sum(f, S) + (g[x] - f[x])
  <1> DEFINE d == g[x] - f[x]
             Moved(s) == IF x \in s THEN d ELSE 0
             bad == {s \in SUBSET S : Sum(g, s) # Sum(f, s) + Moved(s)}
  <1>1. d \in Int /\ g[x] = f[x] + d
    OBVIOUS
  <1>2. bad = {}
    <2> SUFFICES ASSUME bad # {} PROVE FALSE
      OBVIOUS
    <2>1. bad \subseteq SUBSET S
      OBVIOUS
    <2>2. PICK s \in bad : IsFiniteSet(s) /\ \A t \in bad : t \subseteq s => t = s
      <3> HIDE DEF bad
      <3> QED BY <2>1, SmallestSet
    <2>3. s # {}
      <3>1. Sum(f, {}) = 0 /\ Sum(g, {}) = 0
        BY SumEmpty
      <3>2. {} \notin bad
        BY <3>1
      <3> QED BY <2>2, <3>2
    <2> DEFINE p == Pick(s)
               r == s \ {p}
    <2>4. /\ Sum(f, s) = f[p] + Sum(f, r) /\ Sum(g, s) = g[p] + Sum(g, r) /\ p \in s
      BY <2>2, <2>3, SumPick
    <2>5. r \subseteq S /\ r \notin bad /\ IsFiniteSet(r)
      BY <2>2, <2>4, FS_Subset
    <2>6. Sum(f, r) \in Int /\ f[p] \in Int /\ p \in S
      BY <2>1, <2>4, <2>5, SumType
    <2>7. Sum(g, r) = Sum(f, r) + Moved(r)
      BY <2>5
    <2> HIDE DEF d, p
    <2>8. CASE p = x
      <3>1. Moved(r) = 0 /\ Moved(s) = d
        BY <2>4, <2>8
      <3> QED BY <1>1, <2>2, <2>4, <2>6, <2>7, <2>8, <3>1
    <2>9. CASE p # x
      <3>1. Moved(r) = Moved(s) /\ g[p] = f[p] /\ Moved(s) \in Int
        BY <1>1, <2>4, <2>6, <2>9
      <3> QED BY <1>1, <2>2, <2>4, <2>6, <2>7, <3>1
    <2> QED BY <2>8, <2>9
  <1>3. S \notin bad /\ x \in S
    BY <1>2
  <1> QED BY <1>3 DEF Moved

-------------------------------------------------------------------------------
(* One execution.                                                          *)

FillType ==
  [symbol : Symbols, side : {"buy", "sell"}, qty : Sizes, price : Nat, fee : Nat]
Position == [qty : Int, avg : Nat, realized : Int]

LEMMA Quotient ==
  ASSUME NEW n \in Nat, NEW d \in Nat \ {0}
  PROVE  n \div d \in Nat
  OBVIOUS

LEMMA Product ==
  ASSUME NEW m \in Nat, NEW n \in Nat
  PROVE  m * n \in Nat
  OBVIOUS

\* A buyer pays the slippage, a seller loses it.
LEMMA FillIs ==
  ASSUME NEW o \in Order, NEW px \in Prices
  PROVE  /\ FillOf(o, px) \in FillType
         /\ FillOf(o, px).symbol = o.symbol /\ FillOf(o, px).side = o.side
         /\ FillOf(o, px).qty = o.qty
         /\ o.side = "buy" => FillOf(o, px).price >= px
         /\ o.side = "sell" => FillOf(o, px).price <= px
  <1> DEFINE slip == (px * SlippageBps) \div Bps
             at   == FillPrice(o.side, px)
             fee  == Fee(o.qty, at)
  <1>1. o.symbol \in Symbols /\ o.side \in {"buy", "sell"} /\ o.qty \in Sizes /\ o.qty \in Nat
    BY BookAssumption DEF Order
  <1>2. px \in Nat /\ SlippageBps \in Nat /\ FeeBps \in Nat /\ Bps \in Nat \ {0} /\ SlippageBps <= Bps
    BY ExecutionAssumption
  <1>3. slip \in Nat /\ slip <= px
    <2>1. px * SlippageBps \in Nat /\ px * SlippageBps <= px * Bps
      BY <1>2
    <2>2. (px * SlippageBps) \div Bps \in Nat
      BY <1>2, <2>1, Quotient
    <2>3. Bps * ((px * SlippageBps) \div Bps) <= px * SlippageBps
      BY <1>2, <2>1
    <2> HIDE DEF slip
    <2>4. slip \in Nat /\ Bps * slip <= px * Bps
      BY <1>2, <2>1, <2>2, <2>3 DEF slip
    <2> QED BY <1>2, <2>4
  <1>4. at = IF o.side = "buy" THEN px + slip ELSE px - slip
    BY DEF FillPrice
  <1> HIDE DEF slip, at
  <1>5. at \in Nat /\ (o.side = "buy" => at >= px) /\ (o.side = "sell" => at <= px)
    BY <1>1, <1>2, <1>3, <1>4
  <1>6. fee \in Nat
    BY <1>1, <1>2, <1>5, Product, Quotient DEF Fee
  <1>7. FillOf(o, px) = [symbol |-> o.symbol, side |-> o.side, qty |-> o.qty,
                         price |-> at, fee |-> fee]
    BY DEF FillOf, at
  <1> HIDE DEF fee
  <1> QED BY <1>1, <1>5, <1>6, <1>7 DEF FillType

LEMMA SignedIs ==
  ASSUME NEW f \in FillType
  PROVE  Signed(f) \in Int /\ Paid(f) \in Int
         /\ Signed(f) = (IF f.side = "buy" THEN f.qty ELSE -f.qty)
         /\ f.symbol \in Symbols /\ f.qty \in Nat \ {0} /\ f.price \in Nat /\ f.fee \in Nat
  <1>1. f.symbol \in Symbols /\ f.qty \in Nat \ {0} /\ f.price \in Nat /\ f.fee \in Nat
    BY BookAssumption DEF FillType
  <1>2. f.qty * f.price \in Nat
    BY <1>1, Product
  <1> QED BY <1>1, <1>2 DEF Signed, Paid

\* Position.apply moves the quantity by that of the fill, whatever else it does.
LEMMA AppliedIs ==
  ASSUME NEW p \in Position, NEW f \in FillType
  PROVE  Applied(p, f) \in Position /\ Applied(p, f).qty = p.qty + Signed(f)
  <1> DEFINE n == Signed(f)
  <1>1. /\ p.qty \in Int /\ p.avg \in Nat /\ p.realized \in Int
        /\ n \in Int /\ f.price \in Nat /\ f.qty \in Nat
        /\ p = [qty |-> p.qty, avg |-> p.avg, realized |-> p.realized]
    BY SignedIs DEF Position
  <1> HIDE DEF n
  <1>2. CASE p.qty = 0 \/ Crosses(p, f)
    <2> DEFINE r == p.realized + (IF p.qty = 0 THEN 0 ELSE n * (p.avg - f.price))
    <2>1. r \in Int
      <3>1. n * (p.avg - f.price) \in Int
        BY <1>1
      <3> QED BY <1>1, <3>1
    <2>2. Applied(p, f) = [qty |-> p.qty + n, avg |-> f.price, realized |-> r]
      BY <1>2 DEF Applied, n
    <2> HIDE DEF r
    <2> QED BY <1>1, <2>1, <2>2 DEF Position, n
  <1>3. CASE ~(p.qty = 0 \/ Crosses(p, f)) /\ Adds(p, f)
    <2> DEFINE avg == (p.avg * Sized(p.qty) + f.price * f.qty) \div Sized(p.qty + n)
    <2>1. Sized(p.qty) \in Nat /\ Sized(p.qty + n) \in Nat \ {0}
      BY <1>1, <1>3 DEF Adds, Sized, n
    <2>2. avg \in Nat
      <3>1. p.avg * Sized(p.qty) \in Nat /\ f.price * f.qty \in Nat
        BY <1>1, <2>1, Product
      <3>2. p.avg * Sized(p.qty) + f.price * f.qty \in Nat
        BY <3>1
      <3> QED BY <2>1, <3>2, Quotient
    <2>3. Applied(p, f) = [p EXCEPT !.qty = @ + n, !.avg = avg]
      BY <1>3, Zenon DEF Applied, n
    <2> HIDE DEF avg
    <2>4. Applied(p, f) = [qty |-> p.qty + n, avg |-> avg, realized |-> p.realized]
      BY <1>1, <2>3, Zenon
    <2> QED BY <1>1, <2>2, <2>4 DEF Position, n
  <1>4. CASE ~(p.qty = 0 \/ Crosses(p, f)) /\ ~Adds(p, f)
    <2> DEFINE r == p.realized - n * (f.price - p.avg)
    <2>1. r \in Int
      <3>1. n * (f.price - p.avg) \in Int
        BY <1>1
      <3> QED BY <1>1, <3>1
    <2>2. Applied(p, f) = [p EXCEPT !.qty = @ + n, !.realized = r]
      BY <1>4, Zenon DEF Applied, n
    <2> HIDE DEF r
    <2>3. Applied(p, f) = [qty |-> p.qty + n, avg |-> p.avg, realized |-> r]
      BY <1>1, <2>2, Zenon
    <2> QED BY <1>1, <2>1, <2>3 DEF Position, n
  <1> QED BY <1>2, <1>3, <1>4

-------------------------------------------------------------------------------
(* The broker.                                                             *)

BrokerInv ==
  /\ quote \in [Symbols -> Prices \cup {0}]
  /\ cash \in Int /\ fees \in Nat
  /\ pos \in [Symbols -> [qty : -MaxHeld .. MaxHeld, avg : Nat, realized : Int]]
  /\ fills \in Seq(FillType)
  /\ resting \subseteq Order /\ sent \in 0 .. MaxOrders
  /\ shorted \subseteq Symbols /\ crossed \subseteq Symbols

LEMMA BrokerInit == Init => BrokerInv
  BY BookAssumption DEF Init, BrokerInv, NoPosition

\* A market order, in the words of the lemmas above.
LEMMA SubmitFacts ==
  ASSUME BrokerInv, NEW o \in Order, SubmitMarket(o)
  PROVE  LET f == FillOf(o, quote[o.symbol])
             p == Applied(pos[o.symbol], f)
         IN /\ o.symbol \in Symbols /\ quote[o.symbol] \in Prices /\ quote[o.symbol] \in Nat \ {0}
            /\ f \in FillType /\ f.symbol = o.symbol
            /\ pos[o.symbol] \in Position /\ p \in Position
            /\ p.qty = pos[o.symbol].qty + Signed(f)
            /\ p.qty \in -MaxHeld .. MaxHeld
            /\ cash' = cash - Paid(f) /\ fees' = fees + f.fee
            /\ pos' = [pos EXCEPT ![o.symbol] = p]
            /\ fills' = Append(fills, f)
            /\ shorted' = IF p.qty < 0 THEN shorted \cup {o.symbol} ELSE shorted
            /\ crossed' \subseteq crossed \cup {o.symbol}
            /\ crossed' = {} => crossed = {} /\ ~Crosses(pos[o.symbol], f)
            /\ sent' = sent + 1 /\ sent < MaxOrders
            /\ UNCHANGED <<quote, resting, lifo, fifo, tape>>
  <1> DEFINE s == o.symbol
             f == FillOf(o, quote[s])
             p == Applied(pos[s], f)
  <1>1. s \in Symbols /\ quote[s] \in Prices /\ quote[s] \in Nat \ {0}
    BY ExecutionAssumption DEF Order, BrokerInv, SubmitMarket
  <1>2. f \in FillType /\ f.symbol = s /\ f.qty = o.qty /\ f.side = o.side
    BY <1>1, FillIs
  <1>3. pos[s] \in Position
    BY <1>1, BookAssumption DEF BrokerInv, Position
  <1>4. /\ quote[s] # 0 /\ sent < MaxOrders /\ Sized(pos[s].qty + Signed(o)) <= MaxHeld
        /\ sent' = sent + 1
        /\ cash' = cash - Paid(f) /\ fees' = fees + f.fee
        /\ pos' = [pos EXCEPT ![s] = p]
        /\ fills' = Append(fills, f)
        /\ shorted' = IF p.qty < 0 THEN shorted \cup {s} ELSE shorted
        /\ crossed' = IF Crosses(pos[s], f) THEN crossed \cup {s} ELSE crossed
        /\ UNCHANGED <<quote, resting, lifo, fifo, tape>>
    BY Zenon DEF SubmitMarket, ledgerVars
  <1> HIDE DEF f
  <1>5. p \in Position /\ p.qty = pos[s].qty + Signed(f)
    BY <1>2, <1>3, AppliedIs
  <1>6. Signed(f) = Signed(o)
    BY <1>2 DEF Signed
  <1>7. p.qty \in -MaxHeld .. MaxHeld
    BY <1>4, <1>5, <1>6, BookAssumption DEF Sized, Position
  <1>8. /\ crossed' \subseteq crossed \cup {s}
        /\ crossed' = {} => crossed = {} /\ ~Crosses(pos[s], f)
    BY <1>4
  <1> QED BY <1>1, <1>2, <1>3, <1>4, <1>5, <1>7, <1>8 DEF f

LEMMA BrokerStep == BrokerInv /\ [Next]_vars => BrokerInv'
  <1> SUFFICES ASSUME BrokerInv, [Next]_vars PROVE BrokerInv'
    OBVIOUS
  <1>1. ASSUME NEW s \in Symbols, Quote(s) PROVE BrokerInv'
    BY <1>1 DEF Quote, BrokerInv, bookVars
  <1>2. ASSUME NEW o \in Order, SubmitMarket(o) PROVE BrokerInv'
    <2> DEFINE s == o.symbol
               f == FillOf(o, quote[s])
               p == Applied(pos[s], f)
    <2>1. /\ s \in Symbols /\ f \in FillType /\ p \in Position /\ p.qty \in -MaxHeld .. MaxHeld
          /\ cash' = cash - Paid(f) /\ fees' = fees + f.fee
          /\ pos' = [pos EXCEPT ![s] = p]
          /\ fills' = Append(fills, f)
          /\ shorted' = IF p.qty < 0 THEN shorted \cup {s} ELSE shorted
          /\ crossed' \subseteq crossed \cup {s}
          /\ sent' = sent + 1 /\ sent < MaxOrders
          /\ UNCHANGED <<quote, resting>>
      BY <1>2, SubmitFacts
    <2> HIDE DEF s, f, p
    <2>2. Paid(f) \in Int /\ f.fee \in Nat
      BY <2>1, SignedIs
    <2>3. p \in [qty : -MaxHeld .. MaxHeld, avg : Nat, realized : Int]
      BY <2>1 DEF Position
    <2>4. pos' \in [Symbols -> [qty : -MaxHeld .. MaxHeld, avg : Nat, realized : Int]]
      BY <2>1, <2>3 DEF BrokerInv
    <2>5. fills' \in Seq(FillType) /\ cash' \in Int /\ fees' \in Nat
      <3>1. fills \in Seq(FillType) /\ cash \in Int /\ fees \in Nat
        BY DEF BrokerInv
      <3>2. Append(fills, f) \in Seq(FillType)
        BY <2>1, <3>1
      <3>3. cash - Paid(f) \in Int /\ fees + f.fee \in Nat
        BY <2>2, <3>1
      <3>4. fills' = Append(fills, f) /\ cash' = cash - Paid(f) /\ fees' = fees + f.fee
        BY <2>1
      <3> QED BY <3>2, <3>3, <3>4, Zenon
    <2>6. shorted' \subseteq Symbols /\ crossed' \subseteq Symbols /\ sent' \in 0 .. MaxOrders
      <3>1. sent' \in 0 .. MaxOrders
        BY <2>1, BookAssumption DEF BrokerInv
      <3>2. shorted \subseteq Symbols /\ crossed \subseteq Symbols
        BY DEF BrokerInv
      <3> QED BY <2>1, <3>1, <3>2
    <2> QED BY <2>1, <2>4, <2>5, <2>6 DEF BrokerInv
  <1>3. ASSUME NEW o \in Order, SubmitLimit(o) PROVE BrokerInv'
    <2>1. /\ resting' \subseteq Order /\ sent < MaxOrders /\ sent' = sent + 1
          /\ UNCHANGED <<quote, cash, pos, fills, fees, shorted, crossed>>
      <3>1. resting \subseteq Order
        BY DEF BrokerInv
      <3> QED BY <1>3, <3>1, Zenon DEF SubmitLimit, bookVars, ledgerVars
    <2>2. sent' \in 0 .. MaxOrders
      BY <2>1, BookAssumption DEF BrokerInv
    <2> QED BY <2>1, <2>2, Zenon DEF BrokerInv
  <1>4. ASSUME NEW o \in Order, Cancel(o) PROVE BrokerInv'
    BY <1>4 DEF Cancel, BrokerInv, bookVars
  <1>5. CASE Drain
    <2>1. /\ fills # <<>> /\ fills' = Tail(fills)
          /\ UNCHANGED <<quote, cash, pos, fees, shorted, crossed, resting, sent>>
      BY <1>5, Zenon DEF Drain
    <2> QED BY <2>1 DEF BrokerInv
  <1>6. CASE UNCHANGED vars
    BY <1>6 DEF vars, bookVars, BrokerInv
  <1> QED BY <1>1, <1>2, <1>3, <1>4, <1>5, <1>6 DEF Next

LEMMA BrokerAlways == Spec => []BrokerInv
  BY BrokerInit, BrokerStep, PTL DEF Spec

\* What the positions are worth in nav().
Worth(p, q) == [s \in Symbols |-> p[s].qty * (IF q[s] # 0 THEN q[s] ELSE p[s].avg)]

LEMMA WorthIs ==
  ASSUME NEW p, NEW q
  PROVE  SumFunction(Worth(p, q)) = Sum(Worth(p, q), Symbols)
  <1>1. DOMAIN Worth(p, q) = Symbols
    BY DEF Worth
  <1> HIDE DEF Worth
  <1> QED BY <1>1, SumIsLibrarys DEF SumFunction

LEMMA WorthType ==
  ASSUME NEW p, p \in [Symbols -> Position], NEW q, q \in [Symbols -> Nat]
  PROVE  \A s \in Symbols : Worth(p, q)[s] \in Int
  <1> SUFFICES ASSUME NEW s \in Symbols PROVE Worth(p, q)[s] \in Int
    OBVIOUS
  <1> DEFINE px == IF q[s] # 0 THEN q[s] ELSE p[s].avg
  <1>1. p[s] \in Position /\ q[s] \in Nat
    OBVIOUS
  <1>2. px \in Nat /\ p[s].qty \in Int
    BY <1>1 DEF Position
  <1> HIDE DEF px
  <1>3. p[s].qty * px \in Int
    BY <1>2
  <1> QED BY <1>3 DEF Worth, px

LEMMA Products ==
  ASSUME NEW a \in Int, NEW b \in Int, NEW c \in Int
  PROVE  /\ a * b \in Int /\ a * c \in Int /\ b * c \in Int
         /\ a * (b - c) = a * b - a * c
         /\ (a + b) * c = a * c + b * c
         /\ (-a) * b = -(a * b)
  OBVIOUS

\* What a fill takes out of the cash and brings into the position, at a quote.
LEMMA FillCosts ==
  ASSUME NEW f \in FillType, NEW q \in Nat,
         f.side = "buy" => f.price >= q, f.side = "sell" => f.price <= q
  PROVE  /\ Signed(f) * q \in Int /\ f.qty * Sized(f.price - q) \in Int
         /\ Signed(f) * q - Paid(f) = - f.fee - f.qty * Sized(f.price - q)
  <1> DEFINE n == f.qty
             p == f.price
  <1>1. n \in Int /\ p \in Int /\ f.fee \in Int /\ f.side \in {"buy", "sell"} /\ q \in Int
    BY SignedIs DEF FillType
  <1>2. /\ Signed(f) = IF f.side = "buy" THEN n ELSE -n
        /\ Paid(f) = IF f.side = "buy" THEN n * p + f.fee ELSE (-n) * p + f.fee
    BY <1>1, Products DEF Signed, Paid
  <1> HIDE DEF n, p
  <1>3. /\ n * p \in Int /\ n * q \in Int /\ n * (p - q) = n * p - n * q
        /\ n * (q - p) = n * q - n * p /\ (-n) * p = -(n * p) /\ (-n) * q = -(n * q)
    BY <1>1, Products
  <1>4. CASE f.side = "buy"
    <2>1. Sized(p - q) = p - q
      BY <1>1, <1>4 DEF Sized, p
    <2> QED BY <1>1, <1>2, <1>3, <1>4, <2>1 DEF n, p
  <1>5. CASE f.side = "sell"
    <2>1. Sized(p - q) = q - p
      BY <1>1, <1>5 DEF Sized, p
    <2>2. Signed(f) = -n /\ Paid(f) = -(n * p) + f.fee
      BY <1>2, <1>3, <1>5
    <2>3. Signed(f) * q = -(n * q)
      BY <1>3, <2>2
    <2>4. Signed(f) * q - Paid(f) = - f.fee - n * (q - p)
      BY <1>1, <1>3, <2>2, <2>3
    <2>5. Signed(f) * q \in Int /\ n * (q - p) \in Int
      BY <1>3, <2>3
    <2> QED BY <2>1, <2>4, <2>5 DEF n, p
  <1> QED BY <1>1, <1>4, <1>5

\* PaperBroker.nav before and after a market order: for any slippage, fee, size and
\* position, also through zero, only the slippage and the fee are gone.
THEOREM TradeCost == Spec => TradeCostsSlippageAndFee
  <1>1. ASSUME BrokerInv, NEW o \in Order, SubmitMarket(o)
        PROVE  Nav' = Nav - (fees' - fees)
                      - LET f == Last(fills') IN f.qty * Sized(f.price - quote[f.symbol])
    <2> DEFINE s == o.symbol
               q == quote[s]
               f == FillOf(o, q)
               n == Signed(f)
               p == Applied(pos[s], f)
               slippage == f.qty * Sized(f.price - q)
               A == Worth(pos, quote)
               B == Worth(pos', quote')
    <2>1. /\ s \in Symbols /\ q \in Prices /\ q \in Nat \ {0} /\ f \in FillType /\ f.symbol = s
          /\ p.qty = pos[s].qty + n /\ pos[s] \in Position /\ p \in Position
          /\ cash' = cash - Paid(f) /\ fees' = fees + f.fee
          /\ pos' = [pos EXCEPT ![s] = p]
          /\ fills' = Append(fills, f) /\ quote' = quote
      BY <1>1, SubmitFacts
    <2>2. (f.side = "buy" => f.price >= q) /\ (f.side = "sell" => f.price <= q)
      BY <2>1, FillIs
    <2>3. pos \in [Symbols -> Position] /\ quote \in [Symbols -> Nat]
          /\ cash \in Int /\ fees \in Nat
      <3>1. -MaxHeld .. MaxHeld \subseteq Int
        OBVIOUS
      <3>2. [qty : -MaxHeld .. MaxHeld, avg : Nat, realized : Int] \subseteq Position
        BY <3>1 DEF Position
      <3>3. Prices \cup {0} \subseteq Nat
        BY ExecutionAssumption
      <3>4. /\ pos \in [Symbols -> [qty : -MaxHeld .. MaxHeld, avg : Nat, realized : Int]]
            /\ quote \in [Symbols -> Prices \cup {0}] /\ cash \in Int /\ fees \in Nat
        BY <1>1 DEF BrokerInv
      <3>5. pos \in [Symbols -> Position]
        BY <3>2, <3>4, Zenon
      <3>6. quote \in [Symbols -> Nat]
        BY <3>3, <3>4, Zenon
      <3> QED BY <3>4, <3>5, <3>6
    <2> HIDE DEF q, f, p
    <2>4. n \in Int /\ Paid(f) \in Int /\ f.fee \in Nat
      BY <2>1, SignedIs
    <2>5. Last(fills') = f
      BY <1>1, <2>1 DEF BrokerInv, Last
    <2>6. n * q \in Int /\ slippage \in Int /\ n * q - Paid(f) = - f.fee - slippage
      BY <2>1, <2>2, FillCosts
    <2> HIDE DEF slippage
    <2>7. pos' \in [Symbols -> Position]
      BY <2>1, <2>3
    <2>8. \A y \in Symbols : A[y] \in Int /\ B[y] \in Int
      <3>1. \A y \in Symbols : A[y] \in Int
        BY <2>3, WorthType
      <3>2. \A y \in Symbols : B[y] \in Int
        BY <2>1, <2>3, <2>7, WorthType
      <3> QED BY <3>1, <3>2
    <2>9. \A y \in Symbols \ {s} : B[y] = A[y]
      BY <2>1, <2>3 DEF Worth
    <2>10. B[s] - A[s] = n * q
      <3>1. pos'[s] = p /\ quote[s] = q
        BY <2>1, <2>3 DEF q
      <3>2. A[s] = pos[s].qty * q /\ B[s] = p.qty * q
        BY <2>1, <3>1 DEF Worth
      <3>3. (pos[s].qty + n) * q = pos[s].qty * q + n * q /\ pos[s].qty * q \in Int
        <4> DEFINE h == pos[s].qty
        <4>1. h \in Int
          BY <2>1, <2>3 DEF Position
        <4>2. n \in Int /\ q \in Int
          BY <2>1, <2>4
        <4> HIDE DEF h, n
        <4>3. (h + n) * q = h * q + n * q
          BY <4>1, <4>2, Products
        <4>4. h * q \in Int
          BY <4>1, <4>2, Products
        <4> QED BY <4>3, <4>4 DEF h
      <3>4. p.qty = pos[s].qty + n
        BY <2>1
      <3> DEFINE hq == pos[s].qty * q
                 nq == n * q
      <3>5. hq \in Int /\ nq \in Int /\ A[s] = hq /\ B[s] = hq + nq
        BY <2>6, <3>2, <3>3, <3>4
      <3> HIDE DEF hq, nq
      <3>6. B[s] - A[s] = nq
        BY <3>5
      <3> QED BY <3>6 DEF nq
    <2>11. Sum(B, Symbols) = Sum(A, Symbols) + n * q
      <3> HIDE DEF A, B
      <3>1. Sum(B, Symbols) = Sum(A, Symbols) + (B[s] - A[s])
        <4>1. IsFiniteSet(Symbols) /\ s \in Symbols
          BY <2>1, BookAssumption
        <4> QED BY <4>1, <2>8, <2>9, SumChange
      <3> QED BY <2>10, <3>1
    <2>12. Nav = cash + Sum(A, Symbols) /\ Nav' = cash' + Sum(B, Symbols)
      <3>1. Nav = cash + SumFunction(A)
        BY Zenon DEF Nav, Worth
      <3>2. Nav' = cash' + SumFunction(B)
        BY Zenon DEF Nav, Worth
      <3> QED BY <3>1, <3>2, WorthIs
    <2>13. Sum(A, Symbols) \in Int
      <3> HIDE DEF A
      <3> QED BY <2>8, SumType, BookAssumption
    <2> HIDE DEF n, A, B
    <2>14. Nav' = Nav - (fees' - fees) - slippage
      <3> DEFINE nq == n * q
                 sa == Sum(A, Symbols)
                 sb == Sum(B, Symbols)
                 paid == Paid(f)
                 fee == f.fee
      <3>1. /\ nq \in Int /\ sa \in Int /\ slippage \in Int /\ paid \in Int /\ fee \in Int
            /\ cash \in Int /\ fees \in Int
            /\ nq - paid = - fee - slippage /\ sb = sa + nq
            /\ Nav = cash + sa /\ Nav' = cash' + sb
        BY <2>3, <2>4, <2>6, <2>11, <2>12, <2>13
      <3>2. cash' = cash - paid /\ fees' = fees + fee
        BY <2>1
      <3> HIDE DEF nq, sa, sb, paid, fee
      <3>3. Nav' = (cash - paid) + (sa + nq)
        BY <3>1, <3>2
      <3>4. fees' - fees = fee
        BY <3>1, <3>2
      <3> QED BY <3>1, <3>3, <3>4
    <2> QED BY <2>1, <2>5, <2>14 DEF slippage, q
  <1>2. BrokerInv /\ [Next]_vars
          => [sent' # sent /\ cash' # cash =>
                Nav' = Nav - (fees' - fees)
                         - LET f == Last(fills')
                           IN f.qty * Sized(f.price - quote[f.symbol])]_vars
    <2> SUFFICES ASSUME BrokerInv, [Next]_vars, sent' # sent, cash' # cash
                 PROVE  Nav' = Nav - (fees' - fees)
                                 - LET f == Last(fills')
                                   IN f.qty * Sized(f.price - quote[f.symbol])
      OBVIOUS
    <2>1. PICK o \in Order : SubmitMarket(o)
      BY DEF Next, Quote, SubmitLimit, Cancel, Drain, bookVars, vars
    <2> QED BY <1>1, <2>1
  <1> QED BY <1>2, BrokerAlways, PTL DEF Spec, TradeCostsSlippageAndFee

-------------------------------------------------------------------------------
(* Sums over the lots of a ledger.                                         *)

LEMMA SumSame ==
  ASSUME NEW f, NEW g, NEW S, IsFiniteSet(S), \A y \in S : f[y] \in Int /\ g[y] = f[y]
  PROVE  Sum(g, S) = Sum(f, S)
  <1>1. CASE S = {}
    BY <1>1, SumEmpty
  <1>2. CASE S # {}
    <2>1. PICK x \in S : TRUE
      BY <1>2
    <2>2. Sum(g, S) = Sum(f, S) + (g[x] - f[x])
      BY SumChange
    <2>3. g[x] = f[x] /\ f[x] \in Int /\ Sum(f, S) \in Int
      BY SumType
    <2> QED BY <2>2, <2>3
  <1> QED BY <1>1, <1>2

LEMMA SumZero ==
  ASSUME NEW f, NEW S, IsFiniteSet(S), \A y \in S : f[y] = 0
  PROVE  Sum(f, S) = 0
  <1> DEFINE bad == {s \in SUBSET S : Sum(f, s) # 0}
  <1> SUFFICES ASSUME bad # {} PROVE FALSE
    OBVIOUS
  <1>1. bad \subseteq SUBSET S
    OBVIOUS
  <1>2. PICK s \in bad : IsFiniteSet(s) /\ \A t \in bad : t \subseteq s => t = s
    <2> HIDE DEF bad
    <2> QED BY <1>1, SmallestSet
  <1>3. s # {}
    <2>1. Sum(f, {}) = 0
      BY SumEmpty
    <2>2. {} \notin bad
      BY <2>1
    <2> QED BY <1>2, <2>2
  <1>4. Sum(f, s) = f[Pick(s)] + Sum(f, s \ {Pick(s)}) /\ Pick(s) \in s
    BY <1>2, <1>3, SumPick
  <1>5. Sum(f, s \ {Pick(s)}) = 0
    BY <1>2, <1>4
  <1>6. Sum(f, s) = 0
    BY <1>1, <1>2, <1>4, <1>5
  <1> QED BY <1>2, <1>6

\* Any summand can be taken out first.
LEMMA SumRemove ==
  ASSUME NEW f, NEW S, IsFiniteSet(S), NEW x \in S, \A y \in S : f[y] \in Int
  PROVE  Sum(f, S) = f[x] + Sum(f, S \ {x})
  <1> DEFINE bad == {s \in SUBSET S : \E y \in s : Sum(f, s) # f[y] + Sum(f, s \ {y})}
  <1>1. bad = {}
    <2> SUFFICES ASSUME bad # {} PROVE FALSE
      OBVIOUS
    <2>1. bad \subseteq SUBSET S
      OBVIOUS
    <2>2. PICK s \in bad : IsFiniteSet(s) /\ \A t \in bad : t \subseteq s => t = s
      <3> HIDE DEF bad
      <3> QED BY <2>1, SmallestSet
    <2>3. PICK y \in s : Sum(f, s) # f[y] + Sum(f, s \ {y})
      BY <2>2
    <2> DEFINE p == Pick(s)
               r == s \ {p}
               t == s \ {y}
    <2>4. Sum(f, s) = f[p] + Sum(f, r) /\ p \in s
      BY <2>2, <2>3, SumPick
    <2> HIDE DEF p
    <2>5. p # y
      BY <2>3, <2>4
    <2>6. Sum(f, r) = f[y] + Sum(f, r \ {y})
      <3>1. r \in SUBSET S /\ r # s /\ r \subseteq s /\ y \in r
        BY <2>1, <2>2, <2>3, <2>4, <2>5
      <3> QED BY <2>2, <3>1
    <2>7. Sum(f, t) = f[p] + Sum(f, t \ {p})
      <3>1. t \in SUBSET S /\ t # s /\ t \subseteq s /\ p \in t
        BY <2>1, <2>2, <2>3, <2>4, <2>5
      <3> QED BY <2>2, <3>1
    <2>8. t \ {p} = r \ {y} /\ IsFiniteSet(t \ {p})
      BY <2>2, FS_Subset
    <2>9. Sum(f, t \ {p}) \in Int /\ f[p] \in Int /\ f[y] \in Int
      BY <2>1, <2>3, <2>4, <2>8, SumType
    <2> DEFINE c == Sum(f, t \ {p})
    <2>10. Sum(f, r) = f[y] + c /\ Sum(f, t) = f[p] + c /\ c \in Int
      BY <2>6, <2>7, <2>8, <2>9
    <2> HIDE DEF r, t, c
    <2>11. f[p] + (f[y] + c) = f[y] + (f[p] + c)
      BY <2>9, <2>10
    <2> QED BY <2>3, <2>4, <2>10, <2>11 DEF t
  <1>2. S \notin bad
    BY <1>1
  <1> QED BY <1>2

\* The order of the summands does not matter.
LEMMA SumReordered ==
  ASSUME NEW f, NEW g, NEW b, NEW S, NEW T, IsFiniteSet(S), IsFiniteSet(T),
         \A x \in S : b[x] \in T /\ f[b[x]] \in Int /\ g[x] = f[b[x]],
         \A x, y \in S : b[x] = b[y] => x = y
  PROVE  Sum(g, S) = Sum(f, {b[x] : x \in S})
  <1> DEFINE Image(s) == {b[x] : x \in s}
             bad == {s \in SUBSET S : Sum(g, s) # Sum(f, Image(s))}
  <1>1. bad = {}
    <2> SUFFICES ASSUME bad # {} PROVE FALSE
      OBVIOUS
    <2>1. bad \subseteq SUBSET S
      OBVIOUS
    <2>2. PICK s \in bad : IsFiniteSet(s) /\ \A t \in bad : t \subseteq s => t = s
      <3> HIDE DEF bad
      <3> QED BY <2>1, SmallestSet
    <2>3. s # {}
      <3>1. Image({}) = {} /\ Sum(f, {}) = 0 /\ Sum(g, {}) = 0
        BY SumEmpty
      <3> QED BY <2>2, <3>1
    <2>4. PICK x \in s : TRUE
      BY <2>3
    <2> DEFINE r == s \ {x}
    <2>5. x \in S /\ r \subseteq S /\ r \notin bad /\ s \subseteq S
      BY <2>1, <2>2, <2>4
    <2>6. Sum(g, s) = g[x] + Sum(g, r)
      BY <2>2, <2>4, <2>5, SumRemove
    <2>7. Sum(f, Image(s)) = f[b[x]] + Sum(f, Image(s) \ {b[x]})
      <3>1. Image(s) \subseteq T /\ b[x] \in Image(s) /\ \A y \in Image(s) : f[y] \in Int
        BY <2>4, <2>5
      <3>2. IsFiniteSet(Image(s))
        BY <3>1, FS_Subset
      <3> HIDE DEF Image
      <3> QED BY <3>1, <3>2, SumRemove
    <2>8. Image(s) \ {b[x]} = Image(r)
      BY <2>4, <2>5
    <2>9. Sum(g, r) = Sum(f, Image(r))
      BY <2>5
    <2> QED BY <2>2, <2>5, <2>6, <2>7, <2>8, <2>9
  <1> QED BY <1>1

\* What a ledger's lots come to, by a weight: their quantity, or their cost.
Qty  == [x \in Lot |-> x.qty]
Cost == [x \in Lot |-> x.qty * x.price]

Weighed(w, lots) == [k \in DOMAIN lots |-> w[lots[k]]]
LotSum(w, lots) == Sum(Weighed(w, lots), 1 .. Len(lots))

LEMMA WeightsAre ==
  /\ Qty \in [Lot -> Int] /\ Cost \in [Lot -> Int]
  /\ \A x \in Lot : Qty[x] = x.qty /\ Cost[x] = x.qty * x.price
  <1>1. \A x \in Lot : x.qty \in Int /\ x.price \in Int
    BY DEF Lot
  <1>2. \A x \in Lot : x.qty * x.price \in Int
    BY <1>1, Products
  <1> QED BY <1>1, <1>2 DEF Qty, Cost

LEMMA LotSumIs ==
  ASSUME NEW lots \in Seq(Lot), NEW w \in [Lot -> Int]
  PROVE  /\ LotSum(w, lots) = Sum(Weighed(w, lots), 1 .. Len(lots)) /\ LotSum(w, lots) \in Int
         /\ DOMAIN lots = 1 .. Len(lots) /\ IsFiniteSet(1 .. Len(lots)) /\ Len(lots) \in Nat
         /\ \A k \in 1 .. Len(lots) :
              lots[k] \in Lot /\ Weighed(w, lots)[k] = w[lots[k]] /\ w[lots[k]] \in Int
  <1>1. DOMAIN lots = 1 .. Len(lots) /\ Len(lots) \in Nat /\ IsFiniteSet(1 .. Len(lots))
    BY FS_Interval
  <1>2. \A k \in 1 .. Len(lots) :
          lots[k] \in Lot /\ Weighed(w, lots)[k] = w[lots[k]] /\ w[lots[k]] \in Int
    <2> TAKE k \in 1 .. Len(lots)
    <2>1. lots[k] \in Lot
      BY <1>1
    <2> QED BY <1>1, <2>1 DEF Weighed
  <1>3. Sum(Weighed(w, lots), 1 .. Len(lots)) \in Int
    <2> DEFINE S == 1 .. Len(lots)
               f == Weighed(w, lots)
    <2>1. IsFiniteSet(S) /\ \A k \in S : f[k] \in Int
      BY <1>1, <1>2
    <2> HIDE DEF S, f
    <2>2. Sum(f, S) \in Int
      BY <2>1, SumType
    <2> QED BY <2>2 DEF S, f
  <1> QED BY <1>1, <1>2, <1>3 DEF LotSum

LEMMA LotSumEmpty ==
  ASSUME NEW w PROVE LotSum(w, <<>>) = 0
  <1>1. 1 .. Len(<<>>) = {}
    OBVIOUS
  <1> QED BY <1>1, SumEmpty DEF LotSum

LEMMA LotSumAppend ==
  ASSUME NEW lots \in Seq(Lot), NEW lot \in Lot, NEW w \in [Lot -> Int]
  PROVE  LotSum(w, Append(lots, lot)) = LotSum(w, lots) + w[lot]
  <1> DEFINE more == Append(lots, lot)
             n == Len(lots)
             f == Weighed(w, lots)
             g == Weighed(w, more)
  <1>1. /\ more \in Seq(Lot) /\ Len(more) = n + 1 /\ n \in Nat /\ more[n + 1] = lot
        /\ \A k \in 1 .. n : more[k] = lots[k]
    OBVIOUS
  <1> HIDE DEF more
  <1>2. /\ LotSum(w, lots) = Sum(f, 1 .. n) /\ LotSum(w, lots) \in Int
        /\ IsFiniteSet(1 .. n)
        /\ \A k \in 1 .. n : f[k] = w[lots[k]] /\ w[lots[k]] \in Int
    BY LotSumIs
  <1>3. /\ LotSum(w, more) = Sum(g, 1 .. n + 1) /\ IsFiniteSet(1 .. n + 1)
        /\ \A k \in 1 .. n + 1 : g[k] = w[more[k]] /\ w[more[k]] \in Int
    <2>1. /\ LotSum(w, more) = Sum(Weighed(w, more), 1 .. Len(more)) /\ IsFiniteSet(1 .. Len(more))
          /\ \A k \in 1 .. Len(more) :
               Weighed(w, more)[k] = w[more[k]] /\ w[more[k]] \in Int
      BY <1>1, LotSumIs, Zenon
    <2>2. Len(more) = n + 1
      BY <1>1
    <2> QED BY <2>1, <2>2, Zenon
  <1> HIDE DEF n, f, g
  <1>4. n + 1 \in 1 .. n + 1 /\ (1 .. n + 1) \ {n + 1} = 1 .. n /\ 1 .. n \subseteq 1 .. n + 1
    BY <1>1
  <1>5. \A k \in 1 .. n + 1 : g[k] \in Int
    BY <1>3
  <1>6. Sum(g, 1 .. n + 1) = g[n + 1] + Sum(g, 1 .. n)
    <2> DEFINE S == 1 .. n + 1
               x == n + 1
    <2>1. IsFiniteSet(S) /\ x \in S /\ \A k \in S : g[k] \in Int
      BY <1>3, <1>4, <1>5
    <2> HIDE DEF S, x
    <2>2. Sum(g, S) = g[x] + Sum(g, S \ {x})
      BY <2>1, SumRemove
    <2> QED BY <1>4, <2>2 DEF S, x
  <1>7. \A k \in 1 .. n : f[k] \in Int /\ g[k] = f[k]
    BY <1>1, <1>2, <1>3, <1>4, SMTT(30)
  <1>8. Sum(g, 1 .. n) = Sum(f, 1 .. n)
    BY <1>2, <1>7, SumSame
  <1>9. g[n + 1] = w[lot] /\ w[lot] \in Int
    BY <1>1, <1>3, <1>4
  <1> QED BY <1>2, <1>3, <1>6, <1>8, <1>9 DEF more

LEMMA LotSumReverse ==
  ASSUME NEW lots \in Seq(Lot), NEW w \in [Lot -> Int]
  PROVE  Reverse(lots) \in Seq(Lot) /\ LotSum(w, Reverse(lots)) = LotSum(w, lots)
  <1> DEFINE back == Reverse(lots)
             n == Len(lots)
             f == Weighed(w, lots)
             g == Weighed(w, back)
             b == [k \in 1 .. n |-> (n - k) + 1]
  <1>1. n \in Nat /\ \A k \in 1 .. n : b[k] \in 1 .. n /\ b[b[k]] = k
    OBVIOUS
  <1>2. back = [k \in 1 .. n |-> lots[b[k]]]
    BY DEF Reverse
  <1>3. back \in Seq(Lot) /\ Len(back) = n
    <2>1. \A k \in 1 .. n : lots[b[k]] \in Lot
      BY <1>1
    <2> HIDE DEF b
    <2> QED BY <1>1, <1>2, <2>1
  <1> HIDE DEF back, b
  <1>4. /\ LotSum(w, lots) = Sum(f, 1 .. n) /\ IsFiniteSet(1 .. n)
        /\ \A k \in 1 .. n : f[k] = w[lots[k]] /\ w[lots[k]] \in Int
    BY LotSumIs
  <1>5. /\ LotSum(w, back) = Sum(g, 1 .. n)
        /\ \A k \in 1 .. n : g[k] = w[back[k]]
    BY <1>3, LotSumIs
  <1> HIDE DEF n, f, g
  <1>6. \A k \in 1 .. n : b[k] \in 1 .. n /\ f[b[k]] \in Int /\ g[k] = f[b[k]]
    BY <1>1, <1>2, <1>4, <1>5
  <1>7. \A x, y \in 1 .. n : b[x] = b[y] => x = y
    BY <1>1
  <1>8. {b[k] : k \in 1 .. n} = 1 .. n
    BY <1>1
  <1>9. Sum(g, 1 .. n) = Sum(f, {b[k] : k \in 1 .. n})
    <2> DEFINE S == 1 .. n
    <2>1. /\ IsFiniteSet(S) /\ \A x \in S : b[x] \in S /\ f[b[x]] \in Int /\ g[x] = f[b[x]]
          /\ \A x, y \in S : b[x] = b[y] => x = y
      BY <1>4, <1>6, <1>7
    <2> HIDE DEF S
    <2>2. Sum(g, S) = Sum(f, {b[x] : x \in S})
      BY <2>1, SumReordered
    <2> QED BY <2>2 DEF S
  <1> QED BY <1>3, <1>4, <1>5, <1>8, <1>9 DEF back

LEMMA LotQtyIs ==
  ASSUME NEW lots \in Seq(Lot)
  PROVE  LotQty(lots) = LotSum(Qty, lots)
  <1> DEFINE f == [k \in DOMAIN lots |-> lots[k].qty]
  <1>1. DOMAIN lots = 1 .. Len(lots) /\ \A k \in DOMAIN lots : lots[k] \in Lot
    OBVIOUS
  <1>2. f = Weighed(Qty, lots)
    BY <1>1, WeightsAre DEF Weighed
  <1>3. DOMAIN f = 1 .. Len(lots) /\ LotQty(lots) = SumFunction(f)
    BY <1>1 DEF LotQty
  <1> HIDE DEF f
  <1> QED BY <1>2, <1>3, SumIsLibrarys DEF SumFunction, LotSum

\* Every lot holds something: lots that come to nothing are no lots.
LEMMA NoLots ==
  ASSUME NEW lots \in Seq(Lot), LotSum(Qty, lots) = 0
  PROVE  lots = <<>>
  <1> SUFFICES ASSUME lots # <<>> PROVE FALSE
    OBVIOUS
  <1> DEFINE f == Weighed(Qty, lots)
             S == 1 .. Len(lots)
             bad == {s \in SUBSET S : Sum(f, s) < 0}
  <1>1. /\ LotSum(Qty, lots) = Sum(f, S) /\ IsFiniteSet(S) /\ Len(lots) \in Nat
        /\ \A k \in S : lots[k] \in Lot /\ f[k] = Qty[lots[k]]
    BY LotSumIs, WeightsAre
  <1>2. \A k \in S : f[k] \in Nat \ {0}
    BY <1>1, WeightsAre DEF Lot
  <1>3. 1 \in S
    BY <1>1
  <1> HIDE DEF f, S
  <1>4. bad = {}
    <2> SUFFICES ASSUME bad # {} PROVE FALSE
      OBVIOUS
    <2>1. bad \subseteq SUBSET S
      OBVIOUS
    <2>2. PICK s \in bad : IsFiniteSet(s) /\ \A t \in bad : t \subseteq s => t = s
      <3> HIDE DEF bad
      <3> QED BY <1>1, <2>1, SmallestSet
    <2>3. s # {}
      <3>1. Sum(f, {}) = 0
        BY SumEmpty
      <3>2. {} \notin bad
        BY <3>1
      <3> QED BY <2>2, <3>2
    <2> DEFINE p == Pick(s)
               r == s \ {p}
    <2>4. Sum(f, s) = f[p] + Sum(f, r) /\ p \in s
      BY <2>2, <2>3, SumPick
    <2> HIDE DEF p
    <2>5. r \subseteq S /\ r \notin bad /\ IsFiniteSet(r)
      BY <2>2, <2>4, FS_Subset
    <2>6. Sum(f, r) \in Int
      BY <1>2, <2>5, SumType
    <2>7. f[p] \in Nat \ {0} /\ Sum(f, r) >= 0 /\ Sum(f, s) < 0
      BY <1>2, <2>2, <2>4, <2>5, <2>6
    <2> QED BY <2>4, <2>6, <2>7
  <1> DEFINE r == S \ {1}
  <1>5. IsFiniteSet(r) /\ r \subseteq S
    BY <1>1, FS_Subset
  <1>6. \A k \in S : f[k] \in Int
    BY <1>2
  <1>7. Sum(f, r) \in Int
    BY <1>5, <1>6, SumType
  <1>8. Sum(f, r) >= 0
    BY <1>4, <1>5, <1>7
  <1>9. \A x \in S : Sum(f, S) = f[x] + Sum(f, S \ {x})
    BY <1>1, <1>6, SumRemove
  <1>10. Sum(f, S) = f[1] + Sum(f, r) /\ f[1] \in Nat \ {0}
    BY <1>2, <1>3, <1>9
  <1> QED BY <1>1, <1>7, <1>8, <1>10

-------------------------------------------------------------------------------
(* A sell takes from the lots, one after the other.                        *)

TakenFrom(acc, lot, price) ==
  LET take == Min({lot.qty, acc.rest})
  IN [rest |-> acc.rest - take,
      gain |-> acc.gain + take * (price - lot.price),
      lots |-> IF take = lot.qty THEN acc.lots
               ELSE Append(acc.lots, [lot EXCEPT !.qty = @ - take])]

Unsold(qty) == [rest |-> qty, gain |-> 0, lots |-> <<>>]

\* What is left after the lots with an index in each part of D, as FoldLeft makes them.
Sales(lots, qty, price, D, it) ==
  it = [s \in SUBSET D |->
          IF s = {} THEN Unsold(qty)
          ELSE TakenFrom(it[s \ {Max(s)}], lots[Max(s)], price)]

After(lots, qty, price, D) == (CHOOSE it : Sales(lots, qty, price, D, it))[D]

LEMMA SoldIsAfter ==
  ASSUME NEW lots, NEW qty, NEW price
  PROVE  Sold(lots, qty, price) = After(lots, qty, price, DOMAIN lots)
  BY DEF Sold, FoldLeft, MapThenFoldSet, After, Sales, Unsold, TakenFrom

\* Sets of indices: every part of one has a last index.
Indices(S) == IsFiniteSet(S) /\ \A s \in SUBSET S : s # {} => Max(s) \in s

LEMMA IndicesOf ==
  ASSUME NEW n \in Nat
  PROVE  Indices(1 .. n)
  <1>1. IsFiniteSet(1 .. n)
    BY FS_Interval
  <1>2. ASSUME NEW s \in SUBSET (1 .. n), s # {} PROVE Max(s) \in s
    <2>1. s \in SUBSET Int /\ \A x \in s : x <= n
      OBVIOUS
    <2> QED BY <1>2, <2>1, MaxIs
  <1> QED BY <1>1, <1>2 DEF Indices

LEMMA IndicesPart ==
  ASSUME NEW S, Indices(S), NEW s, s \subseteq S
  PROVE  Indices(s) /\ IsFiniteSet(s) /\ (s # {} => Max(s) \in s)
  BY FS_Subset DEF Indices

LEMMA SalesAgree ==
  ASSUME NEW lots, NEW qty, NEW price, NEW S, NEW T, Indices(S),
         NEW a, NEW b, Sales(lots, qty, price, S, a), Sales(lots, qty, price, T, b),
         NEW u, u \subseteq S, u \subseteq T
  PROVE  a[u] = b[u]
  <1> DEFINE bad == {s \in SUBSET S : s \subseteq T /\ a[s] # b[s]}
             rest(s) == s \ {Max(s)}
  <1> SUFFICES ASSUME bad # {} PROVE FALSE
    OBVIOUS
  <1>1. bad \subseteq SUBSET S
    OBVIOUS
  <1>2. PICK s \in bad : IsFiniteSet(s) /\ \A t \in bad : t \subseteq s => t = s
    <2>1. IsFiniteSet(S)
      BY DEF Indices
    <2> HIDE DEF bad
    <2> QED BY <1>1, <2>1, SmallestSet
  <1>3. /\ a[s] = IF s = {} THEN Unsold(qty) ELSE TakenFrom(a[rest(s)], lots[Max(s)], price)
        /\ b[s] = IF s = {} THEN Unsold(qty) ELSE TakenFrom(b[rest(s)], lots[Max(s)], price)
    BY Zenon DEF Sales
  <1>4. s # {}
    BY <1>2, <1>3
  <1>5. Max(s) \in s
    BY <1>1, <1>2, <1>4, IndicesPart
  <1>6. rest(s) \notin bad
    BY <1>2, <1>5
  <1>7. a[rest(s)] = b[rest(s)]
    BY <1>2, <1>6
  <1> QED BY <1>2, <1>3, <1>4, <1>7

LEMMA SalesExist ==
  ASSUME NEW lots, NEW qty, NEW price, NEW S, Indices(S)
  PROVE  \E it : Sales(lots, qty, price, S, it)
  <1> DEFINE bad == {s \in SUBSET S : ~ \E it : Sales(lots, qty, price, s, it)}
  <1> SUFFICES ASSUME bad # {} PROVE FALSE
    OBVIOUS
  <1>1. bad \subseteq SUBSET S
    OBVIOUS
  <1>2. PICK s \in bad : IsFiniteSet(s) /\ \A t \in bad : t \subseteq s => t = s
    <2>1. IsFiniteSet(S)
      BY DEF Indices
    <2> HIDE DEF bad
    <2> QED BY <1>1, <2>1, SmallestSet
  <1> DEFINE rest(t) == t \ {Max(t)}
             G(t) == IF t = {} THEN Unsold(qty)
                     ELSE TakenFrom(After(lots, qty, price, rest(t)), lots[Max(t)], price)
             it == [t \in SUBSET s |-> G(t)]
  <1>3. ASSUME NEW t, t \subseteq s, t # s
        PROVE  After(lots, qty, price, t) = G(t)
    <2>1. \A u : u \subseteq t => \E a : Sales(lots, qty, price, u, a)
      BY <1>2, <1>3
    <2> DEFINE a == CHOOSE x : Sales(lots, qty, price, t, x)
               b == CHOOSE x : Sales(lots, qty, price, rest(t), x)
    <2>2. Sales(lots, qty, price, t, a)
      BY <2>1
    <2>3. a[t] = IF t = {} THEN Unsold(qty) ELSE TakenFrom(a[rest(t)], lots[Max(t)], price)
      BY <2>2, Zenon DEF Sales
    <2>4. Sales(lots, qty, price, rest(t), b)
      BY <2>1
    <2>5. Indices(t)
      BY <1>1, <1>2, <1>3, IndicesPart
    <2> HIDE DEF a, b
    <2>6. a[rest(t)] = b[rest(t)]
      <3>1. rest(t) \subseteq t /\ rest(t) \subseteq rest(t)
        OBVIOUS
      <3> HIDE DEF rest
      <3> QED BY <2>2, <2>4, <2>5, <3>1, SalesAgree
    <2>7. After(lots, qty, price, t) = a[t] /\ After(lots, qty, price, rest(t)) = b[rest(t)]
      BY Zenon DEF After, a, b
    <2> QED BY <2>3, <2>6, <2>7
  <1>4. ASSUME NEW t \in SUBSET s
        PROVE  it[t] = IF t = {} THEN Unsold(qty) ELSE TakenFrom(it[rest(t)], lots[Max(t)], price)
    <2>1. CASE t = {}
      BY <2>1
    <2>2. CASE t # {}
      <3>1. Max(t) \in t
        BY <1>1, <1>2, <2>2, IndicesPart
      <3>2. rest(t) \subseteq s /\ rest(t) # s
        BY <3>1
      <3>3. After(lots, qty, price, rest(t)) = G(rest(t))
        BY <1>3, <3>2
      <3>4. it[rest(t)] = G(rest(t)) /\ it[t] = G(t)
        BY <3>2
      <3> HIDE DEF it
      <3> QED BY <2>2, <3>3, <3>4
    <2> QED BY <2>1, <2>2
  <1>5. it = [t \in SUBSET s |-> it[t]]
    OBVIOUS
  <1>6. Sales(lots, qty, price, s, it)
    <2> HIDE DEF it
    <2> QED BY <1>4, <1>5 DEF Sales
  <1> QED BY <1>2, <1>6

\* The lots one by one.
LEMMA AfterNone ==
  ASSUME NEW lots, NEW qty, NEW price
  PROVE  After(lots, qty, price, {}) = Unsold(qty)
  <1>1. PICK it : Sales(lots, qty, price, {}, it)
    BY SalesExist, IndicesOf, IndicesPart
  <1>2. Sales(lots, qty, price, {}, CHOOSE x : Sales(lots, qty, price, {}, x))
    BY <1>1
  <1> QED BY <1>2 DEF Sales, After

LEMMA AfterOne ==
  ASSUME NEW lots, NEW qty, NEW price, NEW k \in Nat \ {0}
  PROVE  After(lots, qty, price, 1 .. k)
           = TakenFrom(After(lots, qty, price, 1 .. k - 1), lots[k], price)
  <1> DEFINE S == 1 .. k
             R == 1 .. k - 1
             a == CHOOSE x : Sales(lots, qty, price, S, x)
             b == CHOOSE x : Sales(lots, qty, price, R, x)
  <1>1. S # {} /\ k \in S /\ (\A x \in S : x <= k) /\ R \subseteq S
        /\ S \ {k} = R /\ S \subseteq Int
    OBVIOUS
  <1>2. Max(S) = k
    <2>1. Max(S) \in S /\ \A x \in S : x <= Max(S)
      BY <1>1, MaxIs
    <2> QED BY <1>1, <2>1
  <1>8. Indices(S) /\ Indices(R)
    BY <1>1, IndicesOf, IndicesPart
  <1> HIDE DEF S, R
  <1>3. Sales(lots, qty, price, S, a)
    <2>1. \E it : Sales(lots, qty, price, S, it)
      BY <1>8, SalesExist
    <2> QED BY <2>1
  <1>4. Sales(lots, qty, price, R, b)
    <2>1. \E it : Sales(lots, qty, price, R, it)
      BY <1>8, SalesExist
    <2> QED BY <2>1
  <1> HIDE DEF a, b
  <1>5. a[S] = TakenFrom(a[S \ {Max(S)}], lots[Max(S)], price)
    BY <1>1, <1>3, Zenon DEF Sales
  <1>6. a[R] = b[R]
    <2>1. R \subseteq S /\ R \subseteq R
      BY <1>1
    <2> QED BY <1>3, <1>4, <1>8, <2>1, SalesAgree
  <1>7. After(lots, qty, price, S) = a[S] /\ After(lots, qty, price, R) = b[R]
    BY Zenon DEF After, a, b
  <1> QED BY <1>1, <1>2, <1>5, <1>6, <1>7 DEF S, R

Sale == [rest : Nat, gain : Int, lots : Seq(Lot)]

\* What lots cost, less what was made and what the rest of the sell would bring.
Owed(acc, price) == LotSum(Cost, acc.lots) - acc.gain - price * acc.rest

\* One lot: what is taken from it is gone from it and from what is left to sell, and
\* its cost is exchanged for the price.
LEMMA TakenFromIs ==
  ASSUME NEW acc \in Sale, NEW lot \in Lot, NEW price \in Nat,
         acc.rest > 0 => acc.lots = <<>>
  PROVE  LET new == TakenFrom(acc, lot, price)
         IN /\ new \in Sale /\ (new.rest > 0 => new.lots = <<>>)
            /\ LotSum(Qty, new.lots) - new.rest = LotSum(Qty, acc.lots) - acc.rest + Qty[lot]
            /\ Owed(new, price) = Owed(acc, price) + Cost[lot]
  <1> DEFINE take == Min({lot.qty, acc.rest})
             new  == TakenFrom(acc, lot, price)
             Q    == LotSum(Qty, acc.lots)
             C    == LotSum(Cost, acc.lots)
  <1>1. /\ acc.rest \in Nat /\ acc.gain \in Int /\ acc.lots \in Seq(Lot)
        /\ lot.qty \in Nat \ {0} /\ lot.price \in Nat
        /\ lot = [qty |-> lot.qty, price |-> lot.price]
    BY DEF Sale, Lot
  <1>2. take = IF lot.qty <= acc.rest THEN lot.qty ELSE acc.rest
    BY <1>1, MinOfTwo
  <1>3. new = [rest |-> acc.rest - take, gain |-> acc.gain + take * (price - lot.price),
               lots |-> IF take = lot.qty THEN acc.lots
                        ELSE Append(acc.lots, [lot EXCEPT !.qty = @ - take])]
    BY DEF TakenFrom
  <1> HIDE DEF take, new
  <1>4. take \in Int /\ price - lot.price \in Int
    BY <1>1, <1>2
  <1> DEFINE gain == acc.gain + take * (price - lot.price)
             tp == take * price
             tc == take * lot.price
             lc == lot.qty * lot.price
  <1>5. /\ gain \in Int /\ gain = acc.gain + tp - tc
        /\ tp \in Int /\ tc \in Int /\ lc \in Int
    <2>2. price \in Int /\ lot.price \in Int /\ lot.qty \in Int
      BY <1>1
    <2>3. take * (price - lot.price) = tp - tc /\ tp \in Int /\ tc \in Int
      BY <1>4, <2>2, Products
    <2>4. take * (price - lot.price) \in Int /\ lc \in Int
      BY <1>4, <2>2, Products
    <2>1. /\ take * (price - lot.price) = tp - tc /\ take * (price - lot.price) \in Int
          /\ tp \in Int /\ tc \in Int /\ lc \in Int
      BY <2>3, <2>4
    <2> HIDE DEF tp, tc, lc
    <2> QED BY <1>1, <2>1
  <1>6. Q \in Int /\ C \in Int /\ Qty[lot] = lot.qty /\ Cost[lot] = lc
    BY <1>1, LotSumIs, WeightsAre
  <1>7. ASSUME new \in Sale, new.rest = acc.rest - take, new.gain = gain,
               LotSum(Cost, new.lots) = C + lc - tc
        PROVE  Owed(new, price) = Owed(acc, price) + Cost[lot]
    <2> DEFINE D == LotSum(Cost, new.lots)
               pr == price * acc.rest
               pn == price * new.rest
    <2>1. pn = pr - tp /\ pr \in Int
      <3>1. price \in Int /\ acc.rest \in Int
        BY <1>1
      <3>2. price * (acc.rest - take) = price * acc.rest - price * take
            /\ price * acc.rest \in Int
        BY <1>4, <3>1, Products
      <3>3. price * take = take * price
        BY <1>4, <3>1
      <3> QED BY <1>7, <3>2, <3>3
    <2>2. D = C + lc - tc /\ new.gain = acc.gain + tp - tc
      BY <1>5, <1>7
    <2> DEFINE ag == acc.gain
               ng == new.gain
    <2>4. /\ C \in Int /\ ag \in Int /\ pr \in Int /\ tp \in Int /\ tc \in Int /\ lc \in Int
          /\ D = C + lc - tc /\ ng = ag + tp - tc /\ pn = pr - tp
      BY <1>1, <1>5, <1>6, <2>1, <2>2
    <2> HIDE DEF C, D, tp, tc, lc, pr, pn, gain, ag, ng
    <2>3. D - ng - pn = (C - ag - pr) + lc
      BY <2>4
    <2> QED BY <1>6, <2>3 DEF Owed, C, D, pr, pn, ag, ng
  <1> HIDE DEF Q, C, tp, tc, lc
  <1>8. CASE lot.qty <= acc.rest
    <2>1. new = [rest |-> acc.rest - lot.qty, gain |-> gain, lots |-> acc.lots]
      BY <1>2, <1>3, <1>8
    <2> HIDE DEF gain
    <2>2. acc.rest - lot.qty \in Nat /\ take = lot.qty
      BY <1>1, <1>2, <1>8
    <2>3. new \in Sale /\ new.rest = acc.rest - take /\ new.lots = acc.lots /\ new.gain = gain
      BY <1>1, <1>5, <2>1, <2>2 DEF Sale
    <2>4. new.rest > 0 => acc.rest > 0
      BY <1>1, <2>2, <2>3
    <2>5. LotSum(Qty, new.lots) - new.rest = Q - acc.rest + Qty[lot]
      BY <1>1, <1>6, <2>2, <2>3 DEF Q
    <2>6. LotSum(Cost, new.lots) = C + lc - tc
      <3>1. lc = tc /\ LotSum(Cost, new.lots) = C
        BY <2>2, <2>3 DEF C, lc, tc
      <3> QED BY <1>5, <1>6, <3>1
    <2>7. Owed(new, price) = Owed(acc, price) + Cost[lot]
      BY <1>7, <2>3, <2>6
    <2> QED BY <2>3, <2>4, <2>5, <2>7 DEF new, Q
  <1>9. CASE ~(lot.qty <= acc.rest)
    <2> DEFINE left == [qty |-> lot.qty - acc.rest, price |-> lot.price]
    <2>1. take = acc.rest /\ take # lot.qty
      BY <1>1, <1>2, <1>9
    <2>2. [lot EXCEPT !.qty = @ - take] = left
      BY <1>1, <2>1
    <2>3. new = [rest |-> acc.rest - acc.rest, gain |-> gain, lots |-> Append(acc.lots, left)]
      BY <1>3, <2>1, <2>2
    <2>4. left \in Lot /\ left.qty = lot.qty - acc.rest /\ left.price = lot.price
          /\ acc.rest - acc.rest = 0
      BY <1>1, <1>9 DEF Lot
    <2> HIDE DEF gain, left
    <2>5. /\ LotSum(Qty, Append(acc.lots, left)) = Q + Qty[left]
          /\ LotSum(Cost, Append(acc.lots, left)) = C + Cost[left]
          /\ Append(acc.lots, left) \in Seq(Lot)
      <3> DEFINE al == acc.lots
      <3>1. al \in Seq(Lot) /\ Qty \in [Lot -> Int] /\ Cost \in [Lot -> Int]
        BY <1>1, WeightsAre
      <3> HIDE DEF al
      <3>2. /\ LotSum(Qty, Append(al, left)) = LotSum(Qty, al) + Qty[left]
            /\ LotSum(Cost, Append(al, left)) = LotSum(Cost, al) + Cost[left]
        BY <2>4, <3>1, LotSumAppend
      <3>3. Append(al, left) \in Seq(Lot)
        BY <2>4, <3>1
      <3> QED BY <3>2, <3>3 DEF al, Q, C
    <2>6. new \in Sale /\ new.rest = 0 /\ new.lots = Append(acc.lots, left) /\ new.gain = gain
      BY <1>5, <2>3, <2>4, <2>5 DEF Sale
    <2>7. LotSum(Qty, new.lots) - new.rest = Q - acc.rest + Qty[lot]
      <3>1. Qty[left] = lot.qty - acc.rest
        BY <2>4, WeightsAre
      <3> QED BY <1>1, <1>6, <2>5, <2>6, <3>1
    <2>8. LotSum(Cost, new.lots) = C + lc - tc
      <3>1. Cost[left] = (lot.qty - take) * lot.price
        BY <2>1, <2>4, WeightsAre
      <3>2. (lot.qty - take) * lot.price = lc - tc
        BY <1>1, <1>4, Products DEF lc, tc
      <3> QED BY <1>5, <1>6, <2>5, <2>6, <3>1, <3>2
    <2>9. new.rest = acc.rest - take
      BY <2>1, <2>4, <2>6
    <2>10. Owed(new, price) = Owed(acc, price) + Cost[lot]
      BY <1>7, <2>6, <2>8, <2>9
    <2> QED BY <2>6, <2>7, <2>10 DEF new, Q
  <1> QED BY <1>8, <1>9

\* The sum of a ledger's lots, one lot at a time.
LEMMA LotSumNext ==
  ASSUME NEW lots \in Seq(Lot), NEW w \in [Lot -> Int], NEW k \in 1 .. Len(lots)
  PROVE  /\ Sum(Weighed(w, lots), 1 .. k) = w[lots[k]] + Sum(Weighed(w, lots), 1 .. k - 1)
         /\ Sum(Weighed(w, lots), 1 .. k - 1) \in Int
  <1> DEFINE H == Weighed(w, lots)
             S == 1 .. k
             R == 1 .. k - 1
             n == Len(lots)
  <1>1. n \in Nat /\ \A x \in 1 .. n : H[x] = w[lots[x]] /\ w[lots[x]] \in Int
    BY LotSumIs
  <1>2. S \ {k} = R /\ k \in S /\ R \subseteq S
    OBVIOUS
  <1>3. S \subseteq 1 .. n
    BY <1>1
  <1>4. IsFiniteSet(S)
    BY FS_Interval
  <1>5. H[k] = w[lots[k]]
    BY <1>1
  <1> HIDE DEF S, R, H, n
  <1>6. IsFiniteSet(R)
    BY <1>2, <1>4, FS_Subset
  <1>7. \A x \in S : H[x] \in Int
    BY <1>1, <1>3
  <1>8. \A x \in S : Sum(H, S) = H[x] + Sum(H, S \ {x})
    BY <1>4, <1>7, SumRemove
  <1>9. Sum(H, S) = H[k] + Sum(H, R)
    BY <1>2, <1>8
  <1>10. \A x \in R : H[x] \in Int
    BY <1>2, <1>7
  <1>11. Sum(H, R) \in Int
    BY <1>6, <1>10, SumType
  <1> QED BY <1>5, <1>9, <1>11 DEF S, R, H

\* A sell takes what it can: lots enough for it lose exactly its quantity, and what they
\* lose in cost is what the sell brings less what is made on it.
LEMMA SoldIs ==
  ASSUME NEW lots \in Seq(Lot), NEW qty \in Nat, NEW price \in Nat
  PROVE  LET sale == Sold(lots, qty, price)
         IN /\ sale.lots \in Seq(Lot) /\ sale.gain \in Int
            /\ LotSum(Qty, lots) >= qty =>
                 /\ LotSum(Qty, sale.lots) = LotSum(Qty, lots) - qty
                 /\ LotSum(Cost, sale.lots) - sale.gain = LotSum(Cost, lots) - price * qty
  <1> DEFINE H == Weighed(Qty, lots)
             G == Weighed(Cost, lots)
             n == Len(lots)
             At(k) == After(lots, qty, price, 1 .. k)
             P(k) == /\ At(k) \in Sale /\ (At(k).rest > 0 => At(k).lots = <<>>)
                     /\ LotSum(Qty, At(k).lots) - At(k).rest = Sum(H, 1 .. k) - qty
                     /\ Owed(At(k), price) = Sum(G, 1 .. k) - price * qty
             bad == {k \in Nat : k <= n /\ ~P(k)}
  <1>1. /\ LotSum(Qty, lots) = Sum(H, 1 .. n) /\ LotSum(Qty, lots) \in Int /\ n \in Nat
        /\ LotSum(Cost, lots) = Sum(G, 1 .. n) /\ LotSum(Cost, lots) \in Int
        /\ DOMAIN lots = 1 .. n /\ \A k \in 1 .. n : lots[k] \in Lot
    BY LotSumIs, WeightsAre
  <1>2. P(0)
    <2>1. 1 .. 0 = {}
      OBVIOUS
    <2>2. At(0) = Unsold(qty)
      BY <2>1, AfterNone
    <2>3. Unsold(qty) \in Sale /\ Unsold(qty).lots = <<>> /\ Unsold(qty).rest = qty
          /\ Unsold(qty).gain = 0
      BY DEF Unsold, Sale
    <2>4. Sum(H, {}) = 0 /\ Sum(G, {}) = 0
      BY SumEmpty
    <2>5. Sum(H, 1 .. 0) = 0 /\ Sum(G, 1 .. 0) = 0
      BY <2>1, <2>4
    <2> HIDE DEF At, H, G
    <2>6. LotSum(Qty, At(0).lots) - At(0).rest = Sum(H, 1 .. 0) - qty
      BY <2>2, <2>3, <2>5, LotSumEmpty
    <2>7. Owed(At(0), price) = 0 - 0 - price * qty
      BY <2>2, <2>3, LotSumEmpty DEF Owed
    <2>8. Owed(At(0), price) = Sum(G, 1 .. 0) - price * qty
      BY <2>5, <2>7
    <2> QED BY <2>2, <2>3, <2>6, <2>8
  <1>3. ASSUME NEW k \in 1 .. n, P(k - 1) PROVE P(k)
    <2>1. k \in Nat \ {0} /\ lots[k] \in Lot
      BY <1>1
    <2>2. At(k) = TakenFrom(At(k - 1), lots[k], price)
      BY <2>1, AfterOne
    <2>3. /\ Sum(H, 1 .. k) = Qty[lots[k]] + Sum(H, 1 .. k - 1) /\ Sum(H, 1 .. k - 1) \in Int
          /\ Sum(G, 1 .. k) = Cost[lots[k]] + Sum(G, 1 .. k - 1) /\ Sum(G, 1 .. k - 1) \in Int
      BY LotSumNext, WeightsAre
    <2> DEFINE a == At(k - 1)
               b == At(k)
    <2>4. a \in Sale /\ (a.rest > 0 => a.lots = <<>>)
          /\ LotSum(Qty, a.lots) - a.rest = Sum(H, 1 .. k - 1) - qty
          /\ Owed(a, price) = Sum(G, 1 .. k - 1) - price * qty
      BY <1>3
    <2>5. b = TakenFrom(a, lots[k], price)
      BY <2>2
    <2> HIDE DEF a, b
    <2>6. b \in Sale /\ (b.rest > 0 => b.lots = <<>>)
          /\ LotSum(Qty, b.lots) - b.rest = LotSum(Qty, a.lots) - a.rest + Qty[lots[k]]
          /\ Owed(b, price) = Owed(a, price) + Cost[lots[k]]
      BY <2>1, <2>4, <2>5, TakenFromIs
    <2> DEFINE h == Sum(H, 1 .. k - 1)
               g == Sum(G, 1 .. k - 1)
               lq == Qty[lots[k]]
               lc == Cost[lots[k]]
               pq == price * qty
    <2>7. /\ h \in Int /\ g \in Int /\ lq \in Int /\ lc \in Int /\ pq \in Int
          /\ Sum(H, 1 .. k) = lq + h /\ Sum(G, 1 .. k) = lc + g
          /\ LotSum(Qty, b.lots) - b.rest = (h - qty) + lq
          /\ Owed(b, price) = (g - pq) + lc
      BY <2>1, <2>3, <2>4, <2>6, WeightsAre, Product
    <2> HIDE DEF h, g, lq, lc, pq
    <2>8. LotSum(Qty, b.lots) - b.rest = Sum(H, 1 .. k) - qty
      BY <2>7
    <2>9. Owed(b, price) = Sum(G, 1 .. k) - pq
      BY <2>7
    <2> QED BY <2>6, <2>8, <2>9 DEF b, pq
  <1>4. bad = {}
    <2> SUFFICES ASSUME bad # {} PROVE FALSE
      OBVIOUS
    <2>1. bad \in SUBSET Nat
      OBVIOUS
    <2>2. PICK k \in bad : \A j \in bad : k <= j
      <3> HIDE DEF bad
      <3> QED BY <2>1, LeastNumber
    <2>3. k \in Nat /\ k <= n /\ ~P(k)
      BY <2>2
    <2> HIDE DEF P
    <2>4. k # 0
      BY <1>2, <2>3
    <2>5. k - 1 \in Nat /\ k - 1 <= n /\ k \in 1 .. n /\ ~(k <= k - 1)
      BY <1>1, <2>3, <2>4
    <2>6. P(k - 1)
      BY <2>2, <2>5
    <2> QED BY <1>3, <2>3, <2>5, <2>6
  <1>5. P(n)
    <2> HIDE DEF P
    <2> QED BY <1>1, <1>4
  <1> DEFINE sale == Sold(lots, qty, price)
             pq == price * qty
  <1>6. sale = At(n)
    BY <1>1, SoldIsAfter
  <1>7. /\ sale \in Sale /\ (sale.rest > 0 => sale.lots = <<>>)
        /\ LotSum(Qty, sale.lots) - sale.rest = LotSum(Qty, lots) - qty
        /\ Owed(sale, price) = LotSum(Cost, lots) - pq
    BY <1>1, <1>5, <1>6
  <1> HIDE DEF sale, P, At
  <1>8. sale.lots \in Seq(Lot) /\ sale.gain \in Int /\ sale.rest \in Nat
    BY <1>7 DEF Sale
  <1>9. LotSum(Qty, sale.lots) \in Int /\ LotSum(Cost, sale.lots) \in Int /\ pq \in Int
    BY <1>8, LotSumIs, WeightsAre, Product
  <1> HIDE DEF pq
  <1>10. ASSUME LotSum(Qty, lots) >= qty
         PROVE  /\ LotSum(Qty, sale.lots) = LotSum(Qty, lots) - qty
                /\ LotSum(Cost, sale.lots) - sale.gain = LotSum(Cost, lots) - pq
    <2>1. sale.rest = 0
      <3> SUFFICES ASSUME sale.rest > 0 PROVE FALSE
        BY <1>8
      <3>1. LotSum(Qty, sale.lots) = 0
        BY <1>7, LotSumEmpty
      <3> QED BY <1>1, <1>7, <1>8, <1>10, <3>1
    <2>2. LotSum(Qty, sale.lots) = LotSum(Qty, lots) - qty
      BY <1>1, <1>7, <1>9, <2>1
    <2>3. price * sale.rest = 0
      BY <2>1
    <2>4. LotSum(Cost, sale.lots) - sale.gain - 0 = LotSum(Cost, lots) - pq
      BY <1>7, <2>3 DEF Owed
    <2>5. LotSum(Cost, sale.lots) - sale.gain = LotSum(Cost, lots) - pq
      BY <1>1, <1>8, <1>9, <2>4
    <2> QED BY <2>2, <2>5
  <1> QED BY <1>8, <1>10 DEF sale, pq

-------------------------------------------------------------------------------
(* Average prices.                                                         *)

\* What a position has cost, less what it has made.
Booked(p) == p.qty * p.avg - p.realized

LEMMA Multiple ==
  ASSUME NEW n \in Nat, NEW d \in Nat \ {0}, n % d = 0
  PROVE  \E c \in Nat : n = d * c
  <1>1. n \div d \in Nat /\ n = d * (n \div d) + (n % d)
    OBVIOUS
  <1> DEFINE c == n \div d
  <1>2. c \in Nat /\ n = d * c + 0
    BY <1>1
  <1> HIDE DEF c
  <1>3. d * c \in Nat
    BY <1>2, Product
  <1> QED BY <1>2, <1>3

LEMMA Divided ==
  ASSUME NEW n \in Nat \ {0}, NEW z \in Nat
  PROVE  (n * z) \div n = z
  OBVIOUS

LEMMA ScaleIs ==
  ASSUME NEW m \in 1 .. MaxOrders, NEW n \in 1 .. MaxHeld
  PROVE  /\ Scale[m] \in Nat \ {0} /\ Scale[m - 1] \in Nat \ {0}
         /\ \E c \in Nat : Scale[m] = n * (Scale[m - 1] * c)
  <1>1. m \in 0 .. MaxOrders /\ m - 1 \in 0 .. MaxOrders
    BY BookAssumption
  <1> DEFINE S == Scale[m]
             t == Scale[m - 1]
  <1>2. S \in Nat \ {0} /\ t \in Nat \ {0} /\ n \in Nat \ {0} /\ S % (n * t) = 0
    BY <1>1, ScaleAssumption
  <1> HIDE DEF S, t
  <1>3. n * t \in Nat \ {0}
    BY <1>2
  <1>4. PICK c \in Nat : S = (n * t) * c
    BY <1>2, <1>3, Multiple
  <1>5. (n * t) * c = n * (t * c)
    BY <1>2
  <1> QED BY <1>2, <1>4, <1>5 DEF S, t

LEMMA FillWhole ==
  ASSUME NEW o \in Order, NEW px \in Prices, NEW m \in 0 .. MaxOrders
  PROVE  \E k \in Nat : FillOf(o, px).price = Scale[m] * k
  <1>1. o.side \in {"buy", "sell"}
    BY DEF Order
  <1>2. FillOf(o, px).price = FillPrice(o.side, px)
    BY DEF FillOf
  <1>3. FillPrice(o.side, px) % Scale[m] = 0
    BY <1>1, ScaleAssumption
  <1>4. FillOf(o, px).price \in Nat
    BY FillIs DEF FillType
  <1>5. Scale[m] \in Nat \ {0}
    BY ScaleAssumption
  <1> QED BY <1>2, <1>3, <1>4, <1>5, Multiple

\* Position.apply, of a fill that does not go through zero: what the position has cost,
\* less what it has made, moves by what the fill pays; and its average can be averaged
\* once less.
LEMMA AppliedCosts ==
  ASSUME NEW p \in Position, NEW f \in FillType, NEW m \in 1 .. MaxOrders,
         Sized(p.qty + Signed(f)) <= MaxHeld,
         NEW j \in Nat, p.avg = Scale[m] * j, NEW k \in Nat, f.price = Scale[m] * k
  PROVE  LET new == Applied(p, f)
         IN /\ \E i \in Nat : new.avg = Scale[m - 1] * i
            /\ ~Crosses(p, f) => Booked(new) = Booked(p) + Signed(f) * f.price
  <1> DEFINE n == Signed(f)
             t == Scale[m - 1]
             new == Applied(p, f)
             np == n * f.price
  <1>1. /\ p.qty \in Int /\ p.avg \in Nat /\ p.realized \in Int
        /\ n \in Int /\ f.price \in Nat /\ f.qty \in Nat \ {0}
        /\ n = (IF f.side = "buy" THEN f.qty ELSE -f.qty)
        /\ p = [qty |-> p.qty, avg |-> p.avg, realized |-> p.realized]
    BY SignedIs DEF Position
  <1>2. t \in Nat \ {0} /\ Scale[m] \in Nat \ {0} /\ \A q \in 1 .. MaxHeld :
          \E c \in Nat : Scale[m] = q * (t * c)
    <2>1. 1 \in 1 .. MaxHeld
      BY BookAssumption, ScaleAssumption
    <2> QED BY <2>1, ScaleIs
  <1>3. \A z \in Nat : \E i \in Nat : Scale[m] * z = t * i
    <2>1. 1 \in 1 .. MaxHeld
      BY BookAssumption, ScaleAssumption
    <2>2. PICK c \in Nat : Scale[m] = 1 * (t * c)
      BY <1>2, <2>1
    <2> HIDE DEF t
    <2>3. ASSUME NEW z \in Nat PROVE \E i \in Nat : Scale[m] * z = t * i
      <3>1. c * z \in Nat
        BY Product
      <3>2. (1 * (t * c)) * z = t * (c * z)
        BY <1>2
      <3> QED BY <2>2, <3>1, <3>2
    <2> QED BY <2>3
  <1> HIDE DEF n, t, new
  <1>4. np \in Int
    BY <1>1, Products
  <1>5. CASE p.qty = 0 \/ Crosses(p, f)
    <2> DEFINE r == p.realized + (IF p.qty = 0 THEN 0 ELSE n * (p.avg - f.price))
    <2>1. new = [qty |-> p.qty + n, avg |-> f.price, realized |-> r]
      BY <1>5 DEF Applied, n, new
    <2> HIDE DEF r
    <2>2. new.avg = Scale[m] * k
      BY <2>1
    <2>3. \E i \in Nat : new.avg = t * i
      BY <1>3, <2>2
    <2>4. ASSUME ~Crosses(p, f) PROVE Booked(new) = Booked(p) + np
      <3>1. p.qty = 0 /\ r = p.realized
        BY <1>1, <1>5, <2>4 DEF r
      <3>2. new.qty = n /\ new.avg = f.price /\ new.realized = p.realized
        BY <1>1, <2>1, <3>1
      <3>3. p.qty * p.avg = 0
        BY <1>1, <3>1
      <3> QED BY <1>1, <1>4, <3>2, <3>3 DEF Booked
    <2> QED BY <2>3, <2>4 DEF new, t, n
  <1>6. CASE ~(p.qty = 0 \/ Crosses(p, f)) /\ Adds(p, f)
    <2> DEFINE a == Sized(p.qty)
               b == f.qty
               N == Sized(p.qty + n)
               avg == (p.avg * a + f.price * b) \div N
    <2>1. p.qty * (p.qty + n) >= 0 /\ N > a /\ p.qty # 0
      <3>1. p.qty * (p.qty + n) \in Int
        BY <1>1, Products
      <3>2. ~(p.qty * (p.qty + n) < 0)
        BY <1>6 DEF Crosses, n
      <3> HIDE DEF a
      <3> QED BY <1>1, <1>6, <3>1, <3>2 DEF Adds, a, n
    <2>2. \/ p.qty > 0 /\ n = b /\ a = p.qty /\ N = p.qty + n
          \/ p.qty < 0 /\ n = -b /\ a = -p.qty /\ N = -(p.qty + n)
      <3>1. CASE p.qty > 0
        <4>1. p.qty + n >= 0
          BY <1>1, <2>1, <3>1
        <4> QED BY <1>1, <2>1, <3>1, <4>1 DEF Sized
      <3>2. CASE p.qty < 0
        <4>1. p.qty + n <= 0
          BY <1>1, <2>1, <3>2
        <4> QED BY <1>1, <2>1, <3>2, <4>1 DEF Sized
      <3> QED BY <1>1, <2>1, <3>1, <3>2
    <2>3. N \in 1 .. MaxHeld /\ a \in Nat /\ b \in Nat /\ N \in Nat \ {0}
      BY <1>1, <2>2, BookAssumption DEF n
    <2>4. new = [p EXCEPT !.qty = @ + n, !.avg = avg]
      BY <1>6, Zenon DEF Applied, n, new
    <2> HIDE DEF a, b, N
    <2>5. PICK c \in Nat : Scale[m] = N * (t * c)
      BY <1>2, <2>3
    <2>6. (\E i \in Nat : avg = t * i) /\ avg \in Nat /\ N * avg = p.avg * a + f.price * b
      <3> DEFINE x == p.avg
                 y == f.price
                 i == c * (j * a + k * b)
                 z == t * i
                 sum == x * a + y * b
      <3>1. x = (N * (t * c)) * j /\ y = (N * (t * c)) * k /\ avg = sum \div N
        BY <2>5
      <3>2. i \in Nat
        <4>1. j * a \in Nat /\ k * b \in Nat
          BY <2>3, Product
        <4>2. j * a + k * b \in Nat
          BY <4>1
        <4> QED BY <4>2, Product
      <3>3. z \in Nat
        <4> HIDE DEF i
        <4> QED BY <1>2, <3>2, Product
      <3> HIDE DEF x, y, avg
      <3>4. sum = N * z
        BY <1>2, <2>3, <3>1
      <3> HIDE DEF sum, z
      <3>5. avg = z
        BY <2>3, <3>1, <3>3, <3>4, Divided
      <3>6. avg \in Nat /\ N * avg = sum
        BY <3>3, <3>4, <3>5
      <3>7. avg = t * i
        BY <3>5 DEF z
      <3> QED BY <3>2, <3>6, <3>7 DEF x, y, sum
    <2> HIDE DEF avg
    <2>7. new = [qty |-> p.qty + n, avg |-> avg, realized |-> p.realized]
      BY <1>1, <2>4, Zenon
    <2>8. (p.qty + n) * avg = p.qty * p.avg + np
      <3>1. CASE p.qty > 0 /\ n = b /\ a = p.qty /\ N = p.qty + n
        <4>1. p.avg * a = p.qty * p.avg /\ f.price * b = np
          BY <1>1, <3>1
        <4> QED BY <2>6, <3>1, <4>1
      <3>2. CASE p.qty < 0 /\ n = -b /\ a = -p.qty /\ N = -(p.qty + n)
        <4>1. p.avg * a = -(p.qty * p.avg) /\ p.qty * p.avg \in Int
          BY <1>1, <3>2
        <4>2. f.price * b = -np
          <5> DEFINE y == f.price
          <5>1. y \in Int /\ b \in Int /\ n = -b /\ np = n * y
            BY <1>1, <2>3, <3>2
          <5> HIDE DEF y, np
          <5>2. (-b) * y = -(b * y) /\ b * y \in Int /\ y * b = b * y
            BY <5>1, Products
          <5>3. np = -(y * b)
            BY <5>1, <5>2
          <5>4. y * b = -np
            BY <5>2, <5>3
          <5> QED BY <5>4 DEF y
        <4>3. p.qty + n = -N /\ (-N) * avg = -(N * avg) /\ N * avg \in Int
          BY <1>1, <2>3, <2>6, <3>2
        <4> HIDE DEF np
        <4> QED BY <1>4, <2>6, <4>1, <4>2, <4>3
      <3> QED BY <2>2, <3>1, <3>2
    <2>9. Booked(new) = Booked(p) + np
      <3>1. p.qty * p.avg \in Int
        BY <1>1, Products
      <3>2. Booked(new) = (p.qty + n) * avg - p.realized
        BY <2>7 DEF Booked
      <3> HIDE DEF np
      <3> QED BY <1>1, <1>4, <2>8, <3>1, <3>2 DEF Booked
    <2>10. new.avg = avg
      BY <2>7
    <2> QED BY <2>6, <2>9, <2>10 DEF new, t, n
  <1>7. CASE ~(p.qty = 0 \/ Crosses(p, f)) /\ ~Adds(p, f)
    <2> DEFINE r == p.realized - n * (f.price - p.avg)
    <2>1. new = [p EXCEPT !.qty = @ + n, !.realized = r]
      BY <1>7, Zenon DEF Applied, n, new
    <2>2. n * (f.price - p.avg) = np - n * p.avg /\ n * p.avg \in Int
          /\ (p.qty + n) * p.avg = p.qty * p.avg + n * p.avg /\ p.qty * p.avg \in Int
      <3> DEFINE y == f.price
                 x == p.avg
                 h == p.qty
      <3>1. y \in Int /\ x \in Int /\ h \in Int /\ n \in Int
        BY <1>1
      <3> HIDE DEF y, x, h, np, r
      <3>2. n * (y - x) = n * y - n * x /\ n * x \in Int
        BY <3>1, Products
      <3>3. (h + n) * x = h * x + n * x
        BY <3>1, Products
      <3>4. h * x \in Int
        BY <3>1, Products
      <3> QED BY <3>2, <3>3, <3>4 DEF y, x, h, np
    <2> DEFINE na == n * p.avg
               qa == p.qty * p.avg
    <2>3. r = p.realized - (np - na)
      BY <2>2
    <2> HIDE DEF r
    <2>4. new = [qty |-> p.qty + n, avg |-> p.avg, realized |-> r]
      BY <1>1, <2>1, Zenon
    <2>5. Booked(new) = (qa + na) - r
      BY <2>2, <2>4 DEF Booked
    <2>6. na \in Int /\ qa \in Int
      BY <2>2
    <2>7. Booked(p) = qa - p.realized
      BY DEF Booked
    <2> HIDE DEF na, qa, np
    <2>8. Booked(new) = Booked(p) + np
      BY <1>1, <1>4, <2>3, <2>5, <2>6, <2>7
    <2>9. \E i \in Nat : new.avg = t * i
      <3>1. new.avg = Scale[m] * j
        BY <2>4
      <3> QED BY <1>3, <3>1
    <2> QED BY <2>8, <2>9 DEF new, t, n, np
  <1> QED BY <1>5, <1>6, <1>7

-------------------------------------------------------------------------------
(* The ledgers.                                                            *)

\* What a ledger's lots cost, less what it has made.
Basis(l) == LotSum(Cost, l.lots) - l.realized

\* Both cost bases absorb the whole of a fill the lots can cover, at what it pays.
LEMMA AbsorbIs ==
  ASSUME NEW l \in Ledger, NEW f \in FillType
  PROVE  /\ AbsorbLifo(l, f) \in Ledger /\ AbsorbFifo(l, f) \in Ledger
         /\ LotSum(Qty, l.lots) + Signed(f) >= 0 =>
              \A new \in {AbsorbLifo(l, f), AbsorbFifo(l, f)} :
                /\ LotSum(Qty, new.lots) = LotSum(Qty, l.lots) + Signed(f)
                /\ Basis(new) = Basis(l) + Signed(f) * f.price
  <1> DEFINE n == f.qty
             x == f.price
             Q == LotSum(Qty, l.lots)
             C == LotSum(Cost, l.lots)
  <1>1. /\ n \in Nat \ {0} /\ x \in Nat /\ f.side \in {"buy", "sell"}
        /\ Signed(f) = (IF f.side = "buy" THEN n ELSE -n)
    BY SignedIs DEF FillType
  <1>2. /\ l.lots \in Seq(Lot) /\ l.realized \in Int
        /\ l = [lots |-> l.lots, realized |-> l.realized]
    BY DEF Ledger
  <1>3. Q \in Int /\ C \in Int
    BY <1>2, LotSumIs, WeightsAre
  <1>4. CASE f.side = "buy"
    <2> DEFINE lot == [qty |-> n, price |-> x]
               more == Append(l.lots, lot)
               new == [lots |-> more, realized |-> l.realized]
    <2>1. lot \in Lot /\ Qty[lot] = n /\ Cost[lot] = n * x /\ n * x \in Int
      BY <1>1, WeightsAre DEF Lot
    <2>2. Bought(l, f) = new
      <3>1. Bought(l, f) = [l EXCEPT !.lots = more]
        BY Zenon DEF Bought
      <3> HIDE DEF more
      <3> QED BY <1>2, <3>1, Zenon
    <2>3. AbsorbLifo(l, f) = new /\ AbsorbFifo(l, f) = new
      BY <1>4, <2>2, Zenon DEF AbsorbLifo, AbsorbFifo
    <2> HIDE DEF lot
    <2>4. more \in Seq(Lot) /\ LotSum(Qty, more) = Q + n /\ LotSum(Cost, more) = C + n * x
      BY <1>2, <2>1, LotSumAppend, WeightsAre
    <2> HIDE DEF more
    <2>5. new \in Ledger
      BY <1>2, <2>4 DEF Ledger
    <2>6. LotSum(Qty, new.lots) = Q + Signed(f)
      BY <1>1, <1>4, <2>4
    <2>7. Basis(new) = Basis(l) + Signed(f) * x
      <3>1. Signed(f) * x = n * x /\ new.lots = more /\ new.realized = l.realized
        BY <1>1, <1>4
      <3> DEFINE nx == n * x
      <3>2. Basis(new) = (C + nx) - l.realized /\ Basis(l) = C - l.realized /\ nx \in Int
        BY <2>1, <2>4, <3>1 DEF Basis
      <3> HIDE DEF nx, C
      <3>3. Basis(new) = Basis(l) + nx
        BY <1>2, <1>3, <3>2
      <3> QED BY <3>1, <3>3 DEF nx
    <2> QED BY <2>3, <2>5, <2>6, <2>7
  <1>5. CASE f.side = "sell"
    <2> DEFINE back == Reverse(l.lots)
               newest == Sold(back, n, x)
               oldest == Sold(l.lots, n, x)
               rest == Reverse(newest.lots)
               xn == x * n
    <2>1. /\ AbsorbLifo(l, f) = [lots |-> rest, realized |-> l.realized + newest.gain]
          /\ AbsorbFifo(l, f) = [lots |-> oldest.lots, realized |-> l.realized + oldest.gain]
      BY <1>5 DEF AbsorbLifo, AbsorbFifo
    <2>2. back \in Seq(Lot) /\ LotSum(Qty, back) = Q /\ LotSum(Cost, back) = C
      BY <1>2, LotSumReverse, WeightsAre
    <2> HIDE DEF back
    <2>3. /\ newest.lots \in Seq(Lot) /\ newest.gain \in Int
          /\ LotSum(Qty, back) >= n =>
               /\ LotSum(Qty, newest.lots) = LotSum(Qty, back) - n
               /\ LotSum(Cost, newest.lots) - newest.gain = LotSum(Cost, back) - xn
      BY <1>1, <2>2, SoldIs
    <2>4. /\ oldest.lots \in Seq(Lot) /\ oldest.gain \in Int
          /\ Q >= n =>
               /\ LotSum(Qty, oldest.lots) = Q - n
               /\ LotSum(Cost, oldest.lots) - oldest.gain = C - xn
      BY <1>1, <1>2, SoldIs
    <2> HIDE DEF newest, oldest
    <2>5. rest \in Seq(Lot) /\ LotSum(Qty, rest) = LotSum(Qty, newest.lots)
          /\ LotSum(Cost, rest) = LotSum(Cost, newest.lots)
      BY <2>3, LotSumReverse, WeightsAre
    <2> HIDE DEF rest
    <2>6. AbsorbLifo(l, f) \in Ledger /\ AbsorbFifo(l, f) \in Ledger
      BY <1>2, <2>1, <2>3, <2>4, <2>5 DEF Ledger
    <2>7. Signed(f) = -n /\ Signed(f) * x = -xn /\ xn \in Int
      <3>1. Signed(f) = -n /\ x \in Int /\ n \in Int
        BY <1>1, <1>5
      <3> HIDE DEF x, n
      <3>2. (-n) * x = -(n * x) /\ x * n \in Int
        BY <3>1, Products
      <3>3. n * x = x * n
        BY <3>1
      <3> QED BY <3>1, <3>2, <3>3 DEF x
    \* A ledger with a sale's lots and its gain.
    <2>8. ASSUME NEW lots \in Seq(Lot), NEW gain \in Int,
                 LotSum(Qty, lots) = Q - n, LotSum(Cost, lots) - gain = C - xn,
                 NEW new, new = [lots |-> lots, realized |-> l.realized + gain]
          PROVE  /\ LotSum(Qty, new.lots) = Q + Signed(f)
                 /\ Basis(new) = Basis(l) + Signed(f) * x
      <3>1. new.lots = lots /\ new.realized = l.realized + gain
        BY <2>8
      <3> DEFINE D == LotSum(Cost, lots)
                 sx == Signed(f) * x
                 rz == l.realized
      <3>2. D \in Int /\ rz \in Int
        BY <1>2, LotSumIs, WeightsAre
      <3>3. Basis(new) = D - (rz + gain) /\ Basis(l) = C - rz /\ D - gain = C - xn /\ sx = -xn
        BY <2>7, <2>8, <3>1 DEF Basis
      <3> HIDE DEF D, sx, C, xn, rz
      <3>4. Basis(new) = Basis(l) + sx
        BY <1>3, <2>7, <3>2, <3>3
      <3>5. Q - n = Q + Signed(f)
        BY <1>1, <1>3, <2>7
      <3> QED BY <2>8, <3>1, <3>4, <3>5 DEF sx
    <2>9. ASSUME Q + Signed(f) >= 0, NEW new \in {AbsorbLifo(l, f), AbsorbFifo(l, f)}
          PROVE  /\ LotSum(Qty, new.lots) = Q + Signed(f)
                 /\ Basis(new) = Basis(l) + Signed(f) * x
      <3>1. Q >= n
        BY <1>1, <1>3, <2>7, <2>9
      <3>2. CASE new = AbsorbLifo(l, f)
        <4>1. LotSum(Qty, rest) = Q - n /\ LotSum(Cost, rest) - newest.gain = C - xn
          BY <2>2, <2>3, <2>5, <3>1
        <4> HIDE DEF Q, C, xn, n, x
        <4> QED BY <2>1, <2>3, <2>5, <2>8, <3>2, <4>1
      <3>3. CASE new = AbsorbFifo(l, f)
        <4>1. LotSum(Qty, oldest.lots) = Q - n /\ LotSum(Cost, oldest.lots) - oldest.gain = C - xn
          BY <2>4, <3>1
        <4> HIDE DEF Q, C, xn, n, x
        <4> QED BY <2>1, <2>4, <2>8, <3>3, <4>1
      <3> QED BY <2>9, <3>2, <3>3
    <2> QED BY <2>6, <2>9
  <1> QED BY <1>1, <1>4, <1>5

\* A quantity over n steps, each of which moves it by d.
Runs(q, d, n) == q \in [0 .. n -> Int] /\ \A k \in 1 .. n : q[k] = q[k - 1] + d[k]

LEMMA RunsLonger ==
  ASSUME NEW n \in Nat, NEW q, NEW d, Runs(q, d, n), NEW e, \A k \in 1 .. n : e[k] = d[k],
         NEW v \in Int, v = q[n] + e[n + 1]
  PROVE  \E r : Runs(r, e, n + 1) /\ (\A k \in 0 .. n : r[k] = q[k]) /\ r[n + 1] = v
  <1> DEFINE r == [k \in 0 .. n + 1 |-> IF k = n + 1 THEN v ELSE q[k]]
  <1>1. q \in [0 .. n -> Int] /\ \A k \in 1 .. n : q[k] = q[k - 1] + d[k]
    BY DEF Runs
  <1>2. r \in [0 .. n + 1 -> Int] /\ r[n + 1] = v /\ \A k \in 0 .. n : r[k] = q[k]
    BY <1>1
  <1> HIDE DEF r
  <1>3. ASSUME NEW k \in 1 .. n + 1 PROVE r[k] = r[k - 1] + e[k]
    <2>1. CASE k = n + 1
      <3>1. k - 1 = n /\ n \in 0 .. n
        BY <2>1
      <3> QED BY <1>2, <2>1, <3>1
    <2>2. CASE k # n + 1
      <3>1. k \in 1 .. n /\ k \in 0 .. n /\ k - 1 \in 0 .. n
        BY <2>2
      <3> QED BY <1>1, <1>2, <3>1
    <2> QED BY <2>1, <2>2
  <1> QED BY <1>2, <1>3 DEF Runs

LEMMA RunsShorter ==
  ASSUME NEW n \in Nat \ {0}, NEW q, NEW d, Runs(q, d, n),
         NEW e, \A k \in 1 .. n - 1 : e[k] = d[k + 1]
  PROVE  /\ \E r : Runs(r, e, n - 1) /\ \A k \in 0 .. n - 1 : r[k] = q[k + 1]
         /\ q[1] = q[0] + d[1] /\ q[0] \in Int /\ q[1] \in Int
  <1> DEFINE r == [k \in 0 .. n - 1 |-> q[k + 1]]
  <1>1. q \in [0 .. n -> Int] /\ \A k \in 1 .. n : q[k] = q[k - 1] + d[k]
    BY DEF Runs
  <1>2. r \in [0 .. n - 1 -> Int] /\ \A k \in 0 .. n - 1 : r[k] = q[k + 1]
    <2>1. \A k \in 0 .. n - 1 : k + 1 \in 0 .. n
      OBVIOUS
    <2> QED BY <1>1, <2>1
  <1> HIDE DEF r
  <1>3. ASSUME NEW k \in 1 .. n - 1 PROVE r[k] = r[k - 1] + e[k]
    <2>1. /\ k \in 0 .. n - 1 /\ k - 1 \in 0 .. n - 1 /\ k + 1 \in 1 .. n
          /\ (k - 1) + 1 = k /\ (k + 1) - 1 = k
      OBVIOUS
    <2>2. q[k + 1] = q[(k + 1) - 1] + d[k + 1]
      BY <1>1, <2>1
    <2> QED BY <1>2, <2>1, <2>2
  <1>4. q[1] = q[0] + d[1] /\ q[0] \in Int /\ q[1] \in Int
    <2>1. 1 \in 1 .. n /\ 1 - 1 = 0 /\ 0 \in 0 .. n /\ 1 \in 0 .. n
      OBVIOUS
    <2>2. q[1] = q[1 - 1] + d[1]
      BY <1>1, <2>1
    <2> QED BY <1>1, <2>1, <2>2
  <1> QED BY <1>2, <1>3, <1>4 DEF Runs

\* What each of the fills that wait does to a symbol: its quantity, what it pays.
Moves(s, waiting) ==
  [k \in DOMAIN waiting |-> IF waiting[k].symbol = s THEN Signed(waiting[k]) ELSE 0]
Pays(s, waiting) ==
  [k \in DOMAIN waiting |->
     IF waiting[k].symbol = s THEN Signed(waiting[k]) * waiting[k].price ELSE 0]

\* What a symbol's lots and their cost come to, fill by fill, until the deque is drained:
\* q[k] and c[k] after k of the fills that wait.  They start at both ledgers and end at
\* the position; and the lots are never short.
Drained(s, q, c, waiting, lo, fo, p) ==
  /\ Runs(q, Moves(s, waiting), Len(waiting)) /\ Runs(c, Pays(s, waiting), Len(waiting))
  /\ \A k \in 0 .. Len(waiting) : q[k] >= 0
  /\ \A l \in {lo[s], fo[s]} : LotSum(Qty, l.lots) = q[0] /\ Basis(l) = c[0]
  /\ q[Len(waiting)] = p[s].qty /\ c[Len(waiting)] = Booked(p[s])

LedgerTypes ==
  /\ lifo \in [Symbols -> Ledger] /\ fifo \in [Symbols -> Ledger]
  /\ tape \in [Symbols -> Seq([side : {"buy", "sell"}, price : Nat])]

LotsInv ==
  \A s \in Symbols \ shorted : \E q, c : Drained(s, q, c, fills, lifo, fifo, pos)

\* As many more averages as there may be orders are whole.
AveragesInv == \A s \in Symbols : \E j \in Nat : pos[s].avg = Scale[MaxOrders - sent] * j

\* The books of all symbols together.
BooksOf(p) == [s \in Symbols |-> p[s].qty * p[s].avg - p[s].realized]
BooksInv == crossed = {} => cash + Sum(BooksOf(pos), Symbols) = StartingCash - fees

AccountInv == BrokerInv /\ LedgerTypes /\ AveragesInv /\ LotsInv /\ BooksInv

LEMMA BookedType ==
  ASSUME NEW p \in Position PROVE Booked(p) \in Int
  <1>1. p.qty \in Int /\ p.avg \in Int /\ p.realized \in Int
    BY DEF Position
  <1>2. p.qty * p.avg \in Int
    BY <1>1, Products
  <1> QED BY <1>1, <1>2 DEF Booked

LEMMA Positions ==
  ASSUME BrokerInv
  PROVE  /\ pos \in [Symbols -> Position]
         /\ \A s \in Symbols : BooksOf(pos)[s] = Booked(pos[s]) /\ Booked(pos[s]) \in Int
  <1>1. pos \in [Symbols -> Position]
    <2>1. -MaxHeld .. MaxHeld \subseteq Int
      OBVIOUS
    <2>2. [qty : -MaxHeld .. MaxHeld, avg : Nat, realized : Int] \subseteq Position
      BY <2>1 DEF Position
    <2>3. pos \in [Symbols -> [qty : -MaxHeld .. MaxHeld, avg : Nat, realized : Int]]
      BY DEF BrokerInv
    <2> QED BY <2>2, <2>3, Zenon
  <1>2. ASSUME NEW s \in Symbols
        PROVE  BooksOf(pos)[s] = Booked(pos[s]) /\ Booked(pos[s]) \in Int
    <2>1. pos[s] \in Position
      BY <1>1
    <2>2. Booked(pos[s]) \in Int
      BY <2>1, BookedType
    <2> QED BY <2>2 DEF BooksOf, Booked
  <1> QED BY <1>1, <1>2

LEMMA AccountInit == Init => AccountInv
  <1> SUFFICES ASSUME Init PROVE AccountInv
    OBVIOUS
  <1>1. <<>> \in Seq(Lot) /\ <<>> \in Seq([side : {"buy", "sell"}, price : Nat]) /\ 0 \in Int
    OBVIOUS
  <1>2. [lots |-> <<>>, realized |-> 0] \in Ledger
    BY <1>1 DEF Ledger
  <1>3. LedgerTypes
    BY <1>1, <1>2 DEF Init, LedgerTypes
  <1>4. BrokerInv
    BY BrokerInit
  <1>5. \A s \in Symbols : pos[s] = NoPosition /\ Booked(pos[s]) = 0 /\ pos[s].avg = 0
    BY DEF Init, NoPosition, Booked
  <1>6. AveragesInv
    <2>1. sent = 0 /\ MaxOrders - 0 \in 0 .. MaxOrders
      BY BookAssumption DEF Init
    <2>2. Scale[MaxOrders - sent] \in Nat
      BY <2>1, ScaleAssumption
    <2>3. Scale[MaxOrders - sent] * 0 = 0
      BY <2>2
    <2> QED BY <1>5, <2>3 DEF AveragesInv
  <1>7. ASSUME NEW s \in Symbols
        PROVE  \E q, c : Drained(s, q, c, fills, lifo, fifo, pos)
    <2> DEFINE z == [k \in 0 .. 0 |-> 0]
    <2>1. /\ lifo[s].lots = <<>> /\ fifo[s].lots = <<>> /\ pos[s].qty = 0 /\ Booked(pos[s]) = 0
          /\ lifo[s].realized = 0 /\ fifo[s].realized = 0 /\ Len(fills) = 0
      BY <1>5 DEF Init, NoPosition
    <2>2. \A l \in {lifo[s], fifo[s]} : LotSum(Qty, l.lots) = 0 /\ Basis(l) = 0
      BY <2>1, LotSumEmpty DEF Basis
    <2>3. z[0] = 0 /\ Runs(z, Moves(s, fills), 0) /\ Runs(z, Pays(s, fills), 0)
      BY DEF Runs
    <2>4. \A k \in 0 .. 0 : z[k] >= 0
      OBVIOUS
    <2> HIDE DEF z
    <2>5. Drained(s, z, z, fills, lifo, fifo, pos)
      BY <2>1, <2>2, <2>3, <2>4 DEF Drained
    <2> QED BY <2>5
  <1>8. LotsInv
    BY <1>7, Zenon DEF LotsInv
  <1>9. BooksInv
    <2> DEFINE B == BooksOf(pos)
    <2>1. \A s \in Symbols : B[s] = 0
      BY <1>4, <1>5, Positions
    <2> HIDE DEF B
    <2>2. Sum(B, Symbols) = 0
      BY <2>1, SumZero, BookAssumption
    <2>3. cash = StartingCash /\ fees = 0
      BY DEF Init
    <2> QED BY <2>2, <2>3, BookAssumption DEF BooksInv, B
  <1> QED BY <1>3, <1>4, <1>6, <1>8, <1>9 DEF AccountInv

\* What a market order does to the position's cost.
LEMMA SubmitCosts ==
  ASSUME BrokerInv, AveragesInv, NEW o \in Order, SubmitMarket(o)
  PROVE  LET f == FillOf(o, quote[o.symbol])
             p == Applied(pos[o.symbol], f)
         IN /\ \E i \in Nat : p.avg = Scale[MaxOrders - sent'] * i
            /\ ~Crosses(pos[o.symbol], f) =>
                 Booked(p) = Booked(pos[o.symbol]) + Signed(f) * f.price
            /\ Signed(f) * f.price \in Int
  <1> DEFINE x == o.symbol
             f == FillOf(o, quote[x])
             p == Applied(pos[x], f)
             m == MaxOrders - sent
  <1>1. /\ x \in Symbols /\ quote[x] \in Prices /\ f \in FillType /\ pos[x] \in Position
        /\ p.qty = pos[x].qty + Signed(f) /\ p.qty \in -MaxHeld .. MaxHeld
        /\ sent' = sent + 1 /\ sent < MaxOrders
    BY SubmitFacts
  <1>2. sent \in Nat
    BY DEF BrokerInv
  <1>3. m \in 1 .. MaxOrders /\ m \in 0 .. MaxOrders /\ MaxOrders - sent' = m - 1
    BY <1>1, <1>2, BookAssumption
  <1>4. PICK j \in Nat : pos[x].avg = Scale[m] * j
    BY <1>1 DEF AveragesInv
  <1>5. PICK k \in Nat : f.price = Scale[m] * k
    BY <1>1, <1>3, FillWhole
  <1> HIDE DEF f, m
  <1>6. Sized(pos[x].qty + Signed(f)) <= MaxHeld
    BY <1>1, BookAssumption, SignedIs DEF Sized, Position
  <1>7. /\ \E i \in Nat : p.avg = Scale[m - 1] * i
        /\ ~Crosses(pos[x], f) => Booked(p) = Booked(pos[x]) + Signed(f) * f.price
    BY <1>1, <1>3, <1>4, <1>5, <1>6, AppliedCosts
  <1>8. Signed(f) * f.price \in Int
    <2>1. Signed(f) \in Int /\ f.price \in Int
      BY <1>1, SignedIs
    <2> QED BY <2>1, Products
  <1> QED BY <1>3, <1>7, <1>8 DEF f

\* Averages stay whole, whatever is done.
LEMMA AveragesStep == BrokerInv /\ AveragesInv /\ [Next]_vars => AveragesInv'
  <1> SUFFICES ASSUME BrokerInv, AveragesInv, [Next]_vars PROVE AveragesInv'
    OBVIOUS
  <1>1. ASSUME NEW o \in Order, SubmitLimit(o) \/ SubmitMarket(o)
        PROVE  /\ sent' = sent + 1 /\ sent < MaxOrders
               /\ \A s \in Symbols : \E i \in Nat : pos[s].avg = Scale[MaxOrders - sent'] * i
    <2> DEFINE m == MaxOrders - sent
    <2>1. sent' = sent + 1 /\ sent < MaxOrders /\ sent \in Nat
      BY <1>1 DEF SubmitLimit, SubmitMarket, BrokerInv
    <2>2. m \in 1 .. MaxOrders /\ MaxOrders - sent' = m - 1 /\ 1 \in 1 .. MaxHeld
      BY <2>1, BookAssumption, ScaleAssumption
    <2> HIDE DEF m
    <2> DEFINE t == Scale[m - 1]
    <2>3. PICK c \in Nat : Scale[m] = 1 * (t * c)
      BY <2>2, ScaleIs
    <2>4. t \in Nat
      BY <2>2, ScaleIs
    <2> HIDE DEF t
    <2>5. ASSUME NEW s \in Symbols PROVE \E i \in Nat : pos[s].avg = t * i
      <3>1. PICK j \in Nat : pos[s].avg = Scale[m] * j
        BY DEF AveragesInv, m
      <3>2. c * j \in Nat
        BY Product
      <3>3. (1 * (t * c)) * j = t * (c * j)
        BY <2>4
      <3> QED BY <2>3, <3>1, <3>2, <3>3
    <2> QED BY <2>1, <2>2, <2>5 DEF t
  <1>2. ASSUME NEW o \in Order, SubmitMarket(o) PROVE AveragesInv'
    <2> DEFINE x == o.symbol
               p == Applied(pos[x], FillOf(o, quote[x]))
    <2>1. \E i \in Nat : p.avg = Scale[MaxOrders - sent'] * i
      BY <1>2, SubmitCosts
    <2>2. pos' = [pos EXCEPT ![x] = p] /\ x \in Symbols
      BY <1>2, SubmitFacts
    <2> HIDE DEF p, x
    <2>3. ASSUME NEW s \in Symbols PROVE \E i \in Nat : pos'[s].avg = Scale[MaxOrders - sent'] * i
      <3>1. CASE s = x
        BY <2>1, <2>2, <3>1 DEF BrokerInv
      <3>2. CASE s # x
        <4>1. pos'[s] = pos[s]
          BY <2>2, <3>2 DEF BrokerInv
        <4> QED BY <1>1, <1>2, <4>1
      <3> QED BY <3>1, <3>2
    <2> QED BY <2>3 DEF AveragesInv
  <1>3. ASSUME NEW o \in Order, SubmitLimit(o) PROVE AveragesInv'
    <2>1. pos' = pos
      BY <1>3 DEF SubmitLimit, bookVars
    <2> QED BY <1>1, <1>3, <2>1 DEF AveragesInv
  <1>4. ASSUME UNCHANGED <<pos, sent>> PROVE AveragesInv'
    BY <1>4 DEF AveragesInv
  <1> QED BY <1>2, <1>3, <1>4 DEF Next, Quote, Cancel, Drain, bookVars, vars

\* Where no fill went through zero, a market order moves cash and cost by the same.
LEMMA BooksStep == BrokerInv /\ AveragesInv /\ BooksInv /\ [Next]_vars => BooksInv'
  <1> SUFFICES ASSUME BrokerInv, AveragesInv, BooksInv, [Next]_vars PROVE BooksInv'
    OBVIOUS
  <1>1. ASSUME NEW o \in Order, SubmitMarket(o), crossed' = {}
        PROVE  cash' + Sum(BooksOf(pos'), Symbols) = StartingCash - fees'
    <2> DEFINE x == o.symbol
               f == FillOf(o, quote[x])
               p == Applied(pos[x], f)
               A == BooksOf(pos)
               B == BooksOf(pos')
               np == Signed(f) * f.price
    <2>1. /\ x \in Symbols /\ f \in FillType /\ p \in Position
          /\ cash' = cash - Paid(f) /\ fees' = fees + f.fee /\ pos' = [pos EXCEPT ![x] = p]
          /\ crossed = {} /\ ~Crosses(pos[x], f)
      BY <1>1, SubmitFacts
    <2>2. Booked(p) = Booked(pos[x]) + np /\ np \in Int
      BY <1>1, <2>1, SubmitCosts
    <2> HIDE DEF f, p
    <2>3. Paid(f) = np + f.fee /\ f.fee \in Nat
      <3>1. /\ Signed(f) = (IF f.side = "buy" THEN f.qty ELSE -f.qty) /\ f.fee \in Nat
            /\ f.qty \in Int /\ f.price \in Int
        BY <2>1, SignedIs
      <3> QED BY <3>1 DEF Paid
    <2>4. pos \in [Symbols -> Position]
          /\ \A s \in Symbols : A[s] = Booked(pos[s]) /\ A[s] \in Int
      BY Positions
    <2>5. B[x] = Booked(p) /\ \A s \in Symbols \ {x} : B[s] = A[s]
      BY <2>1, <2>4 DEF BooksOf, Booked
    <2> HIDE DEF A, B, np
    <2>6. IsFiniteSet(Symbols)
      BY BookAssumption
    <2>7. \A s \in Symbols : A[s] \in Int /\ B[s] \in Int
      BY <2>1, <2>2, <2>4, <2>5
    <2>8. Sum(B, Symbols) = Sum(A, Symbols) + (B[x] - A[x])
      BY <2>1, <2>5, <2>6, <2>7, SumChange
    <2>9. B[x] - A[x] = np
      <3>1. A[x] = Booked(pos[x]) /\ A[x] \in Int
        BY <2>1, <2>4
      <3> QED BY <2>2, <2>5, <3>1
    <2>10. Sum(A, Symbols) \in Int
      BY <2>6, <2>7, SumType
    <2>11. cash + Sum(A, Symbols) = StartingCash - fees
      BY <2>1 DEF BooksInv, A
    <2> DEFINE fee == f.fee
               sa == Sum(A, Symbols)
               sb == Sum(B, Symbols)
    <2>12. /\ sa \in Int /\ np \in Int /\ fee \in Int /\ cash \in Int /\ fees \in Int
           /\ StartingCash \in Int /\ sb = sa + np /\ cash + sa = StartingCash - fees
           /\ cash' = cash - (np + fee) /\ fees' = fees + fee
      BY <2>1, <2>2, <2>3, <2>8, <2>9, <2>10, <2>11, BookAssumption DEF BrokerInv
    <2> HIDE DEF fee, sa, sb
    <2>13. cash' + sb = StartingCash - fees'
      BY <2>12
    <2> QED BY <2>13 DEF sb, B
  <1>2. ASSUME NEW o \in Order, SubmitMarket(o) PROVE BooksInv'
    BY <1>1, <1>2 DEF BooksInv
  <1>3. ASSUME UNCHANGED <<cash, fees, pos, crossed>> PROVE BooksInv'
    BY <1>3 DEF BooksInv
  <1> QED BY <1>2, <1>3 DEF Next, Quote, SubmitLimit, Cancel, Drain, bookVars, vars

\* A market order adds one fill to the end of what waits.
LEMMA LotsSubmit ==
  ASSUME BrokerInv, AveragesInv, LotsInv, NEW o \in Order, SubmitMarket(o)
  PROVE  LotsInv'
  <1> DEFINE x == o.symbol
             f == FillOf(o, quote[x])
             p == Applied(pos[x], f)
             n == Len(fills)
  <1>1. /\ x \in Symbols /\ f \in FillType /\ f.symbol = x /\ p \in Position
        /\ p.qty = pos[x].qty + Signed(f) /\ p.qty \in -MaxHeld .. MaxHeld
        /\ pos' = [pos EXCEPT ![x] = p] /\ fills' = Append(fills, f)
        /\ shorted' = IF p.qty < 0 THEN shorted \cup {x} ELSE shorted
        /\ lifo' = lifo /\ fifo' = fifo
    BY SubmitFacts
  <1>2. /\ ~Crosses(pos[x], f) => Booked(p) = Booked(pos[x]) + Signed(f) * f.price
        /\ Signed(f) * f.price \in Int /\ Signed(f) \in Int
    BY <1>1, SubmitCosts, SignedIs
  <1> HIDE DEF x, f, p
  <1>3. /\ fills \in Seq(FillType) /\ n \in Nat /\ Len(fills') = n + 1
        /\ DOMAIN fills = 1 .. n /\ DOMAIN fills' = 1 .. n + 1
        /\ fills'[n + 1] = f /\ \A k \in 1 .. n : fills'[k] = fills[k]
    BY <1>1 DEF BrokerInv
  <1>4. pos \in [Symbols -> Position]
    BY Positions
  <1> HIDE DEF n
  <1>5. ASSUME NEW s \in Symbols \ shorted'
        PROVE  \E q, c : Drained(s, q, c, fills', lifo', fifo', pos')
    <2>1. s \in Symbols \ shorted /\ (s = x => p.qty >= 0)
      BY <1>1, <1>5
    <2>2. PICK q, c : Drained(s, q, c, fills, lifo, fifo, pos)
      BY <2>1 DEF LotsInv
    <2>3. /\ Runs(q, Moves(s, fills), n) /\ Runs(c, Pays(s, fills), n)
          /\ \A k \in 0 .. n : q[k] >= 0
          /\ \A l \in {lifo[s], fifo[s]} : LotSum(Qty, l.lots) = q[0] /\ Basis(l) = c[0]
          /\ q[n] = pos[s].qty /\ c[n] = Booked(pos[s])
      BY <2>2 DEF Drained, n
    <2> DEFINE D == Moves(s, fills')
               E == Pays(s, fills')
               v == pos'[s].qty
               u == Booked(pos'[s])
    <2>4. /\ \A k \in 1 .. n : D[k] = Moves(s, fills)[k] /\ E[k] = Pays(s, fills)[k]
          /\ D[n + 1] = (IF x = s THEN Signed(f) ELSE 0)
          /\ E[n + 1] = (IF x = s THEN Signed(f) * f.price ELSE 0)
      BY <1>1, <1>3 DEF Moves, Pays
    <2> HIDE DEF D, E
    <2>5. /\ v \in Int /\ v >= 0 /\ v = q[n] + D[n + 1]
          /\ u \in Int /\ u = c[n] + E[n + 1]
      <3>1. q[n] >= 0 /\ pos[s].qty \in Int /\ Booked(pos[s]) \in Int
        <4>1. n \in 0 .. n /\ pos[s] \in Position
          BY <1>3, <1>4, <2>1
        <4> QED BY <2>3, <4>1, BookedType DEF Position
      <3>2. CASE s = x
        <4>1. pos'[s] = p /\ p.qty >= 0 /\ D[n + 1] = Signed(f) /\ E[n + 1] = Signed(f) * f.price
          BY <1>1, <1>4, <2>1, <2>4, <3>2
        <4>2. ~Crosses(pos[x], f)
          <5>1. pos[x].qty \in Nat /\ pos[x].qty + Signed(f) \in Nat
            BY <1>1, <1>2, <2>1, <2>3, <3>1, <3>2
          <5>2. pos[x].qty * (pos[x].qty + Signed(f)) \in Nat
            BY <5>1, Product
          <5> QED BY <5>2 DEF Crosses
        <4>3. p.qty \in Int /\ Booked(p) \in Int
          BY <1>1, BookedType DEF Position
        <4> QED BY <1>1, <1>2, <2>3, <3>2, <4>1, <4>2, <4>3
      <3>3. CASE s # x
        <4>1. pos'[s] = pos[s] /\ D[n + 1] = 0 /\ E[n + 1] = 0
          BY <1>1, <1>4, <2>1, <2>4, <3>3
        <4> QED BY <2>3, <3>1, <4>1
      <3> QED BY <3>2, <3>3
    <2> HIDE DEF v, u
    <2>6. PICK r : Runs(r, D, n + 1) /\ (\A k \in 0 .. n : r[k] = q[k]) /\ r[n + 1] = v
      <3>1. /\ Runs(q, Moves(s, fills), n) /\ \A k \in 1 .. n : D[k] = Moves(s, fills)[k]
            /\ v \in Int /\ v = q[n] + D[n + 1]
        BY <2>3, <2>4, <2>5
      <3> QED BY <1>3, <3>1, RunsLonger
    <2>7. PICK e : Runs(e, E, n + 1) /\ (\A k \in 0 .. n : e[k] = c[k]) /\ e[n + 1] = u
      <3>1. /\ Runs(c, Pays(s, fills), n) /\ \A k \in 1 .. n : E[k] = Pays(s, fills)[k]
            /\ u \in Int /\ u = c[n] + E[n + 1]
        BY <2>3, <2>4, <2>5
      <3> QED BY <1>3, <3>1, RunsLonger
    <2>8. r[0] = q[0] /\ e[0] = c[0]
      BY <1>3, <2>6, <2>7
    <2>9. ASSUME NEW k \in 0 .. n + 1 PROVE r[k] >= 0
      <3>1. CASE k = n + 1
        BY <2>5, <2>6, <3>1
      <3>2. CASE k # n + 1
        <4>1. k \in 0 .. n
          BY <1>3, <3>2
        <4> QED BY <2>3, <2>6, <4>1
      <3> QED BY <3>1, <3>2
    <2>10. \A l \in {lifo'[s], fifo'[s]} : LotSum(Qty, l.lots) = r[0] /\ Basis(l) = e[0]
      BY <1>1, <2>3, <2>8
    <2>11. Drained(s, r, e, fills', lifo', fifo', pos')
      BY <1>3, <2>6, <2>7, <2>9, <2>10 DEF Drained, D, E, v, u
    <2> QED BY <2>11
  <1> QED BY <1>5 DEF LotsInv

\* Draining takes the first fill off what waits and into both ledgers.
LEMMA LedgerDrain ==
  ASSUME BrokerInv, LedgerTypes, LotsInv, Drain
  PROVE  LedgerTypes' /\ LotsInv'
  <1> DEFINE f == Head(fills)
             x == f.symbol
             n == Len(fills)
             lo == AbsorbLifo(lifo[x], f)
             fo == AbsorbFifo(fifo[x], f)
             np == Signed(f) * f.price
             sold == [k \in 1 .. f.qty |-> [side |-> f.side, price |-> f.price]]
  <1>1. /\ fills # <<>> /\ fills' = Tail(fills)
        /\ lifo' = [lifo EXCEPT ![x] = lo] /\ fifo' = [fifo EXCEPT ![x] = fo]
        /\ tape' = [tape EXCEPT ![x] = @ \o sold]
        /\ pos' = pos /\ shorted' = shorted
    BY Zenon DEF Drain
  <1>2. /\ fills \in Seq(FillType) /\ f \in FillType /\ f = fills[1] /\ n \in Nat \ {0}
        /\ Len(fills') = n - 1 /\ DOMAIN fills = 1 .. n /\ DOMAIN fills' = 1 .. n - 1
        /\ \A k \in 1 .. n - 1 : fills'[k] = fills[k + 1]
    BY <1>1 DEF BrokerInv
  <1> HIDE DEF f, n
  <1>3. /\ x \in Symbols /\ f.qty \in Nat /\ f.price \in Nat /\ Signed(f) \in Int
        /\ f.side \in {"buy", "sell"}
    BY <1>2, SignedIs DEF FillType
  <1>4. lifo[x] \in Ledger /\ fifo[x] \in Ledger
    BY <1>3 DEF LedgerTypes
  <1>5. /\ lo \in Ledger /\ fo \in Ledger
        /\ LotSum(Qty, lifo[x].lots) + Signed(f) >= 0 =>
             /\ LotSum(Qty, lo.lots) = LotSum(Qty, lifo[x].lots) + Signed(f)
             /\ Basis(lo) = Basis(lifo[x]) + np
        /\ LotSum(Qty, fifo[x].lots) + Signed(f) >= 0 =>
             /\ LotSum(Qty, fo.lots) = LotSum(Qty, fifo[x].lots) + Signed(f)
             /\ Basis(fo) = Basis(fifo[x]) + np
    BY <1>2, <1>4, AbsorbIs
  <1> HIDE DEF lo, fo, np
  <1>6. LedgerTypes'
    <2> DEFINE Unit == [side : {"buy", "sell"}, price : Nat]
    <2>1. [side |-> f.side, price |-> f.price] \in Unit
      BY <1>3
    <2>2. tape[x] \in Seq(Unit)
      BY <1>3 DEF LedgerTypes
    <2> DEFINE unit == [side |-> f.side, price |-> f.price]
    <2>3. sold = [k \in 1 .. f.qty |-> unit]
      OBVIOUS
    <2> HIDE DEF unit, Unit, sold
    <2>4. sold \in Seq(Unit)
      BY <1>3, <2>1, <2>3 DEF unit
    <2>5. tape[x] \o sold \in Seq(Unit)
      BY <2>2, <2>4
    <2>6. tape' \in [Symbols -> Seq(Unit)]
      <3>1. tape \in [Symbols -> Seq(Unit)]
        BY DEF LedgerTypes, Unit
      <3> DEFINE longer == tape[x] \o sold
      <3>2. tape' = [tape EXCEPT ![x] = longer]
        BY <1>1
      <3> HIDE DEF longer
      <3> QED BY <2>5, <3>1, <3>2 DEF longer
    <2>7. lifo' \in [Symbols -> Ledger] /\ fifo' \in [Symbols -> Ledger]
      BY <1>1, <1>5 DEF LedgerTypes
    <2> QED BY <2>6, <2>7 DEF LedgerTypes, Unit
  <1>7. ASSUME NEW s \in Symbols \ shorted'
        PROVE  \E q, c : Drained(s, q, c, fills', lifo', fifo', pos')
    <2>1. s \in Symbols \ shorted
      BY <1>1, <1>7
    <2>2. PICK q, c : Drained(s, q, c, fills, lifo, fifo, pos)
      BY <2>1 DEF LotsInv
    <2> DEFINE D == Moves(s, fills)
               E == Pays(s, fills)
    <2>3. /\ Runs(q, D, n) /\ Runs(c, E, n) /\ \A k \in 0 .. n : q[k] >= 0
          /\ \A l \in {lifo[s], fifo[s]} : LotSum(Qty, l.lots) = q[0] /\ Basis(l) = c[0]
          /\ q[n] = pos[s].qty /\ c[n] = Booked(pos[s])
      BY <2>2 DEF Drained, n
    <2>4. \A k \in 1 .. n - 1 : Moves(s, fills')[k] = D[k + 1] /\ Pays(s, fills')[k] = E[k + 1]
      <3>1. \A k \in 1 .. n - 1 : k + 1 \in 1 .. n
        BY <1>2
      <3> QED BY <1>2, <3>1 DEF Moves, Pays
    <2>5. D[1] = (IF x = s THEN Signed(f) ELSE 0) /\ E[1] = (IF x = s THEN np ELSE 0)
      <3>1. 1 \in 1 .. n
        BY <1>2
      <3> QED BY <1>2, <3>1 DEF Moves, Pays, np
    <2> HIDE DEF D, E
    <2>6. /\ \E r : Runs(r, Moves(s, fills'), n - 1) /\ \A k \in 0 .. n - 1 : r[k] = q[k + 1]
          /\ q[1] = q[0] + D[1] /\ q[0] \in Int /\ q[1] \in Int
      <3> DEFINE L == Moves(s, fills')
      <3>1. n \in Nat \ {0} /\ Runs(q, D, n) /\ \A k \in 1 .. n - 1 : L[k] = D[k + 1]
        BY <1>2, <2>3, <2>4
      <3> HIDE DEF L
      <3>2. /\ \E r : Runs(r, L, n - 1) /\ \A k \in 0 .. n - 1 : r[k] = q[k + 1]
            /\ q[1] = q[0] + D[1] /\ q[0] \in Int /\ q[1] \in Int
        BY <3>1, RunsShorter
      <3> QED BY <3>2 DEF L
    <2>7. /\ \E e : Runs(e, Pays(s, fills'), n - 1) /\ \A k \in 0 .. n - 1 : e[k] = c[k + 1]
          /\ c[1] = c[0] + E[1] /\ c[0] \in Int /\ c[1] \in Int
      <3> DEFINE L == Pays(s, fills')
      <3>1. n \in Nat \ {0} /\ Runs(c, E, n) /\ \A k \in 1 .. n - 1 : L[k] = E[k + 1]
        BY <1>2, <2>3, <2>4
      <3> HIDE DEF L
      <3>2. /\ \E e : Runs(e, L, n - 1) /\ \A k \in 0 .. n - 1 : e[k] = c[k + 1]
            /\ c[1] = c[0] + E[1] /\ c[0] \in Int /\ c[1] \in Int
        BY <3>1, RunsShorter
      <3> QED BY <3>2 DEF L
    <2>8. PICK r : Runs(r, Moves(s, fills'), n - 1) /\ \A k \in 0 .. n - 1 : r[k] = q[k + 1]
      BY <2>6
    <2>9. PICK e : Runs(e, Pays(s, fills'), n - 1) /\ \A k \in 0 .. n - 1 : e[k] = c[k + 1]
      BY <2>7
    <2>10. r[0] = q[1] /\ e[0] = c[1] /\ r[n - 1] = q[n] /\ e[n - 1] = c[n] /\ q[1] >= 0
      <3>1. 0 \in 0 .. n - 1 /\ n - 1 \in 0 .. n - 1 /\ (n - 1) + 1 = n /\ 0 + 1 = 1 /\ 1 \in 0 .. n
        BY <1>2
      <3> QED BY <2>3, <2>8, <2>9, <3>1
    <2>11. \A k \in 0 .. n - 1 : r[k] >= 0
      <3>1. \A k \in 0 .. n - 1 : k + 1 \in 0 .. n
        BY <1>2
      <3> QED BY <2>3, <2>8, <3>1
    <2>12. \A l \in {lifo'[s], fifo'[s]} : LotSum(Qty, l.lots) = q[1] /\ Basis(l) = c[1]
      <3>1. CASE s = x
        <4>1. /\ lifo'[s] = lo /\ fifo'[s] = fo /\ D[1] = Signed(f) /\ E[1] = np
          BY <1>1, <1>3, <2>5, <3>1 DEF LedgerTypes
        <4>2. /\ LotSum(Qty, lifo[x].lots) = q[0] /\ LotSum(Qty, fifo[x].lots) = q[0]
              /\ Basis(lifo[x]) = c[0] /\ Basis(fifo[x]) = c[0]
          BY <2>3, <3>1
        <4>3. q[0] + Signed(f) >= 0
          BY <2>6, <2>10, <4>1
        <4>4. /\ LotSum(Qty, lo.lots) = q[0] + Signed(f) /\ Basis(lo) = c[0] + np
              /\ LotSum(Qty, fo.lots) = q[0] + Signed(f) /\ Basis(fo) = c[0] + np
          BY <1>5, <4>2, <4>3
        <4> QED BY <2>6, <2>7, <4>1, <4>4
      <3>2. CASE s # x
        <4>1. lifo'[s] = lifo[s] /\ fifo'[s] = fifo[s] /\ D[1] = 0 /\ E[1] = 0
          BY <1>1, <2>1, <2>5, <3>2 DEF LedgerTypes
        <4>2. q[1] = q[0] /\ c[1] = c[0]
          BY <2>6, <2>7, <4>1
        <4> QED BY <2>3, <4>1, <4>2
      <3> QED BY <3>1, <3>2
    <2>13. Drained(s, r, e, fills', lifo', fifo', pos')
      BY <1>1, <1>2, <2>3, <2>8, <2>9, <2>10, <2>11, <2>12 DEF Drained
    <2> QED BY <2>13
  <1>8. LotsInv'
    BY <1>7 DEF LotsInv
  <1> QED BY <1>6, <1>8

LEMMA LedgerStep ==
  BrokerInv /\ LedgerTypes /\ AveragesInv /\ LotsInv /\ [Next]_vars => LedgerTypes' /\ LotsInv'
  <1> SUFFICES ASSUME BrokerInv, LedgerTypes, AveragesInv, LotsInv, [Next]_vars
               PROVE  LedgerTypes' /\ LotsInv'
    OBVIOUS
  <1>1. ASSUME NEW o \in Order, SubmitMarket(o) PROVE LedgerTypes' /\ LotsInv'
    <2>1. UNCHANGED <<lifo, fifo, tape>>
      BY <1>1 DEF SubmitMarket, ledgerVars
    <2>2. LedgerTypes'
      BY <2>1 DEF LedgerTypes
    <2> QED BY <1>1, <2>2, LotsSubmit
  <1>2. CASE Drain
    BY <1>2, LedgerDrain
  <1>3. ASSUME UNCHANGED <<fills, shorted, lifo, fifo, tape, pos>>
        PROVE  LedgerTypes' /\ LotsInv'
    BY <1>3 DEF LedgerTypes, LotsInv
  <1> QED BY <1>1, <1>2, <1>3
      DEF Next, Quote, SubmitLimit, Cancel, bookVars, ledgerVars, vars

LEMMA AccountAlways == Spec => []AccountInv
  <1>1. AccountInv /\ [Next]_vars => AccountInv'
    BY BrokerStep, LedgerStep, AveragesStep, BooksStep DEF AccountInv
  <1> QED BY <1>1, AccountInit, PTL DEF Spec

\* PaperBroker and both policies keep their types; no ledger keeps an empty lot.
THEOREM TypeCorrect == Spec => []TypeOK
  <1>1. AccountInv => TypeOK
    BY DEF AccountInv, BrokerInv, LedgerTypes, TypeOK, FillType
  <1> QED BY <1>1, AccountAlways, PTL

\* Cash, cost and booked profit add up to the starting cash less fees, for any number of
\* symbols, orders and prices, longs and shorts, while no fill has gone through zero.
THEOREM BooksBalance == Spec => []BookBalances
  <1>1. AccountInv => BookBalances
    <2> SUFFICES ASSUME BooksInv, crossed = {}
                 PROVE  cash + SumFunction(BooksOf(pos)) = StartingCash - fees
      BY DEF AccountInv, BookBalances, BooksOf
    <2>1. DOMAIN BooksOf(pos) = Symbols
      BY DEF BooksOf
    <2> QED BY <2>1, SumIsLibrarys DEF BooksInv, SumFunction
  <1> QED BY <1>1, AccountAlways, PTL

\* Once the deque is drained the lots of CryptoLIFOPolicy and FrenchPFUPolicy are the
\* position of PaperBroker, for any number of orders and lots.
THEOREM LotsAreThePosition == Spec => []LotsCoverPosition
  <1>1. AccountInv => LotsCoverPosition
    <2> SUFFICES ASSUME AccountInv, fills = <<>>, NEW s \in Symbols \ shorted
                 PROVE  LotQty(lifo[s].lots) = pos[s].qty /\ LotQty(fifo[s].lots) = pos[s].qty
      BY DEF LotsCoverPosition
    <2>1. PICK q, c : Drained(s, q, c, fills, lifo, fifo, pos)
      BY DEF AccountInv, LotsInv
    <2>2. Len(fills) = 0
      OBVIOUS
    <2>3. lifo[s].lots \in Seq(Lot) /\ fifo[s].lots \in Seq(Lot)
      BY DEF AccountInv, LedgerTypes, Ledger
    <2> QED BY <2>1, <2>2, <2>3, LotQtyIs DEF Drained
  <1> QED BY <1>1, AccountAlways, PTL

\* A closed and drained position has made the same by LIFO lots, FIFO lots and the average
\* price: whatever was bought and sold in between, in whatever parts.
THEOREM ClosedProfitIsOne == Spec => []ClosedProfitAgrees
  <1>1. AccountInv => ClosedProfitAgrees
    <2> SUFFICES ASSUME AccountInv, fills = <<>>, NEW s \in Symbols \ shorted, pos[s].qty = 0,
                        NEW l \in {lifo[s], fifo[s]}
                 PROVE  l.realized = pos[s].realized
      BY DEF ClosedProfitAgrees
    <2>1. PICK q, c : Drained(s, q, c, fills, lifo, fifo, pos)
      BY DEF AccountInv, LotsInv
    <2>2. Len(fills) = 0
      OBVIOUS
    <2>3. LotSum(Qty, l.lots) = 0 /\ Basis(l) = Booked(pos[s])
      BY <2>1, <2>2 DEF Drained
    <2>4. l \in Ledger
      BY DEF AccountInv, LedgerTypes
    <2>5. l.lots = <<>> /\ l.realized \in Int
      BY <2>3, <2>4, NoLots DEF Ledger
    <2>6. Basis(l) = 0 - l.realized
      BY <2>5, LotSumEmpty DEF Basis
    <2>7. pos[s] \in Position
      BY Positions DEF AccountInv
    <2>8. Booked(pos[s]) = 0 - pos[s].realized /\ pos[s].realized \in Int
      <3>1. pos[s].qty * pos[s].avg = 0
        BY <2>7 DEF Position
      <3> QED BY <2>7, <3>1 DEF Booked, Position
    <2> DEFINE lot == l.realized
               avg == pos[s].realized
    <2>9. lot \in Int /\ avg \in Int /\ 0 - lot = 0 - avg
      BY <2>3, <2>5, <2>6, <2>8
    <2> HIDE DEF lot, avg
    <2>10. lot = avg
      BY <2>9
    <2> QED BY <2>10 DEF lot, avg
  <1> QED BY <1>1, AccountAlways, PTL

\* Both together: tax ledgers and position never tell two stories of a drained account.
THEOREM LotsAgree == Spec => []LotsAgreeWithPosition
  BY LotsAreThePosition, ClosedProfitIsOne, PTL DEF LotsAgreeWithPosition

-------------------------------------------------------------------------------
(* Lots, unit by unit.                                                     *)

\* Counting up to n.
LEMMA CountedUp ==
  ASSUME NEW n \in Nat, NEW S, 0 \in S, \A k \in 1 .. n : k - 1 \in S => k \in S
  PROVE  \A k \in 0 .. n : k \in S
  <1> DEFINE bad == {k \in 0 .. n : k \notin S}
  <1> SUFFICES ASSUME bad # {} PROVE FALSE
    OBVIOUS
  <1>1. bad \in SUBSET Nat
    OBVIOUS
  <1>2. PICK k \in bad : \A j \in bad : k <= j
    <2> HIDE DEF bad
    <2> QED BY <1>1, LeastNumber
  <1>3. k \in 1 .. n /\ k - 1 \in 0 .. n /\ ~(k <= k - 1) /\ k \notin S
    OBVIOUS
  <1>4. k - 1 \in S
    BY <1>2, <1>3
  <1> QED BY <1>3, <1>4

LEMMA SumNext ==
  ASSUME NEW d, NEW m \in Nat \ {0}, \A u \in 1 .. m : d[u] \in Int
  PROVE  /\ Sum(d, 1 .. m) = Sum(d, 1 .. m - 1) + d[m]
         /\ Sum(d, 1 .. m - 1) \in Int /\ Sum(d, 1 .. m) \in Int
  <1> DEFINE S == 1 .. m
             R == 1 .. m - 1
  <1>1. IsFiniteSet(S) /\ IsFiniteSet(R)
    BY FS_Interval
  <1>2. S \ {m} = R /\ m \in S /\ R \subseteq S /\ \A u \in S : d[u] \in Int
    OBVIOUS
  <1> HIDE DEF S, R
  <1>3. Sum(d, S) = d[m] + Sum(d, S \ {m})
    <2>1. IsFiniteSet(S) /\ \A u \in S : d[u] \in Int
      BY <1>1, <1>2
    <2>2. \A x \in S : Sum(d, S) = d[x] + Sum(d, S \ {x})
      BY <2>1, SumRemove
    <2> QED BY <1>2, <2>2
  <1>4. Sum(d, S) \in Int /\ Sum(d, R) \in Int /\ d[m] \in Int
    BY <1>1, <1>2, SumType
  <1>5. Sum(d, S) = Sum(d, R) + d[m]
    BY <1>2, <1>3, <1>4
  <1> QED BY <1>4, <1>5 DEF S, R

LEMMA SumNone ==
  ASSUME NEW d PROVE Sum(d, 1 .. 0) = 0
  <1>1. 1 .. 0 = {}
    OBVIOUS
  <1> QED BY <1>1, SumEmpty

\* As many units of the same as there are from m to n.
LEMMA SumRun ==
  ASSUME NEW d, NEW m \in Nat, NEW n \in Nat, m <= n, NEW c \in Int,
         \A u \in 1 .. m : d[u] \in Int, \A u \in m + 1 .. n : d[u] = c
  PROVE  Sum(d, 1 .. n) = Sum(d, 1 .. m) + (n - m) * c /\ Sum(d, 1 .. n) \in Int
  <1> DEFINE T == n - m
             S == {k \in 0 .. T : Sum(d, 1 .. m + k) = Sum(d, 1 .. m) + k * c
                                    /\ Sum(d, 1 .. m + k) \in Int}
  <1>1. T \in Nat /\ m + T = n
    OBVIOUS
  <1>2. 0 \in S
    <2>1. Sum(d, 1 .. m) \in Int
      <3> DEFINE I == 1 .. m
      <3>1. IsFiniteSet(I) /\ \A u \in I : d[u] \in Int
        BY FS_Interval
      <3> HIDE DEF I
      <3>2. Sum(d, I) \in Int
        BY <3>1, SumType
      <3> QED BY <3>2 DEF I
    <2>2. m + 0 = m /\ 0 * c = 0 /\ 0 \in 0 .. T
      OBVIOUS
    <2> DEFINE x == Sum(d, 1 .. m)
    <2>3. x \in Int /\ x + 0 = x
      BY <2>1
    <2> QED BY <2>2, <2>3
  <1>3. ASSUME NEW k \in 1 .. T, k - 1 \in S PROVE k \in S
    <2> DEFINE a == m + k
    <2>1. a \in Nat \ {0} /\ a - 1 = m + (k - 1) /\ a \in m + 1 .. n
      OBVIOUS
    <2>2. \A u \in 1 .. a : d[u] \in Int
      <3> TAKE u \in 1 .. a
      <3>1. CASE u <= m
        BY <3>1
      <3>2. CASE ~(u <= m)
        <4>1. u \in m + 1 .. n
          BY <2>1, <3>2
        <4> QED BY <4>1
      <3> QED BY <3>1, <3>2
    <2>3. d[a] = c
      BY <2>1
    <2> HIDE DEF a
    <2>4. /\ Sum(d, 1 .. a) = Sum(d, 1 .. a - 1) + d[a]
          /\ Sum(d, 1 .. a) \in Int
      BY <2>1, <2>2, SumNext
    <2>5. Sum(d, 1 .. a - 1) = Sum(d, 1 .. m) + (k - 1) * c
      BY <1>3, <2>1
    <2> DEFINE x == Sum(d, 1 .. m)
               y == (k - 1) * c
               z == k * c
    <2>6. y \in Int /\ z \in Int /\ z = y + c
      <3>1. k \in Int /\ 1 \in Int
        OBVIOUS
      <3>2. (k - 1) * c = k * c - 1 * c /\ k * c \in Int
        BY <3>1, Products
      <3> QED BY <3>2
    <2>7. x \in Int
      <3> DEFINE I == 1 .. m
      <3>1. IsFiniteSet(I) /\ \A u \in I : d[u] \in Int
        BY FS_Interval
      <3> HIDE DEF I
      <3>2. Sum(d, I) \in Int
        BY <3>1, SumType
      <3> QED BY <3>2 DEF I
    <2> HIDE DEF x, y, z
    <2>8. Sum(d, 1 .. a) = x + z
      BY <2>3, <2>4, <2>5, <2>6, <2>7 DEF x, y
    <2> QED BY <2>4, <2>8 DEF a, x, z
  <1>4. \A k \in 0 .. T : k \in S
    <2> HIDE DEF S, T
    <2> QED BY <1>1, <1>2, <1>3, CountedUp
  <1>5. T \in S
    <2>1. T \in 0 .. T
      BY <1>1
    <2> HIDE DEF T, S
    <2> QED BY <1>4, <2>1
  <1> QED BY <1>1, <1>5

\* The units in the first k lots, and what each unit cost: P lists the units of the lots
\* with their prices, in the order of the lots.
Upto(lots, k) == Sum(Weighed(Qty, lots), 1 .. k)
Priced(lots, P) ==
  \A k \in 1 .. Len(lots) : \A u \in Upto(lots, k - 1) + 1 .. Upto(lots, k) : P[u] = lots[k].price

LEMMA UptoNext ==
  ASSUME NEW lots \in Seq(Lot), NEW k \in 1 .. Len(lots)
  PROVE  /\ Upto(lots, k) = Upto(lots, k - 1) + lots[k].qty
         /\ Upto(lots, k) \in Int /\ Upto(lots, k - 1) \in Int
         /\ lots[k] \in Lot /\ lots[k].qty \in Nat \ {0} /\ lots[k].price \in Nat
  <1>1. lots[k] \in Lot
    BY LotSumIs, WeightsAre
  <1>2. Qty[lots[k]] = lots[k].qty /\ lots[k].qty \in Nat \ {0} /\ lots[k].price \in Nat
    BY <1>1, WeightsAre DEF Lot
  <1>3. /\ Upto(lots, k) = Qty[lots[k]] + Upto(lots, k - 1)
        /\ Upto(lots, k - 1) \in Int
    BY LotSumNext, WeightsAre DEF Upto
  <1> QED BY <1>1, <1>2, <1>3

LEMMA UptoIs ==
  ASSUME NEW lots \in Seq(Lot)
  PROVE  /\ Upto(lots, 0) = 0 /\ Upto(lots, Len(lots)) = LotSum(Qty, lots)
         /\ Len(lots) \in Nat /\ LotSum(Qty, lots) \in Nat
         /\ \A k \in 0 .. Len(lots) : Upto(lots, k) \in Nat /\ Upto(lots, k) <= LotSum(Qty, lots)
  <1> DEFINE n == Len(lots)
             N == LotSum(Qty, lots)
             S == {k \in 0 .. n : Upto(lots, k) \in Nat}
             T == {k \in 0 .. n : Upto(lots, n - k) <= N}
  <1>1. n \in Nat /\ Upto(lots, 0) = 0 /\ Upto(lots, n) = N
    BY SumNone DEF Upto, LotSum
  <1>2. \A k \in 0 .. n : k \in S
    <2>1. 0 \in S
      BY <1>1
    <2>2. ASSUME NEW k \in 1 .. n, k - 1 \in S PROVE k \in S
      <3>1. /\ Upto(lots, k) = Upto(lots, k - 1) + lots[k].qty
            /\ lots[k].qty \in Nat \ {0}
        BY UptoNext
      <3> QED BY <2>2, <3>1
    <2> HIDE DEF n, S
    <2> QED BY <1>1, <2>1, <2>2, CountedUp
  <1>3. N \in Nat
    <2>1. n \in 0 .. n
      BY <1>1
    <2> QED BY <1>1, <1>2, <2>1
  <1>4. \A k \in 0 .. n : k \in T
    <2>1. 0 \in T
      BY <1>1, <1>3
    <2>2. ASSUME NEW k \in 1 .. n, k - 1 \in T PROVE k \in T
      <3> DEFINE a == (n - k) + 1
      <3>1. a \in 1 .. n /\ a - 1 = n - k /\ a = n - (k - 1)
        BY <1>1
      <3> HIDE DEF a
      <3>2. /\ Upto(lots, a) = Upto(lots, a - 1) + lots[a].qty
            /\ Upto(lots, a - 1) \in Int /\ lots[a].qty \in Nat \ {0}
        BY <3>1, UptoNext
      <3>3. Upto(lots, n - k) <= Upto(lots, n - (k - 1))
        BY <3>1, <3>2
      <3>4. Upto(lots, n - k) \in Int /\ Upto(lots, n - (k - 1)) \in Int
        BY <3>1, <3>2
      <3> HIDE DEF n, N
      <3> QED BY <1>3, <2>2, <3>3, <3>4
    <2> HIDE DEF n, T
    <2> QED BY <1>1, <2>1, <2>2, CountedUp
  <1>5. ASSUME NEW k \in 0 .. n PROVE Upto(lots, k) <= N
    <2>1. n - k \in 0 .. n /\ n - (n - k) = k
      BY <1>1
    <2>2. n - k \in T
      BY <1>4, <2>1
    <2>3. Upto(lots, n - (n - k)) <= N
      BY <2>2
    <2> QED BY <2>1, <2>3
  <1> QED BY <1>1, <1>2, <1>3, <1>5

\* Prices that agree on the units there are.
LEMMA PricedSame ==
  ASSUME NEW lots \in Seq(Lot), NEW P, Priced(lots, P),
         NEW R, \A u \in 1 .. LotSum(Qty, lots) : R[u] = P[u]
  PROVE  Priced(lots, R)
  <1> SUFFICES ASSUME NEW k \in 1 .. Len(lots), NEW u \in Upto(lots, k - 1) + 1 .. Upto(lots, k)
               PROVE  R[u] = lots[k].price
    BY DEF Priced
  <1>1. k - 1 \in 0 .. Len(lots) /\ k \in 0 .. Len(lots)
    BY UptoIs
  <1>2. /\ Upto(lots, k - 1) \in Nat /\ Upto(lots, k) \in Nat
        /\ Upto(lots, k) <= LotSum(Qty, lots) /\ LotSum(Qty, lots) \in Nat
    BY <1>1, UptoIs
  <1>3. u \in 1 .. LotSum(Qty, lots)
    BY <1>2
  <1> QED BY <1>3 DEF Priced

\* One lot more: its units come last.
LEMMA PricedAppend ==
  ASSUME NEW lots \in Seq(Lot), NEW lot \in Lot, NEW P, Priced(lots, P),
         \A u \in LotSum(Qty, lots) + 1 .. LotSum(Qty, lots) + lot.qty : P[u] = lot.price
  PROVE  Priced(Append(lots, lot), P)
  <1> DEFINE more == Append(lots, lot)
             n == Len(lots)
             H == Weighed(Qty, lots)
             G == Weighed(Qty, more)
  <1>1. /\ more \in Seq(Lot) /\ Len(more) = n + 1 /\ n \in Nat /\ more[n + 1] = lot
        /\ \A k \in 1 .. n : more[k] = lots[k]
    OBVIOUS
  <1> HIDE DEF more
  <1>2. \A k \in 0 .. n : Upto(more, k) = Upto(lots, k)
    <2> DEFINE S == {k \in 0 .. n : Upto(more, k) = Upto(lots, k)}
    <2>1. 0 \in S
      BY <1>1, UptoIs
    <2>2. ASSUME NEW k \in 1 .. n, k - 1 \in S PROVE k \in S
      <3>1. k \in 1 .. Len(more) /\ more[k] = lots[k]
        BY <1>1
      <3>2. Upto(more, k) = Upto(more, k - 1) + more[k].qty
        BY <1>1, <3>1, UptoNext
      <3>3. Upto(lots, k) = Upto(lots, k - 1) + lots[k].qty
        BY UptoNext
      <3> QED BY <2>2, <3>1, <3>2, <3>3
    <2> HIDE DEF n, S
    <2>3. \A k \in 0 .. n : k \in S
      BY <1>1, <2>1, <2>2, CountedUp
    <2> QED BY <2>3 DEF S
  <1>3. Upto(more, n) = LotSum(Qty, lots) /\ Upto(more, n + 1) = LotSum(Qty, lots) + lot.qty
    <2>1. n \in 0 .. n /\ n + 1 \in 1 .. Len(more) /\ (n + 1) - 1 = n
      BY <1>1
    <2>2. Upto(more, n) = LotSum(Qty, lots)
      BY <1>2, <2>1, UptoIs
    <2>3. Upto(more, n + 1) = Upto(more, (n + 1) - 1) + more[n + 1].qty
      BY <1>1, <2>1, UptoNext
    <2> QED BY <1>1, <2>1, <2>2, <2>3
  <1>4. ASSUME NEW k \in 1 .. n + 1, NEW u \in Upto(more, k - 1) + 1 .. Upto(more, k)
        PROVE  P[u] = more[k].price
    <2>1. CASE k = n + 1
      <3>1. k - 1 = n /\ more[k] = lot
        BY <1>1, <2>1
      <3> QED BY <1>3, <2>1, <3>1
    <2>2. CASE k # n + 1
      <3>1. k \in 1 .. n /\ k \in 0 .. n /\ k - 1 \in 0 .. n
        BY <1>1, <2>2
      <3>2. u \in Upto(lots, k - 1) + 1 .. Upto(lots, k) /\ more[k] = lots[k]
        BY <1>1, <1>2, <3>1
      <3>3. P[u] = lots[k].price
        BY <3>1, <3>2 DEF Priced
      <3> QED BY <3>2, <3>3
    <2> QED BY <2>1, <2>2
  <1> QED BY <1>1, <1>4 DEF Priced, more

LEMMA PricedReverse ==
  ASSUME NEW lots \in Seq(Lot), NEW P, Priced(lots, P), NEW R,
         \A u \in 1 .. LotSum(Qty, lots) : R[u] = P[(LotSum(Qty, lots) - u) + 1]
  PROVE  Priced(Reverse(lots), R)
  <1> DEFINE back == Reverse(lots)
             n == Len(lots)
             N == LotSum(Qty, lots)
  <1>1. n \in Nat /\ N \in Nat
    BY UptoIs
  <1>2. /\ back \in Seq(Lot) /\ Len(back) = n
        /\ \A k \in 1 .. n : back[k] = lots[(n - k) + 1]
    BY LotSumReverse, WeightsAre DEF Reverse
  <1> HIDE DEF back
  <1>3. ASSUME NEW k \in 1 .. n
        PROVE  /\ (n - k) + 1 \in 1 .. n /\ k \in 1 .. Len(back)
               /\ Upto(lots, (n - k) + 1) = Upto(lots, n - k) + lots[(n - k) + 1].qty
               /\ Upto(lots, n - k) \in Nat /\ Upto(lots, (n - k) + 1) <= N
               /\ lots[(n - k) + 1].qty \in Nat
               /\ Upto(back, k) = Upto(back, k - 1) + lots[(n - k) + 1].qty
    <2> DEFINE a == (n - k) + 1
    <2>1. a \in 1 .. n /\ a - 1 = n - k /\ a \in 0 .. n /\ n - k \in 0 .. n
          /\ k \in 1 .. Len(back) /\ back[k] = lots[a]
      BY <1>1, <1>2
    <2> HIDE DEF a
    <2>2. Upto(lots, a) = Upto(lots, a - 1) + lots[a].qty /\ lots[a].qty \in Nat
      BY <2>1, UptoNext
    <2>3. Upto(lots, n - k) \in Nat /\ Upto(lots, a) <= N
      BY <2>1, UptoIs
    <2>4. Upto(back, k) = Upto(back, k - 1) + back[k].qty
      BY <1>2, <2>1, UptoNext
    <2>5. Upto(lots, a) = Upto(lots, n - k) + lots[a].qty
      BY <2>1, <2>2
    <2>6. Upto(back, k) = Upto(back, k - 1) + lots[a].qty
      BY <2>1, <2>4
    <2> QED BY <2>1, <2>2, <2>3, <2>5, <2>6 DEF a
  <1>4. \A k \in 0 .. n : Upto(back, k) = N - Upto(lots, n - k)
    <2> DEFINE S == {k \in 0 .. n : Upto(back, k) = N - Upto(lots, n - k)}
    <2>1. 0 \in S
      <3>1. Upto(back, 0) = 0 /\ Upto(lots, n - 0) = N
        BY <1>1, <1>2, UptoIs
      <3>2. 0 = N - N /\ 0 \in 0 .. n
        BY <1>1
      <3> HIDE DEF n, N
      <3> QED BY <3>1, <3>2
    <2>2. ASSUME NEW k \in 1 .. n, k - 1 \in S PROVE k \in S
      <3>1. /\ Upto(lots, (n - k) + 1) = Upto(lots, n - k) + lots[(n - k) + 1].qty
            /\ Upto(lots, n - k) \in Nat /\ lots[(n - k) + 1].qty \in Nat
            /\ Upto(back, k) = Upto(back, k - 1) + lots[(n - k) + 1].qty
        BY <1>3
      <3>2. Upto(back, k - 1) = N - Upto(lots, (n - k) + 1)
        <4>1. n - (k - 1) = (n - k) + 1
          BY <1>1
        <4>2. Upto(back, k - 1) = N - Upto(lots, n - (k - 1))
          BY <2>2
        <4> QED BY <4>1, <4>2
      <3> DEFINE q == lots[(n - k) + 1].qty
                 b == Upto(lots, n - k)
      <3>3. Upto(back, k) = (N - (b + q)) + q /\ q \in Nat /\ b \in Nat
        BY <3>1, <3>2
      <3> HIDE DEF q, b
      <3>4. Upto(back, k) = N - b
        BY <1>1, <3>3
      <3> QED BY <3>4 DEF b
    <2> HIDE DEF n, N, S
    <2>3. \A k \in 0 .. n : k \in S
      BY <1>1, <2>1, <2>2, CountedUp
    <2> QED BY <2>3 DEF S
  <1>5. ASSUME NEW k \in 1 .. n, NEW u \in Upto(back, k - 1) + 1 .. Upto(back, k)
        PROVE  R[u] = back[k].price
    <2> DEFINE a == (n - k) + 1
    <2>1. /\ a \in 1 .. n /\ Upto(lots, a) = Upto(lots, n - k) + lots[a].qty
          /\ Upto(lots, n - k) \in Nat /\ Upto(lots, a) <= N /\ lots[a].qty \in Nat
      BY <1>3
    <2>2. /\ k \in 0 .. n /\ k - 1 \in 0 .. n /\ n - (k - 1) = a /\ a - 1 = n - k
      BY <1>1
    <2>3. Upto(back, k) = N - Upto(lots, n - k) /\ Upto(back, k - 1) = N - Upto(lots, n - (k - 1))
      BY <1>4, <2>2
    <2>4. back[k] = lots[a]
      BY <1>2
    <2> HIDE DEF a, n, N
    <2>5. Upto(back, k - 1) = N - Upto(lots, a)
      BY <2>2, <2>3
    <2> DEFINE b == Upto(lots, n - k)
               q == lots[a].qty
    <2>6. /\ u \in (N - (b + q)) + 1 .. N - b /\ b \in Nat /\ q \in Nat /\ b + q <= N
          /\ Upto(lots, a) = b + q
      BY <2>1, <2>3, <2>5
    <2> HIDE DEF b, q
    <2>7. u \in 1 .. N /\ (N - u) + 1 \in b + 1 .. b + q
      BY <1>1, <2>6
    <2>8. R[u] = P[(N - u) + 1]
      BY <2>7 DEF N
    <2>9. P[(N - u) + 1] = lots[a].price
      <3>1. (N - u) + 1 \in Upto(lots, a - 1) + 1 .. Upto(lots, a)
        BY <2>2, <2>6, <2>7 DEF b
      <3> QED BY <2>1, <3>1 DEF Priced, n
    <2> QED BY <2>4, <2>8, <2>9
  <1> QED BY <1>2, <1>5 DEF Priced, back

\* The part of a sell of qty that the first so many units cover: what was made on them, and
\* the units that are left.
Lesser(a, b) == IF a <= b THEN a ELSE b

SoldSoFar(acc, units, qty, d, R) ==
  /\ acc \in Sale /\ acc.rest = qty - Lesser(qty, units)
  /\ acc.gain = Sum(d, 1 .. Lesser(qty, units))
  /\ LotSum(Qty, acc.lots) = units - Lesser(qty, units) /\ Priced(acc.lots, R)

LEMMA NextPriced ==
  ASSUME NEW acc, NEW units \in Nat, NEW qty \in Nat, NEW d, NEW R,
         SoldSoFar(acc, units, qty, d, R), NEW lot \in Lot, NEW price \in Nat,
         \A u \in 1 .. units : d[u] \in Int,
         \A u \in units + 1 .. units + lot.qty : d[u] = price - lot.price,
         \A u \in 1 .. units + lot.qty : u + qty <= units + lot.qty => R[u] = lot.price
                                         \/ u + qty <= units
  PROVE  SoldSoFar(TakenFrom(acc, lot, price), units + lot.qty, qty, d, R)
  <1> DEFINE n == lot.qty
             c == price - lot.price
             all == units + n
             m == Lesser(qty, units)
             m2 == Lesser(qty, all)
             take == Min({lot.qty, acc.rest})
             new == TakenFrom(acc, lot, price)
  <1>1. /\ n \in Nat \ {0} /\ lot.price \in Nat /\ c \in Int /\ lot = [qty |-> n, price |-> lot.price]
    BY DEF Lot
  <1>2. /\ acc \in Sale /\ acc.rest = qty - m /\ acc.gain = Sum(d, 1 .. m)
        /\ LotSum(Qty, acc.lots) = units - m /\ Priced(acc.lots, R)
        /\ acc.lots \in Seq(Lot) /\ acc.gain \in Int /\ acc.rest \in Nat
    BY DEF SoldSoFar, Sale
  <1>3. /\ m \in Nat /\ m <= qty /\ m <= units /\ (m = qty \/ m = units)
        /\ m2 \in Nat /\ m2 <= qty /\ m2 <= all /\ (m2 = qty \/ m2 = all)
        /\ m <= m2
    BY <1>1 DEF Lesser
  <1>4. take = m2 - m
    <2>1. take = IF n <= qty - m THEN n ELSE qty - m
      <3>1. acc.rest \in Int /\ lot.qty \in Int
        BY <1>1, <1>2
      <3>2. take = IF lot.qty <= acc.rest THEN lot.qty ELSE acc.rest
        BY <3>1, MinOfTwo
      <3> QED BY <1>2, <3>2
    <2> HIDE DEF take
    <2> QED BY <1>1, <2>1 DEF Lesser
  <1>5. new = [rest |-> acc.rest - take, gain |-> acc.gain + take * c,
               lots |-> IF take = n THEN acc.lots
                        ELSE Append(acc.lots, [lot EXCEPT !.qty = @ - take])]
    BY DEF TakenFrom
  <1> HIDE DEF take, new, c
  <1>6. Sum(d, 1 .. m2) = Sum(d, 1 .. m) + take * c /\ Sum(d, 1 .. m2) \in Int
    <2>1. ASSUME NEW u \in m + 1 .. m2 PROVE d[u] = c
      <3>1. m = units
        BY <1>1, <1>3, <2>1
      <3>2. u \in units + 1 .. units + lot.qty
        BY <1>1, <1>3, <2>1, <3>1
      <3> QED BY <3>2 DEF c
    <2>2. \A u \in 1 .. m : d[u] \in Int
      BY <1>3
    <2>3. m \in Nat /\ m2 \in Nat /\ m <= m2 /\ c \in Int
      BY <1>1, <1>3
    <2> HIDE DEF m, m2
    <2>4. Sum(d, 1 .. m2) = Sum(d, 1 .. m) + (m2 - m) * c /\ Sum(d, 1 .. m2) \in Int
      BY <2>1, <2>2, <2>3, SumRun
    <2> QED BY <1>4, <2>4
  <1>7. new.rest = qty - m2 /\ new.gain = Sum(d, 1 .. m2) /\ new.rest \in Nat /\ new.gain \in Int
    <2>1. new.gain = Sum(d, 1 .. m2) /\ new.gain \in Int
      BY <1>2, <1>5, <1>6
    <2>2. new.rest = (qty - m) - (m2 - m)
      BY <1>2, <1>4, <1>5
    <2> HIDE DEF m, m2
    <2> QED BY <1>3, <2>1, <2>2
  <1>8. CASE take = n
    <2>1. new.lots = acc.lots
      BY <1>5, <1>8
    <2>2. units - m = all - m2
      BY <1>1, <1>3, <1>4, <1>8
    <2>3. new \in Sale
      BY <1>2, <1>5, <1>7, <2>1 DEF Sale
    <2> QED BY <1>2, <1>7, <2>1, <2>2, <2>3 DEF SoldSoFar, new
  <1>9. CASE take # n
    <2> DEFINE left == [lot EXCEPT !.qty = @ - take]
               L == LotSum(Qty, acc.lots)
    <2>1. m2 = qty /\ n - take \in Nat \ {0}
      BY <1>1, <1>3, <1>4, <1>9 DEF Lesser
    <2>2. left \in Lot /\ left.qty = n - take /\ left.price = lot.price
      BY <1>1, <2>1 DEF Lot
    <2>3. new.lots = Append(acc.lots, left)
      BY <1>5, <1>9
    <2> HIDE DEF left
    <2>4. new.lots \in Seq(Lot) /\ LotSum(Qty, new.lots) = L + (n - take)
      BY <1>2, <2>2, <2>3, LotSumAppend, WeightsAre
    <2>5. L + (n - take) = all - m2 /\ L = units - m
      BY <1>1, <1>2, <1>3, <1>4
    <2>6. ASSUME NEW u \in L + 1 .. L + left.qty PROVE R[u] = left.price
      <3>1. u \in 1 .. all /\ u + qty <= all /\ ~(u + qty <= units)
        BY <1>1, <1>3, <1>4, <2>1, <2>2, <2>5
      <3> QED BY <2>2, <3>1
    <2>7. Priced(new.lots, R)
      <3> HIDE DEF m, m2, all
      <3> QED BY <1>2, <2>2, <2>3, <2>6, PricedAppend
    <2>8. new \in Sale
      BY <1>5, <1>7, <2>3, <2>4 DEF Sale
    <2> QED BY <1>7, <2>4, <2>5, <2>7, <2>8 DEF SoldSoFar, new
  <1> QED BY <1>8, <1>9

\* A sell of lots whose units cost what P lists: what is made unit by unit, and what the
\* units cost that are left, which move up.
SellOf(lots, qty, price, P, d, R) ==
  /\ lots \in Seq(Lot) /\ qty \in Nat /\ price \in Nat /\ Priced(lots, P)
  /\ LotSum(Qty, lots) >= qty
  /\ \A u \in 1 .. LotSum(Qty, lots) : d[u] = price - P[u] /\ d[u] \in Int
  /\ \A u \in 1 .. LotSum(Qty, lots) - qty : R[u] = P[u + qty]

LEMMA SoldPriced ==
  ASSUME NEW lots, NEW qty, NEW price, NEW P, NEW d, NEW R, SellOf(lots, qty, price, P, d, R)
  PROVE  /\ Priced(Sold(lots, qty, price).lots, R)
         /\ Sold(lots, qty, price).gain = Sum(d, 1 .. qty)
  <1> USE DEF SellOf
  <1> DEFINE n == Len(lots)
             N == LotSum(Qty, lots)
             At(k) == After(lots, qty, price, 1 .. k)
             S == {k \in 0 .. n : SoldSoFar(At(k), Upto(lots, k), qty, d, R)}
  <1>1. /\ n \in Nat /\ N \in Nat /\ Upto(lots, 0) = 0 /\ Upto(lots, n) = N
        /\ DOMAIN lots = 1 .. n
        /\ \A k \in 0 .. n : Upto(lots, k) \in Nat /\ Upto(lots, k) <= N
    BY UptoIs
  <1>2. 0 \in S
    <2>1. 1 .. 0 = {}
      OBVIOUS
    <2>2. At(0) = Unsold(qty)
      BY <2>1, AfterNone
    <2>3. /\ Unsold(qty) \in Sale /\ Unsold(qty).lots = <<>> /\ Unsold(qty).rest = qty
          /\ Unsold(qty).gain = 0
      BY DEF Unsold, Sale
    <2>4. Lesser(qty, 0) = 0
      BY DEF Lesser
    <2>5. Priced(<<>>, R) /\ LotSum(Qty, <<>>) = 0
      <3>1. 1 .. Len(<<>>) = {}
        OBVIOUS
      <3> QED BY <3>1, LotSumEmpty DEF Priced
    <2> HIDE DEF At
    <2>6. qty = qty - 0 /\ 0 = 0 - 0
      OBVIOUS
    <2>7. SoldSoFar(At(0), 0, qty, d, R)
      BY <2>2, <2>3, <2>4, <2>5, <2>6, SumNone DEF SoldSoFar
    <2> QED BY <1>1, <2>7
  <1>3. ASSUME NEW k \in 1 .. n, k - 1 \in S PROVE k \in S
    <2> DEFINE units == Upto(lots, k - 1)
               lot == lots[k]
    <2>1. /\ Upto(lots, k) = units + lot.qty /\ lot \in Lot /\ lot.qty \in Nat \ {0}
          /\ lot.price \in Nat /\ units \in Nat /\ units + lot.qty <= N
      <3>1. k - 1 \in 0 .. n /\ k \in 0 .. n
        BY <1>1
      <3> QED BY <1>1, <3>1, UptoNext
    <2>2. At(k) = TakenFrom(At(k - 1), lot, price)
      <3>1. k \in Nat \ {0}
        BY <1>1
      <3> QED BY <3>1, AfterOne
    <2>3. SoldSoFar(At(k - 1), units, qty, d, R)
      BY <1>3
    <2>4. \A u \in units + 1 .. units + lot.qty : P[u] = lot.price
      BY <2>1 DEF Priced
    <2> HIDE DEF units, lot, At, N
    <2>5. \A u \in 1 .. units : d[u] \in Int
      BY <1>1, <2>1 DEF N
    <2>6. \A u \in units + 1 .. units + lot.qty : d[u] = price - lot.price
      <3> TAKE u \in units + 1 .. units + lot.qty
      <3>1. u \in 1 .. N
        BY <1>1, <2>1
      <3> QED BY <2>4, <3>1 DEF N
    <2>7. \A u \in 1 .. units + lot.qty : u + qty <= units + lot.qty => R[u] = lot.price
                                          \/ u + qty <= units
      <3> SUFFICES ASSUME NEW u \in 1 .. units + lot.qty, u + qty <= units + lot.qty,
                          ~(u + qty <= units)
                   PROVE  R[u] = lot.price
        OBVIOUS
      <3>1. u + qty \in units + 1 .. units + lot.qty /\ u \in 1 .. N - qty
        BY <1>1, <2>1
      <3> QED BY <2>4, <3>1 DEF N
    <2>8. SoldSoFar(TakenFrom(At(k - 1), lot, price), units + lot.qty, qty, d, R)
      BY <2>1, <2>3, <2>5, <2>6, <2>7, NextPriced
    <2>9. SoldSoFar(At(k), Upto(lots, k), qty, d, R)
      BY <2>1, <2>2, <2>8
    <2> QED BY <1>1, <2>9 DEF At
  <1>4. n \in S
    <2>1. n \in 0 .. n
      BY <1>1
    <2> HIDE DEF n, S
    <2> QED BY <1>1, <1>2, <1>3, <2>1, CountedUp
  <1>5. Sold(lots, qty, price) = At(n)
    BY <1>1, SoldIsAfter
  <1>6. Lesser(qty, N) = qty
    BY DEF Lesser
  <1>7. SoldSoFar(At(n), N, qty, d, R)
    BY <1>1, <1>4
  <1> QED BY <1>5, <1>6, <1>7 DEF SoldSoFar

\* FrenchPFUPolicy.absorb sells the units bought first.
LEMMA FifoPriced ==
  ASSUME NEW l, NEW f, f.side = "sell", NEW P, NEW d, NEW R,
         SellOf(l.lots, f.qty, f.price, P, d, R)
  PROVE  /\ Priced(AbsorbFifo(l, f).lots, R)
         /\ AbsorbFifo(l, f).realized = l.realized + Sum(d, 1 .. f.qty)
  <1>1. /\ AbsorbFifo(l, f).lots = Sold(l.lots, f.qty, f.price).lots
        /\ AbsorbFifo(l, f).realized = l.realized + Sold(l.lots, f.qty, f.price).gain
    BY DEF AbsorbFifo
  <1> QED BY <1>1, SoldPriced

\* CryptoLIFOPolicy.absorb sells the units bought last.
SellOfLast(lots, qty, price, P, d, R) ==
  /\ lots \in Seq(Lot) /\ qty \in Nat /\ price \in Nat /\ Priced(lots, P)
  /\ LotSum(Qty, lots) >= qty
  /\ \A u \in 1 .. LotSum(Qty, lots) :
       d[u] = price - P[(LotSum(Qty, lots) - u) + 1] /\ d[u] \in Int
  /\ \A u \in 1 .. LotSum(Qty, lots) - qty : R[u] = P[u]

LEMMA LifoPriced ==
  ASSUME NEW l, NEW f, f.side = "sell", NEW P, NEW d, NEW R,
         SellOfLast(l.lots, f.qty, f.price, P, d, R)
  PROVE  /\ Priced(AbsorbLifo(l, f).lots, R)
         /\ AbsorbLifo(l, f).realized = l.realized + Sum(d, 1 .. f.qty)
  <1> USE DEF SellOfLast
  <1> DEFINE N == LotSum(Qty, l.lots)
             back == Reverse(l.lots)
             sale == Sold(back, f.qty, f.price)
             Q == [u \in 1 .. N |-> P[(N - u) + 1]]
             O == [u \in 1 .. N - f.qty |-> Q[u + f.qty]]
  <1>1. l.lots \in Seq(Lot) /\ f.qty \in Nat /\ f.price \in Nat /\ N \in Nat
    BY UptoIs
  <1>2. /\ AbsorbLifo(l, f).lots = Reverse(sale.lots)
        /\ AbsorbLifo(l, f).realized = l.realized + sale.gain
    BY DEF AbsorbLifo
  <1>3. back \in Seq(Lot) /\ LotSum(Qty, back) = N
    BY <1>1, LotSumReverse, WeightsAre
  <1>4. Priced(back, Q)
    <2>1. \A u \in 1 .. LotSum(Qty, l.lots) : Q[u] = P[(LotSum(Qty, l.lots) - u) + 1]
      OBVIOUS
    <2> HIDE DEF Q
    <2> QED BY <1>1, <2>1, PricedReverse
  <1>5. /\ sale.lots \in Seq(Lot) /\ LotSum(Qty, sale.lots) = N - f.qty
    <2> HIDE DEF back
    <2>1. LET new == Sold(back, f.qty, f.price)
          IN new.lots \in Seq(Lot)
               /\ (LotSum(Qty, back) >= f.qty => LotSum(Qty, new.lots) = LotSum(Qty, back) - f.qty)
      BY <1>1, <1>3, SoldIs
    <2> QED BY <1>3, <2>1
  <1>6. \A u \in 1 .. N : d[u] = f.price - Q[u] /\ d[u] \in Int
    OBVIOUS
  <1>7. \A u \in 1 .. N - f.qty : O[u] = Q[u + f.qty]
    OBVIOUS
  <1>8. \A u \in 1 .. N - f.qty : R[u] = O[((N - f.qty) - u) + 1]
    <2> TAKE u \in 1 .. N - f.qty
    <2>1. /\ ((N - f.qty) - u) + 1 \in 1 .. N - f.qty
          /\ (((N - f.qty) - u) + 1) + f.qty \in 1 .. N
          /\ (N - ((((N - f.qty) - u) + 1) + f.qty)) + 1 = u
      BY <1>1
    <2> HIDE DEF N
    <2> QED BY <2>1 DEF N
  <1> HIDE DEF N, back, sale, Q, O
  <1>9. Priced(sale.lots, O) /\ sale.gain = Sum(d, 1 .. f.qty)
    <2>1. SellOf(back, f.qty, f.price, Q, d, O)
      BY <1>1, <1>3, <1>4, <1>6, <1>7 DEF SellOf, N
    <2> QED BY <2>1, SoldPriced DEF sale
  <1>10. Priced(Reverse(sale.lots), R)
    BY <1>5, <1>8, <1>9, PricedReverse
  <1> QED BY <1>2, <1>9, <1>10

-------------------------------------------------------------------------------
(* The tape, unit by unit.                                                 *)

Unit == [side : {"buy", "sell"}, price : Nat]
Same(a, b) == IF a = b THEN 1 ELSE 0

LEMMA UnitsNext ==
  ASSUME NEW t \in Seq(Unit), NEW i \in 1 .. Len(t), NEW side
  PROVE  /\ Units(t, i, side) = Units(t, i - 1, side) + Same(t[i].side, side)
         /\ Units(t, i, side) \in Nat /\ Units(t, i - 1, side) \in Nat
         /\ t[i] \in Unit
  <1> DEFINE U(m) == {k \in 1 .. m : t[k].side = side}
  <1>1. t[i] \in Unit /\ i \in Nat /\ i \notin U(i - 1)
    OBVIOUS
  <1>2. \A m \in Int : IsFiniteSet(U(m)) /\ Cardinality(U(m)) \in Nat
    <2> TAKE m \in Int
    <2>1. IsFiniteSet(1 .. m) /\ U(m) \subseteq 1 .. m
      BY FS_Interval
    <2> HIDE DEF U
    <2> QED BY <2>1, FS_Subset, FS_CardinalityType
  <1>3. U(i) = IF t[i].side = side THEN U(i - 1) \cup {i} ELSE U(i - 1)
    OBVIOUS
  <1>4. Cardinality(U(i)) = Cardinality(U(i - 1)) + Same(t[i].side, side)
    <2>1. i - 1 \in Int
      BY <1>1
    <2> HIDE DEF U
    <2>2. Cardinality(U(i - 1) \cup {i}) = Cardinality(U(i - 1)) + 1
      BY <1>1, <1>2, <2>1, FS_AddElement
    <2>3. Cardinality(U(i - 1)) \in Nat
      BY <1>2, <2>1
    <2>4. CASE t[i].side = side
      <3>1. U(i) = U(i - 1) \cup {i}
        BY <1>3, <2>4
      <3> QED BY <2>2, <2>4, <3>1 DEF Same
    <2>5. CASE t[i].side # side
      <3>1. U(i) = U(i - 1)
        BY <1>3, <2>5
      <3> QED BY <2>3, <2>5, <3>1 DEF Same
    <2> QED BY <2>4, <2>5
  <1>5. Cardinality(U(i)) \in Nat /\ Cardinality(U(i - 1)) \in Nat
    <2>1. i - 1 \in Int /\ i \in Int
      BY <1>1
    <2> HIDE DEF U
    <2> QED BY <1>2, <2>1
  <1> QED BY <1>1, <1>4, <1>5 DEF Units

LEMMA UnitsAre ==
  ASSUME NEW t \in Seq(Unit), NEW side
  PROVE  /\ Units(t, 0, side) = 0 /\ Len(t) \in Nat
         /\ \A i \in 0 .. Len(t) : /\ Units(t, i, side) \in Nat
                                   /\ Units(t, i, side) <= Units(t, Len(t), side)
  <1> DEFINE U(m) == {k \in 1 .. m : t[k].side = side}
             n == Len(t)
  <1>1. n \in Nat
    OBVIOUS
  <1>2. U(0) = {}
    OBVIOUS
  <1>3. IsFiniteSet(U(n))
    <2>1. IsFiniteSet(1 .. n) /\ U(n) \subseteq 1 .. n
      BY <1>1, FS_Interval
    <2> HIDE DEF U, n
    <2> QED BY <2>1, FS_Subset
  <1>4. ASSUME NEW i \in 0 .. n
        PROVE  Cardinality(U(i)) \in Nat /\ Cardinality(U(i)) <= Cardinality(U(n))
    <2>1. U(i) \subseteq U(n)
      BY <1>1
    <2> HIDE DEF U, n
    <2> QED BY <1>3, <2>1, FS_Subset, FS_CardinalityType
  <1>5. Cardinality(U(0)) = 0
    BY <1>2, FS_EmptySet
  <1> QED BY <1>1, <1>4, <1>5 DEF Units

\* What never rises by more than one passes every number on its way up.
Climbs(n, c) ==
  /\ n \in Nat /\ \A k \in 0 .. n : c[k] \in Int
  /\ c[0] = 0 /\ \A k \in 1 .. n : c[k] <= c[k - 1] + 1

LEMMA Climbed ==
  ASSUME NEW n, NEW c, Climbs(n, c), NEW v \in 1 .. c[n]
  PROVE  \E j \in 1 .. n : c[j] = v /\ c[j] = c[j - 1] + 1
  <1> USE DEF Climbs
  <1> DEFINE D == {j \in 0 .. n : c[j] >= v}
  <1>1. n \in D /\ D \in SUBSET Nat /\ v \in Int /\ v >= 1
    <2>1. n \in 0 .. n /\ c[n] \in Int
      OBVIOUS
    <2> QED BY <2>1
  <1>2. PICK m \in D : \A j \in D : m <= j
    <2> HIDE DEF D
    <2> QED BY <1>1, LeastNumber
  <1>3. m \in 0 .. n /\ c[m] >= v /\ c[m] \in Int
    OBVIOUS
  <1>4. m # 0
    BY <1>1, <1>3
  <1>5. m \in 1 .. n /\ m - 1 \in 0 .. n /\ ~(m <= m - 1)
    BY <1>3, <1>4
  <1>6. c[m - 1] < v /\ c[m - 1] \in Int
    BY <1>1, <1>2, <1>5
  <1>7. c[m] = v /\ c[m] = c[m - 1] + 1
    <2>1. c[m] <= c[m - 1] + 1
      BY <1>5
    <2> HIDE DEF Climbs
    <2> QED BY <1>1, <1>3, <1>6, <2>1
  <1> QED BY <1>5, <1>7

Held(t) == Open(t, Len(t))

\* A tape on which nothing is sold that was not bought before.
Solvent(t) == t \in Seq(Unit) /\ \A i \in 0 .. Len(t) : Open(t, i) >= 0

LEMMA OpenNext ==
  ASSUME NEW t \in Seq(Unit), NEW i \in 1 .. Len(t)
  PROVE  /\ Open(t, i) = IF t[i].side = "buy" THEN Open(t, i - 1) + 1 ELSE Open(t, i - 1) - 1
         /\ Open(t, i) \in Int /\ Open(t, i - 1) \in Int
         /\ t[i].side = "buy" \/ t[i].side = "sell"
         /\ t[i].price \in Nat
  <1>1. t[i].side = "buy" \/ t[i].side = "sell"
    BY UnitsNext DEF Unit
  <1>2. t[i].price \in Nat
    BY UnitsNext DEF Unit
  <1>3. /\ Units(t, i, "buy") = Units(t, i - 1, "buy") + Same(t[i].side, "buy")
        /\ Units(t, i, "buy") \in Nat /\ Units(t, i - 1, "buy") \in Nat
    BY UnitsNext
  <1>4. /\ Units(t, i, "sell") = Units(t, i - 1, "sell") + Same(t[i].side, "sell")
        /\ Units(t, i, "sell") \in Nat /\ Units(t, i - 1, "sell") \in Nat
    BY UnitsNext
  <1>5. Open(t, i) \in Int /\ Open(t, i - 1) \in Int
    BY <1>3, <1>4 DEF Open
  <1>6. ASSUME t[i].side = "buy" PROVE Open(t, i) = Open(t, i - 1) + 1
    <2>1. Same(t[i].side, "buy") = 1 /\ Same(t[i].side, "sell") = 0
      BY <1>6 DEF Same
    <2> QED BY <1>3, <1>4, <2>1 DEF Open
  <1>7. ASSUME t[i].side = "sell" PROVE Open(t, i) = Open(t, i - 1) - 1
    <2>1. Same(t[i].side, "buy") = 0 /\ Same(t[i].side, "sell") = 1
      BY <1>7 DEF Same
    <2> QED BY <1>3, <1>4, <2>1 DEF Open
  <1>8. Open(t, i) = IF t[i].side = "buy" THEN Open(t, i - 1) + 1 ELSE Open(t, i - 1) - 1
    BY <1>1, <1>6, <1>7
  <1> QED BY <1>1, <1>2, <1>5, <1>8

LEMMA OpenIs ==
  ASSUME NEW t \in Seq(Unit)
  PROVE  Open(t, 0) = 0 /\ Len(t) \in Nat /\ \A i \in 0 .. Len(t) : Open(t, i) \in Int
  <1>1. /\ Units(t, 0, "buy") = 0 /\ Len(t) \in Nat
        /\ \A i \in 0 .. Len(t) : Units(t, i, "buy") \in Nat
    BY UnitsAre
  <1>2. Units(t, 0, "sell") = 0 /\ \A i \in 0 .. Len(t) : Units(t, i, "sell") \in Nat
    BY UnitsAre
  <1> QED BY <1>1, <1>2 DEF Open

LEMMA NthBuyIs ==
  ASSUME NEW t \in Seq(Unit), NEW m \in 1 .. Units(t, Len(t), "buy")
  PROVE  /\ NthBuy(t, m) \in DOMAIN t /\ t[NthBuy(t, m)].side = "buy"
         /\ Units(t, NthBuy(t, m), "buy") = m /\ t[NthBuy(t, m)].price \in Nat
  <1> DEFINE n == Len(t)
             c == [k \in 0 .. n |-> Units(t, k, "buy")]
  <1>1. /\ n \in Nat /\ Units(t, 0, "buy") = 0 /\ DOMAIN t = 1 .. n
        /\ \A i \in 0 .. n : Units(t, i, "buy") \in Nat
    BY UnitsAre
  <1>2. \A k \in 0 .. n : c[k] \in Int /\ c[k] = Units(t, k, "buy")
    BY <1>1
  <1>3. \A k \in 1 .. n : c[k] = c[k - 1] + Same(t[k].side, "buy")
    <2> TAKE k \in 1 .. n
    <2>1. k \in 0 .. n /\ k - 1 \in 0 .. n
      BY <1>1
    <2>2. Units(t, k, "buy") = Units(t, k - 1, "buy") + Same(t[k].side, "buy")
      BY UnitsNext
    <2> QED BY <2>1, <2>2
  <1>4. c[0] = 0 /\ c[n] = Units(t, n, "buy")
    BY <1>1
  <1> HIDE DEF c, n
  <1>5. \A k \in 1 .. n : c[k] <= c[k - 1] + 1 /\ k - 1 \in 0 .. n /\ k \in 0 .. n
    <2> TAKE k \in 1 .. n
    <2>1. k - 1 \in 0 .. n /\ k \in 0 .. n
      BY <1>1
    <2> QED BY <1>2, <1>3, <2>1 DEF Same
  <1>6. m \in 1 .. c[n]
    BY <1>4 DEF n
  <1>7. PICK j \in 1 .. n : c[j] = m /\ c[j] = c[j - 1] + 1
    <2>1. \A k \in 0 .. n : c[k] \in Int
      BY <1>2
    <2>2. \A k \in 1 .. n : c[k] <= c[k - 1] + 1
      BY <1>5
    <2>3. n \in Nat /\ c[0] = 0
      BY <1>1, <1>4
    <2>4. Climbs(n, c)
      BY <2>1, <2>2, <2>3 DEF Climbs
    <2> QED BY <1>6, <2>4, Climbed
  <1>8. t[j].side = "buy" /\ Units(t, j, "buy") = m /\ j \in DOMAIN t
    BY <1>1, <1>2, <1>3, <1>5, <1>7 DEF Same
  <1>9. NthBuy(t, m) \in DOMAIN t /\ t[NthBuy(t, m)].side = "buy" /\ Units(t, NthBuy(t, m), "buy") = m
    BY <1>8 DEF NthBuy
  <1>10. t[NthBuy(t, m)].price \in Nat
    <2> DEFINE b == NthBuy(t, m)
    <2>1. b \in 1 .. Len(t)
      BY <1>9
    <2> HIDE DEF b
    <2>2. t[b].price \in Nat
      BY <2>1, OpenNext
    <2> QED BY <2>2 DEF b
  <1> QED BY <1>9, <1>10

LEMMA LastBuyIs ==
  ASSUME NEW t \in Seq(Unit), NEW i \in 0 .. Len(t), NEW o \in 1 .. Open(t, i)
  PROVE  /\ LastBuy(t, i, o) \in 1 .. i /\ t[LastBuy(t, i, o)].price \in Nat
  <1> DEFINE n == Len(t)
             c == [k \in 0 .. n |-> Open(t, k)]
             S == {j \in 1 .. i : t[j].side = "buy" /\ Open(t, j) = o}
  <1>1. n \in Nat /\ Open(t, 0) = 0 /\ DOMAIN t = 1 .. n /\ \A k \in 0 .. n : Open(t, k) \in Int
    BY OpenIs
  <1>2. \A k \in 0 .. n : c[k] \in Int /\ c[k] = Open(t, k)
    BY <1>1
  <1>3. \A k \in 1 .. n : c[k] = IF t[k].side = "buy" THEN c[k - 1] + 1 ELSE c[k - 1] - 1
    <2> TAKE k \in 1 .. n
    <2>1. k \in 0 .. n /\ k - 1 \in 0 .. n
      BY <1>1
    <2>2. Open(t, k) = IF t[k].side = "buy" THEN Open(t, k - 1) + 1 ELSE Open(t, k - 1) - 1
      BY OpenNext
    <2> QED BY <2>1, <2>2
  <1>4. c[0] = 0 /\ i \in Nat /\ i <= n /\ i \in 0 .. n
    BY <1>1
  <1> HIDE DEF c, n
  <1>5. \A k \in 1 .. i : /\ c[k] <= c[k - 1] + 1 /\ k - 1 \in 0 .. n /\ k \in 0 .. n /\ k \in 1 .. n
    <2> TAKE k \in 1 .. i
    <2>1. k - 1 \in 0 .. n /\ k \in 0 .. n /\ k \in 1 .. n
      BY <1>1, <1>4
    <2> QED BY <1>2, <1>3, <2>1
  <1>6. o \in 1 .. c[i] /\ \A k \in 0 .. i : c[k] \in Int
    BY <1>1, <1>2, <1>4
  <1>7. PICK j \in 1 .. i : c[j] = o /\ c[j] = c[j - 1] + 1
    <2>1. Climbs(i, c)
      BY <1>4, <1>5, <1>6 DEF Climbs
    <2> QED BY <1>6, <2>1, Climbed
  <1>8. j \in S
    BY <1>2, <1>3, <1>5, <1>7
  <1>9. S \in SUBSET Int /\ S # {} /\ i \in Int /\ \A x \in S : x <= i
    BY <1>4, <1>8
  <1>10. Max(S) \in S
    <2> HIDE DEF S
    <2> QED BY <1>9, MaxIs
  <1>11. LastBuy(t, i, o) \in 1 .. i /\ LastBuy(t, i, o) \in 1 .. n
    BY <1>1, <1>4, <1>10 DEF LastBuy
  <1>12. t[LastBuy(t, i, o)].price \in Nat
    <2> DEFINE b == LastBuy(t, i, o)
    <2>1. b \in 1 .. Len(t)
      BY <1>11 DEF n
    <2> HIDE DEF b
    <2>2. t[b].price \in Nat
      BY <2>1, OpenNext
    <2> QED BY <2>2 DEF b
  <1> QED BY <1>11, <1>12

\* One unit more.
OneMore(t, e, t2, n) ==
  /\ t2 \in Seq(Unit) /\ n \in Nat /\ Len(t2) = n + 1 /\ t2[n + 1] = e
  /\ DOMAIN t = 1 .. n /\ DOMAIN t2 = 1 .. n + 1
  /\ \A k \in 1 .. n : t2[k] = t[k]
  /\ \A i \in 0 .. n :
       /\ Units(t2, i, "buy") = Units(t, i, "buy")
       /\ Units(t2, i, "sell") = Units(t, i, "sell")
       /\ Open(t2, i) = Open(t, i)
  /\ Units(t2, n + 1, "buy") = Units(t, n, "buy") + Same(e.side, "buy")
  /\ Units(t2, n + 1, "sell") = Units(t, n, "sell") + Same(e.side, "sell")
  /\ Open(t2, n + 1) = IF e.side = "buy" THEN Open(t, n) + 1 ELSE Open(t, n) - 1

LEMMA TapeNext ==
  ASSUME NEW t \in Seq(Unit), NEW e \in Unit, NEW t2, t2 = Append(t, e), NEW n, n = Len(t)
  PROVE  OneMore(t, e, t2, n)
  <1>1. /\ t2 \in Seq(Unit) /\ n \in Nat /\ Len(t2) = n + 1 /\ t2[n + 1] = e
        /\ DOMAIN t = 1 .. n /\ DOMAIN t2 = 1 .. n + 1
        /\ \A k \in 1 .. n : t2[k] = t[k]
    OBVIOUS
  <1>2. ASSUME NEW i \in 0 .. n, NEW side PROVE Units(t2, i, side) = Units(t, i, side)
    <2>1. {k \in 1 .. i : t2[k].side = side} = {k \in 1 .. i : t[k].side = side}
      BY <1>1
    <2> QED BY <2>1 DEF Units
  <1>3. /\ Units(t2, n + 1, "buy") = Units(t, n, "buy") + Same(e.side, "buy")
        /\ Units(t2, n + 1, "sell") = Units(t, n, "sell") + Same(e.side, "sell")
        /\ Open(t2, n + 1) = IF e.side = "buy" THEN Open(t, n) + 1 ELSE Open(t, n) - 1
    <2> DEFINE a == n + 1
    <2>1. a \in 1 .. Len(t2) /\ a - 1 = n /\ n \in 0 .. n
      BY <1>1
    <2> HIDE DEF a
    <2>2. /\ Units(t2, a, "buy") = Units(t2, a - 1, "buy") + Same(t2[a].side, "buy")
          /\ Units(t2, a, "sell") = Units(t2, a - 1, "sell") + Same(t2[a].side, "sell")
      BY <1>1, <2>1, UnitsNext
    <2>3. Open(t2, a) = IF t2[a].side = "buy" THEN Open(t2, a - 1) + 1 ELSE Open(t2, a - 1) - 1
      BY <1>1, <2>1, OpenNext
    <2>4. Open(t2, n) = Open(t, n)
      BY <1>2, <2>1 DEF Open
    <2>5. t2[a] = e
      BY <1>1 DEF a
    <2>6. Units(t2, n, "buy") = Units(t, n, "buy") /\ Units(t2, n, "sell") = Units(t, n, "sell")
      BY <1>2, <2>1
    <2> QED BY <2>1, <2>2, <2>3, <2>4, <2>5, <2>6 DEF a
  <1> QED BY <1>1, <1>2, <1>3 DEF Open, OneMore

\* What was bought stays where it was, and what is bought comes last.
Stay(t, e, t2, n) ==
  /\ \A m \in 1 .. Units(t, n, "buy") : NthBuy(t2, m) = NthBuy(t, m)
  /\ \A i \in 0 .. n, o \in Int : LastBuy(t2, i, o) = LastBuy(t, i, o)
  /\ \A o \in 1 .. Open(t, n) : LastBuy(t2, n + 1, o) = LastBuy(t, n, o)
  /\ e.side = "buy" =>
       /\ NthBuy(t2, Units(t, n, "buy") + 1) = n + 1
       /\ LastBuy(t2, n + 1, Open(t, n) + 1) = n + 1

LEMMA BuysStay ==
  ASSUME NEW t \in Seq(Unit), NEW e \in Unit, NEW t2, t2 = Append(t, e), NEW n, n = Len(t)
  PROVE  Stay(t, e, t2, n)
  <1> DEFINE B == Units(t, n, "buy")
             H == Open(t, n)
  <1>1. /\ t2 \in Seq(Unit) /\ n \in Nat /\ Len(t2) = n + 1 /\ t2[n + 1] = e
        /\ DOMAIN t = 1 .. n /\ DOMAIN t2 = 1 .. n + 1
        /\ \A k \in 1 .. n : t2[k] = t[k]
        /\ \A i \in 0 .. n : Units(t2, i, "buy") = Units(t, i, "buy") /\ Open(t2, i) = Open(t, i)
        /\ Units(t2, n + 1, "buy") = B + Same(e.side, "buy")
        /\ Open(t2, n + 1) = IF e.side = "buy" THEN H + 1 ELSE H - 1
    <2>1. OneMore(t, e, t2, n)
      BY TapeNext
    <2> QED BY <2>1 DEF OneMore
  <1>2. /\ B \in Nat /\ H \in Int
        /\ \A i \in 0 .. n : Units(t, i, "buy") \in Nat /\ Units(t, i, "buy") <= B
        /\ \A i \in 0 .. n : Open(t, i) \in Int
    <2>1. n \in 0 .. n
      BY <1>1
    <2> QED BY <2>1, UnitsAre, OpenIs
  <1> HIDE DEF B, H
  <1>3. \A j \in 1 .. n + 1 : j = n + 1 \/ (j \in 1 .. n /\ j \in 0 .. n)
    BY <1>1
  <1>4. ASSUME NEW m \in 1 .. B PROVE NthBuy(t2, m) = NthBuy(t, m)
    <2>1. \A j : (j \in DOMAIN t2 /\ t2[j].side = "buy" /\ Units(t2, j, "buy") = m)
                   <=> (j \in DOMAIN t /\ t[j].side = "buy" /\ Units(t, j, "buy") = m)
      <3> TAKE j
      <3>1. ASSUME j \in DOMAIN t
            PROVE  j \in DOMAIN t2 /\ t2[j] = t[j] /\ Units(t2, j, "buy") = Units(t, j, "buy")
        BY <1>1, <3>1
      <3>2. ASSUME j = n + 1, t2[j].side = "buy", Units(t2, j, "buy") = m PROVE FALSE
        BY <1>1, <1>2, <3>2 DEF Same
      <3>3. j \in DOMAIN t2 => j = n + 1 \/ j \in DOMAIN t
        BY <1>1, <1>3
      <3> QED BY <3>1, <3>2, <3>3
    <2> QED BY <2>1 DEF NthBuy
  <1>5. ASSUME NEW i \in 0 .. n, NEW o \in Int PROVE LastBuy(t2, i, o) = LastBuy(t, i, o)
    <2>1. \A j \in 1 .. i : j \in 1 .. n /\ j \in 0 .. n
      BY <1>1
    <2>2. {j \in 1 .. i : t2[j].side = "buy" /\ Open(t2, j) = o}
            = {j \in 1 .. i : t[j].side = "buy" /\ Open(t, j) = o}
      BY <1>1, <2>1
    <2> QED BY <2>2 DEF LastBuy
  <1>6. ASSUME NEW o \in 1 .. H PROVE LastBuy(t2, n + 1, o) = LastBuy(t, n, o)
    <2>1. \A j \in 1 .. n : j \in 1 .. n + 1 /\ j \in 0 .. n
      BY <1>1
    <2>2. ~(t2[n + 1].side = "buy" /\ Open(t2, n + 1) = o)
      BY <1>1, <1>2
    <2>3. {j \in 1 .. n + 1 : t2[j].side = "buy" /\ Open(t2, j) = o}
            = {j \in 1 .. n : t[j].side = "buy" /\ Open(t, j) = o}
      BY <1>1, <1>3, <2>1, <2>2
    <2> QED BY <2>3 DEF LastBuy
  <1>7. ASSUME e.side = "buy" PROVE NthBuy(t2, B + 1) = n + 1
    <2>1. \A j : (j \in DOMAIN t2 /\ t2[j].side = "buy" /\ Units(t2, j, "buy") = B + 1) <=> j = n + 1
      <3> TAKE j
      <3>1. ASSUME j \in DOMAIN t PROVE Units(t2, j, "buy") # B + 1
        <4>1. j \in 0 .. n
          BY <1>1, <3>1
        <4> QED BY <1>1, <1>2, <4>1
      <3>2. n + 1 \in DOMAIN t2 /\ t2[n + 1].side = "buy" /\ Units(t2, n + 1, "buy") = B + 1
        BY <1>1, <1>7 DEF Same
      <3>3. j \in DOMAIN t2 => j = n + 1 \/ j \in DOMAIN t
        BY <1>1, <1>3
      <3> QED BY <3>1, <3>2, <3>3
    <2> QED BY <2>1 DEF NthBuy
  <1>8. ASSUME e.side = "buy" PROVE LastBuy(t2, n + 1, H + 1) = n + 1
    <2> DEFINE S == {j \in 1 .. n + 1 : t2[j].side = "buy" /\ Open(t2, j) = H + 1}
    <2>1. n + 1 \in S /\ S \in SUBSET Int /\ n + 1 \in Int /\ \A x \in S : x <= n + 1
      BY <1>1, <1>8
    <2> HIDE DEF S
    <2>2. Max(S) \in S /\ \A x \in S : x <= Max(S)
      BY <2>1, MaxIs
    <2>3. Max(S) = n + 1
      <3> DEFINE z == Max(S)
      <3>1. z \in Int /\ z <= n + 1 /\ n + 1 <= z /\ n + 1 \in Int
        BY <2>1, <2>2
      <3> HIDE DEF z
      <3> QED BY <3>1 DEF z
    <2> QED BY <2>3 DEF S, LastBuy
  <1> QED BY <1>4, <1>5, <1>6, <1>7, <1>8 DEF B, H, Stay

\* What the units cost that are held: oldest first, and from the bottom of the stack.
Queue(t) == [u \in 1 .. Held(t) |-> t[NthBuy(t, Units(t, Len(t), "sell") + u)].price]
Stack(t) == [u \in 1 .. Held(t) |-> t[LastBuy(t, Len(t), u)].price]

ByFifo(t) ==
  [i \in Sells(t) |-> t[i].price - t[NthBuy(t, Units(t, i, "sell"))].price]
ByLifo(t) ==
  [i \in Sells(t) |-> t[i].price - t[LastBuy(t, i - 1, Open(t, i - 1))].price]

LEMMA HeldIs ==
  ASSUME NEW t, Solvent(t)
  PROVE  /\ t \in Seq(Unit) /\ Len(t) \in Nat /\ Held(t) \in Nat /\ DOMAIN t = 1 .. Len(t)
         /\ Units(t, Len(t), "buy") = Units(t, Len(t), "sell") + Held(t)
         /\ Units(t, Len(t), "buy") \in Nat /\ Units(t, Len(t), "sell") \in Nat
         /\ \A u \in 1 .. Held(t) : Queue(t)[u] \in Nat /\ Stack(t)[u] \in Nat
  <1> DEFINE n == Len(t)
             B == Units(t, n, "buy")
             S == Units(t, n, "sell")
             H == Open(t, n)
  <1>1. t \in Seq(Unit) /\ n \in Nat /\ n \in 0 .. n /\ DOMAIN t = 1 .. n /\ H >= 0
    BY DEF Solvent
  <1>2. B \in Nat /\ S \in Nat /\ H = B - S
    BY <1>1, UnitsAre DEF Open
  <1>3. H \in Nat /\ B = S + H
    BY <1>1, <1>2
  <1>4. ASSUME NEW u \in 1 .. H PROVE Queue(t)[u] \in Nat
    <2>1. S + u \in 1 .. B
      BY <1>2, <1>3
    <2> DEFINE m == S + u
    <2> HIDE DEF m
    <2>2. t[NthBuy(t, m)].price \in Nat
      BY <1>1, <2>1, NthBuyIs DEF m
    <2>3. Queue(t)[u] = t[NthBuy(t, m)].price
      BY DEF Queue, m, Held
    <2> QED BY <2>2, <2>3
  <1>5. ASSUME NEW u \in 1 .. H PROVE Stack(t)[u] \in Nat
    <2>1. t[LastBuy(t, n, u)].price \in Nat
      BY <1>1, LastBuyIs
    <2> QED BY <2>1 DEF Stack, Held
  <1> QED BY <1>1, <1>2, <1>3, <1>4, <1>5 DEF Held

LEMMA ProfitsAre ==
  ASSUME NEW t, Solvent(t)
  PROVE  /\ FifoProfit(t) = Sum(ByFifo(t), Sells(t)) /\ LifoProfit(t) = Sum(ByLifo(t), Sells(t))
         /\ IsFiniteSet(Sells(t)) /\ Sells(t) \subseteq 1 .. Len(t)
         /\ \A i \in Sells(t) :
              /\ ByFifo(t)[i] \in Int /\ ByLifo(t)[i] \in Int
              /\ Units(t, i, "sell") \in 1 .. Units(t, Len(t), "buy")
              /\ i - 1 \in 0 .. Len(t) /\ Open(t, i - 1) \in Int
         /\ FifoProfit(t) \in Int /\ LifoProfit(t) \in Int
  <1> DEFINE n == Len(t)
             B == Units(t, n, "buy")
  <1>1. t \in Seq(Unit) /\ n \in Nat /\ DOMAIN t = 1 .. n /\ \A i \in 0 .. n : Open(t, i) >= 0
    BY DEF Solvent
  <1>2. IsFiniteSet(Sells(t)) /\ Sells(t) \subseteq 1 .. n
    <2>1. IsFiniteSet(1 .. n) /\ Sells(t) \subseteq 1 .. n
      BY <1>1, FS_Interval DEF Sells
    <2> QED BY <2>1, FS_Subset
  <1>3. ASSUME NEW i \in Sells(t)
        PROVE  /\ ByFifo(t)[i] \in Int /\ ByLifo(t)[i] \in Int
               /\ Units(t, i, "sell") \in 1 .. B
               /\ i - 1 \in 0 .. n /\ Open(t, i - 1) \in Int
    <2>1. i \in 1 .. n /\ i \in 0 .. n /\ i - 1 \in 0 .. n /\ t[i].side = "sell"
      BY <1>1, <1>2 DEF Sells
    <2>2. /\ Units(t, i, "sell") = Units(t, i - 1, "sell") + Same(t[i].side, "sell")
          /\ Units(t, i - 1, "sell") \in Nat
      BY <1>1, <2>1, UnitsNext
    <2>3. Units(t, i, "sell") \in Nat \ {0}
      BY <2>1, <2>2 DEF Same
    <2>4. B \in Nat /\ Units(t, i, "buy") \in Nat /\ Units(t, i, "buy") <= B
      BY <1>1, <2>1, UnitsAre
    <2>5. Open(t, i) >= 0
      BY <1>1, <2>1
    <2>6. Units(t, i, "sell") \in 1 .. B
      BY <2>3, <2>4, <2>5 DEF Open
    <2>7. /\ Open(t, i) = IF t[i].side = "buy" THEN Open(t, i - 1) + 1 ELSE Open(t, i - 1) - 1
          /\ Open(t, i - 1) \in Int /\ t[i].price \in Nat
      BY <1>1, <2>1, OpenNext
    <2> DEFINE o == Open(t, i - 1)
               p == i - 1
               m == Units(t, i, "sell")
    <2>8. o \in 1 .. Open(t, p) /\ p \in 0 .. n
      BY <2>1, <2>5, <2>7
    <2> HIDE DEF o, p, m, B
    <2>9. t[LastBuy(t, p, o)].price \in Nat
      BY <1>1, <2>8, LastBuyIs
    <2>10. t[NthBuy(t, m)].price \in Nat
      BY <1>1, <2>6, NthBuyIs DEF m, B
    <2>11. ByFifo(t)[i] = t[i].price - t[NthBuy(t, m)].price
      BY DEF ByFifo, m
    <2>12. ByLifo(t)[i] = t[i].price - t[LastBuy(t, p, o)].price
      BY DEF ByLifo, o, p
    <2>13. ByFifo(t)[i] \in Int /\ ByLifo(t)[i] \in Int
      BY <2>7, <2>9, <2>10, <2>11, <2>12
    <2> QED BY <2>1, <2>6, <2>7, <2>13
  <1>4. FifoProfit(t) = Sum(ByFifo(t), Sells(t)) /\ LifoProfit(t) = Sum(ByLifo(t), Sells(t))
    <2>1. DOMAIN ByFifo(t) = Sells(t) /\ DOMAIN ByLifo(t) = Sells(t)
      BY DEF ByFifo, ByLifo
    <2>2. FifoProfit(t) = SumFunction(ByFifo(t)) /\ LifoProfit(t) = SumFunction(ByLifo(t))
      BY DEF FifoProfit, LifoProfit, ByFifo, ByLifo
    <2> QED BY <2>1, <2>2, SumIsLibrarys DEF SumFunction
  <1>5. FifoProfit(t) \in Int /\ LifoProfit(t) \in Int
    <2>1. \A i \in Sells(t) : ByFifo(t)[i] \in Int
      BY <1>3
    <2>2. \A i \in Sells(t) : ByLifo(t)[i] \in Int
      BY <1>3
    <2> QED BY <1>2, <1>4, <2>1, <2>2, SumType
  <1> QED BY <1>2, <1>3, <1>4, <1>5

\* What was held and what was made on it before stay what they were.
Unmoved(t, t2, n) ==
  /\ \A m \in 1 .. Units(t, n, "buy") : t2[NthBuy(t2, m)].price = t[NthBuy(t, m)].price
  /\ \A o \in 1 .. Open(t, n) : t2[LastBuy(t2, n + 1, o)].price = t[LastBuy(t, n, o)].price
  /\ \A i \in Sells(t) :
       /\ i \in Sells(t2) /\ i # n + 1
       /\ t2[i].price - t2[NthBuy(t2, Units(t2, i, "sell"))].price = ByFifo(t)[i]
       /\ t2[i].price - t2[LastBuy(t2, i - 1, Open(t2, i - 1))].price = ByLifo(t)[i]
       /\ ByFifo(t)[i] \in Int /\ ByLifo(t)[i] \in Int

LEMMA PastStays ==
  ASSUME NEW t, Solvent(t), NEW e \in Unit, NEW t2, t2 = Append(t, e), NEW n, n = Len(t)
  PROVE  Unmoved(t, t2, n)
  <1> DEFINE B == Units(t, n, "buy")
  <1>1. /\ t \in Seq(Unit) /\ n \in Nat /\ DOMAIN t = 1 .. n /\ n \in 0 .. n
    BY HeldIs
  <1>2. OneMore(t, e, t2, n) /\ Stay(t, e, t2, n)
    BY <1>1, TapeNext, BuysStay
  <1>3. /\ DOMAIN t2 = 1 .. n + 1 /\ \A k \in 1 .. n : t2[k] = t[k] /\ k \in 1 .. n + 1 /\ k # n + 1
        /\ \A i \in 0 .. n : Units(t2, i, "sell") = Units(t, i, "sell") /\ Open(t2, i) = Open(t, i)
    BY <1>1, <1>2 DEF OneMore
  <1>4. /\ \A m \in 1 .. B : NthBuy(t2, m) = NthBuy(t, m)
        /\ \A i \in 0 .. n, o \in Int : LastBuy(t2, i, o) = LastBuy(t, i, o)
        /\ \A o \in 1 .. Open(t, n) : LastBuy(t2, n + 1, o) = LastBuy(t, n, o)
    BY <1>2 DEF Stay
  <1>5. /\ \A m \in 1 .. B : NthBuy(t, m) \in 1 .. n
        /\ \A o \in 1 .. Open(t, n) : LastBuy(t, n, o) \in 1 .. n
    BY <1>1, NthBuyIs, LastBuyIs
  <1> HIDE DEF B
  <1>6. \A m \in 1 .. B : t2[NthBuy(t2, m)].price = t[NthBuy(t, m)].price
    BY <1>3, <1>4, <1>5
  <1>7. \A o \in 1 .. Open(t, n) : t2[LastBuy(t2, n + 1, o)].price = t[LastBuy(t, n, o)].price
    BY <1>3, <1>4, <1>5
  <1>8. ASSUME NEW i \in Sells(t)
        PROVE  /\ i \in Sells(t2) /\ i # n + 1
               /\ t2[i].price - t2[NthBuy(t2, Units(t2, i, "sell"))].price = ByFifo(t)[i]
               /\ t2[i].price - t2[LastBuy(t2, i - 1, Open(t2, i - 1))].price = ByLifo(t)[i]
               /\ ByFifo(t)[i] \in Int /\ ByLifo(t)[i] \in Int
    <2>1. /\ ByFifo(t)[i] \in Int /\ ByLifo(t)[i] \in Int /\ i \in 1 .. n
          /\ Units(t, i, "sell") \in 1 .. B /\ i - 1 \in 0 .. n /\ Open(t, i - 1) \in Int
      BY ProfitsAre DEF B
    <2>2. i \in 0 .. n /\ t2[i] = t[i] /\ i \in Sells(t2) /\ i # n + 1
      BY <1>1, <1>3, <2>1 DEF Sells
    <2>3. NthBuy(t2, Units(t2, i, "sell")) = NthBuy(t, Units(t, i, "sell"))
      BY <1>3, <1>4, <2>1, <2>2
    <2>4. LastBuy(t2, i - 1, Open(t2, i - 1)) = LastBuy(t, i - 1, Open(t, i - 1))
      BY <1>3, <1>4, <2>1
    <2>5. NthBuy(t, Units(t, i, "sell")) \in 1 .. n
      BY <1>5, <2>1
    <2>6. LastBuy(t, i - 1, Open(t, i - 1)) \in 1 .. n
      <3> DEFINE p == i - 1
                 o == Open(t, i - 1)
      <3>1. p \in 0 .. n /\ o \in Int
        BY <2>1
      <3>2. o \in 1 .. Open(t, p)
        <4>1. t[i].side = "sell" /\ Open(t, i) >= 0
          BY <2>2 DEF Solvent, Sells
        <4>2. Open(t, i) = IF t[i].side = "buy" THEN Open(t, i - 1) + 1 ELSE Open(t, i - 1) - 1
          BY <1>1, <2>1, OpenNext
        <4> QED BY <3>1, <4>1, <4>2
      <3> HIDE DEF p, o
      <3>3. LastBuy(t, p, o) \in 1 .. p
        BY <1>1, <3>1, <3>2, LastBuyIs
      <3> QED BY <1>1, <3>1, <3>3 DEF p, o
    <2> QED BY <1>3, <2>1, <2>2, <2>3, <2>4, <2>5, <2>6 DEF ByFifo, ByLifo
  <1> QED BY <1>6, <1>7, <1>8 DEF Unmoved, B

\* One unit bought: it comes last in both, and nothing is made.
AfterBuy(t, t2, h, price) ==
  /\ Solvent(t2) /\ Held(t2) = h + 1
  /\ \A u \in 1 .. h : Queue(t2)[u] = Queue(t)[u] /\ Stack(t2)[u] = Stack(t)[u]
  /\ Queue(t2)[h + 1] = price /\ Stack(t2)[h + 1] = price
  /\ FifoProfit(t2) = FifoProfit(t) /\ LifoProfit(t2) = LifoProfit(t)

LEMMA TapeBuy ==
  ASSUME NEW t, Solvent(t), NEW e \in Unit, e.side = "buy", NEW t2, t2 = Append(t, e),
         NEW h, h = Held(t)
  PROVE  AfterBuy(t, t2, h, e.price)
  <1> DEFINE n == Len(t)
             B == Units(t, n, "buy")
             S == Units(t, n, "sell")
  <1>1. /\ t \in Seq(Unit) /\ n \in Nat /\ h \in Nat /\ DOMAIN t = 1 .. n
        /\ B = S + h /\ B \in Nat /\ S \in Nat /\ h = Open(t, n)
    BY HeldIs DEF Held
  <1>2. OneMore(t, e, t2, n) /\ Stay(t, e, t2, n) /\ Unmoved(t, t2, n)
    BY <1>1, TapeNext, BuysStay, PastStays
  <1>3. /\ t2 \in Seq(Unit) /\ Len(t2) = n + 1 /\ t2[n + 1] = e /\ DOMAIN t2 = 1 .. n + 1
        /\ \A k \in 1 .. n : t2[k] = t[k]
        /\ \A i \in 0 .. n : Open(t2, i) = Open(t, i)
        /\ Units(t2, n + 1, "sell") = S /\ Open(t2, n + 1) = h + 1
    BY <1>1, <1>2 DEF OneMore, Same
  <1>4. NthBuy(t2, B + 1) = n + 1 /\ LastBuy(t2, n + 1, h + 1) = n + 1
    BY <1>1, <1>2 DEF Stay
  <1>5. /\ \A m \in 1 .. B : t2[NthBuy(t2, m)].price = t[NthBuy(t, m)].price
        /\ \A o \in 1 .. h : t2[LastBuy(t2, n + 1, o)].price = t[LastBuy(t, n, o)].price
    BY <1>1, <1>2 DEF Unmoved
  <1>6. Solvent(t2) /\ Held(t2) = h + 1
    <2>1. ASSUME NEW i \in 0 .. n + 1 PROVE Open(t2, i) >= 0
      <3>1. CASE i = n + 1
        BY <1>1, <1>3, <3>1
      <3>2. CASE i # n + 1
        <4>1. i \in 0 .. n
          BY <1>1, <3>2
        <4> QED BY <1>3, <4>1 DEF Solvent
      <3> QED BY <3>1, <3>2
    <2> QED BY <1>3, <2>1 DEF Solvent, Held
  <1> HIDE DEF n, B, S
  <1>7. ASSUME NEW u \in 1 .. h
        PROVE  Queue(t2)[u] = Queue(t)[u] /\ Stack(t2)[u] = Stack(t)[u]
    <2>1. u \in 1 .. h + 1 /\ S + u \in 1 .. B
      BY <1>1
    <2>2. /\ Queue(t2)[u] = t2[NthBuy(t2, S + u)].price /\ Queue(t)[u] = t[NthBuy(t, S + u)].price
          /\ Stack(t2)[u] = t2[LastBuy(t2, n + 1, u)].price /\ Stack(t)[u] = t[LastBuy(t, n, u)].price
      BY <1>1, <1>3, <1>6, <2>1 DEF Queue, Stack, n, S, Held
    <2> QED BY <1>5, <2>1, <2>2
  <1>8. Queue(t2)[h + 1] = e.price /\ Stack(t2)[h + 1] = e.price
    <2>1. h + 1 \in 1 .. h + 1 /\ S + (h + 1) = B + 1
      BY <1>1
    <2>2. /\ Queue(t2)[h + 1] = t2[NthBuy(t2, S + (h + 1))].price
          /\ Stack(t2)[h + 1] = t2[LastBuy(t2, n + 1, h + 1)].price
      BY <1>3, <1>6, <2>1 DEF Queue, Stack
    <2> QED BY <1>3, <1>4, <2>1, <2>2
  <1>9. FifoProfit(t2) = FifoProfit(t) /\ LifoProfit(t2) = LifoProfit(t)
    <2>1. Sells(t2) = Sells(t)
      <3>1. \A i \in 1 .. n + 1 : i = n + 1 \/ i \in 1 .. n
        BY <1>1
      <3>2. \A i \in 1 .. n : i \in 1 .. n + 1
        BY <1>1
      <3> QED BY <1>1, <1>3, <3>1, <3>2 DEF Sells
    <2>2. /\ FifoProfit(t) = Sum(ByFifo(t), Sells(t)) /\ LifoProfit(t) = Sum(ByLifo(t), Sells(t))
          /\ IsFiniteSet(Sells(t))
      BY ProfitsAre
    <2>3. FifoProfit(t2) = Sum(ByFifo(t2), Sells(t2)) /\ LifoProfit(t2) = Sum(ByLifo(t2), Sells(t2))
      BY <1>6, ProfitsAre
    <2>4. \A i \in Sells(t) : ByFifo(t)[i] \in Int /\ ByFifo(t2)[i] = ByFifo(t)[i]
      BY <1>2, <2>1 DEF Unmoved, ByFifo
    <2>5. \A i \in Sells(t) : ByLifo(t)[i] \in Int /\ ByLifo(t2)[i] = ByLifo(t)[i]
      BY <1>2, <2>1 DEF Unmoved, ByLifo
    <2>6. Sum(ByFifo(t2), Sells(t)) = Sum(ByFifo(t), Sells(t))
      BY <2>2, <2>4, SumSame
    <2>7. Sum(ByLifo(t2), Sells(t)) = Sum(ByLifo(t), Sells(t))
      BY <2>2, <2>5, SumSame
    <2> QED BY <2>1, <2>2, <2>3, <2>6, <2>7
  <1> QED BY <1>6, <1>7, <1>8, <1>9 DEF AfterBuy

\* One unit sold: from the front of the one, from the end of the other.
AfterSell(t, t2, h, price) ==
  /\ Solvent(t2) /\ Held(t2) = h - 1
  /\ \A u \in 1 .. h - 1 : Queue(t2)[u] = Queue(t)[u + 1] /\ Stack(t2)[u] = Stack(t)[u]
  /\ FifoProfit(t2) = FifoProfit(t) + (price - Queue(t)[1])
  /\ LifoProfit(t2) = LifoProfit(t) + (price - Stack(t)[h])

LEMMA TapeSell ==
  ASSUME NEW t, Solvent(t), NEW e \in Unit, e.side = "sell", NEW t2, t2 = Append(t, e),
         NEW h, h = Held(t), h >= 1
  PROVE  AfterSell(t, t2, h, e.price)
  <1> DEFINE n == Len(t)
             B == Units(t, n, "buy")
             S == Units(t, n, "sell")
  <1>1. /\ t \in Seq(Unit) /\ n \in Nat /\ h \in Nat \ {0} /\ DOMAIN t = 1 .. n
        /\ B = S + h /\ B \in Nat /\ S \in Nat /\ h = Open(t, n)
    BY HeldIs DEF Held
  <1>2. OneMore(t, e, t2, n) /\ Stay(t, e, t2, n) /\ Unmoved(t, t2, n)
    BY <1>1, TapeNext, BuysStay, PastStays
  <1>3. /\ t2 \in Seq(Unit) /\ Len(t2) = n + 1 /\ t2[n + 1] = e /\ DOMAIN t2 = 1 .. n + 1
        /\ \A k \in 1 .. n : t2[k] = t[k]
        /\ \A i \in 0 .. n : Open(t2, i) = Open(t, i)
        /\ Units(t2, n + 1, "sell") = S + 1 /\ Open(t2, n + 1) = h - 1
    BY <1>1, <1>2 DEF OneMore, Same
  <1>4. /\ \A m \in 1 .. B : t2[NthBuy(t2, m)].price = t[NthBuy(t, m)].price
        /\ \A o \in 1 .. h : t2[LastBuy(t2, n + 1, o)].price = t[LastBuy(t, n, o)].price
        /\ \A i \in 0 .. n, o \in Int : LastBuy(t2, i, o) = LastBuy(t, i, o)
    BY <1>1, <1>2 DEF Unmoved, Stay
  <1>5. Solvent(t2) /\ Held(t2) = h - 1
    <2>1. ASSUME NEW i \in 0 .. n + 1 PROVE Open(t2, i) >= 0
      <3>1. CASE i = n + 1
        BY <1>1, <1>3, <3>1
      <3>2. CASE i # n + 1
        <4>1. i \in 0 .. n
          BY <1>1, <3>2
        <4> QED BY <1>3, <4>1 DEF Solvent
      <3> QED BY <3>1, <3>2
    <2> QED BY <1>3, <2>1 DEF Solvent, Held
  <1> HIDE DEF n, B, S
  <1>6. ASSUME NEW u \in 1 .. h - 1
        PROVE  Queue(t2)[u] = Queue(t)[u + 1] /\ Stack(t2)[u] = Stack(t)[u]
    <2> DEFINE w == u + 1
               m == S + w
    <2>1. u \in 1 .. h /\ w \in 1 .. h /\ m \in 1 .. B /\ (S + 1) + u = m
      BY <1>1
    <2> HIDE DEF w, m
    <2>2. /\ Queue(t2)[u] = t2[NthBuy(t2, m)].price /\ Queue(t)[w] = t[NthBuy(t, m)].price
          /\ Stack(t2)[u] = t2[LastBuy(t2, n + 1, u)].price /\ Stack(t)[u] = t[LastBuy(t, n, u)].price
      BY <1>1, <1>3, <1>5, <2>1 DEF Queue, Stack, n, S, Held, m
    <2> QED BY <1>4, <2>1, <2>2 DEF w
  <1> DEFINE x == n + 1
             b == S + 1
             F == ByFifo(t2)
             L == ByLifo(t2)
  <1>7. /\ Sells(t2) = Sells(t) \cup {x} /\ x \in Sells(t2) /\ Sells(t2) \ {x} = Sells(t)
    <2>1. \A i \in 1 .. n + 1 : i = n + 1 \/ i \in 1 .. n
      BY <1>1
    <2>2. \A i \in 1 .. n : i \in 1 .. n + 1 /\ i # n + 1
      BY <1>1
    <2>3. n + 1 \in 1 .. n + 1
      BY <1>1
    <2> QED BY <1>1, <1>3, <2>1, <2>2, <2>3 DEF Sells
  <1>8. F[x] = e.price - Queue(t)[1] /\ L[x] = e.price - Stack(t)[h]
    <2>1. b \in 1 .. B /\ h \in 1 .. h /\ 1 \in 1 .. h /\ n \in 0 .. n /\ h \in Int /\ x - 1 = n
      BY <1>1
    <2>2. Queue(t)[1] = t[NthBuy(t, b)].price /\ Stack(t)[h] = t[LastBuy(t, n, h)].price
      BY <1>1, <2>1 DEF Queue, Stack, n, S, Held, b
    <2>3. F[x] = e.price - t2[NthBuy(t2, b)].price
      BY <1>3, <1>7 DEF ByFifo, x, b
    <2> HIDE DEF x, b
    <2>4. L[x] = t2[x].price - t2[LastBuy(t2, x - 1, Open(t2, x - 1))].price
      BY <1>7 DEF ByLifo
    <2>5. L[x] = e.price - t2[LastBuy(t, n, h)].price
      <3>1. Open(t2, n) = h /\ t2[x] = e
        BY <1>1, <1>3, <2>1 DEF x
      <3> QED BY <1>4, <2>1, <2>4, <3>1
    <2>6. LastBuy(t, n, h) \in 1 .. n
      <3>1. n \in 0 .. Len(t) /\ h \in 1 .. Open(t, n)
        BY <1>1, <2>1 DEF n
      <3> QED BY <1>1, <3>1, LastBuyIs
    <2> QED BY <1>3, <1>4, <2>1, <2>2, <2>3, <2>5, <2>6
  <1>9. /\ \A i \in Sells(t) : F[i] = ByFifo(t)[i] /\ ByFifo(t)[i] \in Int
        /\ \A i \in Sells(t) : L[i] = ByLifo(t)[i] /\ ByLifo(t)[i] \in Int
    BY <1>2, <1>7 DEF Unmoved, ByFifo, ByLifo
  <1> HIDE DEF x, b, F, L
  <1>10. /\ FifoProfit(t2) = Sum(F, Sells(t2)) /\ LifoProfit(t2) = Sum(L, Sells(t2))
         /\ IsFiniteSet(Sells(t2)) /\ \A i \in Sells(t2) : F[i] \in Int /\ L[i] \in Int
    BY <1>5, ProfitsAre DEF F, L
  <1>11. /\ FifoProfit(t) = Sum(ByFifo(t), Sells(t)) /\ LifoProfit(t) = Sum(ByLifo(t), Sells(t))
         /\ IsFiniteSet(Sells(t)) /\ FifoProfit(t) \in Int /\ LifoProfit(t) \in Int
    BY ProfitsAre
  <1>12. FifoProfit(t2) = FifoProfit(t) + (e.price - Queue(t)[1])
    <2>1. \A i \in Sells(t2) : F[i] \in Int
      BY <1>10
    <2>2. Sum(F, Sells(t2)) = F[x] + Sum(F, Sells(t2) \ {x})
      BY <1>7, <1>10, <2>1, SumRemove
    <2>3. Sum(F, Sells(t)) = Sum(ByFifo(t), Sells(t))
      BY <1>9, <1>11, SumSame
    <2> DEFINE v == F[x]
               p == FifoProfit(t)
    <2>4. v \in Int /\ p \in Int
      BY <1>7, <1>11, <2>1
    <2>5. FifoProfit(t2) = v + p
      BY <1>7, <1>10, <1>11, <2>2, <2>3
    <2> HIDE DEF v, p
    <2>6. FifoProfit(t2) = p + v
      BY <2>4, <2>5
    <2> QED BY <1>8, <2>6 DEF v, p
  <1>13. LifoProfit(t2) = LifoProfit(t) + (e.price - Stack(t)[h])
    <2>1. \A i \in Sells(t2) : L[i] \in Int
      BY <1>10
    <2>2. Sum(L, Sells(t2)) = L[x] + Sum(L, Sells(t2) \ {x})
      BY <1>7, <1>10, <2>1, SumRemove
    <2>3. Sum(L, Sells(t)) = Sum(ByLifo(t), Sells(t))
      BY <1>9, <1>11, SumSame
    <2> DEFINE v == L[x]
               p == LifoProfit(t)
    <2>4. v \in Int /\ p \in Int
      BY <1>7, <1>11, <2>1
    <2>5. LifoProfit(t2) = v + p
      BY <1>7, <1>10, <1>11, <2>2, <2>3
    <2> HIDE DEF v, p
    <2>6. LifoProfit(t2) = p + v
      BY <2>4, <2>5
    <2> QED BY <1>8, <2>6 DEF v, p
  <1> QED BY <1>5, <1>6, <1>12, <1>13 DEF AfterSell

\* As many units of the same as a fill has.
Longer(t, e, m) == t \o [k \in 1 .. m |-> e]

LEMMA LongerNext ==
  ASSUME NEW t \in Seq(Unit), NEW e \in Unit
  PROVE  /\ Longer(t, e, 0) = t
         /\ \A m \in Nat \ {0} : Longer(t, e, m) = Append(Longer(t, e, m - 1), e)
  <1>1. ASSUME NEW m \in Nat
        PROVE  /\ [k \in 1 .. m |-> e] \in Seq(Unit) /\ Len([k \in 1 .. m |-> e]) = m
               /\ \A k \in 1 .. m : [j \in 1 .. m |-> e][k] = e
    OBVIOUS
  <1>2. Longer(t, e, 0) = t
    <2>1. [k \in 1 .. 0 |-> e] = <<>>
      OBVIOUS
    <2> QED BY <2>1 DEF Longer
  <1>3. ASSUME NEW m \in Nat \ {0}
        PROVE  Longer(t, e, m) = Append(Longer(t, e, m - 1), e)
    <2> DEFINE p == m - 1
               n == Len(t)
               A == [k \in 1 .. m |-> e]
               Z == [k \in 1 .. p |-> e]
    <2>1. p \in Nat /\ m \in Nat /\ m = p + 1 /\ n \in Nat
      OBVIOUS
    <2>2. /\ A \in Seq(Unit) /\ Len(A) = m /\ \A k \in 1 .. m : A[k] = e
          /\ Z \in Seq(Unit) /\ Len(Z) = p /\ \A k \in 1 .. p : Z[k] = e
      BY <1>1, <2>1
    <2> HIDE DEF A, Z, p
    <2>3. A = Append(Z, e)
      BY <2>1, <2>2
    <2>4. t \o A = Append(t \o Z, e)
      BY <2>1, <2>2, <2>3
    <2> QED BY <2>4 DEF Longer, A, Z, p
  <1> QED BY <1>2, <1>3

AfterBuys(t, t2, h, m, price) ==
  /\ Solvent(t2) /\ Held(t2) = h + m
  /\ \A u \in 1 .. h : Queue(t2)[u] = Queue(t)[u] /\ Stack(t2)[u] = Stack(t)[u]
  /\ \A u \in h + 1 .. h + m : Queue(t2)[u] = price /\ Stack(t2)[u] = price
  /\ FifoProfit(t2) = FifoProfit(t) /\ LifoProfit(t2) = LifoProfit(t)

LEMMA TapeBuys ==
  ASSUME NEW t, Solvent(t), NEW e \in Unit, e.side = "buy", NEW q \in Nat,
         NEW h, h = Held(t)
  PROVE  AfterBuys(t, Longer(t, e, q), h, q, e.price)
  <1> DEFINE T(m) == Longer(t, e, m)
             S == {m \in 0 .. q : AfterBuys(t, T(m), h, m, e.price)}
  <1>1. h \in Nat /\ t \in Seq(Unit) /\ T(0) = t
    BY HeldIs, LongerNext
  <1>2. 0 \in S
    BY <1>1 DEF AfterBuys
  <1>3. ASSUME NEW m \in 1 .. q, m - 1 \in S PROVE m \in S
    <2> DEFINE a == T(m - 1)
               b == T(m)
               p == m - 1
    <2>1. AfterBuys(t, a, h, p, e.price) /\ p \in Nat /\ m = p + 1
      BY <1>3
    <2>2. b = Append(a, e)
      <3>1. m \in Nat \ {0}
        OBVIOUS
      <3> QED BY <1>1, <3>1, LongerNext
    <2> HIDE DEF a, b, p, T
    <2> DEFINE g == h + p
    <2>3. Solvent(a) /\ g = Held(a) /\ g \in Nat /\ h + m = g + 1
      BY <1>1, <2>1 DEF AfterBuys
    <2> HIDE DEF g
    <2>4. AfterBuy(a, b, g, e.price)
      BY <2>2, <2>3, TapeBuy
    <2>5. \A u \in 1 .. h : Queue(b)[u] = Queue(t)[u] /\ Stack(b)[u] = Stack(t)[u]
      <3> TAKE u \in 1 .. h
      <3>1. u \in 1 .. g
        BY <1>1, <2>1 DEF g
      <3> QED BY <2>1, <2>4, <3>1 DEF AfterBuys, AfterBuy
    <2>6. \A u \in h + 1 .. h + m : Queue(b)[u] = e.price /\ Stack(b)[u] = e.price
      <3> TAKE u \in h + 1 .. h + m
      <3>1. CASE u = g + 1
        BY <2>4, <3>1 DEF AfterBuy
      <3>2. CASE u # g + 1
        <4>1. u \in 1 .. g /\ u \in h + 1 .. h + p
          BY <1>1, <2>1, <2>3, <3>2 DEF g
        <4> QED BY <2>1, <2>4, <4>1 DEF AfterBuys, AfterBuy
      <3> QED BY <3>1, <3>2
    <2>7. /\ Solvent(b) /\ Held(b) = h + m
          /\ FifoProfit(b) = FifoProfit(t) /\ LifoProfit(b) = LifoProfit(t)
      BY <2>1, <2>3, <2>4 DEF AfterBuys, AfterBuy
    <2>8. AfterBuys(t, b, h, m, e.price)
      BY <2>5, <2>6, <2>7 DEF AfterBuys
    <2> QED BY <2>8 DEF b
  <1>4. \A m \in 0 .. q : m \in S
    <2> HIDE DEF S
    <2> QED BY <1>2, <1>3, CountedUp
  <1>5. q \in 0 .. q
    OBVIOUS
  <1> QED BY <1>4, <1>5

\* What selling the units held makes, one after the other: from the front, or from the end.
FromFront(t, price) == [u \in 1 .. Held(t) |-> price - Queue(t)[u]]
FromEnd(t, price) == [u \in 1 .. Held(t) |-> price - Stack(t)[(Held(t) - u) + 1]]

LEMMA GainsAre ==
  ASSUME NEW t, Solvent(t), NEW price \in Nat
  PROVE  \A u \in 1 .. Held(t) : /\ FromFront(t, price)[u] = price - Queue(t)[u]
                                 /\ FromEnd(t, price)[u] = price - Stack(t)[(Held(t) - u) + 1]
                                 /\ FromFront(t, price)[u] \in Int /\ FromEnd(t, price)[u] \in Int
  <1> DEFINE h == Held(t)
  <1>1. h \in Nat /\ \A u \in 1 .. h : Queue(t)[u] \in Nat /\ Stack(t)[u] \in Nat
    BY HeldIs
  <1>2. \A u \in 1 .. h : /\ FromFront(t, price)[u] = price - Queue(t)[u]
                          /\ FromEnd(t, price)[u] = price - Stack(t)[(h - u) + 1]
    BY DEF FromFront, FromEnd
  <1> HIDE DEF h
  <1>3. \A u \in 1 .. h : (h - u) + 1 \in 1 .. h
    BY <1>1
  <1> QED BY <1>1, <1>2, <1>3 DEF h

AfterSells(t, t2, h, m, price) ==
  /\ Solvent(t2) /\ Held(t2) = h - m
  /\ \A u \in 1 .. h - m : Queue(t2)[u] = Queue(t)[u + m] /\ Stack(t2)[u] = Stack(t)[u]
  /\ FifoProfit(t2) = FifoProfit(t) + Sum(FromFront(t, price), 1 .. m)
  /\ LifoProfit(t2) = LifoProfit(t) + Sum(FromEnd(t, price), 1 .. m)

LEMMA TapeSells ==
  ASSUME NEW t, Solvent(t), NEW e \in Unit, e.side = "sell", NEW q \in Nat,
         NEW h, h = Held(t), q <= h
  PROVE  AfterSells(t, Longer(t, e, q), h, q, e.price)
  <1> DEFINE T(m) == Longer(t, e, m)
             x == e.price
             d == FromFront(t, x)
             g == FromEnd(t, x)
             S == {m \in 0 .. q : AfterSells(t, T(m), h, m, x)}
  <1>1. h \in Nat /\ t \in Seq(Unit) /\ T(0) = t /\ x \in Nat
    BY HeldIs, LongerNext DEF Unit
  <1>2. FifoProfit(t) \in Int /\ LifoProfit(t) \in Int
    BY ProfitsAre
  <1> HIDE DEF x
  <1>3. /\ \A u \in 1 .. h : d[u] = x - Queue(t)[u] /\ d[u] \in Int
        /\ \A u \in 1 .. h : g[u] = x - Stack(t)[(h - u) + 1] /\ g[u] \in Int
    BY <1>1, GainsAre
  <1> HIDE DEF d, g
  <1>4. 0 \in S
    <2>1. Sum(d, 1 .. 0) = 0 /\ Sum(g, 1 .. 0) = 0
      BY SumNone
    <2>2. FifoProfit(t) = FifoProfit(t) + 0 /\ LifoProfit(t) = LifoProfit(t) + 0
      BY <1>2
    <2>3. h - 0 = h /\ \A u \in 1 .. h : u + 0 = u
      BY <1>1
    <2>4. AfterSells(t, t, h, 0, x)
      BY <2>1, <2>2, <2>3 DEF AfterSells, d, g
    <2> QED BY <1>1, <2>4
  <1>5. ASSUME NEW m \in 1 .. q, m - 1 \in S PROVE m \in S
    <2> DEFINE a == T(m - 1)
               b == T(m)
               p == m - 1
    <2>1. AfterSells(t, a, h, p, x) /\ p \in Nat /\ m = p + 1 /\ m \in Nat \ {0} /\ m <= h
      BY <1>1, <1>5
    <2>2. b = Append(a, e)
      BY <1>1, <2>1, LongerNext
    <2> HIDE DEF a, b, p, T
    <2> DEFINE r == h - p
    <2>3. Solvent(a) /\ r = Held(a) /\ r \in Nat /\ h - m = r - 1 /\ r >= 1
      BY <1>1, <2>1 DEF AfterSells
    <2> HIDE DEF r
    <2>4. AfterSell(a, b, r, x)
      BY <2>2, <2>3, TapeSell DEF x
    <2>5. \A u \in 1 .. h - m : Queue(b)[u] = Queue(t)[u + m] /\ Stack(b)[u] = Stack(t)[u]
      <3> TAKE u \in 1 .. h - m
      <3> DEFINE w == u + 1
      <3>1. u \in 1 .. r - 1 /\ u \in 1 .. h - p /\ w \in 1 .. h - p /\ w + p = u + m
        BY <1>1, <2>1, <2>3 DEF r
      <3> HIDE DEF w
      <3>2. Queue(a)[w] = Queue(t)[w + p] /\ Stack(a)[u] = Stack(t)[u]
        BY <2>1, <3>1 DEF AfterSells
      <3>3. Queue(b)[u] = Queue(a)[w] /\ Stack(b)[u] = Stack(a)[u]
        BY <2>4, <3>1 DEF AfterSell, w
      <3> QED BY <3>1, <3>2, <3>3
    <2>6. /\ Sum(d, 1 .. m) = Sum(d, 1 .. m - 1) + d[m] /\ Sum(d, 1 .. m - 1) \in Int
          /\ d[m] = x - Queue(a)[1] /\ d[m] \in Int
      <3>1. \A u \in 1 .. m : d[u] \in Int
        BY <1>1, <1>3, <2>1
      <3>2. m \in 1 .. h /\ 1 \in 1 .. h - p /\ 1 + p = m
        BY <1>1, <2>1
      <3>3. Queue(a)[1] = Queue(t)[1 + p]
        BY <2>1, <3>2 DEF AfterSells
      <3>4. d[m] = x - Queue(t)[m] /\ d[m] \in Int
        BY <1>3, <3>2
      <3>5. Sum(d, 1 .. m) = Sum(d, 1 .. m - 1) + d[m] /\ Sum(d, 1 .. m - 1) \in Int
        BY <2>1, <3>1, SumNext
      <3> QED BY <3>2, <3>3, <3>4, <3>5
    <2>7. /\ Sum(g, 1 .. m) = Sum(g, 1 .. m - 1) + g[m] /\ Sum(g, 1 .. m - 1) \in Int
          /\ g[m] = x - Stack(a)[r] /\ g[m] \in Int
      <3>1. \A u \in 1 .. m : g[u] \in Int
        BY <1>1, <1>3, <2>1
      <3>2. m \in 1 .. h /\ r \in 1 .. h - p /\ (h - m) + 1 = r
        BY <1>1, <2>1, <2>3 DEF r
      <3>3. Stack(a)[r] = Stack(t)[r]
        BY <2>1, <3>2 DEF AfterSells
      <3>4. g[m] = x - Stack(t)[(h - m) + 1] /\ g[m] \in Int
        BY <1>3, <3>2
      <3>5. Sum(g, 1 .. m) = Sum(g, 1 .. m - 1) + g[m] /\ Sum(g, 1 .. m - 1) \in Int
        BY <2>1, <3>1, SumNext
      <3> QED BY <3>2, <3>3, <3>4, <3>5
    <2>8. FifoProfit(b) = FifoProfit(t) + Sum(d, 1 .. m)
      <3> DEFINE s == Sum(d, 1 .. m - 1)
                 v == d[m]
                 f == FifoProfit(t)
      <3>1. FifoProfit(b) = (f + s) + v
        BY <2>1, <2>4, <2>6 DEF AfterSells, AfterSell, d, p
      <3>2. f \in Int /\ s \in Int /\ v \in Int
        BY <1>2, <2>6
      <3>3. Sum(d, 1 .. m) = s + v
        BY <2>6
      <3> HIDE DEF s, v, f
      <3>4. FifoProfit(b) = f + (s + v)
        BY <3>1, <3>2
      <3> QED BY <3>3, <3>4 DEF f
    <2>9. LifoProfit(b) = LifoProfit(t) + Sum(g, 1 .. m)
      <3> DEFINE s == Sum(g, 1 .. m - 1)
                 v == g[m]
                 f == LifoProfit(t)
      <3>1. LifoProfit(b) = (f + s) + v
        BY <2>1, <2>4, <2>7 DEF AfterSells, AfterSell, g, p
      <3>2. f \in Int /\ s \in Int /\ v \in Int
        BY <1>2, <2>7
      <3>3. Sum(g, 1 .. m) = s + v
        BY <2>7
      <3> HIDE DEF s, v, f
      <3>4. LifoProfit(b) = f + (s + v)
        BY <3>1, <3>2
      <3> QED BY <3>3, <3>4 DEF f
    <2>10. Solvent(b) /\ Held(b) = h - m
      BY <2>3, <2>4 DEF AfterSell
    <2>11. AfterSells(t, b, h, m, x)
      BY <2>5, <2>8, <2>9, <2>10 DEF AfterSells, d, g
    <2> QED BY <2>11 DEF b
  <1>6. \A m \in 0 .. q : m \in S
    <2> HIDE DEF S
    <2> QED BY <1>4, <1>5, CountedUp
  <1>7. q \in 0 .. q
    OBVIOUS
  <1> QED BY <1>6, <1>7 DEF x

-------------------------------------------------------------------------------
(* The ledgers and the tape.                                               *)

\* Both ledgers of a symbol hold what its tape says, at the prices it says, and have
\* realised what it says.
CostsAre(lo, fo, t) ==
  /\ Solvent(t)
  /\ LotSum(Qty, lo.lots) = Held(t) /\ LotSum(Qty, fo.lots) = Held(t)
  /\ Priced(lo.lots, Stack(t)) /\ Priced(fo.lots, Queue(t))
  /\ lo.realized = LifoProfit(t) /\ fo.realized = FifoProfit(t)

LEMMA AbsorbBuy ==
  ASSUME NEW lo \in Ledger, NEW fo \in Ledger, NEW t, CostsAre(lo, fo, t),
         NEW f \in FillType, f.side = "buy",
         NEW e \in Unit, e.side = f.side, e.price = f.price
  PROVE  CostsAre(AbsorbLifo(lo, f), AbsorbFifo(fo, f), Longer(t, e, f.qty))
  <1> DEFINE h == Held(t)
             q == f.qty
             t2 == Longer(t, e, q)
             lot == [qty |-> q, price |-> f.price]
  <1>1. /\ Solvent(t) /\ h \in Nat /\ q \in Nat /\ lot \in Lot /\ lot.qty = q
        /\ lot.price = f.price
    BY HeldIs, SignedIs DEF CostsAre, Lot
  <1>2. /\ AbsorbLifo(lo, f).lots = Append(lo.lots, lot)
        /\ AbsorbFifo(fo, f).lots = Append(fo.lots, lot)
        /\ AbsorbLifo(lo, f).realized = lo.realized /\ AbsorbFifo(fo, f).realized = fo.realized
    BY DEF AbsorbLifo, AbsorbFifo, Bought, Ledger
  <1> HIDE DEF h, q, t2, lot
  <1>3. AfterBuys(t, t2, h, q, f.price)
    BY <1>1, TapeBuys DEF h, t2
  <1>4. /\ lo.lots \in Seq(Lot) /\ fo.lots \in Seq(Lot)
        /\ LotSum(Qty, lo.lots) = h /\ LotSum(Qty, fo.lots) = h
        /\ Priced(lo.lots, Stack(t)) /\ Priced(fo.lots, Queue(t))
        /\ lo.realized = LifoProfit(t) /\ fo.realized = FifoProfit(t)
    BY DEF Ledger, CostsAre, h
  <1>5. /\ \A u \in 1 .. h : Queue(t2)[u] = Queue(t)[u] /\ Stack(t2)[u] = Stack(t)[u]
        /\ \A u \in h + 1 .. h + q : Queue(t2)[u] = f.price /\ Stack(t2)[u] = f.price
        /\ Solvent(t2) /\ Held(t2) = h + q
        /\ FifoProfit(t2) = FifoProfit(t) /\ LifoProfit(t2) = LifoProfit(t)
    BY <1>3 DEF AfterBuys
  <1>6. /\ LotSum(Qty, Append(lo.lots, lot)) = h + q
        /\ LotSum(Qty, Append(fo.lots, lot)) = h + q
    BY <1>1, <1>4, LotSumAppend, WeightsAre
  <1>7. Priced(Append(lo.lots, lot), Stack(t2))
    <2>1. Priced(lo.lots, Stack(t2))
      BY <1>4, <1>5, PricedSame
    <2>2. \A u \in LotSum(Qty, lo.lots) + 1 .. LotSum(Qty, lo.lots) + lot.qty :
            Stack(t2)[u] = lot.price
      BY <1>1, <1>4, <1>5
    <2> QED BY <1>1, <1>4, <2>1, <2>2, PricedAppend
  <1>8. Priced(Append(fo.lots, lot), Queue(t2))
    <2>1. Priced(fo.lots, Queue(t2))
      BY <1>4, <1>5, PricedSame
    <2>2. \A u \in LotSum(Qty, fo.lots) + 1 .. LotSum(Qty, fo.lots) + lot.qty :
            Queue(t2)[u] = lot.price
      BY <1>1, <1>4, <1>5
    <2> QED BY <1>1, <1>4, <2>1, <2>2, PricedAppend
  <1>9. CostsAre(AbsorbLifo(lo, f), AbsorbFifo(fo, f), t2)
    BY <1>2, <1>4, <1>5, <1>6, <1>7, <1>8 DEF CostsAre
  <1> QED BY <1>9 DEF t2, q

LEMMA AbsorbSell ==
  ASSUME NEW lo \in Ledger, NEW fo \in Ledger, NEW t, CostsAre(lo, fo, t),
         NEW f \in FillType, f.side = "sell", f.qty <= Held(t),
         NEW e \in Unit, e.side = f.side, e.price = f.price
  PROVE  CostsAre(AbsorbLifo(lo, f), AbsorbFifo(fo, f), Longer(t, e, f.qty))
  <1> DEFINE h == Held(t)
             q == f.qty
             x == f.price
             t2 == Longer(t, e, q)
             d == FromFront(t, x)
             g == FromEnd(t, x)
             P == Queue(t)
             R == Stack(t)
             P2 == Queue(t2)
             R2 == Stack(t2)
  <1>1. /\ Solvent(t) /\ h \in Nat /\ q \in Nat /\ q <= h /\ x \in Nat
        /\ Signed(f) = -q
    BY HeldIs, SignedIs DEF CostsAre
  <1>2. /\ lo.lots \in Seq(Lot) /\ fo.lots \in Seq(Lot)
        /\ LotSum(Qty, lo.lots) = h /\ LotSum(Qty, fo.lots) = h
        /\ Priced(lo.lots, R) /\ Priced(fo.lots, P)
        /\ lo.realized = LifoProfit(t) /\ fo.realized = FifoProfit(t)
    BY DEF Ledger, CostsAre
  <1> HIDE DEF h, q, t2
  <1>3. AfterSells(t, t2, h, q, x)
    <2>1. e.side = "sell" /\ e.price = x
      OBVIOUS
    <2> HIDE DEF x
    <2>2. AfterSells(t, Longer(t, e, q), h, q, e.price)
      BY <1>1, <2>1, TapeSells DEF h
    <2> QED BY <2>1, <2>2 DEF t2
  <1>4. /\ \A u \in 1 .. h : d[u] = x - P[u] /\ d[u] \in Int
        /\ \A u \in 1 .. h : g[u] = x - R[(h - u) + 1] /\ g[u] \in Int
    BY <1>1, GainsAre DEF h
  <1>5. /\ \A u \in 1 .. h - q : P2[u] = P[u + q]
        /\ \A u \in 1 .. h - q : R2[u] = R[u]
        /\ Solvent(t2) /\ Held(t2) = h - q
        /\ FifoProfit(t2) = FifoProfit(t) + Sum(d, 1 .. q)
        /\ LifoProfit(t2) = LifoProfit(t) + Sum(g, 1 .. q)
    BY <1>3 DEF AfterSells
  <1> HIDE DEF d, g, P, R, P2, R2, x
  <1>6. /\ Priced(AbsorbFifo(fo, f).lots, P2)
        /\ AbsorbFifo(fo, f).realized = fo.realized + Sum(d, 1 .. f.qty)
    <2>1. LotSum(Qty, fo.lots) >= f.qty
      BY <1>1, <1>2 DEF q
    <2>2. \A u \in 1 .. LotSum(Qty, fo.lots) : d[u] = f.price - P[u] /\ d[u] \in Int
      BY <1>2, <1>4 DEF x
    <2>3. \A u \in 1 .. LotSum(Qty, fo.lots) - f.qty : P2[u] = P[u + f.qty]
      BY <1>2, <1>5 DEF q
    <2>4. SellOf(fo.lots, f.qty, f.price, P, d, P2)
      BY <1>1, <1>2, <2>1, <2>2, <2>3 DEF SellOf, q, x
    <2> QED BY <2>4, FifoPriced
  <1>7. /\ Priced(AbsorbLifo(lo, f).lots, R2)
        /\ AbsorbLifo(lo, f).realized = lo.realized + Sum(g, 1 .. f.qty)
    <2>1. LotSum(Qty, lo.lots) >= f.qty
      BY <1>1, <1>2 DEF q
    <2>2. \A u \in 1 .. LotSum(Qty, lo.lots) :
            g[u] = f.price - R[(LotSum(Qty, lo.lots) - u) + 1] /\ g[u] \in Int
      BY <1>2, <1>4 DEF x
    <2>3. \A u \in 1 .. LotSum(Qty, lo.lots) - f.qty : R2[u] = R[u]
      BY <1>2, <1>5 DEF q
    <2>4. SellOfLast(lo.lots, f.qty, f.price, R, g, R2)
      BY <1>1, <1>2, <2>1, <2>2, <2>3 DEF SellOfLast, q, x
    <2> QED BY <2>4, LifoPriced
  <1>8. /\ LotSum(Qty, AbsorbLifo(lo, f).lots) = h - q
        /\ LotSum(Qty, AbsorbFifo(fo, f).lots) = h - q
    <2>1. LotSum(Qty, lo.lots) + Signed(f) >= 0 /\ LotSum(Qty, fo.lots) + Signed(f) >= 0
      BY <1>1, <1>2
    <2>2. /\ LotSum(Qty, AbsorbLifo(lo, f).lots) = LotSum(Qty, lo.lots) + Signed(f)
          /\ LotSum(Qty, AbsorbFifo(fo, f).lots) = LotSum(Qty, fo.lots) + Signed(f)
      BY <2>1, AbsorbIs
    <2> QED BY <1>1, <1>2, <2>2
  <1>9. CostsAre(AbsorbLifo(lo, f), AbsorbFifo(fo, f), t2)
    BY <1>2, <1>5, <1>6, <1>7, <1>8 DEF CostsAre, q, P2, R2
  <1> QED BY <1>9 DEF t2, q

\* For symbols never held short; the part of a sell without lots leaves no trace.
CostInv == \A s \in Symbols \ shorted : CostsAre(lifo[s], fifo[s], tape[s])

\* The fill that is drained next does not sell more than the lots.
LEMMA NextIsCovered ==
  ASSUME BrokerInv, LotsInv, fills # <<>>, NEW f, f = Head(fills), f.symbol \notin shorted
  PROVE  /\ f \in FillType
         /\ LotSum(Qty, lifo[f.symbol].lots) + Signed(f) >= 0
  <1> DEFINE x == f.symbol
             n == Len(fills)
  <1>1. /\ fills \in Seq(FillType) /\ f \in FillType /\ f = fills[1] /\ n \in Nat \ {0}
        /\ DOMAIN fills = 1 .. n
    BY DEF BrokerInv
  <1>2. x \in Symbols \ shorted
    BY <1>1, SignedIs
  <1>3. PICK q, c : Drained(x, q, c, fills, lifo, fifo, pos)
    BY <1>2 DEF LotsInv
  <1> DEFINE D == Moves(x, fills)
  <1>4. /\ Runs(q, D, n) /\ \A k \in 0 .. n : q[k] >= 0
        /\ LotSum(Qty, lifo[x].lots) = q[0]
    BY <1>3 DEF Drained
  <1>5. D[1] = Signed(f)
    BY <1>1 DEF Moves
  <1> HIDE DEF D
  <1>6. q[1] = q[1 - 1] + D[1] /\ 1 \in 0 .. n /\ 1 - 1 = 0
    BY <1>1, <1>4 DEF Runs
  <1>7. q[0] + Signed(f) >= 0
    BY <1>4, <1>5, <1>6
  <1> QED BY <1>1, <1>4, <1>7

LEMMA CostDrain ==
  ASSUME BrokerInv, LedgerTypes, LotsInv, CostInv, Drain
  PROVE  CostInv'
  <1> DEFINE f == Head(fills)
             x == f.symbol
             e == [side |-> f.side, price |-> f.price]
             lo == AbsorbLifo(lifo[x], f)
             fo == AbsorbFifo(fifo[x], f)
             t2 == Longer(tape[x], e, f.qty)
  <1>1. /\ fills # <<>> /\ shorted' = shorted
        /\ lifo' = [lifo EXCEPT ![x] = lo] /\ fifo' = [fifo EXCEPT ![x] = fo]
        /\ tape' = [tape EXCEPT ![x] = t2]
    BY Zenon DEF Drain, Longer
  <1>2. f \in FillType /\ f.side \in {"buy", "sell"} /\ x \in Symbols
    <2>1. fills \in Seq(FillType) /\ fills # <<>>
      BY <1>1 DEF BrokerInv
    <2>2. f \in FillType
      BY <2>1
    <2> QED BY <2>2, SignedIs DEF FillType
  <1>3. e \in Unit /\ e.side = f.side /\ e.price = f.price
    BY <1>2, SignedIs DEF Unit
  <1>4. /\ lifo[x] \in Ledger /\ fifo[x] \in Ledger
        /\ x \in DOMAIN lifo /\ x \in DOMAIN fifo /\ x \in DOMAIN tape
    BY <1>2 DEF LedgerTypes
  <1>5. ASSUME x \notin shorted PROVE CostsAre(lo, fo, t2)
    <2>1. CostsAre(lifo[x], fifo[x], tape[x])
      BY <1>2, <1>5 DEF CostInv
    <2>2. LotSum(Qty, lifo[x].lots) + Signed(f) >= 0
      BY <1>1, <1>5, NextIsCovered
    <2>3. CASE f.side = "buy"
      <3> HIDE DEF e, f
      <3> QED BY <1>2, <1>3, <1>4, <2>1, <2>3, AbsorbBuy
    <2>4. CASE f.side = "sell"
      <3> HIDE DEF e, f
      <3>1. f.qty <= Held(tape[x])
        <4>1. /\ LotSum(Qty, lifo[x].lots) = Held(tape[x]) /\ Held(tape[x]) \in Nat
              /\ f.qty \in Nat /\ Signed(f) = -f.qty
          BY <1>2, <2>1, <2>4, HeldIs, SignedIs DEF CostsAre
        <4> QED BY <2>2, <4>1
      <3> QED BY <1>2, <1>3, <1>4, <2>1, <2>4, <3>1, AbsorbSell
    <2> QED BY <1>2, <2>3, <2>4
  <1> HIDE DEF lo, fo, t2
  <1>6. ASSUME NEW s \in Symbols \ shorted' PROVE CostsAre(lifo'[s], fifo'[s], tape'[s])
    <2>1. CASE s = x
      <3>1. lifo'[s] = lo /\ fifo'[s] = fo /\ tape'[s] = t2
        BY <1>1, <1>4, <2>1
      <3> QED BY <1>1, <1>5, <1>6, <2>1, <3>1
    <2>2. CASE s # x
      <3>1. lifo'[s] = lifo[s] /\ fifo'[s] = fifo[s] /\ tape'[s] = tape[s]
        BY <1>1, <1>6, <2>2 DEF LedgerTypes
      <3> QED BY <1>1, <1>6, <3>1 DEF CostInv
    <2> QED BY <2>1, <2>2
  <1> QED BY <1>6 DEF CostInv

LEMMA CostInit == Init => CostInv
  <1> SUFFICES ASSUME Init, NEW s \in Symbols PROVE CostsAre(lifo[s], fifo[s], tape[s])
    BY DEF CostInv
  <1> DEFINE t == tape[s]
  <1>1. /\ t = <<>> /\ lifo[s].lots = <<>> /\ fifo[s].lots = <<>>
        /\ lifo[s].realized = 0 /\ fifo[s].realized = 0
    BY DEF Init
  <1>2. t \in Seq(Unit) /\ Len(t) = 0 /\ 1 .. 0 = {} /\ DOMAIN t = {}
    BY <1>1
  <1> HIDE DEF t
  <1>3. Solvent(t) /\ Held(t) = 0
    <2>1. Open(t, 0) = 0
      BY <1>2, OpenIs
    <2>2. \A i \in 0 .. 0 : i = 0
      OBVIOUS
    <2> QED BY <1>2, <2>1, <2>2 DEF Solvent, Held
  <1>4. FifoProfit(t) = 0 /\ LifoProfit(t) = 0
    <2>1. Sells(t) = {}
      BY <1>2 DEF Sells
    <2> QED BY <1>3, <2>1, ProfitsAre, SumEmpty
  <1>5. \A P : Priced(<<>>, P)
    <2>1. 1 .. Len(<<>>) = {}
      OBVIOUS
    <2> QED BY <2>1 DEF Priced
  <1> QED BY <1>1, <1>3, <1>4, <1>5, LotSumEmpty DEF CostsAre, t

LEMMA CostStep == AccountInv /\ CostInv /\ [Next]_vars => CostInv'
  <1> SUFFICES ASSUME AccountInv, CostInv, [Next]_vars PROVE CostInv'
    OBVIOUS
  <1>1. BrokerInv /\ LedgerTypes /\ LotsInv
    BY DEF AccountInv
  <1>2. ASSUME NEW o \in Order, SubmitMarket(o) PROVE CostInv'
    <2>1. UNCHANGED <<lifo, fifo, tape>> /\ shorted \subseteq shorted'
      BY <1>2 DEF SubmitMarket, ledgerVars
    <2> QED BY <2>1 DEF CostInv
  <1>3. CASE Drain
    BY <1>1, <1>3, CostDrain
  <1>4. ASSUME UNCHANGED <<shorted, lifo, fifo, tape>> PROVE CostInv'
    BY <1>4 DEF CostInv
  <1> QED BY <1>2, <1>3, <1>4
      DEF Next, Quote, SubmitLimit, Cancel, bookVars, ledgerVars, vars

\* FrenchPFUPolicy has sold the units bought first and CryptoLIFOPolicy those bought last,
\* each at what it cost, whatever lots they were bought in and however a sell cut them.
THEOREM CostBasis == Spec => []CostBasisIsRight
  <1>1. CostInv => CostBasisIsRight
    BY DEF CostInv, CostsAre, CostBasisIsRight
  <1>2. AccountInv /\ CostInv /\ [Next]_vars => CostInv'
    BY CostStep
  <1> QED BY <1>1, <1>2, CostInit, AccountAlways, PTL DEF Spec

===============================================================================
