---------------------------- MODULE ReconcileProofs ----------------------------
(***************************************************************************)
(* What reconciliation guarantees for any symbols, number of fills and     *)
(* outside trades, length of a second, and any of the mishaps.             *)
(*                                                                         *)
(* The argument: when the journal accounts for every fill up to an instant *)
(* t, the rows stamped up to t never change again, because a fill that is  *)
(* journalled later executed after t and is stamped no earlier than it     *)
(* executed.  So what a settled snapshot holds is, for good, what others   *)
(* had traded, less the fees taken in kind, and the net of those rows; the *)
(* drift between two of them is a difference in which the rows cancel.     *)
(***************************************************************************)
EXTENDS Reconcile, FiniteSetTheorems, TLAPS

-------------------------------------------------------------------------------
(* Net quantities.                                                         *)

LEMMA SizeTypes == Size \in Int /\ Fee \in Int
  BY ReconcileAssumption

\* How many fills of a finite set are on one side.
LEMMA OnType ==
  ASSUME NEW F, IsFiniteSet(F), NEW s, NEW x
  PROVE  Cardinality(On(F, s, x)) \in Nat
  <1>1. On(F, s, x) \in SUBSET F
    BY DEF On
  <1> QED BY <1>1, FS_Subset, FS_CardinalityType

LEMMA Product == ASSUME NEW k \in Int, NEW m \in Int PROVE k * m \in Int
  OBVIOUS

LEMMA Distributes ==
  ASSUME NEW k \in Int, NEW m \in Int, NEW n \in Int
  PROVE  k * (m + n) = k * m + k * n
  OBVIOUS

LEMMA NetType ==
  ASSUME NEW F, IsFiniteSet(F), NEW s
  PROVE  Net(F, s) \in Int
  <1> DEFINE m == Cardinality(On(F, s, "buy")) - Cardinality(On(F, s, "sell"))
  <1>1. m \in Int
    BY OnType
  <1>2. Net(F, s) = Size * m
    BY DEF Net
  <1> HIDE DEF m
  <1> QED BY <1>1, <1>2, SizeTypes, Product

\* The net of rows that are split in two.
LEMMA NetSplit ==
  ASSUME NEW F, NEW G, IsFiniteSet(F), IsFiniteSet(G), F \cap G = {}, NEW s
  PROVE  Net(F \cup G, s) = Net(F, s) + Net(G, s)
  <1>1. ASSUME NEW x
        PROVE  /\ Cardinality(On(F, s, x)) \in Nat /\ Cardinality(On(G, s, x)) \in Nat
               /\ Cardinality(On(F \cup G, s, x))
                    = Cardinality(On(F, s, x)) + Cardinality(On(G, s, x))
    <2>1. /\ On(F, s, x) \in SUBSET F /\ On(G, s, x) \in SUBSET G
          /\ On(F, s, x) \cap On(G, s, x) = {}
          /\ On(F \cup G, s, x) = On(F, s, x) \cup On(G, s, x)
      BY DEF On
    <2>2. IsFiniteSet(On(F, s, x)) /\ IsFiniteSet(On(G, s, x))
      BY <2>1, FS_Subset
    <2>3. Cardinality(On(F, s, x)) \in Nat /\ Cardinality(On(G, s, x)) \in Nat
      BY <2>2, FS_CardinalityType
    <2>4. Cardinality(On(F, s, x) \cup On(G, s, x))
            = Cardinality(On(F, s, x)) + Cardinality(On(G, s, x)) - Cardinality({})
      BY <2>1, <2>2, FS_Union
    <2>5. Cardinality({}) = 0
      BY FS_EmptySet
    <2>6. Cardinality(On(F \cup G, s, x)) = Cardinality(On(F, s, x) \cup On(G, s, x))
      BY <2>1
    <2> DEFINE m == Cardinality(On(F, s, x))
               n == Cardinality(On(G, s, x))
    <2>7. m \in Nat /\ n \in Nat /\ Cardinality(On(F \cup G, s, x)) = m + n - 0
      BY <2>3, <2>4, <2>5, <2>6
    <2> HIDE DEF m, n
    <2>8. Cardinality(On(F \cup G, s, x)) = m + n
      BY <2>7
    <2> QED BY <2>7, <2>8 DEF m, n
  <1> DEFINE N(H, x) == Cardinality(On(H, s, x))
             M(H) == N(H, "buy") - N(H, "sell")
  <1>2. /\ N(F, "buy") \in Nat /\ N(G, "buy") \in Nat /\ N(F, "sell") \in Nat /\ N(G, "sell") \in Nat
        /\ N(F \cup G, "buy") = N(F, "buy") + N(G, "buy")
        /\ N(F \cup G, "sell") = N(F, "sell") + N(G, "sell")
    BY <1>1
  <1>3. Net(F, s) = Size * M(F) /\ Net(G, s) = Size * M(G) /\ Net(F \cup G, s) = Size * M(F \cup G)
    BY DEF Net
  <1> HIDE DEF N
  <1>4. M(F) \in Int /\ M(G) \in Int /\ M(F \cup G) = M(F) + M(G)
    BY <1>2
  <1> HIDE DEF M
  <1>5. Size * (M(F) + M(G)) = Size * M(F) + Size * M(G)
    BY <1>4, SizeTypes, Distributes
  <1> QED BY <1>3, <1>4, <1>5

\* Fills and the rows that stand for them net out to the same.
LEMMA NetSame ==
  ASSUME NEW F, NEW G, IsFiniteSet(F),
         \A f, g \in F : f.id = g.id => f = g,
         \A f, g \in G : f.id = g.id => f = g,
         \A f \in F : \E g \in G : g.id = f.id /\ g.sym = f.sym /\ g.side = f.side,
         \A g \in G : \E f \in F : g.id = f.id /\ g.sym = f.sym /\ g.side = f.side,
         NEW s
  PROVE  Net(F, s) = Net(G, s)
  <1>1. ASSUME NEW x PROVE Cardinality(On(G, s, x)) = Cardinality(On(F, s, x))
    <2> DEFINE A == On(F, s, x)
               B == On(G, s, x)
               h == [f \in A |-> CHOOSE g \in B : g.id = f.id]
    <2>1. A \in SUBSET F /\ B \in SUBSET G /\ IsFiniteSet(A)
      BY FS_Subset DEF On
    <2>2. \A f \in A : \E g \in B : g.id = f.id
      BY DEF On
    <2>3. \A g \in B : \E f \in A : g.id = f.id
      BY DEF On
    <2> HIDE DEF A, B
    <2>4. \A f \in A : h[f] \in B /\ h[f].id = f.id
      BY <2>2
    <2>5. h \in Bijection(A, B)
      <3>1. h \in [A -> B]
        BY <2>4
      <3>2. \A f, g \in A : h[f] = h[g] => f = g
        BY <2>1, <2>4
      <3>3. \A g \in B : \E f \in A : h[f] = g
        BY <2>1, <2>3, <2>4
      <3> HIDE DEF h
      <3> QED BY <3>1, <3>2, <3>3 DEF Bijection, Injection, Surjection, IsInjective
    <2>6. ExistsBijection(A, B)
      BY <2>5 DEF ExistsBijection
    <2> QED BY <2>1, <2>6, FS_Bijection DEF A, B
  <1> QED BY <1>1 DEF Net

-------------------------------------------------------------------------------
(* The invariant.                                                          *)

RowsIn(J, t) == {r \in J : r.ts <= t}

\* The rows of J account for every fill of F up to t.
UpToDate(F, J, t) ==
  \A f \in F : f.ts <= t => \E r \in RowsIn(J, t) : r.id = f.id

\* A fill has one row, for what it was and stamped no earlier than it executed.
FillsInv ==
  /\ IsFiniteSet(own) /\ IsFiniteSet(journal)
  /\ \A f \in own : f.id <= Cardinality(own) /\ f.ts <= now
  /\ \A f, g \in own : f.id = g.id => f = g
  /\ \A r \in journal : r.ts <= now
  /\ \A r \in journal : \E f \in own :
       f.id = r.id /\ f.sym = r.sym /\ f.side = r.side /\ f.ts <= r.ts
  /\ \A q, r \in journal : q.id = r.id => q = r

\* Positions that were settled at t are what others traded, less the fees taken in
\* kind, and the rows up to t.
Accounted(F, J, t, v) ==
  /\ UpToDate(F, J, t)
  /\ \A s \in Symbols : v.pos[s] = v.out[s] - v.fee[s] + Net(RowsIn(J, t), s)

Comparing == pc \in {"read", "compare", "save"}

SnapshotInv(p) ==
  /\ p.asof <= now /\ (Comparing => p.asof <= asof)
  /\ \A i \in p.netted : \E r \in RowsIn(journal, p.asof) : r.id = i
  /\ p.settled => Accounted(own, journal, p.asof, p)

ViewInv ==
  pc \in {"compare", "save"} /\ view.settled =>
    Accounted(own, journal, asof, view)

TickInv ==
  /\ Comparing => asof \in Instants /\ asof <= now
  /\ pc = "save" => report = Comparison
  /\ pc # "save" => report = NoReport

ReconcileInv ==
  /\ TypeOK /\ FillsInv /\ TickInv /\ ViewInv
  /\ \A i \in DOMAIN snaps : SnapshotInv(snaps[i])

LEMMA AssumptionTypes ==
  /\ PerSecond \in Nat \ {0} /\ MaxTime \in Nat /\ MaxFills \in Nat /\ MaxOutside \in Nat
  /\ MaxRuns \in Nat /\ PerSecond <= MaxTime
  BY ReconcileAssumption

LEMMA SnapshotTypes ==
  ASSUME TypeOK, NEW i \in DOMAIN snaps
  PROVE  snaps[i] \in Snapshot /\ snaps[i].asof \in Instants /\ snaps[i].asof \in Int
  <1>1. snaps[i] \in Snapshot
    BY DEF TypeOK
  <1> QED BY <1>1, AssumptionTypes DEF Snapshot, Instants

LEMMA FlatTypes ==
  /\ Flat \in Quantities /\ NoView \in View /\ NoReport \in Report
  <1>1. Flat \in Quantities
    BY DEF Flat, Quantities
  <1>2. NoView \in View
    BY <1>1 DEF NoView, View
  <1> QED BY <1>1, <1>2 DEF NoReport, Report

LEMMA ReconcileInit == Init => ReconcileInv
  <1> SUFFICES ASSUME Init PROVE ReconcileInv
    OBVIOUS
  <1>1. TypeOK
    BY AssumptionTypes, FlatTypes DEF Init, TypeOK, Instants
  <1>2. IsFiniteSet({})
    BY FS_EmptySet
  <1>3. FillsInv /\ TickInv /\ ViewInv
    BY <1>2 DEF Init, FillsInv, TickInv, ViewInv, Comparing
  <1>4. DOMAIN snaps = {}
    BY DEF Init
  <1> QED BY <1>1, <1>3, <1>4 DEF ReconcileInv

\* What is accounted for stays so when a fill executes later ...
LEMMA LaterFill ==
  ASSUME NEW F, NEW J, NEW t, NEW f, ~(f.ts <= t), NEW v,
         Accounted(F, J, t, v)
  PROVE  Accounted(F \cup {f}, J, t, v)
  BY DEF Accounted, UpToDate

\* ... and when rows are added for fills that had none.
LEMMA LaterRows ==
  ASSUME NEW F \in SUBSET Fill, NEW J \in SUBSET Fill, NEW K \in SUBSET Fill, NEW t \in Int,
         \A r \in K : \E f \in F : f.id = r.id /\ f.ts <= r.ts /\ \A q \in J : q.id # f.id,
         NEW v, Accounted(F, J, t, v)
  PROVE  Accounted(F, J \cup K, t, v)
  <1>1. \A r \in K : r.ts > t
    <2> SUFFICES ASSUME NEW r \in K, r.ts <= t PROVE FALSE
      BY DEF Fill, Instants
    <2>1. PICK f \in F : f.id = r.id /\ f.ts <= r.ts /\ \A q \in J : q.id # f.id
      OBVIOUS
    <2>2. f.ts <= t
      BY <2>1 DEF Fill, Instants
    <2> QED BY <2>1, <2>2 DEF Accounted, UpToDate, RowsIn
  <1>2. RowsIn(J \cup K, t) = RowsIn(J, t)
    BY <1>1 DEF RowsIn, Fill, Instants
  <1> QED BY <1>2 DEF Accounted, UpToDate

LEMMA SameComparison ==
  ASSUME UNCHANGED <<snaps, journal, view, asof>>
  PROVE  Comparison' = Comparison
  BY DEF Comparison, LastSnapshot, Explained, Residual

\* A step that only lets time pass or others trade.
LEMMA VenueStep ==
  ASSUME ReconcileInv, OutsideTrade \/ Elapse \/ UNCHANGED vars
  PROVE  ReconcileInv'
  <1>1. /\ UNCHANGED <<own, journal, snaps, tickVars, run>> /\ now' \in Instants /\ now <= now'
        /\ outside' \in Quantities /\ trades' \in 0 .. MaxOutside
    BY AssumptionTypes DEF ReconcileInv, TypeOK, OutsideTrade, Elapse, vars, venueVars, tickVars,
       Instants, Quantities
  <1>2. TypeOK'
    BY <1>1 DEF ReconcileInv, TypeOK, tickVars
  <1>3. Comparison' = Comparison
    BY <1>1, SameComparison DEF tickVars
  <1>4. now \in Int /\ now' \in Int
    BY <1>1 DEF ReconcileInv, TypeOK, Instants
  <1>5. FillsInv'
    BY <1>1, <1>4 DEF ReconcileInv, TypeOK, FillsInv, Fill, Instants
  <1>6. TickInv' /\ ViewInv'
    BY <1>1, <1>3, <1>4
       DEF ReconcileInv, TypeOK, TickInv, ViewInv, Comparing, tickVars, Instants
  <1>7. ASSUME NEW i \in DOMAIN snaps' PROVE SnapshotInv(snaps[i])'
    <2>1. SnapshotInv(snaps[i]) /\ snaps[i].asof \in Int
      BY <1>1, SnapshotTypes DEF ReconcileInv, tickVars
    <2> QED BY <1>1, <1>4, <2>1 DEF SnapshotInv, Comparing, tickVars
  <1> QED BY <1>2, <1>5, <1>6, <1>7 DEF ReconcileInv

\* An order executes: later than all that is accounted for.
LEMMA FillStep ==
  ASSUME ReconcileInv, OwnFill
  PROVE  ReconcileInv'
  <1>1. PICK f : /\ f.id = Cardinality(own) + 1 /\ f.ts = now + 1
                 /\ own' = own \cup {f} /\ (f.id \in 1 .. MaxFills /\ f.ts \in Instants => f \in Fill)
    BY DEF OwnFill, Fill
  <1>2. /\ UNCHANGED <<outside, trades, journal, snaps, tickVars, run>>
        /\ now < MaxTime /\ now' = now + 1 /\ Cardinality(own) < MaxFills
    BY DEF OwnFill
  <1>3. /\ IsFiniteSet(own) /\ Cardinality(own) \in Nat /\ now \in Instants
        /\ \A g \in own : g.id <= Cardinality(own) /\ g.ts <= now /\ g.id \in Int /\ g.ts \in Int
    BY FS_CardinalityType DEF ReconcileInv, FillsInv, TypeOK, Fill, Instants
  <1>4. f \in Fill /\ f \notin own
    BY <1>1, <1>2, <1>3, AssumptionTypes DEF Instants
  <1>5. IsFiniteSet(own') /\ Cardinality(own') = Cardinality(own) + 1
    BY <1>1, <1>3, <1>4, FS_AddElement
  <1>6. TypeOK'
    BY <1>1, <1>2, <1>3, <1>4, AssumptionTypes DEF ReconcileInv, TypeOK, tickVars, Instants
  <1>7. FillsInv'
    <2>1. \A g \in own' : g.id <= Cardinality(own') /\ g.ts <= now'
      BY <1>1, <1>2, <1>3, <1>5 DEF Instants
    <2>2. \A g, h \in own' : g.id = h.id => g = h
      BY <1>1, <1>3 DEF ReconcileInv, FillsInv
    <2>3. \A r \in journal' : r.ts <= now'
      BY <1>2, <1>3 DEF ReconcileInv, FillsInv, TypeOK, Fill, Instants
    <2> QED BY <1>1, <1>2, <1>5, <2>1, <2>2, <2>3 DEF ReconcileInv, FillsInv
  <1>8. Comparison' = Comparison
    BY <1>2, SameComparison DEF tickVars
  <1>9. ASSUME NEW t \in Int, t <= now, NEW v, Accounted(own, journal, t, v)
        PROVE  Accounted(own', journal', t, v)
    <2>1. ~(f.ts <= t)
      BY <1>1, <1>3, <1>9 DEF Instants
    <2> QED BY <1>1, <1>2, <1>9, <2>1, LaterFill
  <1>10. TickInv' /\ ViewInv'
    <2>1. TickInv'
      BY <1>2, <1>3, <1>8 DEF ReconcileInv, TickInv, Comparing, tickVars, Instants
    <2>2. ViewInv'
      BY <1>2, <1>9 DEF ReconcileInv, TickInv, ViewInv, Comparing, tickVars, Instants
    <2> QED BY <2>1, <2>2
  <1>11. ASSUME NEW i \in DOMAIN snaps' PROVE SnapshotInv(snaps[i])'
    <2>1. SnapshotInv(snaps[i]) /\ snaps[i].asof \in Int
      BY <1>2, SnapshotTypes DEF ReconcileInv
    <2>2. snaps[i].settled =>
            Accounted(own', journal', snaps[i].asof, snaps[i])
      BY <1>9, <2>1 DEF SnapshotInv
    <2> QED BY <1>2, <1>3, <2>1, <2>2 DEF SnapshotInv, Comparing, tickVars, Instants
  <1> QED BY <1>6, <1>7, <1>10, <1>11 DEF ReconcileInv

\* A drain: the rows it adds are of fills that had none.
LEMMA DrainStep ==
  ASSUME ReconcileInv, Drain
  PROVE  ReconcileInv'
  <1>1. PICK found \in SUBSET {f \in own : f.id \notin Booked}, stamp \in {"filled_at", "now"} :
          journal' = journal \cup {RowOf(f, stamp) : f \in found}
    BY DEF Drain
  <1> DEFINE K == {RowOf(f, stamp) : f \in found}
  <1>2. /\ UNCHANGED <<venueVars, snaps, label, asof, view, report, run>>
        /\ pc = "drain" /\ pc' = "asof"
    BY DEF Drain
  <1>3. /\ IsFiniteSet(own) /\ now \in Instants /\ own \in SUBSET Fill /\ journal \in SUBSET Fill
        /\ \A f \in own : f.ts <= now /\ f.ts \in Int
    BY DEF ReconcileInv, FillsInv, TypeOK, Fill, Instants
  <1>4. ASSUME NEW f \in found
        PROVE  /\ f \in own /\ \A q \in journal : q.id # f.id
               /\ RowOf(f, stamp) \in Fill /\ RowOf(f, stamp).id = f.id
               /\ RowOf(f, stamp).sym = f.sym /\ RowOf(f, stamp).side = f.side
               /\ f.ts <= RowOf(f, stamp).ts /\ RowOf(f, stamp).ts <= now
    <2>1. f \in own /\ f \in Fill /\ \A q \in journal : q.id # f.id
      BY <1>3 DEF Booked
    <2> QED BY <1>3, <2>1 DEF RowOf, Fill, Instants
  <1>5. IsFiniteSet(K)
    <2> DEFINE h == [f \in found |-> RowOf(f, stamp)]
    <2>1. h \in Surjection(found, K)
      BY DEF Surjection
    <2>2. IsFiniteSet(found)
      BY <1>3, <1>4, FS_Subset
    <2> HIDE DEF h
    <2> QED BY <2>1, <2>2, FS_Surjection
  <1>6. K \in SUBSET Fill
    BY <1>4
  <1>7. \A r \in K : \E f \in own :
          /\ f.id = r.id /\ f.sym = r.sym /\ f.side = r.side /\ f.ts <= r.ts /\ r.ts <= now
          /\ \A q \in journal : q.id # f.id
    BY <1>4
  <1>8. \A q, r \in K : q.id = r.id => q = r
    BY <1>4 DEF ReconcileInv, FillsInv
  <1> HIDE DEF K
  <1>9. TypeOK'
    BY <1>1, <1>2, <1>6 DEF ReconcileInv, TypeOK, venueVars, K
  <1>10. FillsInv'
    <2>1. IsFiniteSet(journal \cup K)
      BY <1>5, FS_Union DEF ReconcileInv, FillsInv
    <2>2. journal' = journal \cup K /\ own' = own /\ now' = now
      BY <1>1, <1>2 DEF venueVars, K
    <2>3. \A q, r \in journal \cup K : q.id = r.id => q = r
      BY <1>7, <1>8 DEF ReconcileInv, FillsInv
    <2> QED BY <1>7, <2>1, <2>2, <2>3 DEF ReconcileInv, FillsInv
  <1>11. TickInv' /\ ViewInv'
    BY <1>2 DEF ReconcileInv, TickInv, ViewInv, Comparing
  <1>12. ASSUME NEW i \in DOMAIN snaps' PROVE SnapshotInv(snaps[i])'
    <2>1. SnapshotInv(snaps[i]) /\ snaps[i].asof \in Int
      BY <1>2, SnapshotTypes DEF ReconcileInv
    <2>2. snaps[i].settled =>
            Accounted(own, journal \cup K, snaps[i].asof, snaps[i])
      <3>1. ASSUME snaps[i].settled
            PROVE  Accounted(own, journal, snaps[i].asof, snaps[i])
        BY <2>1, <3>1 DEF SnapshotInv
      <3>2. \A r \in K : \E f \in own : f.id = r.id /\ f.ts <= r.ts /\ \A q \in journal : q.id # f.id
        BY <1>7
      <3> QED BY <1>3, <1>6, <2>1, <3>1, <3>2, LaterRows
    <2>3. RowsIn(journal, snaps[i].asof) \subseteq RowsIn(journal', snaps[i].asof)
      BY <1>1 DEF RowsIn
    <2>4. journal' = journal \cup K /\ own' = own /\ now' = now
      BY <1>1, <1>2 DEF venueVars, K
    <2> QED BY <1>2, <2>1, <2>2, <2>3, <2>4 DEF SnapshotInv, Comparing
  <1> QED BY <1>9, <1>10, <1>11, <1>12 DEF ReconcileInv

LEMMA SecondType ==
  ASSUME NEW t \in Nat PROVE Second(t) \in Nat
  BY AssumptionTypes DEF Second

\* A step of the tick outside the comparison: what it remembers is void, or the
\* fills_as_of it has just taken.
LEMMA TickStep ==
  ASSUME ReconcileInv, UNCHANGED <<venueVars, journal, snaps>>, TypeOK',
         pc' \notin {"compare", "save"}, report' = NoReport, pc' = "read" => asof' = now
  PROVE  ReconcileInv'
  <1>1. now \in Instants /\ now \in Int
    BY DEF ReconcileInv, TypeOK, Instants
  <1>2. FillsInv'
    BY DEF ReconcileInv, FillsInv, venueVars
  <1>3. TickInv' /\ ViewInv'
    BY <1>1 DEF TickInv, ViewInv, Comparing, venueVars
  <1>4. ASSUME NEW i \in DOMAIN snaps' PROVE SnapshotInv(snaps[i])'
    <2>1. SnapshotInv(snaps[i]) /\ snaps[i].asof \in Int
      BY SnapshotTypes DEF ReconcileInv
    <2> QED BY <1>1, <2>1 DEF SnapshotInv, Comparing, venueVars
  <1> QED BY <1>2, <1>3, <1>4 DEF ReconcileInv

\* What is held when the journal has every fill: those rows and the others' trades.
LEMMA HeldIsAccounted ==
  ASSUME ReconcileInv, asof \in Int, Settled
  PROVE  \A v : v.pos = Held /\ v.out = outside /\ v.fee = Taken
                 => Accounted(own, journal, asof, v)
  <1> DEFINE R == RowsIn(journal, asof)
  <1>1. R \in SUBSET journal
    BY DEF RowsIn
  <1>2. \A f \in own : \E r \in R : r.id = f.id
    BY DEF Settled, RowsIn
  <1>3. \A f \in own : \E r \in R : r.id = f.id /\ r.sym = f.sym /\ r.side = f.side
    BY <1>1, <1>2 DEF ReconcileInv, FillsInv
  <1>4. \A r \in R : \E f \in own : r.id = f.id /\ r.sym = f.sym /\ r.side = f.side
    BY <1>1 DEF ReconcileInv, FillsInv
  <1>5. /\ IsFiniteSet(own) /\ \A f, g \in own : f.id = g.id => f = g
        /\ \A f, g \in R : f.id = g.id => f = g
    BY <1>1 DEF ReconcileInv, FillsInv
  <1>6. UpToDate(own, journal, asof)
    BY <1>2 DEF UpToDate
  <1> HIDE DEF R
  <1>7. \A s \in Symbols : Net(own, s) = Net(R, s)
    BY <1>3, <1>4, <1>5, NetSame
  <1>8. \A s \in Symbols : Held[s] = outside[s] - Taken[s] + Net(R, s)
    BY <1>7 DEF Held
  <1> QED BY <1>6, <1>8 DEF Accounted, R

LEMMA TakenType ==
  ASSUME ReconcileInv PROVE Taken \in Quantities
  <1>1. ASSUME NEW s \in Symbols PROVE Fee * Cardinality(On(own, s, "buy")) \in Int
    <2> DEFINE m == Cardinality(On(own, s, "buy"))
    <2>1. m \in Int
      BY OnType DEF ReconcileInv, FillsInv
    <2> HIDE DEF m
    <2>2. Fee * m \in Int
      BY <2>1, SizeTypes, Product
    <2> QED BY <2>2 DEF m
  <1> QED BY <1>1 DEF Taken, Quantities

LEMMA HeldType ==
  ASSUME ReconcileInv PROVE Held \in Quantities
  <1>1. IsFiniteSet(own) /\ outside \in [Symbols -> Int]
    BY DEF ReconcileInv, FillsInv, TypeOK, Quantities
  <1>2. \A s \in Symbols : Net(own, s) \in Int
    BY <1>1, NetType
  <1>3. \A s \in Symbols : Taken[s] \in Int
    BY TakenType DEF Quantities
  <1> QED BY <1>1, <1>2, <1>3 DEF Held, Quantities

LEMMA ReadStep ==
  ASSUME ReconcileInv, ReadPositions
  PROVE  ReconcileInv'
  <1>1. /\ UNCHANGED <<venueVars, journal, snaps, label, asof, report, run>>
        /\ pc = "read" /\ pc' = "compare"
        /\ view' = [pos |-> Held, out |-> outside, fee |-> Taken, settled |-> Settled]
    BY DEF ReadPositions
  <1>2. asof \in Int
    BY <1>1 DEF ReconcileInv, TypeOK
  <1>3. view' \in View
    <2>1. Settled \in BOOLEAN
      BY DEF Settled
    <2> QED BY <1>1, <2>1, HeldType, TakenType DEF View, ReconcileInv, TypeOK
  <1>4. TypeOK'
    BY <1>1, <1>3 DEF ReconcileInv, TypeOK, venueVars
  <1>5. FillsInv'
    BY <1>1 DEF ReconcileInv, FillsInv, venueVars
  <1>6. TickInv'
    BY <1>1 DEF ReconcileInv, TickInv, Comparing, venueVars
  <1>7. ViewInv'
    BY <1>1, <1>2, HeldIsAccounted DEF ViewInv, venueVars
  <1>8. ASSUME NEW i \in DOMAIN snaps' PROVE SnapshotInv(snaps[i])'
    <2>1. SnapshotInv(snaps[i])
      BY <1>1 DEF ReconcileInv
    <2> QED BY <1>1, <2>1 DEF SnapshotInv, Comparing, venueVars
  <1> QED BY <1>4, <1>5, <1>6, <1>7, <1>8 DEF ReconcileInv

LEMMA LastTypes ==
  ASSUME TypeOK
  PROVE  /\ LastSnapshot \in SUBSET Snapshot
         /\ \A p \in LastSnapshot : snaps # <<>> /\ 1 \in DOMAIN snaps /\ p = Head(snaps) /\ p = snaps[1]
  <1>1. CASE snaps = <<>>
    BY <1>1 DEF LastSnapshot
  <1>2. CASE snaps # <<>>
    BY <1>2 DEF LastSnapshot, TypeOK
  <1> QED BY <1>1, <1>2

LEMMA ResidualType ==
  ASSUME ReconcileInv, NEW p \in Snapshot, NEW s \in Symbols
  PROVE  Residual(p, s) \in Int
  <1>1. Explained(p) \in SUBSET journal /\ IsFiniteSet(journal)
    BY DEF Explained, ReconcileInv, FillsInv
  <1>2. Net(Explained(p), s) \in Int
    BY <1>1, FS_Subset, NetType
  <1>3. view.pos[s] \in Int /\ p.pos[s] \in Int
    BY DEF ReconcileInv, TypeOK, View, Quantities, Snapshot
  <1> QED BY <1>2, <1>3 DEF Residual

LEMMA ComparisonType ==
  ASSUME ReconcileInv PROVE Comparison \in Report
  <1>1. TypeOK
    BY DEF ReconcileInv
  <1>2. Comparison.drift \in Quantities
    <2>1. ASSUME NEW s \in Symbols, LastSnapshot # {} PROVE Residual(Head(snaps), s) \in Int
      BY <1>1, <2>1, LastTypes, ResidualType
    <2> QED BY <2>1 DEF Comparison, Quantities
  <1>3. Comparison.window \in SUBSET (1 .. MaxFills)
    BY <1>1 DEF Comparison, Explained, TypeOK, Fill
  <1>4. Comparison.base \in SUBSET Snapshot /\ Comparison.view \in View
    BY <1>1, LastTypes DEF Comparison, TypeOK
  <1>5. Comparison = [base |-> Comparison.base, window |-> Comparison.window,
                      drift |-> Comparison.drift, view |-> Comparison.view]
    BY DEF Comparison
  <1> HIDE DEF Comparison
  <1> QED BY <1>2, <1>3, <1>4, <1>5 DEF Report

LEMMA CompareStep ==
  ASSUME ReconcileInv, Compare
  PROVE  ReconcileInv'
  <1>1. /\ UNCHANGED <<venueVars, journal, snaps, label, asof, view, run>>
        /\ pc = "compare" /\ pc' = "save" /\ report' = Comparison
    BY DEF Compare
  <1>2. TypeOK'
    BY <1>1, ComparisonType DEF ReconcileInv, TypeOK, venueVars
  <1>3. FillsInv'
    BY <1>1 DEF ReconcileInv, FillsInv, venueVars
  <1>4. Comparison' = Comparison
    BY <1>1, SameComparison
  <1>5. TickInv'
    BY <1>1, <1>4 DEF ReconcileInv, TickInv, Comparing, venueVars
  <1>6. ViewInv'
    BY <1>1 DEF ReconcileInv, ViewInv, venueVars
  <1>7. ASSUME NEW i \in DOMAIN snaps' PROVE SnapshotInv(snaps[i])'
    <2>1. SnapshotInv(snaps[i])
      BY <1>1 DEF ReconcileInv
    <2> QED BY <1>1, <2>1 DEF SnapshotInv, Comparing, venueVars
  <1> QED BY <1>2, <1>3, <1>5, <1>6, <1>7 DEF ReconcileInv

\* What a comparison at "save" has netted out: rows up to its fills_as_of, those of
\* the window after the fills_as_of of the snapshot it is based on.
LEMMA NettedRows ==
  ASSUME ReconcileInv, pc = "save"
  PROVE  /\ \A p \in report.base : /\ p = snaps[1] /\ 1 \in DOMAIN snaps
                                   /\ p \in Snapshot /\ SnapshotInv(p)
         /\ \A i \in report.window : \E p \in report.base, r \in journal :
              r.id = i /\ p.asof < r.ts /\ r.ts <= asof
  <1>1. TypeOK /\ report = Comparison
    BY DEF ReconcileInv, TickInv
  <1>2. report.base = LastSnapshot
    BY <1>1 DEF Comparison
  <1>3. ASSUME NEW p \in report.base
        PROVE  p = snaps[1] /\ 1 \in DOMAIN snaps /\ p \in Snapshot /\ SnapshotInv(p)
    BY <1>1, <1>2, LastTypes DEF ReconcileInv
  <1>4. ASSUME NEW i \in report.window
        PROVE  \E p \in report.base, r \in journal : r.id = i /\ p.asof < r.ts /\ r.ts <= asof
    <2>1. PICK p \in LastSnapshot : i \in {r.id : r \in Explained(p)}
      BY <1>1 DEF Comparison
    <2> QED BY <1>2, <2>1 DEF Explained
  <1> QED BY <1>3, <1>4

LEMMA NewSnapshotType ==
  ASSUME ReconcileInv, pc = "save"
  PROVE  NewSnapshot \in Snapshot
  <1>1. /\ asof \in Instants /\ view \in View /\ label \in Nat /\ now \in Nat /\ report \in Report
    BY AssumptionTypes DEF ReconcileInv, TypeOK, TickInv, Comparing, Instants
  <1>2. Second(now) \in Nat
    BY <1>1, SecondType
  <1>3. NewSnapshot.netted \in SUBSET (1 .. MaxFills)
    <2>1. report.window \in SUBSET (1 .. MaxFills)
      BY <1>1 DEF Report
    <2>2. \A p \in report.base : p.netted \in SUBSET (1 .. MaxFills)
      BY NettedRows DEF Snapshot
    <2> QED BY <2>1, <2>2 DEF NewSnapshot
  <1>4. /\ view.pos \in Quantities /\ view.out \in Quantities /\ view.fee \in Quantities
        /\ view.settled \in BOOLEAN
    BY <1>1 DEF View
  <1> QED BY <1>1, <1>2, <1>3, <1>4 DEF NewSnapshot, Snapshot

\* The new snapshot is as good as the comparison it is saved for.
LEMMA NewSnapshotGood ==
  ASSUME ReconcileInv, pc = "save"
  PROVE  /\ NewSnapshot.asof <= now
         /\ \A i \in NewSnapshot.netted : \E r \in RowsIn(journal, NewSnapshot.asof) : r.id = i
         /\ NewSnapshot.settled =>
              Accounted(own, journal, NewSnapshot.asof, NewSnapshot)
  <1>1. asof <= now /\ asof \in Int
    BY DEF ReconcileInv, TypeOK, TickInv, Comparing
  <1>2. ASSUME NEW i \in NewSnapshot.netted
        PROVE  \E r \in RowsIn(journal, asof) : r.id = i
    <2>1. CASE i \in report.window
      BY <2>1, NettedRows DEF RowsIn
    <2>2. CASE \E p \in report.base : i \in p.netted
      <3>1. PICK p \in report.base : i \in p.netted
        BY <2>2
      <3>2. SnapshotInv(p) /\ p \in Snapshot
        BY NettedRows
      <3>3. PICK r \in RowsIn(journal, p.asof) : r.id = i
        BY <3>1, <3>2 DEF SnapshotInv
      <3>4. p.asof <= asof /\ p.asof \in Int /\ r.ts \in Int
        BY <3>2, AssumptionTypes
           DEF SnapshotInv, Comparing, Snapshot, Instants, RowsIn, ReconcileInv, TypeOK, Fill
      <3> QED BY <1>1, <3>3, <3>4 DEF RowsIn
    <2> QED BY <2>1, <2>2 DEF NewSnapshot
  <1>3. view.settled => Accounted(own, journal, asof, view)
    BY DEF ReconcileInv, ViewInv
  <1>4. /\ NewSnapshot.asof = asof /\ NewSnapshot.settled = view.settled
        /\ NewSnapshot.pos = view.pos /\ NewSnapshot.out = view.out
        /\ NewSnapshot.fee = view.fee
    BY DEF NewSnapshot
  <1> HIDE DEF NewSnapshot
  <1>5. view.settled => Accounted(own, journal, asof, NewSnapshot)
    BY <1>3, <1>4 DEF Accounted
  <1> QED BY <1>1, <1>2, <1>4, <1>5

LEMMA SaveStep ==
  ASSUME ReconcileInv, SaveSnapshot
  PROVE  ReconcileInv'
  <1> DEFINE n == NewSnapshot
             same == {i \in DOMAIN snaps : snaps[i].label = label}
  <1>1. /\ UNCHANGED <<venueVars, journal, run>> /\ pc = "save" /\ pc' = "idle"
        /\ label' = 0 /\ asof' = 0 /\ view' = NoView /\ report' = NoReport
        /\ \/ snaps' = <<n>> \/ snaps' = Append(snaps, n)
           \/ snaps' = [i \in DOMAIN snaps |-> IF i \in same THEN n ELSE snaps[i]]
    BY DEF SaveSnapshot, EndTick
  <1>2. n \in Snapshot /\ snaps \in Seq(Snapshot)
    BY <1>1, NewSnapshotType DEF ReconcileInv, TypeOK
  <1> HIDE DEF n, same
  <1>3. /\ snaps' \in Seq(Snapshot)
        /\ \A i \in DOMAIN snaps' :
             snaps'[i] = n \/ (i \in DOMAIN snaps /\ snaps'[i] = snaps[i])
    <2>1. CASE snaps' = <<n>>
      BY <1>2, <2>1
    <2>2. CASE snaps' = Append(snaps, n)
      BY <1>2, <2>2
    <2>3. CASE snaps' = [i \in DOMAIN snaps |-> IF i \in same THEN n ELSE snaps[i]]
      <3>1. DOMAIN snaps = 1 .. Len(snaps) /\ Len(snaps) \in Nat /\ \A i \in DOMAIN snaps : snaps[i] \in Snapshot
        BY <1>2
      <3>2. snaps' \in [1 .. Len(snaps) -> Snapshot]
        BY <1>2, <2>3, <3>1
      <3>3. snaps' \in Seq(Snapshot)
        BY <3>1, <3>2
      <3> QED BY <2>3, <3>3
    <2> QED BY <1>1, <2>1, <2>2, <2>3
  <1>4. TypeOK'
    BY <1>1, <1>3, FlatTypes DEF ReconcileInv, TypeOK, venueVars
  <1>5. FillsInv'
    BY <1>1 DEF ReconcileInv, FillsInv, venueVars
  <1>6. TickInv' /\ ViewInv'
    BY <1>1 DEF TickInv, ViewInv, Comparing
  <1>7. ASSUME NEW i \in DOMAIN snaps' PROVE SnapshotInv(snaps[i])'
    <2>1. CASE snaps'[i] = n
      <3>1. /\ n.asof <= now /\ \A j \in n.netted : \E r \in RowsIn(journal, n.asof) : r.id = j
            /\ n.settled => Accounted(own, journal, n.asof, n)
        BY <1>1, NewSnapshotGood DEF n
      <3> QED BY <1>1, <2>1, <3>1 DEF SnapshotInv, Comparing, venueVars
    <2>2. CASE i \in DOMAIN snaps /\ snaps'[i] = snaps[i]
      <3>1. SnapshotInv(snaps[i])
        BY <2>2 DEF ReconcileInv
      <3> QED BY <1>1, <2>2, <3>1 DEF SnapshotInv, Comparing, venueVars
    <2> QED BY <1>3, <2>1, <2>2
  <1> QED BY <1>4, <1>5, <1>6, <1>7 DEF ReconcileInv

LEMMA ReconcileStep == ReconcileInv /\ [Next]_vars => ReconcileInv'
  <1> SUFFICES ASSUME ReconcileInv, [Next]_vars PROVE ReconcileInv'
    OBVIOUS
  <1>1. CASE OwnFill
    BY <1>1, FillStep
  <1>2. CASE OutsideTrade \/ Elapse \/ UNCHANGED vars
    BY <1>2, VenueStep
  <1>3. TypeOK /\ now \in Nat
    BY AssumptionTypes DEF ReconcileInv, TypeOK, Instants
  <1>4. CASE StartTick
    <2>1. TypeOK'
      BY <1>3, <1>4, SecondType DEF StartTick, TypeOK, venueVars
    <2> QED BY <1>4, <2>1, TickStep DEF StartTick, ReconcileInv, TickInv
  <1>5. CASE Drain
    BY <1>5, DrainStep
  <1>6. CASE TakeAsOf
    <2>1. TypeOK'
      BY <1>3, <1>6 DEF TakeAsOf, TypeOK, venueVars
    <2> QED BY <1>6, <2>1, TickStep DEF TakeAsOf, ReconcileInv, TickInv
  <1>7. CASE ReadPositions
    BY <1>7, ReadStep
  <1>8. CASE TickError
    <2>1. TypeOK'
      BY <1>3, <1>8, FlatTypes DEF TickError, EndTick, TypeOK, venueVars
    <2> QED BY <1>8, <2>1, TickStep DEF TickError, EndTick
  <1>9. CASE Compare
    BY <1>9, CompareStep
  <1>10. CASE SaveSnapshot
    BY <1>10, SaveStep
  <1>11. CASE Crash
    <2>1. TypeOK'
      BY <1>3, <1>11, FlatTypes DEF Crash, TypeOK, venueVars
    <2> QED BY <1>11, <2>1, TickStep DEF Crash
  <1> QED BY <1>1, <1>2, <1>4, <1>5, <1>6, <1>7, <1>8, <1>9, <1>10, <1>11 DEF Next, Venue, Tick

LEMMA ReconcileAlways == Spec => []ReconcileInv
  BY ReconcileInit, ReconcileStep, PTL DEF Spec

-------------------------------------------------------------------------------
(* The theorems.                                                           *)

\* Every state of the journal, the snapshots and the comparison is well formed
\* (Runner.reconcile, positions_to_snapshot).
THEOREM TypeCorrect == Spec => []TypeOK
  <1>1. ReconcileInv => TypeOK
    BY DEF ReconcileInv
  <1> QED BY <1>1, ReconcileAlways, PTL

\* The rows up to a comparison are those up to its base and those of the window.
LEMMA WindowSplits ==
  ASSUME ReconcileInv, NEW p \in Snapshot, p.asof <= asof, NEW s
  PROVE  /\ Net(RowsIn(journal, asof), s)
              = Net(RowsIn(journal, p.asof), s) + Net(Explained(p), s)
         /\ Net(RowsIn(journal, p.asof), s) \in Int /\ Net(Explained(p), s) \in Int
  <1> DEFINE A == RowsIn(journal, p.asof)
             B == Explained(p)
  <1>1. /\ asof \in Int /\ p.asof \in Int /\ \A r \in journal : r.ts \in Int
        /\ IsFiniteSet(journal)
    BY AssumptionTypes DEF ReconcileInv, TypeOK, FillsInv, Snapshot, Instants, Fill
  <1>2. A \in SUBSET journal /\ B \in SUBSET journal
    BY DEF RowsIn, Explained
  <1>3. A \cap B = {} /\ RowsIn(journal, asof) = A \cup B
    BY <1>1 DEF RowsIn, Explained
  <1> HIDE DEF A, B
  <1>4. IsFiniteSet(A) /\ IsFiniteSet(B)
    BY <1>1, <1>2, FS_Subset
  <1> QED BY <1>3, <1>4, NetSplit, NetType DEF A, B

\* For any number of symbols, fills and outside trades, fill sizes and fees: between
\* two comparisons made while the journal was up to date, the drift of a symbol held
\* at either end is what others traded in between less the fees taken in kind
\* (Runner.reconcile, _drift).
THEOREM DriftIsExact == Spec => []SettledDriftIsExact
  <1>1. ASSUME ReconcileInv PROVE SettledDriftIsExact
    <2> SUFFICES ASSUME NEW p \in report.base, report.view.settled, p.settled,
                        NEW s \in Symbols, report.view.pos[s] # 0 \/ p.pos[s] # 0
                 PROVE  report.drift[s] = (report.view.out[s] - p.out[s])
                                            - (report.view.fee[s] - p.fee[s])
      BY DEF SettledDriftIsExact
    <2>1. pc = "save" /\ report = Comparison
      BY <1>1 DEF ReconcileInv, TickInv, NoReport
    <2>2. /\ p = snaps[1] /\ p \in Snapshot /\ SnapshotInv(p) /\ report.base = LastSnapshot
          /\ report.view = view
      BY <1>1, <2>1, NettedRows DEF Comparison
    <2>3. p = Head(snaps) /\ LastSnapshot # {}
      BY <1>1, <2>2, LastTypes DEF ReconcileInv
    <2>4. report.drift[s] = view.pos[s] - (p.pos[s] + Net(Explained(p), s))
      BY <2>1, <2>2, <2>3 DEF Comparison, Residual
    <2>5. /\ p.asof <= asof /\ view \in View
          /\ p.pos[s] = p.out[s] - p.fee[s] + Net(RowsIn(journal, p.asof), s)
          /\ view.pos[s] = view.out[s] - view.fee[s] + Net(RowsIn(journal, asof), s)
      BY <1>1, <2>1, <2>2
         DEF SnapshotInv, Comparing, ReconcileInv, TypeOK, ViewInv, Accounted
    <2>6. p.out[s] \in Int /\ view.out[s] \in Int /\ p.fee[s] \in Int /\ view.fee[s] \in Int
      BY <2>2, <2>5 DEF Snapshot, View, Quantities
    <2>7. /\ Net(RowsIn(journal, asof), s)
               = Net(RowsIn(journal, p.asof), s) + Net(Explained(p), s)
          /\ Net(RowsIn(journal, p.asof), s) \in Int /\ Net(Explained(p), s) \in Int
      BY <1>1, <2>2, <2>5, WindowSplits
    <2> QED BY <2>2, <2>4, <2>5, <2>6, <2>7
  <1> QED BY <1>1, ReconcileAlways, PTL

\* Whatever the chain of snapshots, with drains that are late or miss fills: a fill
\* that a comparison nets out was not netted out by one before it (_fill_qty_by_symbol).
THEOREM NettedAtMostOnce == Spec => []NettedOnce
  <1>1. ASSUME ReconcileInv PROVE NettedOnce
    <2> SUFFICES ASSUME NEW p \in report.base, NEW i \in report.window, i \in p.netted
                 PROVE  FALSE
      BY DEF NettedOnce
    <2>1. pc = "save"
      BY <1>1 DEF ReconcileInv, TickInv, NoReport
    <2>2. PICK q \in journal : q.id = i /\ p.asof < q.ts
      BY <1>1, <2>1, NettedRows
    <2>3. PICK r \in journal : r.id = i /\ r.ts <= p.asof
      BY <1>1, <2>1, NettedRows DEF SnapshotInv, RowsIn
    <2>4. q = r
      BY <1>1, <2>2, <2>3 DEF ReconcileInv, FillsInv
    <2>5. p \in Snapshot /\ q \in Fill
      BY <1>1, <2>1, <2>2, NettedRows DEF ReconcileInv, TypeOK
    <2>6. p.asof \in Int /\ q.ts \in Int
      BY <2>5, AssumptionTypes DEF Fill, Snapshot, Instants
    <2> QED BY <2>2, <2>3, <2>4, <2>6
  <1> QED BY <1>1, ReconcileAlways, PTL

===============================================================================
