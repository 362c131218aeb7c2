------------------------------- MODULE Reconcile -------------------------------
(***************************************************************************)
(* Runner.reconcile: telling the bot's own trades from everybody else's.   *)
(*                                                                         *)
(* At start-up and at the end of every tick the runner compares what the   *)
(* broker holds with the last snapshot in mall["positions"], nets out the  *)
(* journalled fills stamped between the two, reports the residual as       *)
(* drift, and saves a new snapshot.  The venue keeps executing orders, and *)
(* somebody keeps trading by hand, between any two of those steps.         *)
(*                                                                         *)
(* Every fill is of Size units.  On a crypto buy the broker takes its fee  *)
(* in the asset: Fee units less arrive than the fill says, and no row of   *)
(* mall["fills"] has them.  How fills get into mall["fills"] is            *)
(* FillJournal; here a drain adds some of the fills that are not in it     *)
(* yet, which is what FillLedger promises.  A snapshot is keyed by a whole *)
(* second and a label, while fills and windows are stamped with the exact  *)
(* instant: an instant is a natural number and a second is PerSecond of    *)
(* them.  A unit is more than the epsilon below which nothing is reported. *)
(***************************************************************************)
EXTENDS Integers, Sequences, FiniteSets

CONSTANTS
  Symbols,     \* what is traded
  InKind,      \* symbols whose buys pay their fee in the asset (crypto)
  Size,        \* units of a fill
  Fee,         \* units such a buy pays (0.25% in the account)
  PerSecond,   \* instants in a second
  Env,         \* which environment behaviours this instance allows
  MaxTime,     \* bound: last instant of the clock
  MaxFills,    \* bound: fills of the bot's orders
  MaxOutside,  \* bound: trades that are not the bot's
  MaxRuns      \* bound: processes started, the first one included

Behaviours == {"late_stamp", "incomplete_drain", "tick_error", "crash"}

ASSUME ReconcileAssumption ==
  /\ InKind \subseteq Symbols
  /\ Size \in Nat \ {0} /\ Fee \in Nat
  /\ PerSecond \in Nat \ {0}
  /\ Env \subseteq Behaviours
  /\ {MaxTime, MaxFills, MaxOutside, MaxRuns} \subseteq Nat
  /\ PerSecond <= MaxTime

VARIABLES
  now,      \* the clock
  own,      \* venue: executed fills of the bot's orders
  outside,  \* venue: outside[s], net quantity of s traded by others
  trades,   \* number of those trades
  journal,  \* rows of mall["fills"]
  snaps,    \* rows of mall["positions"] of the latest second, as inserted
  pc,       \* where the tick thread is
  label,    \* the tick's second, which labels its snapshot; 0: "startup"
  asof,     \* fills_as_of, 0 outside reconcile
  view,     \* broker_positions, with what was true when they were read
  report,   \* the comparison made, until its snapshot is saved
  run       \* which process is running

venueVars == <<now, own, outside, trades>>
tickVars  == <<pc, label, asof, view, report>>
vars == <<venueVars, journal, snaps, tickVars, run>>

Instants == PerSecond .. MaxTime
Fill == [id : 1 .. MaxFills, sym : Symbols, side : {"buy", "sell"}, ts : Instants]
Quantities == [Symbols -> Int]

\* View, Snapshot and Report carry history: out is what others had traded when
\* the positions were read and fee what had been taken in kind, settled whether
\* the journal was up to date with the positions.
View == [pos : Quantities, out : Quantities, fee : Quantities, settled : BOOLEAN]
Snapshot ==
  [sec : Nat, label : Nat, asof : Instants, pos : Quantities,
   out : Quantities, fee : Quantities, settled : BOOLEAN, netted : SUBSET (1 .. MaxFills)]
Report ==
  [base : SUBSET Snapshot, window : SUBSET (1 .. MaxFills),
   drift : Quantities, view : View]

Flat == [s \in Symbols |-> 0]
NoView == [pos |-> Flat, out |-> Flat, fee |-> Flat, settled |-> FALSE]
NoReport == [base |-> {}, window |-> {}, drift |-> Flat, view |-> NoView]

Second(t) == t \div PerSecond
Booked == {r.id : r \in journal}

\* The fills of F that are on one side of s, and their signed quantity.
On(F, s, side) == {f \in F : f.sym = s /\ f.side = side}
Net(F, s) == Size * (Cardinality(On(F, s, "buy")) - Cardinality(On(F, s, "sell")))

-------------------------------------------------------------------------------
(* The venue (outside the repository).                                     *)

\* An order of the bot executes; no two events share an instant.
OwnFill ==
  /\ now < MaxTime
  /\ Cardinality(own) < MaxFills
  /\ now' = now + 1
  /\ \E s \in Symbols, side \in {"buy", "sell"} :
       own' = own \cup {[id |-> Cardinality(own) + 1, sym |-> s,
                         side |-> side, ts |-> now + 1]}
  /\ UNCHANGED <<outside, trades, journal, snaps, tickVars, run>>

\* A manual trade, another bot on the account, a transfer.
OutsideTrade ==
  /\ trades < MaxOutside
  /\ trades' = trades + 1
  /\ \E s \in Symbols, d \in {-1, 1} : outside' = [outside EXCEPT ![s] = @ + d]
  /\ UNCHANGED <<now, own, journal, snaps, tickVars, run>>

Elapse ==
  /\ now < MaxTime
  /\ now' = now + 1
  /\ UNCHANGED <<own, outside, trades, journal, snaps, tickVars, run>>

\* Fees taken in kind so far: account activities, never part of a fill.
Taken ==
  [s \in Symbols |-> IF s \in InKind THEN Fee * Cardinality(On(own, s, "buy")) ELSE 0]

\* What AlpacaBroker.positions() answers.
Held == [s \in Symbols |-> outside[s] - Taken[s] + Net(own, s)]

-------------------------------------------------------------------------------
(* The tick, from the drain of the fills on.                               *)

\* The locals of tick and reconcile are gone.
EndTick ==
  /\ pc' = "idle" /\ label' = 0 /\ asof' = 0 /\ view' = NoView
  /\ report' = NoReport

StartTick ==
  /\ pc = "idle"
  /\ pc' = "drain"
  /\ label' = Second(now)
  /\ UNCHANGED <<venueVars, journal, snaps, asof, view, report, run>>

\* Mutant: a fill without filled_at is journalled without a timestamp.
RowUnstamped(f, stamp) == [f EXCEPT !.ts = IF stamp = "now" THEN 0 ELSE @]

\* The journal row of a fill; one without filled_at is stamped now.
RowOf(f, stamp) == [f EXCEPT !.ts = IF stamp = "now" THEN now ELSE @]

\* mall["fills"] gets the fills the broker adapter found.
Drain ==
  /\ pc = "drain"
  /\ \E found \in SUBSET {f \in own : f.id \notin Booked},
        stamp \in {"filled_at", "now"} :
       /\ found = {f \in own : f.id \notin Booked} \/ "incomplete_drain" \in Env
       /\ stamp = "filled_at" \/ "late_stamp" \in Env
       /\ journal' = journal \cup {RowOf(f, stamp) : f \in found}
  /\ pc' = "asof"
  /\ UNCHANGED <<venueVars, snaps, label, asof, view, report, run>>

TakeAsOf ==
  /\ pc = "asof"
  /\ pc' = "read"
  /\ asof' = now
  /\ UNCHANGED <<venueVars, journal, snaps, label, view, report, run>>

\* The journal accounts for every fill in the positions, up to fills_as_of.
Settled == \A f \in own : \E r \in journal : r.id = f.id /\ r.ts <= asof

ReadPositions ==
  /\ pc = "read"
  /\ pc' = "compare"
  /\ view' = [pos |-> Held, out |-> outside, fee |-> Taken, settled |-> Settled]
  /\ UNCHANGED <<venueVars, journal, snaps, label, asof, report, run>>

\* A broker call before or in reconcile raises: the comparison is skipped.
TickError ==
  /\ "tick_error" \in Env
  /\ pc \in {"drain", "asof", "read"}
  /\ EndTick
  /\ UNCHANGED <<venueVars, journal, snaps, run>>

\* _last_snapshot: max() by the second in the key, the first of equals.
LastSnapshot == IF snaps = <<>> THEN {} ELSE {Head(snaps)}

\* Mutant: the window starts at the snapshot's ts, which is a whole second.
ExplainedSinceSecond(prev) ==
  {r \in journal : prev.sec * PerSecond < r.ts /\ r.ts <= asof}

\* _fill_qty_by_symbol: the journalled fills with after < ts <= until.
Explained(prev) == {r \in journal : prev.asof < r.ts /\ r.ts <= asof}

\* _drift, for the symbols the broker reports or the snapshot holds.
Residual(prev, s) ==
  IF view.pos[s] # 0 \/ prev.pos[s] # 0
    THEN view.pos[s] - (prev.pos[s] + Net(Explained(prev), s)) ELSE 0

\* What the comparison finds.  Without a snapshot this is the baseline.
Comparison ==
  [base |-> LastSnapshot,
   window |-> UNION {{r.id : r \in Explained(p)} : p \in LastSnapshot},
   drift |-> [s \in Symbols |->
                IF LastSnapshot = {} THEN 0 ELSE Residual(Head(snaps), s)],
   view |-> view]

\* Compare and persist the drifts.
Compare ==
  /\ pc = "compare"
  /\ pc' = "save"
  /\ report' = Comparison
  /\ UNCHANGED <<venueVars, journal, snaps, label, asof, view, run>>

\* Mutant: fills_as_of is when the snapshot is saved, after the positions read.
SnapshotAsOfNow ==
  [sec |-> Second(now), label |-> label, asof |-> now, pos |-> view.pos,
   out |-> view.out, fee |-> view.fee, settled |-> view.settled,
   netted |-> report.window \cup UNION {p.netted : p \in report.base}]

\* positions_to_snapshot, with the fills_as_of of the comparison.
NewSnapshot ==
  [sec |-> Second(now), label |-> label, asof |-> asof, pos |-> view.pos,
   out |-> view.out, fee |-> view.fee, settled |-> view.settled,
   netted |-> report.window \cup UNION {p.netted : p \in report.base}]

\* mall["positions"][(snap_ts, label)]: a new key goes last, a known one keeps
\* its place.  Rows of earlier seconds are never the most recent again.
SaveSnapshot ==
  /\ pc = "save"
  /\ EndTick
  /\ LET same == {i \in DOMAIN snaps : snaps[i].label = label}
     IN  snaps' =
           IF snaps = <<>> \/ snaps[1].sec < Second(now) THEN <<NewSnapshot>>
           ELSE IF same = {} THEN Append(snaps, NewSnapshot)
           ELSE [i \in DOMAIN snaps |-> IF i \in same THEN NewSnapshot ELSE snaps[i]]
  /\ UNCHANGED <<venueVars, journal, run>>

\* The process dies; the next one reconciles at start-up, before any drain.
Crash ==
  /\ "crash" \in Env
  /\ run < MaxRuns
  /\ run' = run + 1
  /\ pc' = "asof" /\ label' = 0 /\ asof' = 0 /\ view' = NoView
  /\ report' = NoReport
  /\ UNCHANGED <<venueVars, journal, snaps>>

-------------------------------------------------------------------------------
Init ==
  /\ now = PerSecond
  /\ own = {} /\ outside = Flat /\ trades = 0
  /\ journal = {} /\ snaps = <<>>
  /\ pc = "asof" /\ label = 0 /\ asof = 0
  /\ view = NoView /\ report = NoReport /\ run = 1

Venue == OwnFill \/ OutsideTrade \/ Elapse

Tick == \/ StartTick \/ Drain \/ TakeAsOf \/ ReadPositions \/ TickError
        \/ Compare \/ SaveSnapshot

Next == Venue \/ Tick \/ Crash

Spec == Init /\ [][Next]_vars

-------------------------------------------------------------------------------
(* Properties.                                                             *)

TypeOK ==
  /\ now \in Instants
  /\ own \in SUBSET Fill
  /\ outside \in Quantities
  /\ trades \in 0 .. MaxOutside
  /\ journal \in SUBSET Fill
  /\ snaps \in Seq(Snapshot)
  /\ pc \in {"idle", "drain", "asof", "read", "compare", "save"}
  /\ label \in Nat
  /\ asof \in Nat
  /\ view \in View
  /\ report \in Report
  /\ run \in Nat

\* Between two comparisons made while the journal was up to date, the reported
\* drift of a symbol held at either end is exactly what others traded in between
\* less the fees taken in kind, which show "as the unexplained part only": no own
\* trade is blamed beyond its fee, no outside trade is missed, whatever the
\* interleaving, failed ticks, restarts and equal-second snapshots
\* (Runner.reconcile).
SettledDriftIsExact ==
  \A p \in report.base :
    report.view.settled /\ p.settled =>
      \A s \in Symbols :
        report.view.pos[s] # 0 \/ p.pos[s] # 0 =>
          report.drift[s] = (report.view.out[s] - p.out[s])
                              - (report.view.fee[s] - p.fee[s])

\* Along a chain of snapshots, each compared with the one before, a fill is
\* netted out at most once (the half-open window of _fill_qty_by_symbol).
NettedOnce == \A p \in report.base : report.window \cap p.netted = {}

===============================================================================
