------------------------------ MODULE Decisions ------------------------------
(***************************************************************************)
(* From signals to vetted decisions: sizers and risk chain.                *)
(*                                                                         *)
(* A weight is a whole number of WeightUnits of NAV.  Of a score its sign  *)
(* is kept, and a score of 1 for its magnitude.  A decision is a symbol    *)
(* with a target weight; a middleware returns the set of what it lets      *)
(* through: one decision, or none for a veto.                              *)
(***************************************************************************)
EXTENDS Selection, FiniteSetsExt, SequencesExt

CONSTANTS
  WeightUnit,   \* the weight 1.0
  SizerMax,     \* max_weight of the sizers
  KellyWeight,  \* fraction * |score| for a score of 1 or -1
  PositionMax,  \* max_position_weight
  GrossMax,     \* max_gross_exposure
  LossMax       \* max_daily_loss, in WeightUnits of the opening NAV

ASSUME DecisionAssumption ==
  /\ WeightUnit \in Nat \ {0}
  /\ {SizerMax, KellyWeight, PositionMax, GrossMax, LossMax} \subseteq Nat

Magnitude(n) == IF n < 0 THEN -n ELSE n
SignOf(n) == IF n > 0 THEN 1 ELSE IF n < 0 THEN -1 ELSE 0

-------------------------------------------------------------------------------
(* Sizers: a sequence of signals to a sequence of decisions.               *)

Target(sig, w) == [symbol |-> sig.symbol, weight |-> w]

\* Signals with score 0 get no decision: what is held of them stays.
EqualWeight(signals) ==
  LET actives == Kept(signals, {k \in DOMAIN signals : signals[k].score # 0})
      w == Min({SizerMax, WeightUnit \div Len(actives)})
  IN [k \in DOMAIN actives |-> Target(actives[k], w * SignOf(actives[k].score))]

\* Mutant: the weight is not capped.
KellyUncapped(signals) ==
  [k \in DOMAIN signals |-> Target(signals[k], KellyWeight * SignOf(signals[k].score))]

\* Every signal gets a decision, also one with score 0.
KellyCapped(signals) ==
  [k \in DOMAIN signals |->
    Target(signals[k], Min({SizerMax, KellyWeight}) * SignOf(signals[k].score))]

-------------------------------------------------------------------------------
(* Risk: a decision to the set of what is left of it.                      *)

CapPosition(d) ==
  {[d EXCEPT !.weight = IF Magnitude(@) > PositionMax
                          THEN PositionMax * SignOf(@) ELSE @]}

\* others: the targets of the other symbols, which no caller provides.
CapGross(d, others) ==
  LET gross == MapThenSumSet(LAMBDA s : Magnitude(others[s]), DOMAIN others \ {d.symbol})
  IN IF gross + Magnitude(d.weight) > GrossMax THEN {} ELSE {d}

\* The breaker: now and opened are nav_now() and nav_today_open().
BlockOnLoss(d, opened, now) ==
  IF opened > 0 /\ (now - opened) * WeightUnit < - LossMax * opened THEN {} ELSE {d}

\* compose_middleware: left to right, a veto ends it.
Chain(d, A(_), B(_), C(_)) == UNION {UNION {C(d2) : d2 \in B(d1)} : d1 \in A(d)}

\* default_risk_middleware, as the runner calls it.
RiskChain(d, opened, now) ==
  Chain(d, CapPosition, LAMBDA d1 : CapGross(d1, <<>>),
        LAMBDA d2 : BlockOnLoss(d2, opened, now))

===============================================================================
