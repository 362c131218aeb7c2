--------------------------- MODULE TickOrdersProofs ---------------------------
(***************************************************************************)
(* What the order loop of Runner.tick guarantees for any universe, any     *)
(* target quantities, any minimal trade and any number of mishaps.         *)
(***************************************************************************)
EXTENDS TickOrders, TLAPS

\* What an accepted order adds to the open orders of its side is not negative.
LEMMA AcceptTyped ==
  ASSUME TypeOK, NEW s \in Symbols, Accept(s)
  PROVE  /\ ids' \in SUBSET Symbols
         /\ buying' \in [Symbols -> Nat]
         /\ selling' \in [Symbols -> Nat]
         /\ Exposure(s)' = Exposure(s) + Missing(s)
         /\ \A t \in Symbols \ {s} : Exposure(t)' = Exposure(t)
  <1>1. Missing(s) \in Int
    BY DEF TypeOK, Missing
  <1>2. held' = held
    BY DEF Accept
  <1>3. CASE Missing(s) > 0
    BY <1>1, <1>2, <1>3 DEF TypeOK, Accept, Exposure
  <1>4. CASE ~(Missing(s) > 0)
    <2>1. Missing(s) <= 0
      BY <1>1, <1>4
    <2> QED BY <1>1, <1>2, <1>4, <2>1 DEF TypeOK, Accept, Exposure
  <1> QED BY <1>3, <1>4

\* Every variable keeps its type, in every step of the tick and of the venue.
THEOREM TypeCorrect == Spec => []TypeOK
  <1> USE TickAssumption
  <1>1. Init => TypeOK
    BY DEF Init, TypeOK, Zero
  <1>2. TypeOK /\ [Next]_vars => TypeOK'
    <2> SUFFICES ASSUME TypeOK, [Next]_vars PROVE TypeOK'
      OBVIOUS
    <2> USE DEF TypeOK, venueVars, tickVars, keyVars, histVars
    <2>1. ASSUME NEW s \in Symbols, Fill(s) PROVE TypeOK'
      BY <2>1 DEF Fill, Mishap
    <2>2. ASSUME NEW s \in Symbols, Cancel(s) PROVE TypeOK'
      BY <2>2 DEF Cancel, Mishap
    <2>3. ASSUME NEW s \in Symbols, Retarget(s) PROVE TypeOK'
      BY <2>3 DEF Retarget, Mishap
    <2>4. CASE MarketClose \/ MarketOpen \/ NextSecond
      <3>1. faults' \in 0 .. MaxFaults
        BY <2>4 DEF MarketClose, MarketOpen, NextSecond, Mishap
      <3>2. /\ open' \in BOOLEAN /\ late' \in BOOLEAN /\ hours' \in BOOLEAN
            /\ UNCHANGED <<held, buying, selling, want, pc, tickVars, keyVars, histVars>>
        BY <2>4, Zenon DEF MarketClose, MarketOpen, NextSecond
      <3> QED BY <3>1, <3>2
    <2>5. CASE StartTick
      <3>1. faults' \in 0 .. MaxFaults /\ hours' \in BOOLEAN
        <4>1. \/ hours' = open /\ faults' = faults
              \/ faults < MaxFaults /\ faults' = faults + 1 /\ hours' = TRUE
          BY <2>5 DEF StartTick, Mishap
        <4>2. faults' \in 0 .. MaxFaults
          BY <4>1
        <4>3. hours' \in BOOLEAN
          BY <4>1, open \in BOOLEAN, Zenon
        <4> QED BY <4>2, <4>3
      <3>2. /\ ids' \in SUBSET Symbols /\ rows' \in SUBSET Symbols
            /\ raised' \in SUBSET Symbols
        BY <2>5 DEF StartTick
      <3>3. /\ UNCHANGED <<venueVars, want, todo, goal, seen, pending, sent, histVars>>
            /\ pc' = "positions" /\ late' = FALSE
        BY <2>5 DEF StartTick
      <3> QED BY <3>1, <3>2, <3>3
    <2>6. CASE ReadPositions
      <3>1. want \in [Symbols -> Int]
        OBVIOUS
      <3>2. /\ peak' \in [Symbols -> Int] /\ trough' \in [Symbols -> Int]
            /\ goal' \in [Symbols -> Int] /\ seen' \in [Symbols -> Int]
        BY <2>6, <3>1 DEF ReadPositions
      <3>3. faults' \in 0 .. MaxFaults /\ todo' \in SUBSET Symbols
        BY <2>6 DEF ReadPositions, Mishap
      <3>4. UNCHANGED <<venueVars, want, late, hours, pending, sent, keyVars,
                        cutBuys, cutSells, blind>> /\ pc' = "lookup"
        BY <2>6 DEF ReadPositions
      <3> QED BY <3>2, <3>3, <3>4
    <2>7. CASE LookUpPending
      BY <2>7 DEF LookUpPending, Working, Mishap, Zero
    <2>8. ASSUME NEW s \in Symbols, Skip(s) PROVE TypeOK'
      BY <2>8 DEF Skip
    <2>9. ASSUME NEW s \in Symbols, Submit(s) PROVE TypeOK'
      <3>1. Accept(s)
        BY <2>9 DEF Submit
      <3>2. held' = held /\ open' = open
        BY <3>1 DEF Accept
      <3> QED BY <2>9, <3>1, <3>2, AcceptTyped DEF Submit
    <2>10. ASSUME NEW s \in Symbols, SubmitRaises(s) PROVE TypeOK'
      <3>1. CASE Accept(s) /\ raised' = raised \cup {s} /\ Mishap("timeout")
        <4>1. held' = held /\ open' = open
          BY <3>1 DEF Accept
        <4> QED BY <2>10, <3>1, <4>1, AcceptTyped DEF SubmitRaises, Mishap
      <3>2. CASE UNCHANGED <<venueVars, ids, raised>> /\ (faults' = faults \/ Mishap("reject"))
        BY <2>10, <3>2 DEF SubmitRaises, Mishap
      <3> QED BY <2>10, <3>1, <3>2 DEF SubmitRaises
    <2>11. CASE LogOrder
      BY <2>11 DEF LogOrder
    <2>12. CASE EndTick
      BY <2>12 DEF EndTick, Forget, Zero
    <2>13. CASE TickError
      BY <2>13 DEF TickError, Forget, Zero, Mishap
    <2>14. CASE Crash
      BY <2>14 DEF Crash, Forget, Zero, Mishap
    <2>15. CASE UNCHANGED vars
      BY <2>15 DEF vars
    <2> QED BY <2>1, <2>2, <2>3, <2>4, <2>5, <2>6, <2>7, <2>8, <2>9, <2>10, <2>11,
               <2>12, <2>13, <2>14, <2>15 DEF Next, Venue, Tick, Orders
  <1> QED BY <1>1, <1>2, PTL DEF Spec

-------------------------------------------------------------------------------
\* The orders journal, from KeysInv: a row is an accepted order, and at the end
\* of a tick only an order whose answer or whose journal write failed has none.
THEOREM LogExact == Spec => []OrdersLogExact
  <1>1. Init => KeysInv
    BY DEF Init, KeysInv
  <1>2. TypeOK /\ KeysInv /\ [Next]_vars => KeysInv'
    <2> SUFFICES ASSUME TypeOK, KeysInv, [Next]_vars PROVE KeysInv'
      OBVIOUS
    <2> USE DEF KeysInv, venueVars, tickVars, keyVars, histVars
    <2>1. CASE Venue \/ UNCHANGED vars
      BY <2>1 DEF Venue, Fill, Cancel, Retarget, MarketClose, MarketOpen, NextSecond, vars
    <2>2. CASE StartTick
      BY <2>2 DEF StartTick
    <2>3. CASE ReadPositions \/ LookUpPending
      BY <2>3 DEF ReadPositions, LookUpPending, Working
    <2>4. ASSUME NEW s \in Symbols, Skip(s) PROVE KeysInv'
      BY <2>4 DEF Skip
    <2>5. ASSUME NEW s \in Symbols, Submit(s) PROVE KeysInv'
      BY <2>5 DEF Submit, Accept
    <2>6. ASSUME NEW s \in Symbols, SubmitRaises(s) PROVE KeysInv'
      BY <2>6 DEF SubmitRaises, Accept
    <2>7. CASE LogOrder \/ EndTick \/ TickError \/ Crash
      BY <2>7 DEF LogOrder, EndTick, TickError, Crash, Forget
    <2> QED BY <2>1, <2>2, <2>3, <2>4, <2>5, <2>6, <2>7 DEF Next, Tick, Orders
  <1>3. KeysInv => OrdersLogExact
    BY DEF KeysInv, OrdersLogExact
  <1> QED BY <1>1, <1>2, <1>3, TypeCorrect, PTL DEF Spec

-------------------------------------------------------------------------------
\* No over-trade, from BeliefInv: what the tick believes of a symbol it was never
\* blind to is off by cancelled orders at most, so the order it sends takes the
\* exposure to a decided target, give or take those.
THEOREM NeverOverTrades == Spec => []NoOverTrade
  <1> USE TickAssumption
  <1>1. Init => BeliefInv
    BY DEF Init, BeliefInv, NoOverTrade, Exposure, Zero
  <1>2. TypeOK /\ BeliefInv /\ [Next]_vars => BeliefInv'
    <2> SUFFICES ASSUME TypeOK, BeliefInv, [Next]_vars PROVE BeliefInv'
      OBVIOUS
    <2> USE DEF BeliefInv, NoOverTrade, venueVars, tickVars, keyVars, histVars
    <2>0. /\ todo \subseteq Symbols
          /\ \A t \in Symbols :
               /\ Exposure(t) \in Int /\ seen[t] \in Int /\ pending[t] \in Int
               /\ goal[t] \in Int /\ peak[t] \in Int /\ trough[t] \in Int
               /\ cutSells[t] \in Nat /\ cutBuys[t] \in Nat
      BY DEF TypeOK, Exposure
    <2>1. ASSUME NEW s \in Symbols, Fill(s) PROVE BeliefInv'
      <3>1. ASSUME NEW t \in Symbols PROVE Exposure(t)' = Exposure(t)
        <4>1. /\ held \in [Symbols -> Int]
              /\ buying \in [Symbols -> Nat] /\ selling \in [Symbols -> Nat]
          BY DEF TypeOK
        <4>2. CASE /\ buying' = [buying EXCEPT ![s] = @ - 1]
                   /\ held' = [held EXCEPT ![s] = @ + 1] /\ selling' = selling
          BY <4>1, <4>2 DEF Exposure
        <4>3. CASE /\ selling' = [selling EXCEPT ![s] = @ - 1]
                   /\ held' = [held EXCEPT ![s] = @ - 1] /\ buying' = buying
          BY <4>1, <4>3 DEF Exposure
        <4> QED BY <2>1, <4>2, <4>3 DEF Fill
      <3>2. blind \subseteq blind' /\ UNCHANGED <<pc, seen, pending, goal, todo>>
        BY <2>1 DEF Fill
      <3>3. UNCHANGED <<peak, trough, cutBuys, cutSells>>
        BY <2>1 DEF Fill
      <3>4. pc = "lookup" => \A t \in Symbols \ blind' : held'[t] = held[t]
        <4>1. pc = "lookup" => blind' = blind \cup {s}
          BY <2>1 DEF Fill
        <4>2. \A t \in Symbols \ {s} : held'[t] = held[t]
          BY <2>1 DEF Fill, TypeOK
        <4> QED BY <4>1, <4>2
      <3> QED BY <2>0, <3>1, <3>2, <3>3, <3>4
    <2>2. ASSUME NEW s \in Symbols, Cancel(s) PROVE BeliefInv'
      <3>1. UNCHANGED <<held, blind, pc, seen, pending, goal, todo, peak, trough>>
        BY <2>2 DEF Cancel
      <3>2. \A t \in Symbols :
              /\ cutSells[t] \in Nat /\ cutSells'[t] \in Nat
              /\ cutBuys[t] \in Nat /\ cutBuys'[t] \in Nat
              /\ Exposure(t) \in Int /\ Exposure(t)' \in Int
              /\ Exposure(t)' - Exposure(t) <= cutSells'[t] - cutSells[t]
              /\ Exposure(t) - Exposure(t)' <= cutBuys'[t] - cutBuys[t]
        BY <2>2 DEF Cancel, TypeOK, Exposure
      <3>3. NoOverTrade'
        BY <2>0, <3>1, <3>2
      <3>4. pc \in {"orders", "log"} =>
              \A t \in todo \ blind :
                /\ Exposure(t)' <= seen[t] + pending[t] + cutSells'[t]
                /\ Exposure(t)' >= seen[t] + pending[t] - cutBuys'[t]
        <4> SUFFICES ASSUME pc \in {"orders", "log"}, NEW t \in todo \ blind
                     PROVE  /\ Exposure(t)' <= seen[t] + pending[t] + cutSells'[t]
                            /\ Exposure(t)' >= seen[t] + pending[t] - cutBuys'[t]
          OBVIOUS
        <4>1. t \in Symbols
          BY <2>0
        <4>2. /\ Exposure(t) <= seen[t] + pending[t] + cutSells[t]
              /\ Exposure(t) >= seen[t] + pending[t] - cutBuys[t]
          OBVIOUS
        <4> QED BY <2>0, <3>2, <4>1, <4>2
      <3> QED BY <3>1, <3>3, <3>4
    <2>3. CASE \/ \E s \in Symbols : Retarget(s)
               \/ MarketClose \/ MarketOpen \/ NextSecond \/ UNCHANGED vars
      BY <2>3 DEF Retarget, MarketClose, MarketOpen, NextSecond, vars, Exposure
    <2>4. CASE StartTick
      BY <2>4 DEF StartTick, Exposure
    <2>5. CASE ReadPositions
      <3>1. ASSUME NEW t \in Symbols
            PROVE  /\ Exposure(t)' = Exposure(t)
                   /\ trough'[t] \in Int /\ peak'[t] \in Int
                   /\ trough'[t] <= goal'[t] /\ goal'[t] <= peak'[t]
                   /\ trough'[t] <= trough[t] /\ peak[t] <= peak'[t]
        <4>1. want[t] \in Int
          BY DEF TypeOK
        <4>2. Exposure(t)' = Exposure(t)
          BY <2>5 DEF ReadPositions, Exposure
        <4>3. /\ goal'[t] = want[t]
              /\ peak'[t] = IF want[t] > peak[t] THEN want[t] ELSE peak[t]
              /\ trough'[t] = IF want[t] < trough[t] THEN want[t] ELSE trough[t]
          BY <2>5 DEF ReadPositions
        <4> QED BY <2>0, <4>1, <4>2, <4>3
      <3>3. UNCHANGED <<held, blind, cutBuys, cutSells>> /\ pc' = "lookup" /\ seen' = held
        BY <2>5 DEF ReadPositions
      <3>4. NoOverTrade'
        BY <2>0, <3>1, <3>3
      <3> QED BY <3>1, <3>3, <3>4
    <2>6. CASE LookUpPending
      <3>1. /\ pc = "lookup" /\ pc' = "orders" /\ blind \subseteq blind'
            /\ UNCHANGED <<held, buying, selling, seen, goal, peak, trough,
                           cutBuys, cutSells, todo>>
        BY <2>6 DEF LookUpPending, Working
      <3>2. \A t \in Symbols \ blind' : /\ Exposure(t)' = seen'[t] + pending'[t]
                                         /\ pending'[t] \in Int
        <4>1. \A t \in Symbols \ blind' : pending'[t] = buying[t] - selling[t]
          <5>1. CASE pending' = [t \in Symbols |-> buying[t] - selling[t]]
            BY <5>1
          <5>2. CASE /\ pending' = Zero
                     /\ blind' = blind \cup {t \in Symbols : buying[t] + selling[t] > 0}
            <6>1. buying \in [Symbols -> Nat] /\ selling \in [Symbols -> Nat]
              BY DEF TypeOK
            <6>2. \A t \in Symbols \ blind' : buying[t] = 0 /\ selling[t] = 0
              BY <5>2, <6>1
            <6> QED BY <5>2, <6>2 DEF Zero
          <5> QED BY <2>6, <5>1, <5>2 DEF LookUpPending, Working
        <4>2. \A t \in Symbols \ blind' : seen'[t] = held[t]
          BY <3>1
        <4> QED BY <3>1, <4>1, <4>2 DEF TypeOK, Exposure
      <3>3. \A t \in Symbols : Exposure(t)' = Exposure(t)
        BY <3>1 DEF Exposure
      <3>4. NoOverTrade'
        BY <3>1, <3>3
      <3>5. \A t \in todo' \ blind' :
              /\ Exposure(t)' <= seen'[t] + pending'[t] + cutSells'[t]
              /\ Exposure(t)' >= seen'[t] + pending'[t] - cutBuys'[t]
        <4> SUFFICES ASSUME NEW t \in todo \ blind'
                     PROVE  /\ Exposure(t)' <= seen'[t] + pending'[t] + cutSells'[t]
                            /\ Exposure(t)' >= seen'[t] + pending'[t] - cutBuys'[t]
          BY <3>1
        <4>1. t \in Symbols
          BY <2>0
        <4> QED BY <2>0, <3>1, <3>2, <3>3, <4>1
      <3> QED BY <2>0, <3>1, <3>4, <3>5
    <2>7. ASSUME NEW s \in Symbols, Skip(s) PROVE BeliefInv'
      BY <2>7 DEF Skip, Exposure
    <2>8. ASSUME NEW s \in Symbols, s \in todo, pc = "orders", Accept(s),
                 todo' = todo \ {s}, pc' \in {"orders", "log"},
                 UNCHANGED <<seen, pending, goal, blind, peak, trough, cutBuys, cutSells>>
          PROVE  BeliefInv'
      <3>1. /\ Exposure(s)' = Exposure(s) + Missing(s)
            /\ \A t \in Symbols \ {s} : Exposure(t)' = Exposure(t)
        BY <2>8, AcceptTyped
      <3>2. s \notin blind => /\ Exposure(s)' <= peak[s] + cutSells[s]
                              /\ Exposure(s)' >= trough[s] - cutBuys[s]
        <4>1. /\ Exposure(s) \in Int /\ seen[s] \in Int /\ pending[s] \in Int
              /\ goal[s] \in Int /\ peak[s] \in Int /\ trough[s] \in Int
              /\ cutSells[s] \in Int /\ cutBuys[s] \in Int
          BY DEF TypeOK, Exposure
        <4>2. trough[s] <= goal[s] /\ goal[s] <= peak[s]
          BY <2>8
        <4>3. s \notin blind => /\ Exposure(s) <= seen[s] + pending[s] + cutSells[s]
                                /\ Exposure(s) >= seen[s] + pending[s] - cutBuys[s]
          BY <2>8
        <4> QED BY <3>1, <4>1, <4>2, <4>3 DEF Missing
      <3>3. NoOverTrade'
        BY <2>8, <3>1, <3>2
      <3>4. \A t \in todo' : t \in Symbols \ {s} /\ t \in todo
        BY <2>8 DEF TypeOK
      <3> QED BY <2>8, <3>1, <3>3, <3>4
    <2>9. ASSUME NEW s \in Symbols, Submit(s) PROVE BeliefInv'
      BY <2>8, <2>9 DEF Submit
    <2>10. ASSUME NEW s \in Symbols, SubmitRaises(s) PROVE BeliefInv'
      <3>1. CASE Accept(s)
        BY <2>8, <2>10, <3>1 DEF SubmitRaises
      <3>2. CASE UNCHANGED venueVars
        BY <2>10, <3>2 DEF SubmitRaises, Exposure
      <3> QED BY <2>10, <3>1, <3>2 DEF SubmitRaises
    <2>11. CASE LogOrder
      BY <2>11 DEF LogOrder, Exposure
    <2>12. CASE EndTick \/ TickError \/ Crash
      BY <2>12 DEF EndTick, TickError, Crash, Forget, Exposure
    <2> QED BY <2>1, <2>2, <2>3, <2>4, <2>5, <2>6, <2>7, <2>9, <2>10, <2>11,
               <2>12 DEF Next, Venue, Tick, Orders
  <1>3. BeliefInv => NoOverTrade
    BY DEF BeliefInv
  <1> QED BY <1>1, <1>2, <1>3, TypeCorrect, PTL DEF Spec
===============================================================================
