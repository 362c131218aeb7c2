--------------------------- MODULE FillJournalProofs ---------------------------
(***************************************************************************)
(* Proofs about FillJournal, for every set of orders, order size, poll     *)
(* limit and environment.                                                  *)
(***************************************************************************)
EXTENDS FillJournal, TLAPS

-------------------------------------------------------------------------------
(* Facts about the operators of FillJournal.                               *)

\* Appending an element of S to a sequence over S.
LEMMA Appended ==
  ASSUME NEW S, NEW s \in Seq(S), NEW e \in S PROVE Append(s, e) \in Seq(S)
OBVIOUS

\* Popping a nonempty sequence over S.
LEMMA Popped ==
  ASSUME NEW S, NEW s \in Seq(S), s # <<>>
  PROVE  Head(s) \in S /\ Tail(s) \in Seq(S)
OBVIOUS

\* A push keeps the wire a sequence of trade updates.
LEMMA PushTyped ==
  ASSUME TypeOK, NEW o \in Orders, NEW q \in 1 .. Lot, NEW at \in Nat,
         Push(o, q, at)
  PROVE  wire' \in Seq(Update)
<1>1. [id |-> o, qty |-> q, at |-> at] \in Update
  BY DEF Update
<1>2. wire \in Seq(Update)
  BY DEF TypeOK
<1>3. QED
  BY <1>1, <1>2, Appended DEF Push

\* Taking a fill keeps the drain's variables typed.
LEMMA TakeTyped ==
  ASSUME TypeOK, NEW f \in Fill, Take(f)
  PROVE  seen' \in SUBSET Orders /\ wm' \in Nat /\ out' \in SUBSET Fill
<1>1. f.id \in Orders /\ f.ts \in Nat
  BY DEF Fill
<1>2. QED
  BY <1>1 DEF Take, Later, TypeOK

\* The fill the poll makes of a closed order with a filled quantity.
LEMMA PolledFillTyped ==
  ASSUME TypeOK, JournalAssumption, NEW o \in Orders, filled[o] # 0
  PROVE  [id |-> o, qty |-> filled[o],
          ts |-> IF filled[o] = Lot THEN doneAt[o] ELSE now] \in Fill
BY DEF TypeOK, Fill, JournalAssumption

\* What a step of the websocket thread's handler makes of an update is a fill.
LEMMA HandledFillTyped ==
  ASSUME TypeOK, NEW ev \in Update
  PROVE  [id |-> ev.id, qty |-> ev.qty,
          ts |-> IF ev.at = 0 THEN now ELSE ev.at] \in Fill
BY DEF TypeOK, Fill, Update

-------------------------------------------------------------------------------
(* Type correctness.                                                       *)

\* Every variable of FillJournal keeps its type.
THEOREM TypeCorrect == Spec => []TypeOK
<1> USE JournalAssumption
<1>1. Init => TypeOK
  BY DEF Init, TypeOK, JournalAssumption
<1>2. TypeOK /\ [Next]_vars => TypeOK'
  <2> SUFFICES ASSUME TypeOK, [Next]_vars PROVE TypeOK'
    OBVIOUS
  <2> USE DEF venueVars, streamVars, drainVars, logVars
  <2>1. ASSUME NEW o \in Orders, PartialFill(o) PROVE TypeOK'
    <3>1. filled[o] + 1 \in 1 .. Lot /\ filled' \in [Orders -> 0 .. Lot]
      BY <2>1 DEF PartialFill, TypeOK, JournalAssumption
    <3>2. wire' \in Seq(Update)
      BY <2>1, <3>1, PushTyped DEF PartialFill
    <3>3. QED
      BY <2>1, <3>1, <3>2 DEF PartialFill, TypeOK
  <2>2. ASSUME NEW o \in Orders, FillRest(o) PROVE TypeOK'
    <3>1. wire' \in Seq(Update)
      <4>1. now \in Nat /\ Lot \in 1 .. Lot
        BY DEF TypeOK, JournalAssumption
      <4>2. QED
        BY <2>2, <4>1, PushTyped DEF FillRest
    <3>2. QED
      BY <2>2, <3>1 DEF FillRest, TypeOK, JournalAssumption
  <2>3. ASSUME NEW o \in Orders, Send(o) \/ Cancel(o) PROVE TypeOK'
    BY <2>3 DEF Send, Cancel, TypeOK
  <2>4. CASE Elapse
    BY <2>4 DEF Elapse, TypeOK, JournalAssumption
  <2>5. CASE StreamConnect
    BY <2>5 DEF StreamConnect, TypeOK
  <2>6. CASE StreamDrop
    BY <2>6 DEF StreamDrop, TypeOK
  <2>7. CASE HandleUpdate
    <3> DEFINE ev == Head(wire)
               f == [id |-> ev.id, qty |-> ev.qty,
                     ts |-> IF ev.at = 0 THEN now ELSE ev.at]
    <3>1. wire \in Seq(Update) /\ wire # <<>> /\ queue \in Seq(Fill)
      BY <2>7 DEF HandleUpdate, TypeOK
    <3>2. ev \in Update /\ wire' \in Seq(Update)
      BY <2>7, <3>1, Popped DEF HandleUpdate
    <3>3. f \in Fill
      BY <3>2, HandledFillTyped
    <3>4. queue' = Append(queue, f)
      BY <2>7 DEF HandleUpdate
    <3>5. queue' \in Seq(Fill)
      BY <3>1, <3>3, <3>4, Appended
    <3>6. QED
      BY <2>7, <3>2, <3>5 DEF HandleUpdate, TypeOK
  <2>8. CASE StartDrain \/ StreamDrained \/ PollError \/ DrainDone
    BY <2>8 DEF StartDrain, StreamDrained, PollError, DrainDone, TypeOK
  <2>9. CASE PopStreamed
    <3>1. Head(queue) \in Fill /\ queue' \in Seq(Fill)
      BY <2>9, Popped DEF PopStreamed, TypeOK
    <3>2. seen' \in SUBSET Orders /\ wm' \in Nat /\ out' \in SUBSET Fill
      <4>1. CASE Head(queue).id \in seen
        BY <2>9, <4>1 DEF PopStreamed, TypeOK
      <4>2. CASE Head(queue).id \notin seen
        BY <2>9, <4>2, <3>1, TakeTyped DEF PopStreamed
      <4>3. QED
        BY <4>1, <4>2
    <3>3. QED
      BY <2>9, <3>1, <3>2 DEF PopStreamed, TypeOK
  <2>10. CASE Poll
    BY <2>10 DEF Poll, Recent, TypeOK
  <2>11. ASSUME NEW o \in Orders, PollStep(o) PROVE TypeOK'
    <3>1. seen' \in SUBSET Orders /\ wm' \in Nat /\ out' \in SUBSET Fill
      <4>1. CASE filled[o] = 0 \/ o \in seen
        BY <2>11, <4>1 DEF PollStep, TypeOK
      <4>2. CASE ~(filled[o] = 0 \/ o \in seen)
        BY <2>11, <4>2, PolledFillTyped, TakeTyped DEF PollStep
      <4>3. QED
        BY <4>1, <4>2
    <3>2. QED
      BY <2>11, <3>1 DEF PollStep, TypeOK
  <2>12. CASE JournalFill
    <3>1. PICK f \in out : WriteRow(f)
      BY <2>12 DEF JournalFill
    <3>2. [run |-> run, id |-> f.id, qty |-> f.qty, ts |-> f.ts] \in Row
      BY <3>1 DEF TypeOK, Fill, Row
    <3>3. journal' \in SUBSET Row
      BY <3>1, <3>2 DEF WriteRow, TypeOK
    <3>4. QED
      BY <2>12, <3>3 DEF JournalFill, TypeOK
  <2>13. CASE JournalError
    <3>1. InHand \subseteq Orders
      BY DEF InHand, TypeOK, Fill
    <3>2. QED
      BY <2>13, <3>1 DEF JournalError, TypeOK
  <2>14. CASE Crash
    BY <2>14 DEF Crash, TypeOK
  <2>15. CASE Boot
    <3>1. \A r \in journal : r.id \in Orders /\ r.ts \in Nat
      BY DEF TypeOK, Row
    <3>2. seen' \in SUBSET Orders /\ wm' \in Nat
      <4>1. CASE journal = {}
        BY <2>15, <4>1 DEF Boot, SeedWatermark, Latest, TypeOK
      <4>2. CASE journal # {}
        <5>1. PICK r \in journal : wm' = Later(wm, r.ts)
          BY <2>15, <4>2 DEF Boot, SeedWatermark, Latest
        <5>2. seen' = seen \cup Booked
          BY <2>15, <4>2 DEF Boot, SeedWatermark, Latest
        <5>3. QED
          BY <5>1, <5>2, <3>1 DEF Booked, Later, TypeOK
      <4>3. QED
        BY <4>1, <4>2
    <3>3. QED
      BY <2>15, <3>2 DEF Boot, TypeOK
  <2>16. CASE UNCHANGED vars
    BY <2>16 DEF vars, TypeOK
  <2>17. QED
    BY <2>1, <2>2, <2>3, <2>4, <2>5, <2>6, <2>7, <2>8, <2>9, <2>10, <2>11,
       <2>12, <2>13, <2>14, <2>15, <2>16 DEF Next, Venue, Stream, Drain
<1>3. QED
  BY <1>1, <1>2, PTL DEF Spec

-------------------------------------------------------------------------------
(* At most one row per order.                                              *)

\* A write adds the fill in hand to the booked orders and drops none.
LEMMA BookedAfterWrite ==
  ASSUME NEW f \in out, WriteRow(f)
  PROVE  Booked' = Booked \cup {f.id}
<1> DEFINE row == [run |-> run, id |-> f.id, qty |-> f.qty, ts |-> f.ts]
           kept == {r \in journal : r.run # run \/ r.id # f.id}
<1>1. journal' = kept \cup {row} /\ row.id = f.id
  BY DEF WriteRow
<1>2. ASSUME NEW i \in Booked' PROVE i \in Booked \cup {f.id}
  BY <1>1, <1>2 DEF Booked
<1>3. ASSUME NEW i \in Booked, i # f.id PROVE i \in Booked'
  <2>1. PICK r \in journal : r.id = i
    BY DEF Booked
  <2>2. r \in kept
    BY <1>3, <2>1
  <2>3. QED
    BY <1>1, <2>1, <2>2 DEF Booked
<1>4. f.id \in Booked'
  BY <1>1 DEF Booked
<1>5. QED
  BY <1>2, <1>3, <1>4

\* OnceInv is inductive: each way a fill comes into the caller's hand checks the
\* seen set first, and the seen set covers the journal from the boot on.
THEOREM OnceInvariant == Spec => []OnceInv
<1>1. Init => OnceInv
  BY DEF Init, OnceInv, OnceInJournal, Booked, InHand
<1>2. TypeOK /\ OnceInv /\ [Next]_vars => OnceInv'
  <2> SUFFICES ASSUME TypeOK, OnceInv, [Next]_vars PROVE OnceInv'
    OBVIOUS
  <2> USE DEF venueVars, streamVars, drainVars, logVars
  <2>1. CASE UNCHANGED <<seen, pc, out, journal>>
    BY <2>1 DEF OnceInv, OnceInJournal, Booked, InHand
  <2>2. ASSUME out = {}, pc \in {"stream", "poll"}, UNCHANGED <<pc, journal>>,
               NEW f \in Fill, f.id \notin seen, Take(f)
        PROVE  OnceInv'
    <3>1. Booked' = Booked /\ InHand' = {f.id}
      BY <2>2 DEF Booked, InHand, Take
    <3>2. Booked \subseteq seen
      BY <2>2 DEF OnceInv
    <3>3. OnceInJournal'
      BY <2>2 DEF OnceInv, OnceInJournal
    <3>4. QED
      BY <2>2, <3>1, <3>2, <3>3 DEF OnceInv, Take
  <2>3. CASE PopStreamed
    <3>1. CASE Head(queue).id \in seen
      BY <2>1, <2>3, <3>1 DEF PopStreamed
    <3>2. CASE Head(queue).id \notin seen
      <4>1. Head(queue) \in Fill
        BY <2>3, Popped DEF PopStreamed, TypeOK
      <4>2. QED
        BY <2>2, <2>3, <3>2, <4>1 DEF PopStreamed
    <3>3. QED
      BY <3>1, <3>2
  <2>4. ASSUME NEW o \in Orders, PollStep(o) PROVE OnceInv'
    <3>1. CASE filled[o] = 0 \/ o \in seen
      BY <2>1, <2>4, <3>1 DEF PollStep
    <3>2. CASE ~(filled[o] = 0 \/ o \in seen)
      <4> DEFINE f == [id |-> o, qty |-> filled[o],
                       ts |-> IF filled[o] = Lot THEN doneAt[o] ELSE now]
      <4>1. f \in Fill /\ f.id = o
        BY <3>2, PolledFillTyped, JournalAssumption
      <4>2. Take(f) /\ out = {} /\ pc = "poll" /\ UNCHANGED <<pc, journal>>
        BY <2>4, <3>2 DEF PollStep
      <4> HIDE DEF f
      <4>3. QED
        BY <2>2, <3>2, <4>1, <4>2
    <3>3. QED
      BY <3>1, <3>2
  <2>5. CASE StartDrain \/ StreamDrained \/ Poll \/ PollError \/ DrainDone
    <3>1. UNCHANGED <<seen, out, journal>> /\ out = {} /\ pc # "boot"
      BY <2>5 DEF StartDrain, StreamDrained, Poll, PollError, DrainDone, OnceInv
    <3>2. QED
      BY <3>1 DEF OnceInv, OnceInJournal, Booked, InHand
  <2>6. CASE JournalFill
    <3>1. PICK f \in out : WriteRow(f)
      BY <2>6 DEF JournalFill
    <3>2. out = {f} /\ InHand = {f.id} /\ out' = {} /\ InHand' = {}
      BY <2>6, <3>1 DEF OnceInv, InHand, JournalFill
    <3>3. Booked' = Booked \cup {f.id} /\ f.id \notin Booked
      BY <3>1, <3>2, BookedAfterWrite DEF OnceInv
    <3>4. OnceInJournal'
      BY <3>1, <3>3 DEF WriteRow, OnceInv, OnceInJournal, Booked
    <3>5. UNCHANGED <<seen, pc>>
      BY <2>6 DEF JournalFill
    <3>6. QED
      BY <3>2, <3>3, <3>4, <3>5 DEF OnceInv
  <2>7. CASE JournalError
    <3>1. out' = {} /\ pc' = "idle" /\ UNCHANGED <<seen, journal>> /\ pc # "boot"
      BY <2>7 DEF JournalError, OnceInv
    <3>2. QED
      BY <3>1 DEF OnceInv, OnceInJournal, Booked, InHand
  <2>8. CASE Crash
    BY <2>8 DEF Crash, OnceInv, OnceInJournal, Booked, InHand
  <2>9. CASE Boot
    <3>1. out = {} /\ out' = {} /\ UNCHANGED journal /\ pc' = "idle"
      BY <2>9 DEF Boot, OnceInv
    <3>2. Booked \subseteq seen'
      BY <2>9 DEF Boot, SeedWatermark, Latest, Booked
    <3>3. QED
      BY <3>1, <3>2 DEF OnceInv, OnceInJournal, Booked, InHand
  <2>10. QED
    <3>1. CASE UNCHANGED vars
      BY <2>1, <3>1 DEF vars
    <3>2. CASE Venue \/ Elapse \/ Stream
      <4>1. UNCHANGED <<seen, pc, out, journal>>
        BY <3>2 DEF Venue, Send, PartialFill, FillRest, Cancel, Elapse, Stream,
                    StreamConnect, StreamDrop, HandleUpdate
      <4>2. QED
        BY <2>1, <4>1
    <3>3. QED
      BY <2>3, <2>4, <2>5, <2>6, <2>7, <2>8, <2>9, <3>1, <3>2 DEF Next, Drain
<1>3. QED
  BY <1>1, <1>2, TypeCorrect, PTL DEF Spec

\* An order never has two rows in mall["fills"].
THEOREM JournalledOnce == Spec => []OnceInJournal
<1>1. OnceInv => OnceInJournal
  BY DEF OnceInv
<1>2. QED
  BY <1>1, OnceInvariant, PTL

-------------------------------------------------------------------------------
(* The seen set.                                                           *)

\* An id in _seen_fills is journalled, in hand, or lost by a failing write.
THEOREM SeenBooked == Spec => []SeenIsBooked
<1>1. Init => SeenIsBooked
  BY DEF Init, SeenIsBooked
<1>2. TypeOK /\ OnceInv /\ SeenIsBooked /\ [Next]_vars => SeenIsBooked'
  <2> SUFFICES ASSUME TypeOK, OnceInv, SeenIsBooked, [Next]_vars
               PROVE  SeenIsBooked'
    OBVIOUS
  <2> USE DEF venueVars, streamVars, drainVars, logVars
  <2>1. CASE UNCHANGED <<seen, out, journal, failed>>
    BY <2>1 DEF SeenIsBooked, Booked, InHand
  <2>2. ASSUME out = {}, UNCHANGED <<journal, failed>>, NEW f, Take(f)
        PROVE  SeenIsBooked'
    BY <2>2 DEF SeenIsBooked, Booked, InHand, Take
  <2>3. CASE PopStreamed
    BY <2>1, <2>2, <2>3 DEF PopStreamed
  <2>4. ASSUME NEW o \in Orders, PollStep(o) PROVE SeenIsBooked'
    BY <2>1, <2>2, <2>4 DEF PollStep
  <2>5. CASE JournalFill
    <3>1. PICK f \in out : WriteRow(f)
      BY <2>5 DEF JournalFill
    <3>2. InHand = {f.id} /\ Booked' = Booked \cup {f.id}
      BY <3>1, BookedAfterWrite DEF OnceInv, InHand
    <3>3. UNCHANGED <<seen, failed>>
      BY <2>5 DEF JournalFill
    <3>4. QED
      BY <3>2, <3>3 DEF SeenIsBooked
  <2>6. CASE JournalError
    BY <2>6 DEF JournalError, SeenIsBooked, Booked, InHand
  <2>7. CASE Crash
    BY <2>7 DEF Crash, SeenIsBooked
  <2>8. CASE Boot
    <3>1. seen' \subseteq seen \cup Booked
      BY <2>8 DEF Boot, SeedWatermark, Latest
    <3>2. UNCHANGED <<out, journal, failed>>
      BY <2>8 DEF Boot
    <3>3. QED
      BY <3>1, <3>2 DEF SeenIsBooked, Booked, InHand
  <2>9. CASE StartDrain \/ StreamDrained \/ Poll \/ PollError \/ DrainDone
    BY <2>1, <2>9 DEF StartDrain, StreamDrained, Poll, PollError, DrainDone
  <2>10. CASE Venue \/ Elapse \/ Stream
    BY <2>1, <2>10 DEF Venue, Send, PartialFill, FillRest, Cancel, Elapse,
                       Stream, StreamConnect, StreamDrop, HandleUpdate
  <2>11. CASE UNCHANGED vars
    BY <2>1, <2>11 DEF vars
  <2>12. QED
    BY <2>3, <2>4, <2>5, <2>6, <2>7, <2>8, <2>9, <2>10, <2>11 DEF Next, Drain
<1>3. QED
  BY <1>1, <1>2, TypeCorrect, OnceInvariant, PTL DEF Spec

-------------------------------------------------------------------------------
(* The journal implements the ledger.                                      *)

\* A sequence over S is a sequence over any superset of S.
LEMMA SeqGrows ==
  ASSUME NEW S, NEW T, S \subseteq T, NEW s \in Seq(S) PROVE s \in Seq(T)
OBVIOUS

\* As the venue fills orders, what was really executed stays so.
LEMMA RealGrows ==
  ASSUME TypeOK, TypeOK', \A o \in Orders : filled[o] <= filled'[o]
  PROVE  /\ RealUpdate \subseteq RealUpdate'
         /\ RealFill \subseteq RealFill'
         /\ RealInv => /\ wire \in Seq(RealUpdate')
                       /\ queue \in Seq(RealFill')
                       /\ out \subseteq RealFill'
                       /\ \A r \in journal : r.qty <= filled'[r.id]
<1>1. RealUpdate \subseteq RealUpdate'
  BY DEF RealUpdate, Update, TypeOK
<1>2. RealFill \subseteq RealFill'
  BY DEF RealFill, Fill, TypeOK
<1>3. ASSUME RealInv, NEW r \in journal PROVE r.qty <= filled'[r.id]
  BY <1>3 DEF RealInv, TypeOK, Row
<1>4. QED
  BY <1>1, <1>2, <1>3, SeqGrows DEF RealInv

\* Every quantity that reaches the journal was executed at the venue.
THEOREM RealInvariant == Spec => []RealInv
<1> USE JournalAssumption
<1>1. Init => RealInv
  BY DEF Init, RealInv
<1>2. TypeOK /\ TypeOK' /\ RealInv /\ [Next]_vars => RealInv'
  <2> SUFFICES ASSUME TypeOK, TypeOK', RealInv, [Next]_vars PROVE RealInv'
    OBVIOUS
  <2> USE DEF venueVars, streamVars, drainVars, logVars
  <2>1. CASE UNCHANGED <<filled, wire, queue, out, journal>>
    BY <2>1 DEF RealInv, RealUpdate, RealFill
  <2>2. ASSUME NEW o \in Orders, NEW q \in 1 .. Lot, NEW at \in Nat,
               filled' = [filled EXCEPT ![o] = q], filled[o] <= q,
               Push(o, q, at), UNCHANGED <<queue, out, journal>>
        PROVE  RealInv'
    <3>1. filled'[o] = q /\ \A p \in Orders : filled[p] <= filled'[p]
      <4>1. filled \in [Orders -> 0 .. Lot]
        BY DEF TypeOK
      <4>2. QED
        BY <2>2, <4>1
    <3>2. [id |-> o, qty |-> q, at |-> at] \in RealUpdate'
      BY <2>2, <3>1 DEF RealUpdate, Update
    <3>3. wire \in Seq(RealUpdate')
      BY <3>1, RealGrows
    <3>4. wire' \in Seq(RealUpdate')
      BY <2>2, <3>2, <3>3, Appended DEF Push
    <3>5. QED
      BY <2>2, <3>1, <3>4, RealGrows DEF RealInv
  <2>3. ASSUME NEW o \in Orders, PartialFill(o) PROVE RealInv'
    <3>1. filled[o] + 1 \in 1 .. Lot /\ filled[o] <= filled[o] + 1 /\ 0 \in Nat
      BY <2>3 DEF PartialFill, TypeOK, JournalAssumption
    <3>2. /\ filled' = [filled EXCEPT ![o] = filled[o] + 1]
          /\ Push(o, filled[o] + 1, 0) /\ UNCHANGED <<queue, out, journal>>
      BY <2>3 DEF PartialFill
    <3>3. QED
      BY <2>2, <3>1, <3>2
  <2>4. ASSUME NEW o \in Orders, FillRest(o) PROVE RealInv'
    <3>1. Lot \in 1 .. Lot /\ filled[o] <= Lot /\ now \in Nat
      BY DEF TypeOK, JournalAssumption
    <3>2. /\ filled' = [filled EXCEPT ![o] = Lot] /\ Push(o, Lot, now)
          /\ UNCHANGED <<queue, out, journal>>
      BY <2>4 DEF FillRest
    <3>3. QED
      BY <2>2, <3>1, <3>2
  <2>5. CASE HandleUpdate
    <3> DEFINE ev == Head(wire)
               f == [id |-> ev.id, qty |-> ev.qty,
                     ts |-> IF ev.at = 0 THEN now ELSE ev.at]
    <3>1. ev \in RealUpdate /\ wire' \in Seq(RealUpdate)
      BY <2>5, Popped DEF HandleUpdate, RealInv
    <3>2. f \in Fill
      BY <3>1, HandledFillTyped DEF RealUpdate
    <3>3. f \in RealFill
      BY <3>1, <3>2 DEF RealFill, RealUpdate
    <3>4. queue' \in Seq(RealFill)
      <4>1. queue' = Append(queue, f) /\ queue \in Seq(RealFill)
        BY <2>5 DEF HandleUpdate, RealInv
      <4> HIDE DEF f
      <4>2. QED
        BY <3>3, <4>1, Appended
    <3>5. UNCHANGED <<filled, out, journal>>
      BY <2>5 DEF HandleUpdate
    <3>6. QED
      BY <3>1, <3>4, <3>5 DEF RealInv, RealFill, RealUpdate
  <2>6. CASE StreamDrop
    <3>1. wire' = <<>> /\ UNCHANGED <<filled, queue, out, journal>>
      BY <2>6 DEF StreamDrop
    <3>2. QED
      BY <3>1 DEF RealInv, RealFill
  <2>7. CASE PopStreamed
    <3>1. Head(queue) \in RealFill /\ queue' \in Seq(RealFill)
      BY <2>7, Popped DEF PopStreamed, RealInv
    <3>2. out' \subseteq RealFill /\ UNCHANGED <<filled, wire, journal>>
      BY <2>7, <3>1 DEF PopStreamed, Take, RealInv
    <3>3. QED
      BY <3>1, <3>2 DEF RealInv, RealFill, RealUpdate
  <2>8. ASSUME NEW o \in Orders, PollStep(o) PROVE RealInv'
    <3> DEFINE f == [id |-> o, qty |-> filled[o],
                     ts |-> IF filled[o] = Lot THEN doneAt[o] ELSE now]
    <3>1. filled[o] # 0 => f \in RealFill
      <4>1. filled[o] # 0 => f \in Fill
        BY PolledFillTyped
      <4>2. f.qty = filled[f.id] /\ filled[o] \in Nat
        BY DEF TypeOK
      <4>3. QED
        BY <4>1, <4>2 DEF RealFill
    <3>2. out' \subseteq RealFill
      BY <2>8, <3>1 DEF PollStep, Take, RealInv
    <3>3. UNCHANGED <<filled, wire, queue, journal>>
      BY <2>8 DEF PollStep
    <3>4. QED
      BY <3>2, <3>3 DEF RealInv, RealFill, RealUpdate
  <2>9. CASE JournalFill
    <3>1. PICK f \in out : WriteRow(f)
      BY <2>9 DEF JournalFill
    <3>2. f.qty <= filled[f.id]
      BY <3>1 DEF RealInv, RealFill
    <3>3. \A r \in journal' : r.qty <= filled[r.id]
      BY <3>1, <3>2 DEF WriteRow, RealInv
    <3>4. out' = {} /\ UNCHANGED <<filled, wire, queue>>
      BY <2>9 DEF JournalFill
    <3>5. QED
      BY <3>3, <3>4 DEF RealInv, RealFill, RealUpdate
  <2>10. CASE JournalError
    BY <2>10 DEF JournalError, RealInv, RealFill, RealUpdate
  <2>11. CASE Crash
    BY <2>11 DEF Crash, RealInv
  <2>12. CASE \/ StartDrain \/ StreamDrained \/ Poll \/ PollError \/ DrainDone
              \/ Boot \/ Elapse \/ StreamConnect
    BY <2>1, <2>12 DEF StartDrain, StreamDrained, Poll, PollError, DrainDone,
                       Boot, Elapse, StreamConnect
  <2>13. ASSUME NEW o \in Orders, Send(o) \/ Cancel(o) PROVE RealInv'
    BY <2>1, <2>13 DEF Send, Cancel
  <2>14. CASE UNCHANGED vars
    BY <2>1, <2>14 DEF vars
  <2>15. QED
    BY <2>3, <2>4, <2>5, <2>6, <2>7, <2>8, <2>9, <2>10, <2>11, <2>12, <2>13,
       <2>14 DEF Next, Drain, Venue, Stream
<1>3. QED
  BY <1>1, <1>2, TypeCorrect, PTL DEF Spec

\* A write books the fill in hand and leaves every other line as it is.
LEMMA BookedQtyAfterWrite ==
  ASSUME TypeOK, OnceInv, OnceInv', NEW f \in out, WriteRow(f)
  PROVE  /\ BookedQty[f.id] = 0
         /\ BookedQty' = [BookedQty EXCEPT ![f.id] = f.qty]
<1> DEFINE row == [run |-> run, id |-> f.id, qty |-> f.qty, ts |-> f.ts]
<1>1. f.id \in Orders /\ f.id \notin Booked
  BY DEF TypeOK, Fill, OnceInv, InHand
<1>2. journal' = journal \cup {row} /\ row.id = f.id /\ row.qty = f.qty
  BY <1>1 DEF WriteRow, Booked
<1>3. Booked' = Booked \cup {f.id}
  BY BookedAfterWrite
<1>4. BookedQty'[f.id] = f.qty
  <2>1. \A r \in journal' : r.id = f.id => r = row
    BY <1>2 DEF OnceInv, OnceInJournal
  <2>2. (CHOOSE r \in journal' : r.id = f.id) = row
    BY <1>2, <2>1
  <2>3. QED
    BY <1>1, <1>2, <1>3, <2>2 DEF BookedQty
<1>5. ASSUME NEW o \in Orders, o # f.id PROVE BookedQty'[o] = BookedQty[o]
  <2>1. o \in Booked' <=> o \in Booked
    BY <1>3, <1>5
  <2>2. ASSUME o \in Booked
        PROVE  (CHOOSE r \in journal' : r.id = o) = (CHOOSE r \in journal : r.id = o)
    <3>1. PICK s \in journal : s.id = o
      BY <2>2 DEF Booked
    <3>2. \A r \in journal' : r.id = o => r = s
      BY <1>2, <3>1 DEF OnceInv, OnceInJournal
    <3>3. \A r \in journal : r.id = o => r = s
      BY <3>1 DEF OnceInv, OnceInJournal
    <3>4. s \in journal'
      BY <1>2
    <3>5. QED
      BY <3>1, <3>2, <3>3, <3>4
  <2>3. /\ BookedQty[o] = IF o \in Booked
                            THEN (CHOOSE r \in journal : r.id = o).qty ELSE 0
        /\ BookedQty'[o] = IF o \in Booked'
                             THEN (CHOOSE r \in journal' : r.id = o).qty ELSE 0
    BY DEF BookedQty
  <2>4. QED
    BY <2>1, <2>2, <2>3
<1>6. BookedQty[f.id] = 0
  BY <1>1 DEF BookedQty
<1>7. BookedQty' = [o \in Orders |-> BookedQty'[o]]
  BY DEF BookedQty
<1>8. BookedQty = [o \in Orders |-> BookedQty[o]]
  BY DEF BookedQty
<1>9. QED
  BY <1>1, <1>4, <1>5, <1>6, <1>7, <1>8

\* FillJournal implements FillLedger: whatever the streams, polls, crashes and
\* errors do, the journal is a write-once ledger of real executions.
THEOREM JournalImplementsLedger == Spec => ImplementsLedger
<1> USE JournalAssumption DEF Ledger!vars
<1>1. Init => Ledger!Init
  BY DEF Init, Ledger!Init, BookedQty, Booked
<1>2. /\ TypeOK /\ OnceInv /\ OnceInv' /\ RealInv /\ [Next]_vars
      => [Ledger!Next]_(Ledger!vars)
  <2> SUFFICES ASSUME TypeOK, OnceInv, OnceInv', RealInv, [Next]_vars
               PROVE  [Ledger!Next]_(Ledger!vars)
    OBVIOUS
  <2> USE DEF venueVars, streamVars, drainVars, logVars
  <2>1. CASE UNCHANGED <<filled, journal>>
    BY <2>1 DEF BookedQty, Booked
  <2>2. ASSUME NEW o \in Orders, NEW q \in 1 .. Lot, UNCHANGED journal,
               filled' = [filled EXCEPT ![o] = q], filled[o] <= q
        PROVE  [Ledger!Next]_(Ledger!vars)
    <3>1. UNCHANGED BookedQty
      BY <2>2 DEF BookedQty, Booked
    <3>2. CASE filled[o] = q
      BY <2>2, <3>1, <3>2 DEF TypeOK
    <3>3. CASE filled[o] # q
      <4>1. q \in (filled[o] + 1) .. Lot
        BY <2>2, <3>3 DEF TypeOK, JournalAssumption
      <4>2. Ledger!Execute(o)
        BY <2>2, <3>1, <4>1 DEF Ledger!Execute
      <4>3. QED
        BY <4>2 DEF Ledger!Next
    <3>4. QED
      BY <3>2, <3>3
  <2>3. ASSUME NEW o \in Orders, PartialFill(o)
        PROVE  [Ledger!Next]_(Ledger!vars)
    <3>1. filled[o] + 1 \in 1 .. Lot /\ filled[o] <= filled[o] + 1
      BY <2>3 DEF PartialFill, TypeOK, JournalAssumption
    <3>2. filled' = [filled EXCEPT ![o] = filled[o] + 1] /\ UNCHANGED journal
      BY <2>3 DEF PartialFill
    <3>3. QED
      BY <2>2, <3>1, <3>2
  <2>4. ASSUME NEW o \in Orders, FillRest(o)
        PROVE  [Ledger!Next]_(Ledger!vars)
    <3>1. Lot \in 1 .. Lot /\ filled[o] <= Lot
      BY DEF TypeOK, JournalAssumption
    <3>2. filled' = [filled EXCEPT ![o] = Lot] /\ UNCHANGED journal
      BY <2>4 DEF FillRest
    <3>3. QED
      BY <2>2, <3>1, <3>2
  <2>5. CASE JournalFill
    <3>1. PICK f \in out : WriteRow(f)
      BY <2>5 DEF JournalFill
    <3>2. f.id \in Orders /\ f.qty \in 1 .. filled[f.id]
      BY <3>1 DEF RealInv, RealFill, Fill, TypeOK
    <3>3. UNCHANGED filled
      BY <2>5 DEF JournalFill
    <3>4. Ledger!Book(f.id)
      BY <3>1, <3>2, <3>3, BookedQtyAfterWrite DEF Ledger!Book
    <3>5. QED
      BY <3>2, <3>4 DEF Ledger!Next
  <2>6. CASE \/ Elapse \/ Stream \/ Crash \/ Boot \/ StartDrain \/ PopStreamed
             \/ StreamDrained \/ Poll \/ PollError \/ DrainDone \/ JournalError
    BY <2>1, <2>6 DEF Elapse, Stream, StreamConnect, StreamDrop, HandleUpdate,
                      Crash, Boot, StartDrain, PopStreamed, StreamDrained, Poll,
                      PollError, DrainDone, JournalError
  <2>7. ASSUME NEW o \in Orders, PollStep(o) \/ Send(o) \/ Cancel(o)
        PROVE  [Ledger!Next]_(Ledger!vars)
    BY <2>1, <2>7 DEF PollStep, Send, Cancel
  <2>8. CASE UNCHANGED vars
    BY <2>1, <2>8 DEF vars
  <2>9. QED
    BY <2>3, <2>4, <2>5, <2>6, <2>7, <2>8 DEF Next, Drain, Venue
<1>3. QED
  BY <1>1, <1>2, TypeCorrect, OnceInvariant, RealInvariant, PTL
     DEF Spec, ImplementsLedger, Ledger!Spec

-------------------------------------------------------------------------------
(* Polling alone finds every prompt fill.                                  *)

\* Without a stream, a crash or a failing write, and while the lookback and the
\* page size cut nothing off, every order that filled within the overlap of being
\* sent and was closed when a poll is answered is journalled, in hand or in the
\* response still being read, however late other orders filled.
THEOREM PollingFindsPrompt == PollingOnly => (Spec => []PollFindsPrompt)
<1> SUFFICES ASSUME PollingOnly PROVE Spec => []PollFindsPrompt
  OBVIOUS
<1> USE JournalAssumption
<1>1. Init => PollInv
  BY DEF Init, PollInv, PollFindsPrompt, Unread, Prompt, PollingOnly,
         JournalAssumption
<1>2. TypeOK /\ OnceInv /\ SeenIsBooked /\ PollInv /\ [Next]_vars => PollInv'
  <2> SUFFICES ASSUME TypeOK, OnceInv, SeenIsBooked, PollInv, [Next]_vars
               PROVE  PollInv'
    OBVIOUS
  <2> USE DEF venueVars, streamVars, drainVars, logVars
  <2>1. ASSUME NEW o \in Orders, FillRest(o) PROVE PollInv'
    <3>1. /\ closed' = closed \cup {o} /\ now \in Nat
          /\ filled' = [filled EXCEPT ![o] = Lot]
          /\ doneAt' = [doneAt EXCEPT ![o] = now]
      BY <2>1 DEF FillRest, TypeOK
    <3>2. /\ UNCHANGED <<now, sentAt, link, wire, queue, seen, wm, pc, batch, out,
                         journal, run, due, failed>>
      BY <2>1 DEF FillRest, Push, PollInv
    <3>3. Booked' = Booked /\ InHand' = InHand
      BY <3>2 DEF Booked, InHand
    <3>4. o \notin batch
      BY <2>1 DEF FillRest, Open, PollInv
    <3>5. (\A p \in closed : p # o) /\ 1 <= sentAt[o]
      BY <2>1 DEF FillRest, Open, TypeOK
    <3>6. \A p \in closed' : /\ filled'[p] = Lot /\ 1 <= sentAt'[p]
                             /\ 1 <= doneAt'[p] /\ doneAt'[p] <= now'
      BY <3>1, <3>2, <3>5 DEF PollInv, TypeOK
    <3>7. \A p \in Unread' : /\ wm' <= doneAt'[p]
                             /\ \A b \in batch' : doneAt'[b] <= doneAt'[p]
      <4> TAKE p \in Unread'
      <4>1. \A b \in batch : doneAt'[b] = doneAt[b] /\ doneAt[b] <= now
        BY <3>1, <3>4 DEF PollInv, TypeOK
      <4>2. CASE p = o
        BY <3>1, <3>2, <4>1, <4>2 DEF PollInv, TypeOK
      <4>3. CASE p # o
        <5>1. p \in Unread
          BY <3>1, <3>2, <3>3, <4>3 DEF Unread, Prompt, TypeOK
        <5>2. doneAt'[p] = doneAt[p]
          BY <3>1, <5>1, <4>3 DEF Unread, Prompt, TypeOK
        <5>3. QED
          BY <3>2, <4>1, <5>1, <5>2 DEF PollInv
      <4>4. QED
        BY <4>2, <4>3
    <3>8. PollFindsPrompt'
      <4>1. ASSUME NEW p \in due', p \in Prompt', p # o PROVE p \in Prompt
        BY <3>1, <3>2, <4>1 DEF Prompt, TypeOK
      <4>2. o \notin due
        BY <2>1 DEF FillRest, Open, PollInv
      <4>3. QED
        BY <3>2, <3>3, <4>1, <4>2 DEF PollInv, PollFindsPrompt
    <3>9. QED
      BY <3>1, <3>2, <3>6, <3>7, <3>8 DEF PollInv
  <2>2. CASE Elapse
    <3>1. now' = now + 1 /\ now' <= Lookback /\ now \in Nat
      BY <2>2 DEF Elapse, PollingOnly, TypeOK, JournalAssumption
    <3>2. UNCHANGED <<sentAt, filled, closed, doneAt, link, wire, queue, seen, wm, pc,
                      batch, out, journal, run, due, failed>>
      BY <2>2 DEF Elapse
    <3>3. Booked' = Booked /\ InHand' = InHand /\ Unread' = Unread
      BY <3>2 DEF Booked, InHand, Unread, Prompt
    <3>4. wm' <= now' /\ \A o \in closed : doneAt[o] <= now'
      BY <3>1, <3>2 DEF PollInv, TypeOK
    <3>5. QED
      BY <3>1, <3>2, <3>3, <3>4 DEF PollInv, PollFindsPrompt, Prompt
  <2>3. CASE Poll
    <3>1. /\ batch = {} /\ out = {} /\ pc = "request" /\ pc' = "poll"
          /\ UNCHANGED <<now, sentAt, filled, closed, doneAt, link, wire, queue, seen, wm,
                         out, journal, failed>>
          /\ due' = {o \in closed : filled[o] > 0}
      BY <2>3 DEF Poll, OnceInv, PollInv
    <3>2. batch' = Recent
      <4>1. Recent \in SUBSET Orders
        BY DEF Recent, TypeOK
      <4>2. Cardinality(Recent) <= PollLimit
        BY <4>1 DEF PollingOnly
      <4>3. QED
        BY <2>3, <4>2 DEF Poll
    <3>3. Booked' = Booked /\ InHand = {} /\ InHand' = {}
      BY <3>1 DEF Booked, InHand
    <3>4. Recent \subseteq closed
      BY DEF Recent
    <3>5. Prompt \subseteq Booked \cup Recent
      <4> SUFFICES ASSUME NEW o \in Prompt, o \notin Booked PROVE o \in Recent
        OBVIOUS
      <4>1. o \in Unread /\ o \in closed /\ o \in Orders
        BY <3>1, <3>3 DEF Unread, Prompt, TypeOK
      <4>2. wm <= doneAt[o] /\ 1 <= sentAt[o] /\ now <= Lookback
        BY <4>1 DEF PollInv
      <4>3. doneAt[o] < sentAt[o] + Overlap
        BY DEF Prompt
      <4>4. doneAt[o] \in Nat /\ sentAt[o] \in Nat /\ wm \in Nat /\ now \in Nat
        BY <4>1 DEF TypeOK
      <4>5. QED
        BY <4>1, <4>2, <4>3, <4>4 DEF Recent, JournalAssumption
    <3>6. Unread' = {} /\ PollFindsPrompt'
      BY <3>1, <3>2, <3>3, <3>5 DEF Unread, PollFindsPrompt, Prompt
    <3>7. QED
      BY <3>1, <3>2, <3>4, <3>6 DEF PollInv
  <2>4. ASSUME NEW o \in Orders, PollStep(o) PROVE PollInv'
    <3>1. /\ pc = "poll" /\ out = {} /\ o \in batch /\ batch' = batch \ {o}
          /\ UNCHANGED <<now, sentAt, filled, closed, doneAt, link, wire, queue, pc,
                         journal, run, due, failed>>
      BY <2>4 DEF PollStep
    <3>2. o \in closed /\ filled[o] = Lot /\ filled[o] # 0
      BY <3>1 DEF PollInv, JournalAssumption
    <3>3. Booked' = Booked /\ InHand = {}
      BY <3>1 DEF Booked, InHand
    <3>4. CASE o \in seen
      <4>1. UNCHANGED <<seen, wm, out>> /\ InHand' = {}
        BY <2>4, <3>1, <3>4 DEF PollStep, InHand
      <4>2. o \in Booked
        BY <3>3, <3>4 DEF SeenIsBooked, PollInv
      <4>3. Unread' = Unread
        BY <3>1, <3>3, <4>1, <4>2 DEF Unread, Prompt
      <4>4. PollFindsPrompt'
        BY <3>1, <3>3, <4>1, <4>2 DEF PollInv, PollFindsPrompt, Prompt
      <4>5. QED
        BY <3>1, <4>1, <4>3, <4>4 DEF PollInv
    <3>5. CASE o \notin seen
      <4>1. /\ wm' = Later(wm, doneAt[o])
            /\ out' = {[id |-> o, qty |-> filled[o], ts |-> doneAt[o]]}
        BY <2>4, <3>2, <3>5 DEF PollStep, Take
      <4>2. InHand' = {o}
        BY <4>1 DEF InHand
      <4>3. Unread' = Unread
        BY <3>1, <3>3, <4>2 DEF Unread, Prompt
      <4>4. PollFindsPrompt'
        BY <3>1, <3>3, <4>2 DEF PollInv, PollFindsPrompt, Prompt
      <4>5. wm' <= now' /\ \A p \in Unread : wm' <= doneAt[p]
        BY <3>1, <3>2, <4>1 DEF PollInv, Later
      <4>6. QED
        BY <3>1, <4>3, <4>4, <4>5 DEF PollInv
    <3>6. QED
      BY <3>4, <3>5
  <2>5. CASE JournalFill
    <3>1. PICK f \in out : WriteRow(f)
      BY <2>5 DEF JournalFill
    <3>2. InHand = {f.id} /\ InHand' = {} /\ Booked' = Booked \cup {f.id}
      BY <2>5, <3>1, BookedAfterWrite DEF OnceInv, InHand, JournalFill
    <3>3. UNCHANGED <<now, sentAt, filled, closed, doneAt, link, wire, queue, seen, wm, pc,
                      batch, run, due, failed>>
      BY <2>5 DEF JournalFill
    <3>4. Unread' = Unread /\ PollFindsPrompt'
      BY <3>2, <3>3 DEF Unread, Prompt, PollInv, PollFindsPrompt
    <3>5. pc # "boot"
      BY <3>1 DEF OnceInv
    <3>6. QED
      BY <3>3, <3>4, <3>5 DEF PollInv
  <2>6. CASE Boot
    <3>1. /\ journal = {} /\ batch = {}
          /\ UNCHANGED <<now, sentAt, filled, closed, doneAt, link, wire, queue, seen, wm,
                         batch, out, journal, due, failed>>
      BY <2>6 DEF Boot, SeedWatermark, Latest, PollInv
    <3>2. Booked' = Booked /\ InHand' = InHand /\ Unread' = Unread
      BY <3>1 DEF Booked, InHand, Unread, Prompt
    <3>3. QED
      BY <3>1, <3>2 DEF PollInv, PollFindsPrompt, Prompt
  <2>7. CASE StartDrain \/ StreamDrained \/ PollError \/ DrainDone
    <3>1. /\ batch = {} /\ pc # "boot" /\ pc' # "boot"
          /\ UNCHANGED <<now, sentAt, filled, closed, doneAt, link, wire, queue, seen, wm,
                         batch, out, journal, due, failed>>
      BY <2>7 DEF StartDrain, StreamDrained, PollError, DrainDone, PollInv
    <3>2. Booked' = Booked /\ InHand' = InHand /\ Unread' = Unread
      BY <3>1 DEF Booked, InHand, Unread, Prompt
    <3>3. QED
      BY <3>1, <3>2 DEF PollInv, PollFindsPrompt, Prompt
  <2>8. CASE UNCHANGED vars
    <3>1. UNCHANGED <<now, sentAt, filled, closed, doneAt, link, wire, queue, seen, wm, pc,
                      batch, out, journal, due, failed>>
      BY <2>8 DEF vars
    <3>2. Booked' = Booked /\ InHand' = InHand /\ Unread' = Unread
      BY <3>1 DEF Booked, InHand, Unread, Prompt
    <3>3. QED
      BY <3>1, <3>2 DEF PollInv, PollFindsPrompt, Prompt
  <2>9. ASSUME NEW o \in Orders, Send(o) PROVE PollInv'
    <3>1. /\ sentAt' = [sentAt EXCEPT ![o] = now] /\ now \in Nat \ {0}
          /\ UNCHANGED <<now, filled, closed, doneAt, link, wire, queue, seen, wm,
                         pc, batch, out, journal, due, failed>>
      BY <2>9 DEF Send, TypeOK
    <3>2. o \notin closed
      BY <2>9 DEF Send, PollInv
    <3>3. \A p \in closed : sentAt'[p] = sentAt[p]
      BY <3>1, <3>2 DEF TypeOK
    <3>4. Prompt' = Prompt
      BY <3>1, <3>3 DEF Prompt
    <3>5. Booked' = Booked /\ InHand' = InHand /\ Unread' = Unread
      BY <3>1, <3>4 DEF Booked, InHand, Unread
    <3>6. QED
      BY <3>1, <3>3, <3>4, <3>5 DEF PollInv, PollFindsPrompt
  <2>10. /\ \A o \in Orders : ~PartialFill(o) /\ ~Cancel(o)
        /\ ~Stream /\ ~PopStreamed /\ ~JournalError /\ ~Crash
    BY DEF PollingOnly, PollInv, PartialFill, Cancel, Stream, StreamConnect,
           StreamDrop, HandleUpdate, PopStreamed, JournalError, Crash
  <2>11. QED
    BY <2>1, <2>2, <2>3, <2>4, <2>5, <2>6, <2>7, <2>8, <2>9, <2>10
       DEF Next, Venue, Drain
<1>3. PollInv => PollFindsPrompt
  BY DEF PollInv
<1>4. QED
  BY <1>1, <1>2, <1>3, TypeCorrect, OnceInvariant, SeenBooked, PTL DEF Spec

===============================================================================
