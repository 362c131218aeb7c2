------------------------------ MODULE FillJournal ------------------------------
(***************************************************************************)
(* How executions at the venue reach the fill journal mall["fills"].       *)
(*                                                                         *)
(* Two paths bring a fill into the process (AlpacaBroker.fills): trade     *)
(* updates pushed by a websocket thread into a queue, and a poll of the    *)
(* closed orders SENT after a watermark, which is the latest time at which *)
(* one FILLED.  Both mark the order id as seen and move the watermark      *)
(* BEFORE the fill is handed to Runner.tick, which then writes the journal *)
(* row.  A restart loses the queue, the seen set and the watermark, and    *)
(* make_runner rebuilds the last two from the journal.                     *)
(*                                                                         *)
(* Time is in units of which Overlap make the second the poll reaches      *)
(* back; timestamps start at 1 and 0 stands for None.                      *)
(***************************************************************************)
EXTENDS Naturals, Sequences, FiniteSets

CONSTANTS
  Orders,     \* ids of the orders the bot sends
  Lot,        \* size of every order; fills are cumulative quantities 1..Lot
  Overlap,    \* how far the poll reaches behind the watermark (one second)
  Lookback,   \* how far it reaches back without a watermark (one day)
  PollLimit,  \* orders one poll returns at most (200 in the code)
  Env,        \* which environment behaviours this instance allows
  MaxTime,    \* bound: last second of the clock
  MaxRuns     \* bound: number of processes started, the first one included

Behaviours ==
  {"stream", "partial", "cancel", "drop", "poll_error", "journal_error", "crash"}

ASSUME JournalAssumption ==
  /\ Lot \in Nat \ {0}
  /\ Overlap \in Nat \ {0}
  /\ Lookback \in Nat
  /\ PollLimit \in Nat \ {0}
  /\ Env \subseteq Behaviours
  /\ MaxTime \in Nat
  /\ MaxRuns \in Nat

VARIABLES
  now,       \* the clock
  sentAt,    \* venue: when the order was submitted, 0 before
  filled,    \* venue: filled[o], the cumulative filled_qty of o
  closed,    \* venue: orders filled completely, or cancelled
  doneAt,    \* venue: when a closed order closed, 0 before
  link,      \* the trade-update websocket: "up" or "down"
  wire,      \* trade updates sent and not yet handled
  queue,     \* _streamed_fills
  seen,      \* _seen_fills
  wm,        \* _fill_watermark
  pc,        \* where the tick thread is
  batch,     \* orders of the current poll response not yet looked at
  out,       \* the fill yielded by fills() and not yet journalled, if any
  journal,   \* rows of mall["fills"]
  run,       \* run_id: which process is running
  due,       \* history: orders closed when the last poll was answered
  failed     \* history: ids whose journal write raised in this process

venueVars  == <<now, sentAt, filled, closed, doneAt>>
streamVars == <<link, wire, queue>>
drainVars  == <<seen, wm, pc, batch, out>>
logVars    == <<journal, run, due, failed>>
vars == <<venueVars, streamVars, drainVars, logVars>>

Update == [id : Orders, qty : 1 .. Lot, at : Nat]   \* a trade update; at = 0: None
Fill == [id : Orders, qty : 1 .. Lot, ts : Nat]
Row == [run : Nat, id : Orders, qty : 1 .. Lot, ts : Nat]

Booked == {r.id : r \in journal}                 \* _journalled_fill_ids
InHand == {f.id : f \in out}

-------------------------------------------------------------------------------
(* The venue and its trade-update stream (outside the repository).         *)

\* A push reaches the process only while the websocket is connected.
Push(o, q, at) ==
  wire' = IF link = "up" THEN Append(wire, [id |-> o, qty |-> q, at |-> at]) ELSE wire

\* Runner.tick sends an order; it stays open until it is filled or cancelled.
Send(o) ==
  /\ sentAt[o] = 0
  /\ sentAt' = [sentAt EXCEPT ![o] = now]
  /\ UNCHANGED <<now, filled, closed, doneAt, streamVars, drainVars, logVars>>

Open == {o \in Orders : sentAt[o] # 0} \ closed

PartialFill(o) ==
  /\ "partial" \in Env
  /\ o \in Open
  /\ filled[o] + 1 < Lot
  /\ filled' = [filled EXCEPT ![o] = @ + 1]
  /\ Push(o, filled[o] + 1, 0)                   \* filled_at is still None
  /\ UNCHANGED <<now, sentAt, closed, doneAt, link, queue, drainVars, logVars>>

FillRest(o) ==
  /\ o \in Open
  /\ filled' = [filled EXCEPT ![o] = Lot]
  /\ closed' = closed \cup {o}
  /\ doneAt' = [doneAt EXCEPT ![o] = now]
  /\ Push(o, Lot, now)
  /\ UNCHANGED <<now, sentAt, link, queue, drainVars, logVars>>

\* A cancelled or expired order is closed too, and no fill event is pushed.
Cancel(o) ==
  /\ "cancel" \in Env
  /\ o \in Open
  /\ closed' = closed \cup {o}
  /\ doneAt' = [doneAt EXCEPT ![o] = now]
  /\ UNCHANGED <<now, sentAt, filled, streamVars, drainVars, logVars>>

Elapse ==
  /\ now < MaxTime
  /\ now' = now + 1
  /\ UNCHANGED <<sentAt, filled, closed, doneAt, streamVars, drainVars, logVars>>

\* The watchdog (re)connects: only later events are delivered.
StreamConnect ==
  /\ "stream" \in Env
  /\ link = "down"
  /\ link' = "up"
  /\ UNCHANGED <<venueVars, wire, queue, drainVars, logVars>>

StreamDrop ==
  /\ "drop" \in Env
  /\ link = "up"
  /\ link' = "down"
  /\ wire' = <<>>
  /\ UNCHANGED <<venueVars, queue, drainVars, logVars>>

-------------------------------------------------------------------------------
(* The websocket thread: handler() in start_fill_stream.                   *)

Later(a, b) == IF a < b THEN b ELSE a

\* Mutant: the fill has the size of the order, not the quantity filled.
HandleUpdateOrderSize ==
  /\ wire # <<>>
  /\ pc # "stream"
  /\ LET ev == Head(wire)
         ts == IF ev.at = 0 THEN now ELSE ev.at
     IN  queue' = Append(queue, [id |-> ev.id, qty |-> Lot, ts |-> ts])
  /\ wire' = Tail(wire)
  /\ UNCHANGED <<venueVars, link, drainVars, logVars>>

\* Blocks while fills() holds _stream_lock, that is during its first phase.
HandleUpdate ==
  /\ wire # <<>>
  /\ pc # "stream"
  /\ LET ev == Head(wire)
         ts == IF ev.at = 0 THEN now ELSE ev.at
     IN  queue' = Append(queue, [id |-> ev.id, qty |-> ev.qty, ts |-> ts])
  /\ wire' = Tail(wire)
  /\ UNCHANGED <<venueVars, link, drainVars, logVars>>

-------------------------------------------------------------------------------
(* The tick thread: Runner.tick drains fills() and journals each of them.  *)

Take(f) ==
  /\ seen' = seen \cup {f.id}
  /\ wm' = Later(wm, f.ts)
  /\ out' = {f}

StartDrain ==
  /\ pc = "idle"
  /\ pc' = "stream"
  /\ UNCHANGED <<venueVars, streamVars, seen, wm, batch, out, logVars>>

\* Under _stream_lock: pop a pushed fill; skip it or hand it to the caller.
PopStreamed ==
  /\ pc = "stream" /\ out = {} /\ queue # <<>>
  /\ queue' = Tail(queue)
  /\ IF Head(queue).id \in seen THEN UNCHANGED <<seen, wm, out>>
                               ELSE Take(Head(queue))
  /\ UNCHANGED <<venueVars, link, wire, pc, batch, logVars>>

\* The queue is empty: the lock is released before the poll.
StreamDrained ==
  /\ pc = "stream" /\ out = {} /\ queue = <<>>
  /\ pc' = "request"
  /\ UNCHANGED <<venueVars, streamVars, seen, wm, batch, out, logVars>>

\* Mutant: no overlap, the poll starts strictly after the watermark.
RecentNoOverlap ==
  IF wm = 0 THEN {o \in closed : sentAt[o] + Lookback > now}
            ELSE {o \in closed : sentAt[o] > wm}

\* What GetOrdersRequest(status=CLOSED, after=cutoff) selects: closed orders
\* SUBMITTED after the cutoff (watermark - one second, or one day ago).
Recent ==
  IF wm = 0 THEN {o \in closed : sentAt[o] + Lookback > now}
            ELSE {o \in closed : sentAt[o] + Overlap > wm}

Poll ==
  /\ pc = "request"
  /\ pc' = "poll"
  /\ batch' \in IF Cardinality(Recent) <= PollLimit
                  THEN {Recent}
                  ELSE {b \in SUBSET Recent : Cardinality(b) = PollLimit}
  /\ due' = {o \in closed : filled[o] > 0}
  /\ UNCHANGED <<venueVars, streamVars, seen, wm, out, journal, run, failed>>

\* The request raises: the tick is over, the next one drains again.
PollError ==
  /\ "poll_error" \in Env
  /\ pc = "request"
  /\ pc' = "idle"
  /\ UNCHANGED <<venueVars, streamVars, seen, wm, batch, out, logVars>>

\* Mutant: a closed order that never filled is journalled like the others.
PollStepKeepsUnfilled(o) ==
  /\ pc = "poll" /\ out = {} /\ o \in batch
  /\ batch' = batch \ {o}
  /\ IF o \in seen
       THEN UNCHANGED <<seen, wm, out>>
       ELSE Take([id |-> o, qty |-> filled[o],
                  ts |-> IF filled[o] = Lot THEN doneAt[o] ELSE now])
  /\ UNCHANGED <<venueVars, streamVars, pc, logVars>>

\* Mutant: the whole response is marked as seen when its first order is taken.
PollStepMarksBatch(o) ==
  /\ pc = "poll" /\ out = {} /\ o \in batch
  /\ batch' = batch \ {o}
  /\ IF filled[o] = 0 \/ o \in seen
       THEN UNCHANGED <<seen, wm, out>>
       ELSE /\ seen' = seen \cup batch
            /\ wm' = Later(wm, doneAt[o])
            /\ out' = {[id |-> o, qty |-> filled[o], ts |-> doneAt[o]]}
  /\ UNCHANGED <<venueVars, streamVars, pc, logVars>>

\* Look at one order of the response.  A partly filled, cancelled order has no
\* filled_at, and the code then stamps the fill with the current time.
PollStep(o) ==
  /\ pc = "poll" /\ out = {} /\ o \in batch
  /\ batch' = batch \ {o}
  /\ IF filled[o] = 0 \/ o \in seen
       THEN UNCHANGED <<seen, wm, out>>
       ELSE Take([id |-> o, qty |-> filled[o],
                  ts |-> IF filled[o] = Lot THEN doneAt[o] ELSE now])
  /\ UNCHANGED <<venueVars, streamVars, pc, logVars>>

DrainDone ==
  /\ pc = "poll" /\ out = {} /\ batch = {}
  /\ pc' = "idle"
  /\ UNCHANGED <<venueVars, streamVars, seen, wm, batch, out, logVars>>

\* mall["fills"][(run_id, order_id)] = row: an upsert on the key.
WriteRow(f) ==
  journal' = {r \in journal : r.run # run \/ r.id # f.id}
               \cup {[run |-> run, id |-> f.id, qty |-> f.qty, ts |-> f.ts]}

JournalFill ==
  /\ \E f \in out : WriteRow(f)
  /\ out' = {}
  /\ UNCHANGED <<venueVars, streamVars, seen, wm, pc, batch, run, due, failed>>

\* The write raises: the generator is abandoned, which releases the lock.
JournalError ==
  /\ "journal_error" \in Env
  /\ out # {}
  /\ out' = {} /\ batch' = {} /\ pc' = "idle"
  /\ failed' = failed \cup InHand
  /\ UNCHANGED <<venueVars, streamVars, seen, wm, journal, run, due>>

-------------------------------------------------------------------------------
(* Process lifetime.                                                       *)

Crash ==
  /\ "crash" \in Env
  /\ run < MaxRuns
  /\ run' = run + 1
  /\ link' = "down" /\ wire' = <<>> /\ queue' = <<>>
  /\ seen' = {} /\ wm' = 0 /\ batch' = {} /\ out' = {}
  /\ due' = {} /\ failed' = {}
  /\ pc' = "boot"
  /\ UNCHANGED <<venueVars, journal>>

\* _latest_fill_ts: the rows with the latest timestamp.
Latest == {r \in journal : \A s \in journal : s.ts <= r.ts}

\* Mutant: the watermark alone is seeded, as before the ids were passed.
SeedTimeOnly ==
  IF journal = {} THEN UNCHANGED <<seen, wm>>
  ELSE /\ \E r \in Latest : wm' = Later(wm, r.ts)
       /\ UNCHANGED seen

\* make_runner: seed the watermark with the latest journalled timestamp and the
\* seen set with the journalled ids, when there is a row.
SeedWatermark ==
  IF journal = {} THEN UNCHANGED <<seen, wm>>
  ELSE /\ \E r \in Latest : wm' = Later(wm, r.ts)
       /\ seen' = seen \cup Booked

Boot ==
  /\ pc = "boot"
  /\ pc' = "idle"
  /\ SeedWatermark
  /\ UNCHANGED <<venueVars, streamVars, batch, out, logVars>>

-------------------------------------------------------------------------------
Init ==
  /\ now = 1 /\ sentAt = [o \in Orders |-> 0]
  /\ filled = [o \in Orders |-> 0] /\ closed = {}
  /\ doneAt = [o \in Orders |-> 0]
  /\ link = "down" /\ wire = <<>> /\ queue = <<>>
  /\ seen = {} /\ wm = 0 /\ pc = "boot" /\ batch = {} /\ out = {}
  /\ journal = {} /\ run = 1 /\ due = {} /\ failed = {}

Venue == \E o \in Orders : Send(o) \/ PartialFill(o) \/ FillRest(o) \/ Cancel(o)

Stream == StreamConnect \/ StreamDrop \/ HandleUpdate

Drain ==
  \/ StartDrain \/ PopStreamed \/ StreamDrained
  \/ Poll \/ PollError \/ (\E o \in Orders : PollStep(o)) \/ DrainDone
  \/ JournalFill \/ JournalError

Next == Venue \/ Elapse \/ Stream \/ Drain \/ Crash \/ Boot

Spec == Init /\ [][Next]_vars

\* The scheduler keeps starting ticks and a tick that can go on does; the poll
\* succeeds again and again if it is tried again and again.
TickThread ==
  \/ Boot \/ StartDrain \/ PopStreamed \/ StreamDrained
  \/ (\E o \in Orders : PollStep(o)) \/ DrainDone \/ JournalFill

FairSpec == Spec /\ WF_vars(TickThread) /\ SF_vars(Poll)

-------------------------------------------------------------------------------
(* Properties.                                                             *)

TypeOK ==
  /\ now \in Nat \ {0}
  /\ sentAt \in [Orders -> Nat]
  /\ filled \in [Orders -> 0 .. Lot]
  /\ closed \in SUBSET Orders
  /\ doneAt \in [Orders -> Nat]
  /\ link \in {"up", "down"}
  /\ wire \in Seq(Update)
  /\ queue \in Seq(Fill)
  /\ seen \in SUBSET Orders
  /\ wm \in Nat
  /\ pc \in {"boot", "idle", "stream", "request", "poll"}
  /\ batch \in SUBSET Orders
  /\ out \in SUBSET Fill
  /\ journal \in SUBSET Row
  /\ run \in Nat
  /\ due \in SUBSET Orders
  /\ failed \in SUBSET Orders

\* An order has at most one row in mall["fills"], whatever path its fill came
\* by, however often it is pushed and polled again, and across restarts
\* (_seen_fills in AlpacaBroker.fills, seed_fill_watermark in make_runner).
OnceInJournal == \A r, s \in journal : r.id = s.id => r = s

\* The seen set never hides a fill from the journal for good: an id in
\* _seen_fills has its row, is in the caller's hand, or is one whose write
\* raised (AlpacaBroker.fills marks it before it yields it).
SeenIsBooked == seen \subseteq Booked \cup InHand \cup failed

\* Why OnceInJournal holds: outside a boot every booked order is in the seen set,
\* and the one fill in hand is of an order that has no row yet.
OnceInv ==
  /\ \A f, g \in out : f = g
  /\ out # {} => pc \in {"stream", "poll"}
  /\ InHand \cap Booked = {}
  /\ pc # "boot" => Booked \cup InHand \subseteq seen
  /\ OnceInJournal

\* Quantities on their way, in hand or booked have been executed at the venue.
RealUpdate == {u \in Update : u.qty <= filled[u.id]}
RealFill == {f \in Fill : f.qty <= filled[f.id]}
RealInv ==
  /\ wire \in Seq(RealUpdate)
  /\ queue \in Seq(RealFill)
  /\ out \subseteq RealFill
  /\ \A r \in journal : r.qty <= filled[r.id]

\* The quantity booked for each order: 0 when it has no row.
BookedQty ==
  [o \in Orders |-> IF o \in Booked
                      THEN (CHOOSE r \in journal : r.id = o).qty ELSE 0]

Ledger == INSTANCE FillLedger WITH executed <- filled, ledger <- BookedQty

\* The journal is a write-once ledger of real executions (FillLedger): rows are
\* only added, for orders without one, and never for more than the venue filled.
ImplementsLedger == Ledger!Spec

\* Orders that closed within the overlap of being sent, as market orders of a
\* paper account do ("market orders fill near-instantly").
Prompt == {o \in closed : doneAt[o] < sentAt[o] + Overlap}

\* After a poll, every prompt order that was closed when the venue answered is
\* journalled, in hand or still in the response being read, whatever closed, late
\* or promptly, before it (AlpacaBroker.fills, the overlap of one second behind the
\* watermark).  Not so one that fills later: it is behind the watermark as soon as
\* a younger order has filled.
PollFindsPrompt == due \cap Prompt \subseteq Booked \cup batch \cup InHand

\* The conditions under which the poll alone recovers every prompt fill: no stream
\* ran that moves the watermark past unread orders, no crash or failing write
\* lost what it had moved past, and neither the one-day lookback nor the page
\* size of the poll cuts anything off.
PollingOnly ==
  /\ Env \subseteq {"poll_error"}
  /\ 1 <= Lookback /\ MaxTime <= Lookback
  /\ \A S \in SUBSET Orders : Cardinality(S) <= PollLimit

\* Prompt orders the process has not come across yet.
Unread == Prompt \ (Booked \cup InHand \cup batch)

\* Why PollFindsPrompt holds then: an unread prompt order closed no earlier than
\* the watermark and every order of the response still to be looked at.
PollInv ==
  /\ link = "down" /\ wire = <<>> /\ queue = <<>> /\ failed = {}
  /\ pc = "boot" => journal = {}
  /\ now <= Lookback /\ wm <= now
  /\ \A o \in closed : /\ filled[o] = Lot /\ 1 <= sentAt[o]
                       /\ 1 <= doneAt[o] /\ doneAt[o] <= now
  /\ due \subseteq closed /\ batch \subseteq closed /\ (batch # {} => pc = "poll")
  /\ \A o \in Unread : /\ wm <= doneAt[o]
                       /\ \A b \in batch : doneAt[b] <= doneAt[o]
  /\ PollFindsPrompt

\* A fill that reached the venue's closed orders promptly is journalled sooner or
\* later, whatever polls raise in between (the tick loop's polls are the fallback
\* of the stream).
EventuallyBooked ==
  \A o \in Orders : (o \in Prompt /\ filled[o] > 0) ~> (o \in Booked)

\* The row of an order that is done holds everything it filled, once nothing
\* about it is on its way (brokers.py: the stream is preferred "so partial fills
\* are not missed").
BookedInFull ==
  pc = "idle" /\ wire = <<>> /\ queue = <<>> =>
    \A r \in journal : r.id \in due => r.qty = filled[r.id]

===============================================================================
