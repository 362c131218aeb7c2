# hedger in TLA+

TLA+ models of `src/hedger`, checked with TLC and, where a property is a safety
property, proved with TLAPS. Sections: [the system](#the-system), [modules](#modules),
[runs](#runs), [disagreements](#disagreements-between-code-and-documentation),
[fairness](#fairness), [proofs](#proofs), [assumptions](#assumptions), [what is not
modelled](#what-is-not-modelled), [plan](#plan).

## The system

hedger is one Python process (`hedger serve`). A scheduler starts a *tick* every
few minutes or hours; the tick reads prices, lets a strategy decide, sends orders
to a broker, journals what was executed and compares the positions with the last
snapshot. Everything it learns is written to the *mall*, a set of keyed JSON-lines
files. Once a night a *reflection* session lets a coding agent edit the very
repository the process runs from.

| component | state | operations | interacts with |
|---|---|---|---|
| fill intake (`execution/brokers.py` `AlpacaBroker.fills`, `start_fill_stream`, `seed_fill_watermark`; `live/runner.py` `tick` 587-591, `make_runner` 664-687) | queue of streamed fills, seen set, watermark, `mall["fills"]` | stream handler, drain, poll, journal, seed at start | websocket thread and tick thread share the queue under a lock; the venue goes on by itself |
| reconciliation (`Runner.reconcile`, `_last_snapshot`, `_fill_qty_by_symbol`) | `mall["positions"]`, `mall["drifts"]` | compare, report, snapshot; at start-up and after every tick | reads the broker and the fill journal at different instants |
| order generation (`Runner.tick` 489-585, `pending_qty`, `AlpacaBroker.submit`, `open_orders`) | `mall["orders"]`, orders at the venue | read positions, size, veto, read open orders, submit, journal | broker calls that fail, or succeed without an answer |
| rest of the tick: breaker, alert, news, fees (`Runner.tick` 458-537 and 592-611, `refresh_news`, `journal_fees`, `execution/risk.py`) | opening NAV, alert flag, day, time of the last news fetch; `mall["news"]`, `mall["fees"]` | day roll, veto, alert once, throttled fetch, idempotent journals | scheduler, broker, news source, restarts |
| bar cache (`data/stores.py` `BarStore`, `fetch_window`) and data sources (`data/sources.py`) | parquet files | read, gap fill, upsert | the market that goes on forming bars |
| strategies, sizers, risk chain (`strategies/`, `execution/sizing.py`, `execution/risk.py`) | none | bars to signals to decisions | tick and backtest call the same code |
| paper broker, `Position`, tax lots (`execution/brokers.py`, `base.py`, `tax/policies.py`) | cash, positions, waiting fills, lots | execute, apply, absorb | backtest, tick |
| backtest engine (`backtest/engine.py`) | the run's broker and trades | advance a bar, decide, trade | paper broker, strategies, sizers |
| daily brief (`reflection/monitor.py`) | none; reads the mall | window, dedupe, sum, flag | journals written late, the nightly cron |
| reflection (`reflection/orchestrator.py`) | git work tree, tag, `mall["reflections"]` | snapshot, session, gate, rollback, record | a coding agent, git, people editing the same tree, restarts of the process |
| JSON-lines store (`data/stores.py` `JsonlStore`) | file, dict in memory | load, append, delete with rewrite | every journal |
| stream watchdog (`start_fill_stream._runner`, `stop_fill_stream`) | thread, backoff, stop flag | connect, die, back off, stop | tick thread |
| scheduler, research, notifiers, configuration, installer, CLI | little or none | | |

What makes it hard is that the bot and the venue never agree on an instant. A
tick makes five to ten broker calls, and orders fill, cancel and expire between
any two of them; fills come by a push that may drop and a poll that may be cut;
a call may fail after it took effect; the process may stop anywhere, and what it
kept in memory (queue, seen set, watermark, opening NAV) is rebuilt from journals
or lost. The list of these hazards, each at its line, is in `PROJECT.json`.

What has to be true of each component:

* fill intake: every execution is journalled, once, with its whole quantity;
* reconciliation: reported drift is exactly what others traded, and fees taken in the
  asset;
* order generation: nothing is traded twice, and the account reaches the target;
* reflection: neither human work nor accepted changes are lost, no unvetted code runs,
  and a rejected night leaves nothing;
* store: what was acknowledged survives, and a restart is invisible;
* bar cache: a strategy cannot tell that bars are cached;
* breaker and alert: the loss is measured from the day's first tick, vetoes while it
  is too large, and is alerted once;
* news and fee journals: what a failing call left out is caught up;
* paper broker: cash, position, profit and lots add up;
* backtest: the book ends where the decisions point, the trades account for it, and
  signals are those the live tick would get;
* brief: what it says of cash and of unfilled orders is true, and nothing falls
  between two nights.

## Modules

Each component is a module with the code's state as variables and one action per
operation or per step that can be interleaved or interrupted; `MC*` modules only
instantiate it, `*Proofs` modules hold theorems. `Env` names the environment's
misbehaviours an instance allows, so that one specification serves several runs.

**`FillLedger`** is the abstract promise of the fill journal: a write-once ledger
of real executions.

**`FillJournal`** is the intake. `HandleUpdate` is the stream handler;
`StartDrain`, `PopStreamed`, `StreamDrained`, `Poll`/`PollError`, `PollStep`,
`DrainDone` are the phases of the generator `fills()`; it holds the lock from
`StartDrain` to `StreamDrained`, which blocks `HandleUpdate`. `fills()` marks an
order as seen and moves the watermark *before* it yields (`Take`), and the loop of
`tick` writes the row after (`JournalFill`, or `JournalError` when the write
raises), so `out` holds the fill in between. `Crash` drops everything but the
journal and `Boot` is the seeding in `make_runner`. `Send` is an order reaching the
venue: the poll's `after=` selects closed orders by the time they were *submitted*
(`sentAt`, `Recent`), while the watermark is a time at which one *filled* (`doneAt`).
Fills carry the cumulative
quantity, as `order.filled_qty` does. `Ledger == INSTANCE FillLedger` maps the
venue's `filled` to `executed` and the journal to `ledger`.

**`Reconcile`** starts a tick at its drain. `Drain` adds fills that are not yet in
the journal, which is what FillLedger promises; `TakeAsOf`, `ReadPositions`,
`Compare`, `SaveSnapshot` are `reconcile()` statement by statement, since the
venue moves between them. Time has instants and seconds, because fills are
stamped with the former and snapshots are keyed by the latter; `snaps` keeps the
rows of the latest second in insertion order, which is how `max()` breaks the tie.
A crypto buy pays its fee in the asset (`Taken`), which no fill row knows of: the
position moves by less than the fill says. The rows of `mall["drifts"]` are written
from `report` and are not kept apart.

**`TickOrders`** is the tick from `positions()` to the journalled order.
`ReadPositions` and `LookUpPending` are separate because fills come in between.
What bars, strategy, sizer, risk chain and tax policy make of a symbol is a target
quantity (`want`, changed by `Retarget`) or a dropped decision (`veto`). `Submit`
is followed by `LogOrder`; `SubmitRaises` covers a refusal, a duplicate client id
and an order that was taken although its answer got lost.

**`Reflection`** sees the work tree as the set of changes in it: `tracked` ones and
`stray` ones in files git has never been told of. A change is broken or not, and
the suite fails when a broken one is present. `Snapshot`, `Spawn`, `AgentDone`,
`Timeout`, `GatePasses`, `GateFails`, `Record` are `reflect()`; `Restart` is the
service loading whatever is in the tree, with the agent of a session perhaps still at
work. `AgentEntry` is step 4 of the prompt: the agent's own record, in a directory git
ignores, beside the row `reflect()` writes of an accepted night.

**`JsonlStore`** has the complete lines of the file, what is left of a line that
was cut (`tail`), the `.tmp` file of a rewrite and the ordered dict in memory. A
write may succeed, raise with a part of it in the file, or be cut short because the
process is killed. The code never calls fsync, so what a loss of power leaves is
another matter: `disk` is the set of contents the file may have then, every append and
every rename adds to it (after a rename the lines may be missing, `Beginnings`),
`WriteBack` is the system writing the file back, and `PowerLoss` picks one. `volatile`
remembers the keys whose last write is not known to be on disk.

**`Execution`** is one execution of `PaperBroker` as operators: `FillPrice` and `Fee`,
what it takes out of the cash (`Paid`), and `Position.apply` (`Applied`). Two modules
use it. **`PaperBook`** is `PaperBroker` on its own: `SubmitMarket` executes within
`submit`, the fill waits in `fills` until `Drain`, and the two tax ledgers absorb what
is drained. `AbsorbLifo` and `AbsorbFifo` share `Sold`, which walks over the lots;
`tape` lists what was bought and sold unit by unit, so that a property can say what
LIFO and FIFO mean without lots.

**`Decisions`** holds the sizers and the risk chain: a sizer takes a sequence of signals
to a sequence of decisions, a middleware a decision to the set of what it lets through.
**`Strategies`** holds eight strategies as operators from windows of bars to sequences
of signals, with scores reduced to their sign and quotients multiplied out; most are a
test whether the window is long enough and an operator of its last bars (`Above`,
`Breakout`, `Legs`, `Extremes`). `llm_news` asks a language model: `Prompt` is what goes
into the prompt, headlines and the last closes, and the reply is a function of it, of
three kinds: a list (or prose with one), prose without, and brackets around something
unparseable, on which the strategy raises. Both take their lists with a condition from
**`Selection`**. **`Backtest`** composes them with `Execution` into `backtest_simple`: a
step is a bar of all symbols (`Quiet` without signals, `Trade` with), and `Trade` folds
`Towards` over the decisions. `positions()` copies the dict and shares the `Position`
objects; that is why `Towards` reads the book as it is now for symbols known before the
bar, and nothing for the others. Beside the engine's window and context the module has
those the live tick would hand out on the same bars: `LiveWindow` is `fetch_window`, the
bars of a span of time, on a calendar with gaps; `LiveContext` has the news and nothing
else.

**`BarCache`** holds the operators between source and strategy: what Alpaca and an
exchange with pages answer, `BarStore`, and the pieces of `fetch_window`. A bar says
how much of it has passed, so that a row cached while its bar was forming differs from
the final one. **`LiveTick`** composes it with `Decisions` into the rest of the tick:
`TickFromNav` is a tick that gets past `broker.nav()` and `TickWithoutNav` one that
does not, since everything before (bars, news) has then happened and nothing after.
`Opened` is the day roll, `Vetted` the chain with the breaker, `DayAfter` the alert at
the end, `NewsAfter` and `FeesAfter` the two journals, each fed by a call that may break
off. The broker reports three NAVs in a tick, for sizes, breaker and alert, and they
may differ. `Restart` drops the memory, `CrashInWrite` leaves a cut parquet file.

**`Brief`** has the journals of orders and fills, written when the ticks write them and
stamped with the times the code stamps them with, and the operators of `daily_brief`
over them. `NightlyBrief` is the cron's call. Hours are the unit of time.

## Runs

Every passing run has a mutant for each property, listed in `PROJECT.json`: the
change a plausible bug would make to the code, under which the property fails.

| run | instance | shows |
|---|---|---|
| `fill_journal` | 2 orders of size 2, 3 s, 2 processes, all behaviours | `OnceInJournal`, `SeenIsBooked`, refinement `ImplementsLedger` |
| `fill_polling` | 3 orders of size 1, 4 half seconds, polls may fail, fairness | `PollFindsPrompt`, `EventuallyBooked` |
| `reconcile` | 1 symbol, with a fee in the asset, 2 instants per second, 2 own fills, 1 outside trade, 2 processes, all behaviours | `SettledDriftIsExact`, `NettedOnce` |
| `tick_orders` | 1 equity, targets -1 and 2, up to 3 of 11 mishaps, fairness | `NoOverTrade`, `OrdersLogExact`, `ReachesTarget` |
| `live_tick` | 3 NAVs, 2 days of 4 ticks, both sources, a window of 2 bars of length 2, pages of 1 bar and 2 fees, a restart a day | `WindowIsTheSources`, `CachedBarsAreFinal`, `BreakerHolds`, `AlertedOnce`, `LossIsAlerted`, `FeesAreComplete`, `NewsIsRetried` |
| `backtest` | 2 symbols, 8 strategies, 2 sizers, with and without a cap, with and without a weekend, 4 language models, all paths of 5 bars over 2 prices | `OnTarget`, `TradesAccountForBook`, `LiveParity` |
| `paper_book` | 1 symbol, 5 orders of size 1 to 3, 2 prices, at most 3 held long or short | `BookBalances`, `LotsAgreeWithPosition`, `CostBasisIsRight`, `TradeCostsSlippageAndFee` |
| `brief` | 2 symbols, 2 orders, 1 doubled row, 3 nights | `CashChangeIsTheAccounts`, `FlaggedIsUnfilled`, `NightsReportEverything` |
| `reflection` | a good and 2 broken agent changes, 1 human change, all mishaps | `HumanWorkSurvives`, `AcceptedWorkSurvives`, `OnlyGatedCodeRuns` |
| `jsonl_store` | 2 keys, 2 values, 3 lines, up to 2 writes not synced, all mishaps | `AckedSurvives`, `RestartIsInvisible` |

The bounds, and why they are enough. Intake and store treat orders and keys alike and
independently but for the watermark, the batch and the line order, which relate two of
them; `fill_polling` has three so that a batch can hold an order closed before, at and
after the watermark; its second has two units of time, so that orders are sent and fill
at different instants of it, before, at and after the overlap. A size of 2 is the
smallest order that can fill in part. In `reconcile` the drift of a symbol never reads
another symbol, so one is enough; two instants per second with five instants in all give
two snapshots in one second and one in the next, and two processes a restart. In
`tick_orders` targets -1 and 2 make an order cross zero and leave a rest that can be
cut; three mishaps allow, for instance, a lost answer, a cancellation and a restart in
one tick. Crash, run and line counts are capped in the guards of `Crash`, `Set`,
`Elapse`. One symbol is enough for `tick_orders`, whose properties are per symbol; that
several symbols in one tick do not get into each other's way is the theorem for any
universe.

In `live_tick` a bar lasts two ticks, so that each is fetched while forming and after;
time starts behind the first window and runs over more than two window lengths, and
outages of any length come from `Elapse` without a tick. The parts of the environment
share no state with each other, so one of them varies per behaviour (`focus`, bound
`Focuses`) while the others do what they usually do; the theorems do without that bound
being small. NAVs of 100, 98 and 97 lie on both sides of the alert's threshold and of
the breaker's, whose limits are reached exactly (98) and exceeded (97). `paper_book`
takes multiples of 6^5 as prices (`Scale <- SixToThe`): an average over up to three
shares divides by 1, 2, 3 or 6, at most once per order, so slippage, fees and averages
stay whole numbers over five orders; three shares are a lot sold in part, two lots sold
at once and a fill through zero. In `backtest` five bars are one more than the live
window and two more than the longest lookback, and the weekend makes it two bars
shorter; two symbols are a pair and a winner with a loser. `OnTarget` compares a
position with its target to the whole unit: no more of the target's value is missing
than one unit would cost. In `brief` two orders can share a symbol and side or not, and
the window of two hours with six hours of time is three nights with something on every
boundary.

### What the properties leave open

* `PollFindsPrompt` and `EventuallyBooked` are about orders that fill within a second of
  being sent: "orders fill near-instantly" on a paper account (`execution/brokers.py`
  257). An order that fills later can be skipped (see below). They are checked without a
  stream, without restarts and with writes that work.
* `SeenIsBooked` excepts fills whose journal write raised, and a process that dies between
  yield and write loses the fill in hand.
* `NoOverTrade` is about symbols the tick has never been *blind* to: a fill between
  the two reads, or a failed open-order lookup, does trade twice (see below).
* `SettledDriftIsExact` compares two snapshots taken while the journal was up
  to date. Own fills executed between drain and positions read are reported as
  drift (see below).
* `OnlyGatedCodeRuns` names four ways around the gate: a file the rollback left, a
  rollback that failed, a restart before the gate, and a process that outlived its
  session. What the README of the code promises has no such exceptions, so they are
  disagreements (see below). `HumanWorkSurvives` is about work left in the tree between
  sessions, not during one.
* `AckedSurvives` and `RestartIsInvisible` are about a file that still parses. A cut
  line makes every later load raise, and the code has no repair for it. What a loss of
  power takes, `AckedSurvives` does not owe: keys written since the file was last written
  back, and all keys when a rewrite was among that.
* `ReachesTarget` is about targets the account may hold; a sell below zero of an
  asset that cannot be shorted is refused whole and sells nothing.
* `BreakerHolds` and `AlertedOnce` are about days without a restart. Opening NAV and flag
  are in memory only: after a restart the loss before it counts neither for the breaker
  nor for the alert (see below). The alert is flagged before it is sent, so one that a
  notifier loses is not repeated.
* `WindowIsTheSources` and `CachedBarsAreFinal` say nothing of a symbol whose file was
  cut off by a crash: it has no bars from then on, whatever the source has. A bar
  cached while forming stays as it was in the file when an outage outlasts the window;
  no window reaches it any more.
* `FeesAreComplete` is about the newest page of two days, `NewsIsRetried` about
  headlines older than the throttle.
* `BookBalances` is about accounts no fill of which crossed zero, the lot properties
  about symbols that were never short.
* `OnTarget` excepts symbols first bought in a bar that decides on them twice.
  `LiveParity` is about the six strategies of prices, or of prices and headlines, while the
  live window has as many bars as they look back. Without the two conditions it is
  false (see below).
* `NightsReportEverything` is about fills journalled by the night after they executed,
  and nights at most a window apart; where the clocks are set back there are 25 hours
  between two calls of the cron and 24 in the window. `CashChangeIsTheAccounts` is
  about fees on the fill rows, as `PaperBroker` has them; Alpaca's are activities.

## Disagreements between code and documentation

Two runs expect a violation; each finding in `PROJECT.json` quotes the sentence.

| run | what TLC shows |
|---|---|
| `fill_partial_lost` | a partial fill is journalled, its order is marked as seen, and the rest is dropped |
| `tick_race` | an order that fills between `positions()` and `open_orders()` is bought again |

The others were met while modelling and are kept as findings without a run:

* a streamed fill moves the watermark past an order no poll has read;
* a poll filters by the time of submission, its cutoff is a time of filling: an order
  that fills late is behind it, and without a stream never journalled;
* the bot's own fill, executed between drain and positions read, is reported as drift;
* nothing is synced: a loss of power can take acknowledged lines, and a rewrite all of
  them (`PowerLoss` has it, no document promises otherwise);
* a night is gated by pytest only, not by a backtest; the store never rewrites on close;
* `git reset --hard` leaves new files, which `git add` of the next accepted night commits,
  and the agent's own entry in the ignored `.hedger`, so a rejected night has a record;
* a process that dies in a session leaves ungated edits in the tree it restarts from, and
  the agent it started may outlive it and go on writing;
* after a restart the day opens at the NAV found then and nothing has been alerted: the
  breaker trips later than documented, and a second alert goes out on the same day;
* the live window is a span of time: where the market closes it has fewer bars than a
  strategy looks back, and the strategy that has signalled in the backtest is silent;
* the live context has no events and no features, so `pead_drift` and `news_embed`
  signal in a backtest only;
* a fill through zero realises profit on its whole quantity;
* `sma_crossover` never goes flat, because a score of 0 gets no decision;
* the gross exposure cap sees no other targets, the wash-sale policy no history, and
  a closing sale is not what it looks at; `max_open_orders` is read nowhere;
* the paper broker of the command line prices everything at 0 and refuses all orders;
* two decisions on a symbol first bought in a bar buy it twice in a backtest;
* the stream's backoff is reset before a connection has worked.

## Fairness

`FillJournal!FairSpec`: weak fairness of the tick thread, since the scheduler
(`live/scheduler.py` 34-40, `max_instances=1`, `coalesce=True`) starts one tick
after another and a started tick goes on; strong fairness of `Poll`, since a poll
is tried in every tick and is assumed not to fail for ever. It is used without
stream and crash. `TickOrders!FairSpec`: weak fairness of the tick, of the clock
and of the market's opening, and strong fairness of `Fill` for each symbol:
market orders fill while their symbol trades, and the step is disabled again and
again (between the two reads of a tick once mishaps are used up, and while the
market is closed). Mishaps are bounded, so liveness is about what happens once
they stop. The other modules are checked for safety only: what `LiveTick` promises
after a failing call is stated of the next call that works, and needs no fairness.

## Proofs

`tlapm` proves, for every value of the constants that the named assumptions allow:

* **`FillJournalProofs`**. `TypeCorrect`; `JournalledOnce` from the inductive
  invariant `OnceInv` (outside a boot every journalled order is in the seen set, and
  the order in hand has no row: `OnceInJournal` alone says nothing about what is in
  memory and is not inductive); `SeenBooked`; `JournalImplementsLedger` from
  `RealInv` (every quantity in the socket, the queue, in hand and in the journal has
  been executed) and `OnceInv` (a write never hits an existing row, so it is `Book`);
  `PollingFindsPrompt` under `PollingOnly`, from `PollInv`: an unread prompt order closed
  no earlier than the watermark and than every order still in the batch, so it was sent
  less than the overlap before the watermark. Other orders may fill as late as they like.
  `PollingOnly` is where the property is true at all: a streamed fill moves the watermark
  past orders no poll has read.
* **`TickOrdersProofs`**. `TypeCorrect`; `LogExact` from `KeysInv`; `NeverOverTrades`
  from `BeliefInv`: while orders are being sent, exposure differs from what the tick
  has read only by cancelled quantity, for every symbol still to do; so an order of
  `Missing` lands on the goal, up to that.
* **`ReconcileProofs`**. `DriftIsExact`, `NettedAtMostOnce` and `TypeCorrect` from
  `ReconcileInv`. When the journal accounts for every fill up to an instant, the rows
  stamped up to it never change again (`FillsInv`: a fill has one row, stamped no
  earlier than it executed), so what a settled snapshot holds is for good what others
  had traded less the fees taken plus the net of those rows (`SnapshotInv`); in the
  drift between two of them the rows cancel. The windows of a chain of snapshots are
  disjoint intervals because `asof` only grows along it.
* **`NightProofs`**, what happens at night: reflection and brief. `TypeCorrect`;
  `HumanWorkIsSafe` and `AcceptedWorkIsSafe` from `TagInv` (during a session the tag holds
  all owed work and all that accepted nights cover, committed or not);
  `GateHolds` from `GateInv` (outside a session everything in the
  tree and in the tag is vetted or escaped). Of the brief, `FlagsAreRight` from
  `OrdersInv`; `NightsLeaveNoGap` from `NightInv`, under `Night <= Window`, without which
  it is false; `CashChangeIsRight` from `CashInv`: the account's cash is a sum over
  executed orders, the brief's a sum over first rows in the window, and the two sets of
  orders are the same one.
* **`JsonlStoreProofs`**. `NothingIsLost`, `RestartChangesNothing` and `TypeCorrect`
  from `StoreInv`: the `.tmp` file of a rewrite is a beginning of the dict (`TmpInv`),
  and both the dict and a file that parses hold for every key what the caller relies on
  or a value whose write was cut short (`KeptInv`); so does every content a loss of
  power may leave, for the keys that are not volatile (`LeftInv`). The lemmas say what
  `Replay` makes of one more line, and that replaying the lines of a dict gives that
  dict.
* **`LiveTickProofs`**. `BreakerCorrect`, `AlertOnceCorrect` and `AlertCorrect` from
  `DayInv`: what is in memory is either of an earlier day, or it is the opening NAV of
  this day, taken by its first tick unless there was a restart (`MemoryOfDay`), and the
  flag is set exactly if this process has alerted today (`AlertsOfDay`). `BreakerHolds`
  by itself does not say that the memory is of today, and `AlertedOnce` not that an
  alert has left a flag. `ChainEndsWithBreaker` is the lemma about the risk chain: what
  gets through it has passed the breaker, whatever the caps before made of it.
  `NewsCorrect` from `NewsInv`: up to the last fetch that counted, the store has
  every headline of that fetch's lookback; a failed one leaves `fetched` alone.
  `WindowCorrect` and `RowsAreFinal` from `BarsInv`: the rows a window can still reach
  have no gap up to the newest, and only the newest may be of a bar that was forming
  (`Rows`); the gap fill starts early enough to overwrite it. `PagingLosesNothing` is
  the lemma that lets pages be treated as one answer. `FeesCorrect` from `FeesInv`;
  `TypeCorrect` collects the types of all four parts.
* **`PaperBookProofs`**. All from `AccountInv`. `TradeCost` needs only its types
  (`BrokerInv`): at a given quote the position gains what the fill brings and the cash
  pays price and fee. `TypeCorrect` needs `AveragesInv`: the average of every position
  is a multiple of the `Scale` for the orders still to come, so the next average is
  whole. `BooksBalance` from `BooksInv`, order by order. `LotsAreThePosition` and
  `ClosedProfitIsOne`, together `LotsAgree`, from `LotsInv`: fills wait between
  execution and drain, so the position is ahead of the lots, and nothing about either
  alone is inductive. `Drained` lists what the lots and their cost will come to fill by
  fill: it starts at both ledgers, ends at the position, and is never negative, so no
  sell of a symbol that was never short finds too few lots. `SoldIs` says what the walk
  over the lots takes and gains, `LotSumReverse` that LIFO's reversal changes no sum.
  `CostBasis` (`CostBasisIsRight`) from `CostInv`, for which lots and tape are brought
  to one form: `Queue` and `Stack` list what the units held cost according to the tape,
  and `Priced` says that a list of lots, unit by unit, costs the same. One unit more on
  the tape takes one from the front of the queue or the end of the stack (`TapeBuy`,
  `TapeSell`); a walk over the lots takes as many units from the same end (`SoldPriced`,
  and `PricedReverse` for LIFO). That a stack of which the newest go first is the units
  at the level the holding had (`LastBuy`) rests on `Climbed`: what rises by one at a
  time passes every level.
* **`BacktestProofs`**. From `IInv`: bars are aligned and carry their position as time
  (`BarsInv`), the trades account for cash and positions (`Books`), decisions name
  symbols there are bars of and keep to the sizer's largest weight (`Decided`).
  `WorkedIs` opens the fold over the decisions of a bar into a `Worksheet`: the book
  after each of them. `TradesAreTheBook` is that one decision leads from a book that
  balances to one that does (`TowardsIs`); `TargetsAreMet` (`OnTarget`) that it puts its
  symbol on target and leaves the quantities of all others alone (`AtTarget`), so the
  last decision on a symbol decides. `ParityWithLive` (`LiveParity`): what
  `fetch_window` hands out are the last bars of a series (`FetchedIs`), and it has a
  lemma for each of the six strategies: what one looks at are the last bars of a window,
  which are the last bars of the cut one (`CutLast`); the closes in the prompt of
  `llm_news` are (`PromptParity`), and so is the model's reply.

Folds and recursive functions are reasoned about without an induction rule, which would
take an operator as a parameter: `LeastNumber` (of the numbers for which a fact fails
there is a least one; `CountedUp` is the form most steps cite) and `SmallestSet` (the
same for finite sets) are cited with the set of counterexamples as their argument.

Only model-checked:

* liveness (`EventuallyBooked`, `ReachesTarget`), which is out of the prover's reach.

Every other property of the passing runs is stated by a theorem.

## Assumptions

* The venue closes an order once, reports cumulative quantities, and filters a
  poll by the time an order was submitted.
* Venue and bot agree on the time; a restart takes a second or more, so a process
  has a `run_id` of its own.
* The venue refuses a client order id it has seen, and a sell beyond the holdings
  where shorting is not allowed.
* One process uses a store. A file's lines reach the disk in their order. Everywhere but in
  `JsonlStore` a crash is the death of the process, and what was journalled is still there
  after it: no loss of power. JSON gives back what it was given: the rows the code writes
  are strings, numbers and lists of them, and the keys' tuples are restored when read.
* A crypto buy pays the same fee every time, and a unit of `Reconcile` is more than the
  epsilon below which nothing is reported. Orders in the account that the bot did not
  place are outside `FillJournal`, though the code would journal their fills.
* Fewer than 200 orders are working (`open_orders` asks for no more).
* Quantities are whole units; floating point rounding is not modelled. The floats of the
  paper broker and of `Position` are integers in a unit small enough for all averages of
  a behaviour (`ScaleAssumption`: prices are multiples of `Scale[n]`, and `Scale[n]` of
  every holding times `Scale[n - 1]`); it bounds no quantity or order, it only chooses
  the unit.
* Slippage is at most the whole price (`SlippageBps <= Bps`); beyond it a sell would have
  a negative price.
* `Delta > 1` in `BarCache`: a page is asked for from just after the last bar
  (`data/sources.py` 288, one unit of time), which is before the next one.
* `PerSecond <= MaxTime` in `Reconcile`: the clock's bound leaves room for a second.
* No two events of `Reconcile` share an instant.
* Changes in `Reflection` are independent: one change never undoes another.
* The clock never runs backwards. In `LiveTick` a source has a bar for every bar length,
  as soon as it begins, and never brings one late (true of an exchange that is open day and
  night; `Backtest` has the calendar with gaps). Headlines
  carry an id and the time they came up, and there are fewer than 50 in a lookback.
* Bars of a backtest are aligned, as its docstring asks, and prices are positive. The dict
  of bars names a symbol once (`BacktestAssumption`). Headlines are the same in a backtest's
  context and in a live one. A language model's reply is a function of its prompt, by which
  it is cached (`_cached_score`), and its scores are numbers.
* A tick lasts less than an hour of `Brief`, and an order executes no earlier than
  the tick that sent it.

## What is not modelled

* The stream watchdog: its effect, a link that is up or down, is in `FillJournal`;
  its backoff decides only how soon the link is back, and nothing calls
  `stop_fill_stream`.
* `pca_residual_revert` (an eigenvalue problem), the research modules and the
  statistics at the end of a backtest: real-valued functions without state.
  `param_sweep` runs `backtest_simple` over a grid.
* `USWashSalePolicy.__call__` and `tax_owed`: the runner passes an empty history, so
  the first never vetoes, and the second is a rate on a number that is modelled.
* `YFinanceSource`, the HTTP below the sources, notifiers, configuration, installer and
  CLI: I/O and wiring, no state that outlives a call.
* Of the brief, totals per symbol and samples; of the reflection session, prompt and
  cost cap: nothing a property reads.
* The scheduler is APScheduler's own code, present as fairness and as the cron.

## Plan

Done, in this order: `FillLedger`, `FillJournal` and proofs; `Reconcile` and proofs;
`TickOrders` and proofs; `Reflection` and proofs; `JsonlStore` and proofs; `Execution`,
`PaperBook` and proofs; `Brief` and proofs; `Decisions`, `Strategies`, `Backtest` and
proofs; `BarCache`, `LiveTick` and proofs.

What is left is code: `pca_residual_revert`, the statistics of a backtest, the watchdog's
backoff.
