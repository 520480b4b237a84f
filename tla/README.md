# TradeLab: a verification project

TradeLab (package `src/src/tradelab`) takes a strategy from research to a
trading session: it replays bars, asks the strategy for orders, passes every
order through a risk engine, sends what is left to a broker, books the fills
and journals what happened so that a session can be restored. This directory
holds TLA+ modules that model that program, configurations that model-check
them with TLC, and proofs about them that TLAPS checks. `PROJECT.json` gives,
for every definition, the lines of the code it stands for.

The modules deal with the part of the program that handles money and can go
wrong step by step: the book, the risk gate, the session loop, the brokers, the
journal, its restore and the `resume` command, the loops of the paper engine and
the evaluation harness, and the walk-forward windows. The statistics of the
research side are left out.

## 1. The system

| Component | Code | State it keeps | Operations |
|---|---|---|---|
| Portfolio accounting | `core/types.py`, `core/portfolio.py` | cash, position (quantity, average price, realized PnL), peak equity, day-start equity, kill count | `apply_fill`, `equity`, `update_peaks` |
| Cost model | `cost/model.py` | none | `estimate`, `execute` |
| Risk engine | `risk/engine.py` | `_killed`, `_kill_reason` | `check`, `reset_kill` (the harness calls it before each fold) |
| Trading session | `execution/session.py` | book, marks, fills, equity curve, rejected orders, kill reason, bar count | `run_feed` |
| Paper broker, live stub | `execution/paper_broker.py`, `execution/live_stub.py` | connection flag | `connect`, `submit`, `poll_fills`, `disconnect` |
| Interactive Brokers adapter | `execution/ib_adapter.py` | `enabled`, `_trades`, the connection | the same, with two waits in `submit`, one of them bounded |
| Journal | `persistence/journal.py` | the file, `_disabled` | one writer per row kind, `iter_events` |
| Restore | `persistence/restore.py` | none | `restore_from_journal` |
| Command line | `cli.py` | none of its own: processes that share a journal file | `paper`, `live`, `resume`, ... |
| Paper engine | `execution/paper.py` | book, fills, equity curve, a RiskEngine | `run` |
| Evaluation harness | `eval/harness.py` | one RiskEngine; a book and a curve per fold | `run`, `_run_segment` |
| Walk-forward windows | `eval/walk_forward.py` | a generator's `start` and `fold` | `generate_walk_forward_splits` |
| Monte Carlo, metrics, report, data, strategies | `eval/`, `report/`, `data/`, `strategy/` | none | pure functions |

### How the parts interact

`run_feed` is the only place where the parts meet, on one thread. For each bar:
mark the close; on a new date take the day's opening equity; update the peaks;
apply what `poll_fills` returns; call the strategy; for each order call
`risk.check`, and either reject it (journal a row; a KILL also journals a kill)
or submit it with the quantity the engine allows; append to the equity curve;
every `heartbeat_every` bars journal a heartbeat and an equity row. A kill ends
the loop after the bar it happened in. A `finally` clause disconnects the broker
and journals the end. Outside the thread there is the disk, which may refuse a
write, and the venue behind the Interactive Brokers adapter, which executes,
cancels and reports on its own time, as far as the adapter lets the event loop
of `ib_insync` run (in `submit` and in `poll_fills`).

The file outlives the process. Its name holds the mode, the strategy and the
symbol, so every session of the three appends to the same file, and
`resume --continue` is a new process that restores one of these sessions, with a
risk engine and a broker of its own, and trades on in the same file.

Two other loops take the same steps on the research side: `PaperEngine.run` and the
harness's `_run_segment`, with `execute` and `apply_fill` in the place of a broker.
The harness first takes all the windows from the generator, then runs a segment
over the whole frame for each, trading in its test window only; the book is new
for each fold and the RiskEngine is not.

### What is hard

* **Interleaving with the venue.** Executions come in parts, before, during or
  after the wait of `submit`, and even after the status that ends their order; the
  connection can drop at any of these moments, and a request may never be answered.
* **Two delivery paths for one fill.** `submit` and `poll_fills` both turn a
  trade into a fill.
* **The order of steps inside a bar.** Peaks are updated before fills, the
  curve is read after them; orders of a bar are checked one after the other
  against a book the earlier ones have changed; a kill leaves the rest of the
  bar's orders to be checked.
* **Position arithmetic.** Open, add, reduce, close and flip are five paths
  through `apply_fill`, and only a sequence of fills shows an error.
* **Partial failure.** A write that fails disables the journal; trading goes on. A
  read that fails ends the file early, and the restore goes on with that.
* **Crash and resume.** The journal must rebuild the book after any row, with
  several sessions in the file; the place to continue from, the kill switch and
  the peaks survive only in part.
* **Exceptions on the way.** `submit` swallows what a sleep or the reading of
  the fills raises, after the order is at the venue; `poll_fills` does not, and the
  same exception ends the session there.
* **Three loops, one meaning.** Session, engine and segment each write out the same
  steps; nothing but their agreement makes a backtest say something of a session.
* **Window arithmetic.** Purge, embargo, fold number and a start that moves
  decide where a test lies; an off-by-one tests on bars that were trained on.

### What makes each part correct

* Portfolio: the quantity is the sum of what was traded; cash, position,
  realized PnL and commissions always add up; the PnL of each trade is net.
* Risk engine: whatever leaves it respects the limits; a kill is final; it never
  makes an order larger.
* Session: risk before broker; every ending disconnects and is journalled.
* Adapter: each execution reaches the book once; an order is watched until it has
  ended and what is known of it is delivered; nothing is placed while it is disabled.
* Journal and restore: at every step the rows on disk rebuild the live book; after
  a disk failure they are a prefix of what happened.
* Command line: whatever crashes and resumes, a session is one book that moves by
  its fills; a resumed session continues where the other stopped, and not at all
  after a kill.
* Engine and harness: the same bars and orders give the same fills and the same
  equity as a session; a fold's result is its own.
* Windows: in the frame and not empty, no bar tested twice.

`PROJECT.json` lists the hazards at the lines where they bite, with the
properties that cover them or the reason why none does.

## 2. The modules

```
Portfolio ── PortfolioLedger ── MCPortfolioLedger
    ├─ CostModel ──┐
    ├─ RiskEngine ─┼─ TradingSession ─┐
    ├─ Journal ────┘                  ├─ SessionProperties ─┬─ PaperSession ── MCPaperSession
    └─ Restore ───────────────────────┘          │          │    ├─ Recovery ── MCRecovery
                                             GuardedBook     │    └─ Research ── MCResearch
                                             (INSTANCE)      └─ IBSession ── MCIBSession
    RiskEngine, CostModel ── BarLoop ─┬─ Research
                                      └─ Harness ── MCHarness
                       WalkForward ────────┘

BarLoop ── TradeLemmas ─┬─ PortfolioProofs      (with PortfolioLedger)
                        ├─ HarnessProofs        (with Harness)
                        └─ SessionLemmas ─┬─ IBSessionProofs       (with IBSession)
     (with SessionProperties)             └─ PaperSessionProofs    (with PaperSession)
                                                ├─ RecoveryProofs  (with Recovery)
                                                └─ ResearchProofs  (with Research)
```

**Portfolio** — `Order`, `Fill`, `Position` and `PortfolioState` as sets of
records, `apply_fill` as `ApplyFill` with one operator for each of its decisions
(`SameDirection`, `AveragePrice`, `CloseQty`, `QtyAfterClose`,
`PriceAfterClose`). The average price is an exact fraction `[n, d]`, not a float.

**PortfolioLedger** — a book and the fills it is given: one action, `Apply`.

**CostModel** — the fill price and the commission. Money is counted in whole
ticks; the price shift and a percentage commission are rounded down to the tick
and the square root to two digits.

**RiskEngine** — `check` in the order of its early returns: `CheckAccount` (equity,
daily loss, drawdown, mark), then `CheckPosition` (position limit, gross limit,
volatility). The code's quotients of equity are multiplied out so that the
comparisons are exact; quantities it computes are rounded down to lots.
`ResetKill` is `reset_kill`.

**Journal** — the file as a sequence of rows and the flag `_disabled`. `Write` is
the whole `_write`: the rows, or a beginning of them (even all of them, when the
error is that of the close) with perhaps a torn line, and the
journal disabled, or nothing once it is disabled. A line cut short (`TornRow`) has no
newline, so the first row a later process appends continues it (`Appended`,
`Continued`): both are then one line no reader can parse (`LostRow`), with the rows
after it intact. A row carries the id of its session.

**Restore** — `restore_from_journal`: `Replay` is the loop over the events, a recursive
function of the number of rows read: those of one session change a fresh book,
those of the others are skipped. `CanRestore` is what it refuses: a line that does not parse,
anywhere in the file, and a session without a start row.

**TradingSession** — `run_feed`, an action per step between two effects an
observer could tell apart; `pc` is where the loop stands:

| `pc` | action | code (`session.py`) |
|---|---|---|
| start | `Start` | 126-143, journal `session_start`, `connect` |
| feed | `NextBar`, `FeedEnds` | 146-156, mark, day roll, `update_peaks` |
| poll | `PollFills` | 158 |
| poll | `PollRaises` | 158, an exception that only `finally` sees |
| delayed | `ApplyDelayed`, `OnBar`, `StrategyRaises` | 158-193 |
| orders | `RejectOrder`, `Approve`, `EndBar` | 194-231, 258-270 |
| kill | `RecordKill` | 212-217 |
| submit | `BrokerRejects`, `BrokerFills`, `BrokerDefers` | 232-257 |
| finally, unwinding | `Finish` | 271-278 |

A strategy is any choice from `OrderLists`, or an exception. The steps take the
broker's answers as parameters, so that each broker module closes the loop its
own way; `LoopStep` is what no broker takes part in. `session_id`, `forced` and
`start_index` are the arguments of a resumed session; its Init is that of a
session that starts a new file.

**GuardedBook** — the abstract specification: cash, quantity, the list of fills and a
closed flag. A step is one fill, added to the list and moving the book by exactly
its value, or the closing, after which nothing moves. It knows nothing of bars,
orders, brokers, average prices or the journal.

**SessionProperties** — what a session promises with any broker, and the refinement
mapping `ImplementsGuardedBook`: cash and quantity are the book's, the fills are
`self.fills`, closed is the risk engine's switch.

**PaperSession** — the brokers that answer at once: the paper broker fills every
order through the cost model, the stub refuses every order.

**IBSession** — the adapter and the venue. `venue` holds every order placed, as the
`Trade` object shows it (shares executed, price, done), with two counters of the
shares handed over by `submit` and by `poll_fills`; `trades` is `_trades`;
`qualifying` is the wait for the answer of `qualifyContracts`, `waiting` and
`waited` are the progress of `_wait_done`. Adapter: `Connect`, `RefuseOrder` (the
gate), `AskVenue`, `RefuseContract`, `PlaceOrder`, `WaitForFill`, `AnswerFilled`,
`AnswerPending`, `PollTrades`, `PollDisconnected`, and three exceptions: `WaitRaises`
(out of a sleep; the order counts as not done), `AnswerError` (while `submit` reads
the fills; the order is answered as refused although it was executed) and
`PollTradesRaises` (while `poll_fills` reads them; the session ends). Venue:
`VenueExecutes` (any part of the order, before or after its end), `VenueEnds`
(filled or cancelled), `ConnectionLost` (for good: nothing connects again).

**Recovery** — the processes on one journal file. `Crash` may come at any step of a
process and leaves the file; `NewSession` is `cmd_session`, `Resume` is
`cmd_resume --continue`: it refuses what cannot be restored, a session whose kill
row is on disk and one with no bar left, boots a session from the restored book at
`ContinueAt`, and gives a live session the stub. It reads the whole file, or with
`ReadsMayFail` any beginning of it: `iter_events` swallows an error of the disk and
yields the rows so far (`Readable`). `past` remembers what the dead
processes of a session had done, for the properties only.

**BarLoop** — the loop bodies of `PaperEngine.run` and `_run_segment` as operators over
a run (book, switch, fills, curve): `TakeOrder`, `StartBar`, `StartSegmentBar`,
`TradeBar`, and `Trading`, the loop over the orders of a bar as a recursive function.
The segment has no day roll; that is the difference.

**Research** — a session, an engine and a segment over the same bars and orders, each
with a book and a switch of its own. The session takes its bar in many steps,
the others in one, when its strategy is called. A killed session stops;
`OthersTakeBar` is the rest of the frame for the other two.

**WalkForward** — `generate_walk_forward_splits`, one split or the return a step. Index
arrays are half-open intervals.

**Harness** — `EvaluationHarness.run`: `TakeSplit` until the generator returns,
`PlanFolds` (with the fallback to the whole frame), then for each window
`BeginFold` (a fresh book, `reset_kill`), `TakeFoldBar` for every bar of the frame,
`EndFold`. `run` never asks for expanding windows, so those go to another caller
(`HandOver`).

The **MC** modules give the constants their small values; section 4 is about the
modules of lemmas and proofs.

### Abstractions

* One symbol, as in the session: `run_feed` takes one symbol and marks only it.
* A stream counts its bars from zero, as a frame does that starts at zero.
* A bar is its close and whether its date is new; the volume is a constant.
* Prices, cash and quantities are integers. Floating-point rounding, and the
  `1e-12` tolerances that absorb it, are not modelled.
* Time stamps, identifiers, tags and the wording of reasons are left out, except
  the reason of a kill and of the end.
* Limit prices: no strategy of the repository sets one, and the paper broker ignores it.
* An order of the venue executes at one price, and its commission report has come
  by the time the adapter reads it. The status of an order and its executions come in
  any order, as messages of their own.
* A line of the journal without its newline counts as torn, also when nothing but the
  newline is missing.
* A booked fill and its row are one step (`BookFill`). A crash between them leaves the
  file of a crash before both, and the memory is gone either way: with the paper
  broker the fill exists nowhere else. Over the adapter it would exist at the venue;
  crashes of a session on the adapter are not modelled (section 6).

## 3. What is model-checked

Every property of a passing run has a mutant in `PROJECT.json`: a plausible bug
in one definition under which the same run fails.

### `portfolio` (MCPortfolioLedger)
Every sequence of up to four fills of 1 to 3 lots at three prices. Two fills are
enough to open and then add, reduce, close or flip; four let a flipped or
partly closed position be worked on again. `TypeOK` (the average price is a
fraction with a positive denominator, so a weight with the wrong sign shows),
`PositionIsNetTraded`, `PnlExplainsBook` (cash plus position at cost is the
starting cash plus realized PnL less commissions), `RealizedLessCommissions`
(what `apply_fill` returns, summed, is the same).

### `paper_session` (MCPaperSession)
Both brokers, a disk that may fail at any write (or from the start), a strategy that
may raise, three bars at closes 0, 80 or 200, every date pattern. A bar has no order,
a purchase larger than the limit, that purchase and a sale as large (opened and
flipped at once), or a large sale and one of a lot (an order after one that may be
refused, cut or a kill). A rise to 200 takes a position over its limit by price alone,
the fall to 80 breaches the daily loss and the drawdown, and zero is a close without
a mark. The heartbeat is every second bar, so bars with and without one occur.
* `RiskBeforeBroker`: an order at the broker passed with the switch released, no
  breach, and leads to a position within the limit. It is about the book at the
  moment of submission, after the fills of the bar's earlier orders.
* `KillIsFinal`: after a kill no step fills, moves cash or position or takes a bar.
* `PeakDominatesCurve`: no point of the curve is above the peak from which the
  drawdown is measured, although peaks are updated before the fills.
* `RestoreRebuildsBook`: at every step the restore of the rows on disk has the
  cash, position, fills and kills of the live book, as long as no write has failed.
  It is the answer to a crash after any row.
* `EquityRowsMatchCurve`, `JournalTellsSession`: what a reader of the journal
  relies on, the bar index and the order of the rows.
* `ImplementsGuardedBook`: every step is a step of `GuardedBook` or leaves it alone.
  A fill booked and not listed, booked with the wrong sign or after a kill breaks it.
* `JournalIsPrefix`: no row follows a hole, only the last line can be torn.
* `StubNeverTrades`: a live session without a wired venue has no fill.
* `EndsDisconnected`: the session ends with the broker disconnected, always.

### `ib_session` (MCIBSession)
Three bars, orders of two lots (so that an order executes in parts) and of one, an
adapter enabled or not, a broker that connects or not and may lose the
connection, a wait of one step (an answer within the wait and after it both
happen), a commission reported below zero.
* `DisabledNeverTrades`.
* `EachPathDeliversOnce`: neither `submit` nor `poll_fills` delivers more of an order
  than the venue has executed of it; an order delivered by a poll is not polled again.
* `DropsWhatItDelivers`: an order leaves `_trades` only when it has ended, and the step
  that drops it hands over every share reported of it so far.
* `BookIsWhatWasDelivered`: the position and the fills polled and not yet applied sum
  up to what the adapter delivered.
* From the session `TypeOK`, `RiskBeforeBroker`, `RestoreRebuildsBook`, `KillIsFinal`
  and `ImplementsGuardedBook`: fills the venue still owes change nothing after a kill.
* `EndsUnlessUnanswered`: the session ends disconnected whatever the venue does with
  its orders, unless it waits for ever for the answer of `qualifyContracts` over a
  connection that holds. That is the one wait the code does not bound
  (`ib_adapter.py:127`), and the property is false without the exception.

The exceptions are in all of them: an order answered as refused stays watched and its
fill is booked by the next poll; one out of a poll ends the session.

### `ib_execution_lost` (expected violation)
`NothingForgotten`: `broker.py:33` says `poll_fills` drains the fills that come later.
It pops an order that is done with what is known of it, or with nothing
(`ib_adapter.py:210-213`); an execution reported after that is in no later poll. The
same venue as above, in two bars. `DropsWhatItDelivers` holds in the same model: what
is lost is what was reported after the order was dropped, and nothing else.

### `recovery` (MCRecovery)
One file, three processes, two sessions, a crash at any step, on paper or live.
Two bars, each with an order, and a heartbeat on every bar. Three processes make a
session that crashes in a process that had resumed it, and a session resumed
after another one has appended its rows. The disk does not fail here;
`paper_session` and `resume_after_kill` are about that. Replayed bars may have
other closes, as a resume loads them anew.
* `BooksAreGuarded`: each session of the file, over all its processes, is one
  `GuardedBook`: a crash or a resume is a stutter, and the fills are those on disk.
* `RestoreRebuildsBook`: as above, for the process that runs, resumed or not.
* `TicksAdvance`: the equity rows of a session go forward although several
  processes and sessions write into one file.
* `LiveNeverTrades`: no process books a fill in a session that was started live.
* `RestoredPeakWasReached`: the peak a resume starts from is never above the peak
  of the process that crashed. It may be below: only equity rows carry it.
* `RecoveryTypeOK`.

There is no deadlock check: no process follows the last one.

### `resume_replays` (expected violation)
`ContinuesAfterLastBar`: the docstring of `cmd_resume` (`cli.py:115`) says it
continues from the last bar. Equity rows are written on heartbeat bars only. With
a heartbeat every second bar, a session of three bars ends, is resumed, and sends
orders for the third bar again, on a book that already holds its fills.

### `resume_after_kill` (expected violation)
`ResumeRefusesKilled`: `docs/DESIGN.md:17` says a resume refuses to continue when
killed. The refusal is read from the kill row, and its own risk engine is released.
Two swallowed errors hide the row. A write that failed earlier disabled the journal,
the session traded on and was killed, and no kill row was written. Or a read that
fails ends the rows before it. The run allows both and ends at whichever it meets first.

### `research` (MCResearch)
Three bars, up to two orders a bar, a daily limit tighter than the drawdown limit
so that the reference of the daily loss decides, every date pattern, a volume.
The closes are 80 and 120: a purchase at 120 falls into the daily loss, and a gain
from 80 to 120 that is lost again is a drawdown without a daily loss.
* `EngineTradesLikeSession`: between two bars with a volume a session on the paper
  broker and `PaperEngine` have the same fills, cash, position, switch and curve. The session reaches them in many
  steps, through rejections, reductions and kills. A killed session stops and the
  engine goes on to the end of the frame: from there the fills must not grow.
* `KillHaltsEngine`: the engine, which does not leave its loop, fills no more.
* `SegmentAgreesWithinDay`: up to the second date a segment does the same.

### `harness_day_roll` (expected violation)
`SegmentTradesLikeEngine`: `execution/paper.py:1` says "same Order → Risk → Cost →
Fill path as research". `_run_segment` never sets `day_start_equity` again: a
loss of the first date kills the segment on the second, where the engine trades.

### `walk_forward` (MCHarness)
All frames of 2 to 7 bars that a strategy trades and of 2 to 12 for expanding
windows, training and test sizes 1 and 2, purge 0 to 2, embargo 0 and 1, two price
patterns (falling first and rising first), one order a bar or none. Seven bars give
two and more folds, one killed before the next; purge 2 with training 1 or 2
leaves no split and takes the fallback; expanding windows need 12 bars for a third
split, where `fold * test_size` counts.
* `WindowsInFrame`, `TestsAreFresh`: windows lie in the frame and are not
  empty; a test begins after the embargo of every earlier one, and so does the
  training unless it expands. Nothing is stated of the gap between a training and its
  test, where code and docstring differ (section 5).
* `CurveStartsAtWindow`: a segment's curve is flat until its test window.
* `KillStaysInFold`: the switch is armed only in a segment that has traded.
* `EvaluationEnds`: the generator returns and every fold is run.

### `reduce_enlarges` (expected violation)
`ReduceNeverEnlarges`: the engine says "reduced to position limit"
(`risk/engine.py:108`) of an order it makes larger. With a long 6 marked at 200,
over the limit by the price move, a SELL of 1 is still over the limit after it;
the engine computes how far a sale may go (`current_qty + max_qty`) and submits
SELL 10. The position flips instead of shrinking by one.

### `ib_fills_twice` (expected violation)
`FillsArriveOnce`: `broker.py:49` says a fill comes by `submit`, or later by
`poll_fills`. The adapter returns it from `submit` and leaves the trade in
`_trades`, so the next poll returns it again: the book and the journal hold more
shares than the venue executed. `EachPathDeliversOnce` holds in the same model:
the duplicate is one delivery on each path.

### Fairness
The harness is one thread over finite frames: `HarnessSpec` has weak fairness on its
next step, and `EvaluationEnds` holds because each split moves `start` forward.
`RecoverySpec` and `ResearchSpec` state no fairness; their properties are safety.

`run_feed` is one thread over a finite frame. With the paper broker and the stub it
blocks nowhere: `PaperSession`'s `Spec` has weak fairness on `Next`, and
`EndsDisconnected` follows. Over the adapter, `_wait_done` is a counted loop of sleeps,
`connect` is given up by `ib_insync` after the timeout it has by default, and
`qualifyContracts` has none. `IBSession` has weak fairness on `Turn` only, the turns
that rest on nobody's answer. `PlaceOrder` and `RefuseContract`, where the venue has
answered, are not among them while the connection holds; once it is lost the open
request raises, and the refusal is a turn. None of the exceptions (`Raises`) is fair,
as they must not be what ends a wait, and none of the venue's steps, which owes
nothing. The venue can act only finitely often between two steps of the thread, because
an order executes at most its quantity and ends once.

### Bounds
`NBars`, `MaxOrders`, `WaitSteps`, `Prices`, `VenuePrices`, `MaxFills`, `MaxProcesses`,
`MaxSessions`, `MaxBars`, `MaxBarsExpanding`. They bound inputs of the program (the
length of the frame, what the strategy returns, the timeout, how often someone
starts it), not its state: a run ends because the frame does. `portfolio` stops
at `MaxFills` fills and the runs of Recovery after `MaxProcesses` processes; these
are the runs without a deadlock check.

## 4. What is proved

The theorems hold for every value of the constants under the named assumptions
of the modules: the settings have the types and signs `config.py` gives them,
prices are integers, order lists are any set of sequences of orders, starting
cash is positive, window sizes are positive, purge and embargo not negative (what
`EvalConfig` does not enforce), the patterns of closes the harness's strategy trades
are lists of integers. They bound neither the bars, the orders, the
fills nor the frames.

**Induction.** A sum, a replay, a loop over a bar's orders are recursive functions
`f[n \in 0..m]`, and the facts about them need two things that the provers do not
bring along. `NatSetInduction` (TradeLemmas) is induction over the natural numbers in
terms of a set instead of a predicate; it follows from the pigeonhole principle for
finite sets, because the numbers a set lacks could otherwise be mapped one down into
fewer. `FiniteRecursion` builds on it: a recursive function exists whenever each of
its steps stays in some set, so that the `CHOOSE` behind `f` has something to choose.
`ReplayDef`, `FoundDef`, `TradingDef` and `SumsAddUp` are its four uses.

* **PortfolioProofs.** `FillKeepsBooks` (TradeLemmas): in each branch of
  `apply_fill` the value of the book at cost changes by exactly the realized PnL
  less the commission. The rest is by induction over the fills: `TypeCorrect`,
  `PositionCorrect`, `PnlCorrect`, `RealizedCorrect`. Each invariant is inductive
  together with `TypeOK`; the lemmas are the arithmetic of fractions with
  different denominators.
* **TradeLemmas** holds besides what the operators of a trade return: a decision of
  `check` that lets an order through leads to a position within the limit (`MaxQty`
  rounds down; the room towards the order's side is exact), only a KILL arms the
  switch, a paper fill never gains at the close, and what the loop over the orders
  of a bar does.
* **PaperSessionProofs** (with SessionLemmas, one lemma for each step of the loop).
  The inductive invariant is `TypeOK /\ StageInv /\ RiskBeforeBroker`. `StageInv`
  says what each stage of the loop knows: there is an order in hand at the broker,
  and a killed session is in the rest of its bar or on its way out. Without it the
  type of the booked fill and the finality of a kill do not follow. Results:
  `TypeCorrect`, `RiskGate`, `KillFinality`, `StubSafe`, and `PeakCorrect`. The last
  needs a further invariant, that the book at the current mark is worth at most the
  peak; it is kept because a paper fill never gains at the close. `Refinement`:
  `Spec` implements `GuardedBook`; the initial states map, and each action is a trade
  of one fill, the closing or a stutter, where `StageInv` says that no fill is on its
  way once the switch is armed.
* **The journal** (SessionLemmas, for both brokers' modules). `RestoreCorrect`: what
  a restore finds is the live session. The invariant `RestoreInv` speaks of
  `OnDisk`, the replay of the file as it is, whether or not a restore would accept it:
  it has the live book as long as nothing was lost (`TellsNow`), one row further is one
  replayed row further (`ReplayedAppend`), and each kind of row is shown to tell
  what its step did to the book (`FillRowTells`, `KillRowTells`, `EndRowTells`; the
  others are silent). The kill is the one place where book and file are a step
  apart, which is what `JournalledKills` says. `JournalPrefix` carries, for a disk that
  may fail, that a journal without a hole has all fills and rejections so far and a
  disabled one a beginning of them. `JournalTale` and `CurveRows` are about the order of the
  rows and the bar an equity row names; their invariants add that nothing follows an
  end, and how long the curve is at each stage of a bar.
* **IBSessionProofs.** The invariant adds what the adapter knows of each order
  (`TradeInv`): nothing is handed over before the order is done, and never more than
  was executed; nothing by poll while it is in `_trades`; nothing by `submit` while
  `submit` waits for it; what left `_trades` is done. And what it knows of the calls
  (`WaitInv`): an open request or a wait is inside `submit`, never both. It makes
  `EachPathDeliversOnce` inductive, and `DropsDelivered` follows from it step by step:
  only a poll takes an order out of `_trades`, and there `by_poll` was zero. The type invariant needs it for the shares of a
  fill to be positive, `DisabledSafe` needs that no fill is on its way either
  (`DisabledInv`). `RiskGate` is proved again here because late fills change the
  book between the checks, and so are `Refinement` and `KillFinality`: the fills of
  a poll are applied before any order of the bar is checked, so none is left when
  a kill comes, and what the venue does later stays with the adapter
  (`Unanswered`: the order waited for has given nothing yet). `BookDelivered` is an
  identity of two sums, over the orders and over the fills still to apply. An
  answered order changes one term (`TotalChanged`), an applied fill moves from the
  front of one sum into the position (`TotalFirst`), a new order adds a zero
  (`TotalLonger`), and a poll raises the terms of the orders it delivers, listed in
  an order of their own, by the terms of a new list (`TotalRaised`, by induction over
  that list). It is inductive with `LateOnly`: outside the stage that applies them no
  polled fill is waiting, so a poll never drops one.
* **RecoveryProofs.** The invariant `RecoveryInv` joins what a running process knows
  (the session's invariants, now of a session that may start at a later bar) and what
  it knows of the file: its next tick is later than every tick of its session on disk (`TickInv`),
  the peaks on disk (`PeakOnDisk`), a kill row of its session means that the switch
  is armed (`KilledOnDisk`), one mode for the whole file (`FileInv`). From it follow
  what needs no reading of the whole file: `RecoveryTypeCorrect` and `LiveCorrect`, on
  any disk and with any read (`CoreInv`, the part of `RecoveryInv` that a resume from the
  first rows of the file keeps too). The others assume a resume that reads all of the
  file (`~ReadsMayFail`, as in the run): with less of it the book is an older one and the
  next tick an old bar. `TicksCorrect`, `RestoredPeakCorrect` and `RecoveredUncut` then
  hold however writes fail: a restore finds the running session whenever no line
  of the file is cut. `RecoveredBook` and `BooksCorrect` also assume a disk that takes
  every row (`~DiskMayFail`): with failing writes a fill may be in the book
  and not in the file, and a crash then does change the session's book.
  For `BooksCorrect` every session of the file is read off the file alone
  (`BookIsInFile`), so each step of any process is judged by the rows it writes
  (`NextGuardsBooks`).
* **ResearchProofs.** `EngineCorrect` is a simulation: the engine takes a bar's
  orders at once and the session one by one, so while the session is inside a bar
  the engine is where the session will be once it has taken the orders still in its
  queue (`EngineAhead`; `AfterOrders`). A rejection, an approval and a fill each take
  the head of the queue (`FirstOrderFirst`), and what a check or a fill reads
  is the same in both (`Alike`, `TakeOrderAlike`). After a KILL the engine goes on with
  a switch that lets nothing through (`KilledRunStops`). `SegmentCorrect` uses
  `Alike` between segment and engine: on the first date the roll of the day finds
  the starting cash, where the segment's reference is. `EngineKillFinality` is the
  action property.
* **HarnessProofs.** `FramesCorrect` and `TestsCorrect`, for every
  frame length and all sizes, for the generator and for the harness that uses it.
  Neither is inductive alone: a new split is fresh because of where it
  starts, so the invariant carries `YieldedBeforeStart` (every test yielded, and its
  embargo, ends at or before `start`). `NextWindows` is the arithmetic of one split.
  `CurveCorrect` and `KillCorrect` rest on `SegmentInv`: a run without a fill is worth
  its starting cash at every mark (`FlatUntilFilled`), and such a book breaches no
  limit above zero, so nothing but a fill of the fold itself can lead to a kill.

Every safety invariant and action property of a passing run is stated by one of
these theorems.

**Only model-checked.** Liveness: `EndsDisconnected`, `EndsUnlessUnanswered` and
`EvaluationEnds`. Temporal
proofs under fairness and ENABLED are out of the prover's reach.

## 5. Where code and text disagree

Besides the six runs above:

* `tests/test_risk.py` expects REJECT for an oversized order from a flat book; the
  code returns REDUCE.
* `tests/test_paper.py:12` and `tests/test_session.py:12` read `result.equity_curve`,
  with one point per bar; the code has `equity`, with one point more.
* `risk/engine.py:98-109`: an order cut by the position limit is not checked
  against the gross limit. `max_net_exposure` is never read.
* `cli.py:137`: with no equity row a resume starts at 1 and skips bar 0.
* `session.py:271-278`: a session that ends by an exception is journalled as
  "completed".
* `session.py:151-154`: the day's opening equity includes the overnight move, so
  daily bars never breach the daily loss.
* `execution/paper.py:118`, `eval/harness.py`: a volume of zero is None for the session,
  which falls back to a default volume, and zero for the engine and the harness,
  which then charge no impact. `EngineTradesLikeSession` is stated for bars with a
  volume.
* `walk_forward.py:46,52`: the docstring (line 30) drops `purge` bars at the end of the
  train window; the code also shifts the test window by `purge`, a gap of twice
  that. `NextSplit` has the code's gap and no property states it: a violation would
  only compare two assignments with the docstring. A purge as long as the training
  leaves no split, and the harness then tests on the whole frame without saying so.
* `core/config.py`: a negative purge or embargo is accepted, and would let windows
  overlap.
* `eval/harness.py`: a position open at the end of a test window is marked to the
  end of the frame, and that drift is in the fold's curve.
* `journal.py:105-116`: one torn line makes the journal unreadable, and an error of
  the disk makes it shorter without a word.
* `ib_adapter.py:198-209`: what reading a fill raises is caught in `submit` and not in
  `poll_fills`, where it ends the session.
* `ib_adapter.py`: a fill better than the close puts the curve above the peak
  (peaks are updated before the fills), so `PeakDominatesCurve` is stated for the
  paper broker only.

## 6. What is not modelled, and why

* `IBBroker.cancel` and `Journal.last_session_id`: no code of the repository calls them.
* An order executed at several prices, and a commission report that comes after the
  fill was read (the code then books a commission of zero). The adapter sums the
  executions; with two prices or reports an execution the three bars that the
  delivery properties need have too many states, and none of them is about the sum.
* A resume of a live session on a real venue: the venue options are not in the
  journal, and the configuration names the stub unless it is changed. Orders in
  flight at the venue are then nobody's.
* A crash of a session on the adapter: without a resume on the venue (above) nothing
  follows it. That `session.py:252-256` books a fill before it is journalled would
  matter there, as the venue keeps what the process forgets.
* `resume --symbol`: the book of the modules has one symbol.
* Several processes at one file at the same time: nothing in the code locks it,
  and nothing in the repository says it may be done.
* Metrics, Monte Carlo and the strategies' indicators: floating-point statistics.
  What the harness does with its curves feeds them only.
* The report, the loaders, the YAML and argument parsing, the fallback to a
  temporary directory: pure I/O.

## 7. Plan

Done: the book, cost, risk, journal, restore, session, all three brokers; recovery;
the abstract `GuardedBook` and its two refinements; the exceptions of the adapter;
the research loops; the harness and its windows; and the proofs of section 4, which
cover all safety properties of the passing runs.

Left:

1. Executions at several prices, in a module of the adapter without the session.
2. Delivery once per path as an abstract specification of the adapter, refined by
   IBSession, with its proof.
3. A bound on the double delivery: the book never holds more than twice what the
   venue executed of an order.
