# TLA+ models of propx-bot

`propx-bot` is an asyncio trading program for MetaTrader 5 accounts at prop
firms. This directory models its live program: what it does between an H1 bar
close and an order, what it remembers of the day, how it looks after open
positions, how ticks reach the disk, how the process is supervised and reports;
and its research half: the detectors of price patterns and the backtests that
judge them. TLC checks the models on small instances; TLAPS proves the central
results, of the live program and of the research half, for all values of the constants.

Paths in this file are relative to the root of the repository.

## 1. Inventory

### Components of the live program

| component | state | operations | talks to |
|---|---|---|---|
| **live engine** `execution/live_engine.py`, driven by `data/live_bar_poller.py` and `scripts/run_asian_sweep_live.py` | `_traded_directions_today` and its day, `_equity_hwm`; the poller's last-seen stamps and buffers | `poll_once`, `_fire_engine`, `process_scan_cycle` (kill switch, admission gates, numbering and sizing, order, booking), `maintain_open` | scanner, compliance, daily tracker, order router, position manager, alerts |
| **compliance engine** `risk/prop_firm/compliance.py` | emergency latch | `can_trade`, pure on an account snapshot | called by the engine |
| **daily tracker** `monitoring/daily_tracker.py` | the `DailyState` of one IST day and its one-row parquet file | four mutators which first roll the day, `persist`, reload at start | called by engine and script |
| **order router** `execution/order_router.py` | `_recent_submissions` | `place_market`, `_place_pending`, `cancel_pending`, `modify_sl`, retries, recovery of a missing fill price | the terminal |
| **position manager** `execution/position_manager.py` with `risk/trailing_sl.py` and `strategy/swing_tracker.py` | `_positions`, `_pendings`, structural stops, the last three bars and swings of a pair | `register_position`, `register_pending`, `on_pending_filled`, `maintain` | engine, router |
| **Asian sweep detector** `strategy/patterns/asian_sweep.py` | none: a function of the buffer of closed bars | `detect` | asked by the scanner |
| **sizing** `risk/asian_sweep_exit.py` (`size_position`), `risk/house_money.py` | the profit of the month, which the live program never feeds | the size of a signal, the share at risk of the day's nth trade, the lots of an order | engine |
| **tick capture** `data/tick_collector.py`, `data/tick_writer.py`, `bot.py` | cursor, bounded queue, buffer, part counters, part files | poll, enqueue, flush in a thread, drain, final flush | terminal, file system |
| **replay** `replay/replay_engine.py` | the last stamp emitted | `run` over the parts of a date | files of the writer |
| **supervisor** `supervisor.py` | attempt, child, stop flag, last balance | restart loop, balance guard, signal handlers | the bot as a child process |
| **hourly reporter** `monitoring/hourly_reporter.py` | the counters of the engine, a stop event | `run_periodic`, `send` (format, await the notifier, reset) | engine, notifier |

### Components of the research half

| component | state | operations | talks to |
|---|---|---|---|
| **exit ladder** `risk/asian_sweep_exit.py` | `ExitState` of one position | `init_exit_state`, `maintain_exit`, `force_close_eod`, `compute_pnl` | nothing: a port of the simulator, which the live program does not wire |
| **multi-pair backtest** `multi_pair_backtest.py` | the balance | range, bias, signals of a day, choice of two, simulation | the source the live detector is pinned to |
| **research detectors** `strategy/patterns/*.py`, `strategy/multi_setup_config.py` | none | break and retest, order block, liquidity sweep, level rejection, silver bullet, level flip; merging of signals that agree | asked by the scripts |
| **research scripts** `scripts/multi_setup_backtest.py`, `silver_bullet_backtest.py`, `sr_flip_backtest.py`, `sr_flip_exit_sweep.py` | `BacktestState`: balance, peak, open and closed trades, counts of the day, halts, curve | the walk over stored bars, gates, sizing, the life of a trade, report, verdict | detectors |
| **New York gold strategy** `strategy/ny_gold_detector.py`, `ny_gold_backtest.py`, `ny_gold_data.py` | burned levels and dwell times of the day; the walk's state | detector over three timeframes, walk, cooldowns, report | stored bars |

Further parts: circuit breakers, bar aggregation, paper brokers, the back-test
runner, news calendar, MT5 connector, alerts and dashboards, settings,
utilities. Section 7 says what becomes of each.

### How they interact

Everything in the live program runs in one event loop. The poller is the only
task that trades: it fetches closed bars, then awaits `process_scan_cycle`, then
awaits `maintain_open`, each with a broad `except`. Orders, modifications,
cancels and alerts are awaits; terminal calls run in threads. The objects share
no locks. What makes it hard:

* **Awaits.** While an order or an alert is awaited midnight passes, bars close,
  the broker fills, stops and expires. The cycle has sampled the clock and the
  account once, before.
* **Two books.** The broker has the positions; the bot has its own map, which it
  never reconciles. Entries come from `register_position`, exits from
  inference on bars.
* **Two ledgers of the day.** `DailyTracker.trade_count` and the engine's set of
  directions are rolled by different code at different moments.
* **Exceptions in the middle.** `place_market` raises, and then nothing of the
  cycle after it happens.
* **Ambiguous answers.** `order_send` may execute and answer with a transient
  code, with an unknown one or with nothing; a modification may be executed and denied; a
  cancel is judged by one number. `account_info` may give nothing.
* **Restarts.** The live script gives the tracker no file, so a new process knows
  nothing of the day; the writer's new process knows its directory.
* **Cancellation.** A cancelled task leaves its thread running (writes, sends).

The research half is sequential. What makes it hard there:

* **Time.** A detector must not see what had not happened yet. Bars of several
  lengths carry their open time; the walk keeps cursors into them, which move
  only at some events.
* **Order inside a bar.** Stop, first target, break-even, trail, second target,
  time stop and forced close may all fall in one bar, and five scripts, a ladder and
  a simulator each have an order of their own.
* **Copies.** Each detector is written once for longs and once for shorts; the
  scripts are copies of each other; the live detector, ladder and size are ports of the
  backtest.
* **Gates.** Caps per day, halts after losses and cooldowns are spread over one long loop
  with early continues.
* **Rounding.** Lots are floored, rounded or clamped at four places.

### What makes each component correct

* engine: at most one trade per direction per IST day, at most two a day, no
  second tracked position on a symbol, no order past the drawdown limit as long as the
  account is known; no trade lost between fill and booking; every cycle ends, and every
  bar is seen that a failing poll does not drop.
* tracker: the count and the drawdown are those of the IST day, as far as the file was
  written before a death.
* router: one order per signal and window; the caller learns what happened; every
  call ends.
* position manager: the map's stop is the broker's stop; stops loosen only in the
  rollover window; locked profit stays locked; a position leaves the map only
  for a reason; no forgotten order rests at the broker.
* tick capture: ticks are accepted once and in order and reach the disk; a part
  file is never overwritten; shutdown completes.
* supervisor: bounded restarts, no restart after a jump of the balance, a stop
  ends it.
* reporter: nothing is told twice, nothing counted between two sends is lost.
* detector and ladder: hour by hour they give what the backtest gives on the whole
  day.
* sizing: an order risks no more than the ceiling and is no larger than the
  size of its signal.
* research detectors: their halves mirror each other (levels: where the order of gathering
  does not matter); no break of structure is seen in hindsight while the buffer it must clear
  does not shrink; contradicting signals are dropped.
* backtests: fills add up to trades and trades to the balance; stops only tighten; no
  gate is passed; no trade risks more than its share; the report is that of the trades.

`PROJECT.json` lists the hazards behind these sentences, each at its line.

## 2. Modules

### The live program

| module | models | role |
|---|---|---|
| `DailyState` | the snapshot of the day, the mutators and the roll as functions on it | used by `LiveEngine` and `DailyTracker` |
| `Compliance` | `can_trade` as a verdict on a proposal and a snapshot | used by `LiveEngine` |
| `LiveEngine` | the poller task and everything a cycle does, the broker's fills, process death and restart | the core |
| `TradeLedger` | what the program promises about its trades | abstract specification that `LiveEngine` implements |
| `LiveEngineProofs` | theorems about `LiveEngine` | proofs |
| `PositionManager` | swing trail, widening, `modify_sl`, inferred stop-outs, against the broker's positions | component |
| `OrderRouter` | market and pending orders through guard, retry and price recovery | component |
| `TickPipeline` | collector, queue, writer and threads, part files, shutdown, death, restart, replay | component |
| `PendingExpiry` | pending orders, the bot's and the broker's expiry, promotion | part of `MCServices` |
| `DailyTracker` | the tracker with its file, an account, midnight and deaths | part of `MCServices` |
| `Supervisor` | restart loop, balance guard, signals | part of `MCServices` |
| `HourlyReporter` | counters, the periodic task, the awaited send | part of `MCServices` |
| `MCServices` | the four parts side by side | TLC |
| `PositionProofs`, `RouterProofs`, `TickPipelineProofs`, `ServicesProofs` | theorems about `PositionManager`, `OrderRouter`, `TickPipeline`, and the parts of `MCServices` | proofs |
| `MCLiveEngine`, `MCOrderRouter`, `MCTickPipeline` | instances; `MCLiveEngine` also states two sentences of the repository that its code does not make true (a third, `DropMeansClosed`, is in `PositionManager`) | TLC |

`LiveEngine` composes `DailyState` and `Compliance` by EXTENDS. It sees the router
as an environment: a send fills once, fills and raises, fills twice, or raises
(`Ghosts`); `OrderRouter` shows how those outcomes arise. It sees the position
manager as a map from which `Maintain` drops positions; `PositionManager` shows
when that is justified and `PendingExpiry` what happens to pending orders, which
the V5 engine of this repository never places. The signal of a pair is an input;
`AsianSweep` shows where it comes from and what lots its order has.

### The Asian sweep and its backtest

| module | models | role |
|---|---|---|
| `AsianSweep` | the live detector as an operator on a buffer of bars; the exit ladder, its profit, `size_position`, house money, the lots of an order | pure |
| `MultiPairBacktest` | `multi_pair_backtest.py`: range, bias, signals, choice and simulation of a day | pure; the reference of the one above |
| `AsianSweepDay` | one day, hour by hour as the live program sees it, then at once as the backtest does | machine |
| `AsianSweepDayProofs` | theorems about the signals, the sizes, the orders and the ladders of `AsianSweepDay` | proofs |

### Research

| module | models | role |
|---|---|---|
| `Candles`, `MultiSetupCommon` | shapes of candles; swings, trend, ATR, impulses, rejections, levels | helpers |
| `BreakOfStructure`, `Sweeps`, `SrLevels` | two detectors each: break and retest with order block, liquidity sweep with silver bullet, level rejection with level flip | pure |
| `Confluence` | signals that agree are merged, those that contradict are dropped | pure |
| `Detectors` | candles close; a scan gathers signals | machine |
| `MultiSetupBacktest` | the state of a backtest, a step of its walk, the life of a trade, sizing, report | functions on records |
| `OneSetupBacktests`, `SrFlipExitSweep` | what the three other scripts do differently; the six exits | functions on records |
| `NYGoldDetector`, `NYGoldBacktest` | the gold detector with its memory; frames, walk, fills, cooldowns, report | functions on records |
| `Backtests` | one of these scripts walks stored events | machine |
| `BacktestsProofs` | theorems about `Backtests` | proofs |
| `Folding` | what a fold over a sequence is worth: its recursion, an invariant of it, the fold of a concatenation; induction over numbers and sequences as membership in a set | lemmas for the proof modules |
| `MCDetectors`, `MCBacktests` | instances; `MCBacktests` also states what the header of a script says of its data, for a violation run | TLC |

### State and actions against the code

**LiveEngine.** `pc` is the await the poller task is suspended at: `idle` (its
sleep), `scan` (the loop over signals, between two awaits), `sending`
(`place_market`), `opened` (the `trade_opened` alert), `maintain`, `down`.
`at`, `acct`, `todo`, `closes` and `cur` are the locals of the running call and
are reset when it ends. `StartCycle` is `poll_once` with `_fire_engine` and
`process_scan_cycle` up to its first await: the direction ledger is rolled, the
high-water mark is raised, the kill switch may empty the cycle. The account is the broker's, or, when
`account_info` gives nothing, the starting equity for equity and balance alike, which may raise the mark
too (`AccountSnapshot`); `sample` and `peak` keep what the account really was. `PollFails` is a poll
that raises at a later pair and `ProvidersRaise` a price or account call that raises: the stamps have moved, the
closes are dropped, and the pairs are in `missed` until their next bar. A pair whose rates come back
empty keeps its stamp (`PollFires`). `Gate` has the
admission gates in the order of the code; `Refuse` is each `continue`. `OrderFilled`
includes `register_position`, which follows without an await; `BookTrade` is
`record_trade_open` and the ledger update after the alert. `OrderRaises` leaves
through `_fire_engine`'s `except`. Signals are taken in any order: the scanner's
order is that of a dict of pairs, and no property depends on it. A day is four
phases (before the window, in it, in a news blackout inside it, after it). Money is
integer; percentages are multiplied out. `mishaps`, `booked`, `run`, `day_balance`, `sample`, `peak` and
`missed` are history.

**PositionManager.** One pair. Bars are ranges of prices the market really visited,
so whether a bar touched a stop and whether the broker closed the position are
two facts about one price path. `Examine` is `TrailingStopLoss.update` and, when
the stop stands, the rest of the loop body; otherwise `modify_sl` is awaited and
`ModifyAnswered` does the rest: executed and confirmed, not executed and refused, or executed and denied
(no answer, or any code but DONE); `denied` remembers the positions whose last executed modification
was denied.

**OrderRouter.** `Call` is the guard (market orders only) and the record of the
submission with its bounded cleanup; the three answers are the branches of
`_send_with_retry`; `ResolvePrice` is `_fill_price_from_position`. A price is the
ticket it belongs to: two fills never have the same one, which is all that the
properties tell apart.

**TickPipeline.** A tick is its index in the feed. `threads` is a set of write threads
`[date, group, step, part, awaited]`, three steps each (number, file, counter), because a
cancelled flush leaves its thread alive (`Left`: nobody awaits it any more) while the final
flush starts another one. `groups` is the set of dates that are left of a flush; they are handed
over in the order in which they first appear in the buffer (`IsNext`), which is the order of the
code's dict. `Rows` is what a mask or a group-by selects from a sequence. `Restart` keeps the
files only. The replay of a date is a fold over its part files in the order of their numbers: a torn
file ends it, and a row is emitted when its stamp is past the last one. The queues of `PositionManager` and `PendingExpiry`, loops over a dict keyed by
growing tickets, are sets that are handled least first in the same way.

**MCServices.** `part` names the part a behaviour is about; the variables of the
others keep their initial values. The parts share no state in the code, so
their product would add states and no behaviour. In *PendingExpiry*, `WalkOn` and
`CancelAnswered` are the third part of `maintain`. A cancel of any order, resting or not, may be answered with
10027, which the router takes for "gone" (`disowned`), or with another code, which it takes for a failure although
the order may be gone or have been cancelled. `BrokerExpires` is ORDER_TIME_SPECIFIED. In *DailyTracker* there is one action per mutator; `Persist`
overwrites in place, `Die` may leave a torn file, `Start` is `__init__` with
`_load_if_same_day`. `opens` and `seen` are what all processes were told on the day, whatever a death lost of it;
`unsaved` and `whole` say whether it lost anything, `born` what was told before this process. In *Supervisor* the signal handler is an action of its own
between any two steps of the loop; a balance may be nothing or negative, after which every balance
passes (`Passes`). In *HourlyReporter* an event has a number, so
that a report can be asked which events it told; `Reset` runs when the
awaited send returns, whether it was delivered or not.

**AsianSweepDay.** `HourBarCloses` appends a bar of one pair, shows it to the open
ladders of the pair (`maintain_exit`) and then, in the last `history_bars` bars of the
pair, to `detect`; `SessionEnds` is `force_close_eod` and the whole `RunDay` of the
backtest. Prices are tenths of a point, lots halves of 0.01, money twentieths of a cent, so
that 2.5 R, half a position and a percentage of the equity are whole numbers; the moving average is
rounded down to that unit.

**Detectors.** The 1H history grows first, then the 15M candles of the hour after it: every
detector computes its answer afresh from the two, so there is no other state. `LateShapes` are the shapes of
the hours past the number of the first configuration, narrow ones among them, so that an average range can shrink. Something optional is a
set of at most one element.

**Backtests.** `s` is the `BacktestState`; a step of a walk is a function of it, the
event and the bar, with the answer of the detectors as an input chosen by the environment (`in`). The
gold script runs its own detector, whose memory is part of `s`. Prices are whole pips (gold:
tenths), money cents (gold: tenths of a dollar), lots halves of a step. A gold short
is the long of the market turned upside down (`Side`, `Seen`): the code holds every rule
twice, and the two copies were compared by hand when the module was written.

A definition named `X_Something` next to a definition `X`, under a comment that begins
"Variant:", is `X` with a plausible bug. No specification uses it; it is there
to show that a property notices.

## 3. Runs

TLC, 2 workers, less than two minutes each on an idle machine. The type invariant of a module is the first
conjunct of the property named first for it (`NothingUntracked`, `MapMatchesBroker`,
`OutcomeIsTrue`, `AcceptedReachDisk`, and those of `MCServices`).

| run | instance | shows |
|---|---|---|
| `engine_days` | 2 pairs; 2 days and 2 fills with ambiguous answers and misjudged stop-outs; 1 day and 1 fill with three levels of equity, cycles without an account and a death; 1 day of polls that raise | the ledgers, the map and the broker agree: `OneTradePerDirection`, `LedgersAgree`, `OneTrackedPerSymbol`, `NothingUntracked`, `FillsAreBooked`; `KillSwitch` (a cycle that was given the account sends no order past the drawdown limits, none is sent in a state in which sizing raises) |
| `engine_restart` | 1 pair with news, 2 days, 2 fills, providers that raise, 1 death; fair | `LedgerSpec` (the engine implements `TradeLedger`), `BarsReachEngine` (every bar is given to a cycle or dropped by such a failure, hence every cycle ends) |
| `positions` | 1 position of either side, 3 prices, 4 targets, 5 bars, refused, executed but denied modifications, skipped maintenance | `MapMatchesBroker`, `LooseningOnlyInWindow`, `ProfitLockKept`, `DropJustified` |
| `router` | 2 signals of one symbol, 3 calls, 3 attempts, window of 1, table of 1, 1 blurred answer; fair | `OneOrderPerWindow`, `OutcomeIsTrue`, `EntryIsReal`, `CallEnds` |
| `ticks` | 4 ticks of 2 dates, batch 3, queue 1, flush 2, all faults, 2 processes; fair | `AcceptedReachDisk`, `PartsKept`, `ReplayIsFeed`, `StopCompletes`, `CatchesUp` |
| `services` | pending: 3 orders of lifetime 2, clock to 3; tracker: 2 days, 3 calls, 1 death; supervisor: 3 restarts, balances 0, 96, 100, 104, guard 5%; reporter: 4 counts, 4 reports; fair | `NothingRestsForgotten`, `ExpiredIsAsked`, `DayIsTold`, `ProbesClose`, `StopEnds`, `EachReportedOnce` |
| `detectors` | every sequence of 6 hours and 2 quarters, and of 8 hours, over 4 candle shapes (the last hours: two of them and two narrow ones); lists of 3 signals; 5 days of two pairs, 10 bars each | `MirrorImage`, `NoHindsight`, `ConfluenceSound`, `SignalsArePinned`, `ExitsArePinned`, `OrderRiskBounded` |
| `backtests` | 7 events of 2 pairs over a week (gold: 11 minutes of 2 days), up to 3 trades, six bars, six exits with the halts, one without | `TradesAddUp`, `StopOnlyTightens`, `GatesHold`, `RiskIsKept`, `NewestShown`, `ReportIsTrue`, `LevelsAreFresh` |
| `claim_cap` | 2 pairs, 2 days | **violated**: after a day with two trades a later day without any is refused for the cap |
| `claim_daily_loss` | 1 pair, 1 day | **violated**: orders leave after 80% of the daily cap is lost |
| `claim_drop` | 1 position | **violated**: a position the broker still holds is dropped |
| `claim_lookahead` | one script of `backtests` | **violated**: the detectors are shown a 1H bar that has not closed |

Why the bounds are enough. The cap is two trades a day, so two fills reach every
state of the ledgers, and a second day reaches every roll. In the engine two pairs are
the smallest number on which "globally across symbols" and "no second position on
the symbol" differ; one death separates what memory keeps from what history
knows. With levels of 92, 100 and 109 percent the drawdown passes the limit from a peak above the start, from
the start, and in a cycle whose account is not known. Three attempts are the code's `MAX_RETRIES`; three calls on two keys with
room for one remembered submission reach the cleanup with a live and an outdated
entry. Five bars are a swing (three), a trail, and a window around it; three prices
are the fewest that make a swing with room for a stop beyond it. Four ticks fill a
queue of one and a buffer of two and leave one for the second date, and one restart
reaches the numbering of parts from the directory.

In `backtests` the risk per trade is raised (`RiskPct`), so that three trades reach the daily and the
total halt, which takes many at the risk of the code. The events include a Monday
before the look-back, a Wednesday with two 1H bars between two events of one pair (a cursor that moves one step at
a time lags), a Friday past the cutoff and the last bar of the data; the six bars touch nothing, the
first target, the second, the stop, and two of them at once. The gold instance has two lows
0.1 pips apart, a high, bars that sweep, run through, turn back and do neither, a signal one
bar before the session ends and a gap after one. In `detectors` the lookbacks are shortened to fit eight
hours (the code: 14 to 200 bars); the comparisons between candles, which is where the halves
of a detector differ, are those of the code. The days of the Asian sweep contain
longs, shorts, both sessions, a Monday, a weak month, every exit reason in both
directions, a refused size, a buffer that cuts the history and one that does not.

`engine_days` restricts its instance by a constraint (`InScope`) and takes the two pairs, none of which is in the news,
for one another (`PairsAlike`); only invariants are checked there. All of the product, two days of a moving account, is too
large, and the theorems are about it. `engine_restart` has no constraint. With one pair, a poll that
fails at another pair is to this one what `ProvidersRaise` is; with two pairs `PollFails` is in `engine_days`.

`CHECK_DEADLOCK FALSE` is in the configurations of tick capture and router, where the
bounded environment runs out (no ticks, calls or events are left) and the system may
stop; elsewhere the end is an action of its own (`Done`, `DayDone`, `ReporterDone`).

### Fairness

* `LiveEngine`, `OrderRouter`: weak fairness of the poller's or the router's own
  steps. The loop runs every ready task, terminal calls return and sleeps end. A pair that is
  polled again and again gets its rates some time (strong fairness of a cycle that takes it): the
  model lets a poll pass over any pair. There is none on bars, clock, broker, deaths or a restart: no
  property needs them.
* `PendingExpiry` in `MCServices`: the clock goes on, bars keep closing (`maintain` is called again and
  again). Nothing is assumed of the broker: it may never expire an order and refuse every cancel, so what
  is claimed is that an expired order is asked for, again and again (`ExpiredIsAsked`).
* `TickPipeline`: collector, writer, shutdown and threads each take their enabled steps.
  Stopping, failing and dying are never forced. `CatchesUp` is stated for distinct
  stamps; with equal stamps the code does not have it (section 5).
* `Supervisor` in `MCServices`: the loop's awaits return; a child that was sent SIGTERM ends. A child
  nobody signalled may run for ever, which is why `StopEnds` speaks of a running
  child that was signalled, or of a loop that waits.

The backtests, detectors and days of the sweep are finite and sequential: no liveness is claimed.

## 4. Proofs

`LiveEngineProofs` proves, for any pairs, equity levels, faults and
bounds that satisfy the named assumptions of `LiveEngine` and `Compliance`:

* `TypeCorrect`: `Spec => []TypeOK`. `TypeOK` is not inductive: a booked or tracked
  ticket comes from `cur`, whose shape depends on `pc`. `TypeInv` adds `CurOK`,
  which says that in `sending` and `opened` there is a trade in flight, and in
  `opened` that its ticket was filled. The lemmas `FilledExtends` and `BookedExtends` say that a
  step of the broker only appends.
* `DirectionsNeverRepeat`: `Spec => []OneTradePerDirection`. The property is about
  the history of trades; the program remembers a set of directions and a day. The
  invariant `DirectionInv` says what this memory is worth: every trade of
  this process is of `traded_day` or an earlier day, those of `traded_day` have
  their direction in `traded_today`, the trade in flight belongs to
  `traded_day` (also when midnight has passed since) and its direction is not in the set.
  The step that needs all of it is `BookTrade`; `StartCycle` needs that the clock
  never runs backwards; `Restart` needs that earlier processes have smaller numbers.


Further theorems build on these invariants:

* `NoPyramiding`: `Spec => []OneTrackedPerSymbol`, by `MapInv`, which adds that nothing is
  tracked on the symbol of an order in flight.
* `LedgersNeverDisagree`: `Spec => []LedgersAgree`. Not inductive by itself: a restarted
  tracker is about a later day than the direction ledger. `LedgerInv` adds that it has
  counted nothing then, and that a process that is down remembers nothing. A booking
  adds one to both sides because the direction is new (`DirectionInv`).
* `ImplementsLedger`: `Spec => LedgerSpec`, the refinement of `TradeLedger` under the mapping
  `trades <- Trades`. Every step but `BookTrade` stutters (`OthersKeepTrades`);
  `BookIsLegal` shows that a booking is a `Book`: all trades of the same process and day have
  the other direction, hence there is at most one, which is where the cap of two
  comes from, whatever the tracker counts. `OrderInv` adds the order of days.

* `NothingGoesUntracked`: `Spec => []NothingUntracked`, by `MapCovers`: unless an answer was
  blurred, a process died or a stop-out was misjudged, what is open is in the map.
* `EveryFillIsBooked`: `Spec => []FillsAreBooked`, which is inductive on top of `TypeInv`: while
  all answers are definite, fills and bookings differ by the trade that is being announced.
* `KillSwitchHolds`: `Spec => []KillSwitch`. The property is about the account as it really was when the
  cycle began (`sample`, `peak`); the program judges what it was given. `KillInv` says how the two lie to each other: the
  mark is never below the peak, and what was given is the account's equity if it was known
  (`SnapshotIs`); signals are left only in a cycle that was judged to be within the drawdown, and neither mark
  nor account moves before the next one. Within the limit of a mark is within that of every lower one (`LowerPeak`).

`ServicesProofs` has one invariant for each part; a step of one part leaves the variables of the
others alone (`PendingRests`, `TrackerRests`, ...), so that their conjunction `ServicesInv` is one of
the composition.

* `NothingIsForgotten` (`NothingRestsForgotten`): an order that left the map does not rest, unless a cancel of it
  was answered with 10027. `PendingInv` adds that an order is counted once,
  as pending or as promoted, which is what keeps the promoted positions within bounds.
* `TheDayIsTold` (`DayIsTold`). What the processes of a day were told is a history no death shortens. `TrueTo`
  says when a snapshot is true, on a day, to a number of opens between two and to the equities after the
  first ones. `TrackerInv`: the state in memory is true to what this process was told, and to all of the day
  while no death has lost a part of it (`whole`); so is the row in the file once it is written, and it
  never counts more opens than were told. A row is never of a later day than its write, and one of an
  earlier day says that nothing was told since, which is what makes loading it after a death harmless.
* `ProbesAreClose` (`ProbesClose`), for any balances, also none and negative ones. `LoopInv`: the baseline is the last balance that passed, also
  after any number of failed probes.
* `EachIsReportedOnce` (`EachReportedOnce`). `ReporterInv`: between two sends the counters and the
  reports share nothing and make up everything counted, but for what came in during a send.

`PositionProofs`: `MapAlwaysMatches`, `StopsOnlyLoosenInWindow`, `LockedProfitIsKept` and
`DropsAreJustified` prove the four properties of the run. Three of them speak of one step;
`PositionInv` orders the four stops a position has between steps: the broker's is the cached one unless an
answer denied what was executed, the structural one never trails the cached one, `modify_sl` was asked for the structural one or for that
one widened, and no price has reached the stop of an open position since it was in force. The last
conjunct (`NotReached`) is what justifies a drop: a bar that swept a stop which was in force from its
beginning has closed the position at the broker; where an answer denied a loosening, the cached stop is ahead of
the one in force, and the drop is one of the exceptions of `DropJustified`.

`RouterProofs`: `OneOrderInAWindow`, `TheOutcomeIsTrue` and `TheEntryIsReal`. `RouterInv` says why
the guard works although its table is cleaned: an order that is still inside its window is
remembered under its key with a stamp that is no older (`WindowRemembered`), the
running call is a window apart from earlier orders (`CallIsApart`), and while answers are definite a call
has an order at the broker only when it no longer sends (`CallsOrder`).

`TickPipelineProofs`: `PartFilesAreKept` (`PartsKept`), `AcceptedTicksReachDisk` (`AcceptedReachDisk`),
`ReplayFollowsTheFeed` (`ReplayIsFeed`) and `TicksAreAcceptedInOrder`, a property no run checks: no tick
is accepted twice or after a later one. The first two rest on `PipelineInv`, whose parts are needed together because
two threads may write at once after a flush was cancelled:
`ThreadsApart` and `WriterWaits` (who is still alive in which state of the writer), `SameRows` (two
threads of one date write the same rows), `ThreadsOverwriteOwn` (the number a thread has or would pick
is free or holds its own rows), `NumbersAhead` (before the cancel, the next number is past all
files but one about to be counted), `PartsBounded` (a next number exists), `WrittenIsOnDisk` and
`NothingLost` (while nothing went wrong, an accepted tick is on the queue, in the buffer or on
disk, and during a flush a tick of the buffer is on disk unless its date is still to be written).
`TicksAreAcceptedInOrder` rests on `FeedInv`: what is accepted is at or before the cursor, what is put
next is past it, and the cursor never passes the newest tick, at which a new process begins.
`ReplayFollowsTheFeed` needs to know how any two part files of a date lie to each other. `LineInv`: each
holds its rows in the order of the feed; two of one date hold the same rows (a cut flush, written
again) or one lies wholly before the other, in the order of their numbers; and the buffer, the queue
and the cursor lie behind what was written before. `SentOf` says what the replay has sent after any
number of rows (those rows alone, each stamp once, ascending), and is kept by a row (`Read`), hence by the
fold over the rows of any number of files.

`AsianSweepDayProofs`, for any bars, pairs, buffer and equity: `OrdersRiskLittle` (`OrderRiskBounded`),
`ExitsPinned` (`ExitsArePinned`), `SignalsPinned` (`SignalsArePinned`), and two properties no run checks: `StopsTighten` (from hour to hour a ladder never holds more,
never forgets TP1, never moves its trailing stop back and never changes once closed) and `StopsAreTold`
(before TP1 a stop-out is at the stop of the signal, after TP1 at entry or beyond). `DayInv` says that
every ladder has the size that was found for its signal, that the stop of its signal is on the losing side
by a positive distance, and where its stop stands. `SizeIs` and `OrderIs` are the
inequalities; the half step of 0.01 in them is what rounding may add.
`ExitsPinned` compares two programs: the ladder, shown one bar at a time, and the simulator, which
walks all bars of the day from the entry. `MoverInv` says that every ladder is where the fold of the
simulator over the bars so far is (`Mirrors`: same stop, same half banked, same exit, reason and profit),
that its acts, done one after another to a position of its lots, earn what the state says (`Earns`), that
only the end of the session closes what is left, and that the bars still to come are later
than those in the data, so that a bar appended for the ladder is the next one of the simulator (`InOrder`).
`BarMirrors`, `BarEarns` and their like for entry and end are the step of one bar; the rest is
`FoldMore` of `Folding`.
`SignalsPinned` compares a program that is asked every hour about the newest bar of a buffer with one that looks
at all bars of the finished day. `SeenInv` keeps both sides in terms of the data: the bars of
the day (`Fresh`) are on the hour and in order and follow those before the day (`BarsKept`), and the ladders of a pair are
the answers to those bars and no others, in the order of time (`SignalsKept`); an answer (`Asked`) is
that of `detect` on the buffer as it was then. The rest is about one day: the buffer shows the whole
Asian range by the time a session begins (`RangeShown`); where the two biases agree (the condition
`SameBias` of the property) the detector answers when the bar sweeps the range, and builds the levels the
backtest finds at that bar (`AskedIs`, `SweptIs`, `Paired`), so the first answer in a session is its
signal (`SessionIs`, `LiveIs`). `BiasIs` shows that detector and backtest compute one average, which the
code writes in two ways. What is booked is what was picked, and that is in the list of the day
(`DayFound`, `PickedOf`, `TradesOf`).

`BacktestsProofs`, for any stored bars, answers of the detectors and scripts: `BooksBalance` (`TradesAddUp`) and
`StopsTighten` (`StopOnlyTightens`). A step of a walk is a long function of one record; the
proofs follow its layers.

* *One trade, one bar.* `Meets(t, u)`: the bar makes of the open trade `t` a closed one whose fills are its lot
  and whose net is what they earned less the fee, or an open one whose fills are its lot less what is
  left and whose stop is not further from the market. It is proved of the ladder of the three scripts, of
  the six exits of the sweep and of the positions of the gold script. Each needs something more of a
  trade (`Fit`): `Rung`, until TP1 the stop is on the losing side of entry, without which break-even
  could loosen it; `Runs`, for the exits that trail a water mark; which exit is deferred to the next minute, in
  gold.
* *All trades, one event.* The walk folds over the open trades, books those that closed and keeps the others
  in order (`SettledKeeps`, an invariant of the fold). `Accounts` says that the balance is the
  start plus the nets of the closed trades; `Rising` that open trades are in the order of their
  entries, at most one of an event, which is why a trade of the next state that has the event of a trade of
  this one is that trade (`FollowTightens`).
* *One event, one state.* `BooksInv` is the inductive invariant: `Accounts`, `Rising`, every open trade as `Fit`
  asks and entered by now, and what the closing at the end of the data needs (a last close of every
  pair; in gold, the last bar). One lemma per script (`MultiKeeps`, `SilverKeeps`, `FlipKeeps`, `SweepKeeps`,
  `GoldKeeps`) and one for the end.

The invariants `DayInv` and `FeedInv`, and the two formulas of `AsianSweepDayProofs` that are not
properties of a run, were checked with TLC on the instances of the runs `detectors` and `ticks` before they
were proved; so were the invariants of the other modules.

Assumptions. A theorem assumes what the `ASSUME`s of its module say of the constants, each of which
TLC evaluates on every run that extends the module: bounds and windows are natural numbers, a
leverage or a batch is positive, ticks come in the order of their stamps (equal stamps are
allowed), faults are those that are modelled, a pair of `PAIR_CONFIG` has a positive value per lot and
a maximum of whole steps of 0.01 lots. A stamp of the feed is positive; the hours of a day of
the sweep come in the order of time and none after the close of the session (`DayAssumption`), each on the
hour as 1H bars open, of pairs that differ; the program starts before the London session with the bars
the detector needs, and its buffer is long enough to reach back to the beginning of the Asian range (the code: 250
bars, the range begins less than a day before); an average spans at least one bar, a range has at least a point and
spread and stop three (`AverageAssumption`, `PairAssumption`; the code: 200 and the table of pairs); the prices
of the backtests are integers, bars and answers have their fields (`DataAssumption`): nothing is assumed of how
a bar's high, low, open and close lie to each other. No theorem assumes fairness.

Inductions. What a proof needs of finite sets of numbers (a least or greatest member, the k-th
member, a bound on part numbers) is proved from the well-foundedness of the strict subsets of a
finite set (`FS_StrictSubsetOrderingWellFounded`, `WFMin`): the library's induction theorems take an
operator as a parameter and cannot be instantiated. `Folding` states induction with a set in the place
of that operator: a set of naturals (of sequences) that has 0 (the empty one) and with each member
the next (each longer by one) has them all (`AllNumbers`, `AllSequences`). `FoldLeft` of the community
modules is a CHOOSE over functions on sets of positions; `FoldExists` and `FoldsAgree` show that there is
one and only one, from which `FoldNone`, `FoldMore`, `FoldIn` and `FoldConcat` follow. A proof module
instantiates `Folding` with the operator it folds. Other selections are by sets of positions (`Rows`,
`AsianWindow`) where a proof reads them.

Only model-checked:

* All liveness: `BarsReachEngine`, `CallEnds`, `StopCompletes`, `CatchesUp`, `ExpiredIsAsked`,
  `StopEnds`. It rests on fairness and ENABLED, which the prover does not handle.
* `GatesHold`, `RiskIsKept`, `NewestShown`, `ReportIsTrue` and `LevelsAreFresh` of `Backtests`. They compare
  a trade or a report with a history: sums, peaks and counts over whole books in five scripts that
  each keep their own. The folds could be followed as in `BooksBalance`; it was not attempted.
* `MirrorImage`, `NoHindsight` and `ConfluenceSound` of `Detectors`. Their statements compare what six
  detectors compute with `SelectSeq`, `SortSeq` and `FlattenSeq` on two inputs, which takes an induction for each
  of these operators and detectors.

## 5. Divergences from what the repository says

With a run, each quoted in `PROJECT.json`:

1. `claim_cap`. The tracker rolls only in a mutator; the engine reads
   `trade_count` without one, and the only mutator it calls is behind the cap. After
   two trades on one day the bot never trades again until it is restarted.
2. `claim_daily_loss`. `closed_pnl` is never fed in the live program and the
   reference balance is the current one: the daily-loss gate compares zero with its cap.
3. `claim_drop`. A position is judged by a bar that is older than its stop.
4. `claim_lookahead`. The 1H cursor compares open times, so the detectors of
   `scripts/multi_setup_backtest.py` see the hour that is still forming.

Met while modelling, without a run of their own.

Live program:

* When `account_info` gives nothing, the starting equity is judged in place of the account's
  (`scripts/run_asian_sweep_live.py:467-468`): the kill switch ("halt all new entries this cycle if drawdown
  from HWM has breached the threshold", `execution/live_engine.py:246`) and the compliance checks are blind for
  that cycle, and the high-water mark rises to the starting equity. `KillSwitch` excepts such a cycle.
* A cancel is judged by the number 10027, "Order not found" (`execution/order_router.py:269`). In MetaTrader 5
  that is `TRADE_RETCODE_CLIENT_DISABLES_AT` and says nothing of the order (the test doubles call it
  `ORDER_NOT_FOUND`, `tests/execution/fixtures/mock_mt5.py:52`): an order that rests is forgotten and may still fill.
  `NothingRestsForgotten` excepts it.
* A restart on the same day starts with empty counts (`scripts/run_asian_sweep_live.py`
  passes no `persist_path`), so `OneTradePerDirection` holds per process only.
* An ambiguous answer may put two trades of one direction at the broker, of which one
  is booked; a retry can execute one intent twice (`execution/order_router.py:414`).
* An order that raises skips `maintain_open`, and the poller does not offer the bar again.
* A poll that raises at one pair drops the closes it found of the pairs before it, whose stamps have moved
  (`data/live_bar_poller.py:89-91`); so do prices or an account that raise (`:140-141`). `BarsReachEngine`
  counts such a bar as `missed`.
* A position closed at its target or by hand stays in the map and blocks its symbol.
* A revert of a widened stop is refused if the price has passed the structural stop.
* A modification may be executed and denied (`execution/order_router.py:326-328` returns True for DONE only, the
  docstring says "True on success or no-op"): the map then has another stop than the broker, until one is confirmed, and a bar may
  drop an open position by it. `MapMatchesBroker` and `DropJustified` except it.
* A cancel answered with any code but DONE and 10027 is a failure, also when the order is gone: such an
  order stays in the map and is asked for at every bar.
* `_roll_if_new_day` adds results that the observed equity already contains: the baseline of a new day is no equity
  of the account, and the drawdown of the day may be overstated. `DayIsTold` promises that it is not understated.
* A death loses what the tracker was told since the file was last written, a torn file the whole day.
* The collector keeps what is "strictly newer" than its cursor to drop "the boundary tick
  already seen" (`data/tick_collector.py:78`): ticks that share the cursor's millisecond and were
  not in the batch are dropped unseen. The replay skips all but the first stored
  tick of a millisecond.
* A stop signal during the spawn of a child reaches nobody; the first restart of
  the supervisor has no balance to compare with, and after a balance that is not positive every balance passes
  (`supervisor.py:151-153`).
* Counts made while a report is being sent are cleared by the reset after it
  (`monitoring/hourly_reporter.py:258`); `EachReportedOnce` excepts them.

Sizing and the Asian sweep:

* `lots` floored to zero by the sizer, its refusal, is raised to 0.01 again when house
  money dampens the size (`execution/live_engine.py:417`); compliance judges 0.01 lots whatever
  is sent; the "absolute ceiling" of 150 dollars may be passed by half a step of 0.01.
  `OrderRiskBounded` is stated with these two exceptions.
* `size_position` "mirrors simulate()" but in a weak month the share is 0.3% for every pair,
  where the backtest lets the override of gold win.
* Detector and backtest agree when the buffer and all the data lead to the same bias
  (`SameBias`): the average is seeded by the first bar of whatever it is given, so a buffer of
  250 bars may lean otherwise. The detector repeats a signal at every bar of a session that
  sweeps again; the engine's direction ledger filters them.
* TP2 books the full lots in ladder and simulator, although half was closed at TP1
  (the exception in `ExitsArePinned`).
* The backtest picks by quality over the whole day, which the live program cannot; its
  daily drawdown halt of 3% is out of reach of two trades of at most 0.8%.
* The floor under the stop distance is out of reach of this detector's signals.

Gold:

* A level that a bar passes by more than half a pip is burned before the trigger looks at
  it, so deeper sweeps, and the limits `SWEEP_MAX_PENETRATION_PIPS` and the ATR put on
  them, do not occur (`docs/NY_GOLD_SWEEP_SPEC.md` names 0.80); an unreversed sweep does not burn.
* The dwell time is only updated in bars whose gates let the detector run.
* A pending signal fills at the next stored bar, also after a gap and in the
  last minutes of the session, in which no entry is meant to happen; the fill does
  not check that the target is still beyond the entry.
* `tp_mode_b` targets levels it does not check for freshness.
* The reported final balance leaves out a trade closed for want of data
  (`GoldReportIsTrue` says by exactly that much). A lot floored to nothing is raised to the minimum.

Research detectors and scripts:

* The short half of the level rejection skips a bearish trend, the long half takes every
  trend: the two are mirror images in a range only, and `MirrorImage` says so.
* Levels are gathered from the lowest price up on both sides (`strategy/patterns/_multi_setup_common.py:589-598`,
  `strategy/patterns/sr_flip.py:87-104`), of two swings in the middle the upper is taken, and of a candle that touches
  a level with both ends only the first touch counts. Long and short are then no mirror images; `MirrorImage` compares
  them where prices near a common one are near each other and neither tie occurs (`TouchesClear`, `SwingsClear`).
* The buffer a break of structure must clear is a share of the average range of the history at hand
  (`strategy/patterns/break_of_structure.py:96-107`): when the range shrinks, a close that was no break on its hour
  becomes one later. `NoHindsight` is stated for closes that cleared the buffer of their hour.
* Grouping and rank in the confluence resolver depend on the order in which detectors report.
* On a day that is lost the daily gate of the scripts continues before the total drawdown is looked at
  (`scripts/multi_setup_backtest.py:423-435`), so such a drawdown leaves no latch: when an open trade wins enough back, entries
  go on the next day, against "Once we've blown 10 % total — STOP forever" (`:416`). `GatesHold` promises
  the stop for drawdowns met on other days (gold: on all days).
* The scripts force closes before they look at the stop; a report may say "Stayed under 5 %
  daily DD" although one day lost more; the curve misses closes after a total halt.
* The verdict of the silver and flip scripts is FIX for a profit factor of 1.1 to 1.3 with fewer
  than 40% wins. Exit D trails the highest of the recent swing lows, which its comment calls the most recent.
* The cache of the flip signals is keyed by pairs and days only.
* Dead code (`detect_impulse_ltf`, the adaptive threshold, `htf_index_at_or_before`) is left out.

## 6. Plan

Done: the live program (`LiveEngine` with its ledger and theorems, `PositionManager`,
`OrderRouter`, `TickPipeline` with the replay, `PendingExpiry`, `DailyTracker`, `Supervisor`,
`HourlyReporter`), the Asian sweep with sizing, signals and exit ladder pinned to its backtest, the
research detectors, and the backtests with their books and stops.

What is left, in order:

1. The gates of the backtests (`GatesHold`): the counters of a day as an invariant of the walk, beside
   `BooksInv`; then `RiskIsKept`, a fact about the lot of an entry that the life of a trade does not change.
2. The gold script's levels (`LevelsAreFresh`): what its detector remembers of a level, as an invariant
   of its bars.
3. `ReportIsTrue`: peak and drawdown as folds over the bookings.
4. The mirror of the candle shapes (`Candles`), which `MirrorImage` rests on; then one detector at a time.

No module declares a RECURSIVE operator, so all of them can be proved about.

## 7. What is not modelled

* **Not used by any program of the tree**: circuit breakers, `MultiPairFeed` with
  `BarAggregator`, `risk/position_sizer.py` (tests create them); the paper and demo modes of `bot.py`
  with their brokers and the back-test runner, whose modules `risk.risk_engine`,
  `strategy.signals` and `strategy.microstructure` are not in the tree.
* **Earlier versions**: `asian_range_backtest.py`, `compare_v5.py`.
* **Inputs**: the news calendar's verdict, the terminal's answers, stored bars.
* **Output**: alerts, dashboards and banners (errors swallowed), CSV, JSON and plots of the scripts.
* **Left out**: settings and credentials; the MT5 connector (the
  environment of the modules that call it); the scanner, a loop over pairs.
* **Abstracted**: lots, prices and stops in `LiveEngine`; the length of sleeps and
  backoffs; wording; Arrow encoding; pacing of the replay; `close_partial`, preflight
  checks and dry-run answers of the router; floating-point rounding in prices
  (integers in fractions of a point or pip; averages are rounded down to them).
