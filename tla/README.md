# Formal models of the XAUUSD trading engine

TLA+ models of the trading engine under `src/src/xauusd`, the TLC runs that
check them on small instances, and proofs that TLAPS checks for every value of
the constants. Paths below are relative to `src/src/xauusd/` unless they begin
with `docs/` or `src/`. `PROJECT.json` maps every definition to the lines it
translates and lists the runs, the mutants that show each property can fail,
the findings, the hazards and the theorems.

Commands: `tlasany M.tla` parses, `tlc -workers 2 -config X.cfg M.tla` checks
(the module of each configuration is in `PROJECT.json`), `tlapm MProofs.tla`
proves.

## 1. The system

One Python process (the *engine*) trades one symbol on one MetaTrader account
through a bridge process; a second process (the *dashboard*) shares its
database. Three strategies, called engines as well, share the account, each
with a magic number: A/A+ (the main magic), intraday, scalp.

| Component | State | Operations | Modelled in |
|---|---|---|---|
| Order execution, `execution/order_manager.py`, `retcodes.py` | order record (INTENT, SENT, RECONCILING, FILLED, ABANDONED), attempt | `execute`, `_find`, `_reconcile`, `reconcile_unresolved` | OrderManager, TradeIntent |
| Position management, `execution/position_manager.py` | book of managed positions with their stop, break-even and partial flags | `adopt`, `manage`, `modify_stop`, `forget` | PositionManager |
| Orchestrator, `engine/orchestrator.py` | trade counter, day, context, running flag; loops and threads | `startup`, `_decision_cycle`, `_intraday_cycle`, `_scalp_scan`, `_tick_loop`, `_context_loop`, `_command_loop` | Engine; Feed, Intraday, Scalp, Context, Runtime |
| Operator commands, `database/repositories.py` | rows QUEUED, CLAIMED, DONE, FAILED | queue, claim, complete, requeue | Engine |
| Risk, `risk/gate.py`, `kill_switch.py`, `drawdown.py` | active halts, period peaks and lockouts | `evaluate`, `trip`, `clear`, `update` | Risk; Engine (halt, limits, no-stacking) |
| Engine budget, sizing, correlation, cost, `risk/` | none that is used | `may_add`, `evaluate_correlation`, `net_expectancy_r` | Intraday, Scalp, Risk |
| Broker adapter and bridge, `execution/mt5_broker.py`, `mt5_bridge.py` | transport lock, socket, worker queue | `call`, `handle`, `submit`, `run` | Bridge; the calls themselves are the environment of the modules above |
| Instance lock, start and exit, `engine/orchestrator.py`, `cli.py` | lock file | `acquire`, `release`, `cmd_run` | InstanceLock, Runtime |
| Clock, bars and the market view, `core/sessions.py`, `data/marketview.py` | measured offset; none | `observe`, `series`, `bar_age_seconds` | Feed |
| Stored history, `data/harvest.py`, `resample.py` | bar rows | `harvest`, `upsert_many`, `resample` | History |
| Session calendar, `core/sessions.py` | none | `session_for`, `session_bounds`, `is_tradable_window` | Sessions |
| Calendar and news, `intelligence/` | last refresh | `_refresh_context`, `evaluate`, `aggregate` | Context |
| Chart analysis, `core/` | a cache | `analyze`, `_cached`, `detect_events`, `_lifecycle` | Bars, Structure, Liquidity, AnalysisCache |
| Strategies, `strategy/`, `engine/scalp_pipeline.py`, `core/regime.py` | none | `detect`, `evaluate`, `classify` | Market, Setups, Scalp |
| Intraday strategy, `strategy/intraday/`, `engine/intraday_pipeline.py` | remembered setup | `evaluate`, `consume` | Intraday |
| Gates, scoring, classes, `strategy/`, `engine/pipeline.py` | none | `score`, `run_gates`, `classify` | Confluence |
| Simulated broker and backtest, `execution/sim_broker.py`, `backtesting/engine.py` | simulated positions, balance | `step_bar`, `send_market`, the replay loop | SimBroker, Backtest |
| Walk-forward, labels and folds, `backtesting/walk_forward.py`, `ml/` | none | `make_windows`, `triple_barrier`, `split` | WalkForward, Learning |
| Dashboard jobs, `dashboard/jobs.py` | current job, its process | `start`, `_run`, `cancel` | JobRunner |
| Reconciler, dashboard views, configuration, monitoring, launchers | none that trading depends on | views, loading, logging | not modelled, section 7 |

How they interact. Every M5 close the event loop runs `_decision_cycle` in a
thread: A/A+ first, then intraday. The scalp scan, the 1 Hz tick loop (health,
halts, position management) and the reconcile loop run on the event loop; the
command loop runs `_drain_commands` in a further thread. They share the broker
connection, the kill switch, the trade counter and the book **without a lock**;
only the transport serialises its calls. A decision takes an instant, a quote,
the bars that had closed then and the last refresh of the context; the analyzer
turns bars into structure, zones and pools; strategies turn those into plans;
score, gates and classifier choose; positions and limits are read, the risk gate
approves, the order manager sends and, if filled, the position manager adopts.
The dashboard writes rows into the command table and nothing else. The server
opens and closes positions on its own account (stops, targets, a hand on the
terminal), so every list of positions is old when it is used. A backtest puts
the simulated broker and a stored history in the place of the terminal.

What is hard, and what makes each part correct:

* **Order execution.** A send may time out and still be executed, at once or
  later; a retry races it; the query that should tell can fail; the process can
  die at any call. Correct: one intended trade is never two positions, nothing is
  reported filled of which nothing is known, a trade of unknown fate stops trading, an
  ambiguous send is not repeated, and every execution and startup ends.
* **Position management.** Rules run every second on belief that follows
  unreliable answers, while the server closes positions. Correct: no stop
  widens, break-even holds, the partial is taken once, no open position leaves
  the book. (That none stays without a stop does not hold: a finding.)
* **Orchestration.** Checks and sends are apart on two threads, commands arrive
  on a third. Correct: of what the broker lists one position per engine and no
  more than the limit, the daily limit within a known overrun, entries after a halt
  bounded, a FLATTEN that is DONE has closed what is listed, fills are managed, no
  command is stranded. What the live broker does *not* list is two of the findings.
* **Risk.** Peaks are sampled, periods roll, locks may need a human, and the
  account was read before the gate judges it. Correct: locks survive the roll
  they must survive, no approval exceeds what remains, and approvals after a
  limit was reached are few.
* **Bridge and lock.** Both ends of a call time out separately and neither takes
  back what it passed on; processes die with a file or a job behind them.
  Correct: an answer belongs to its call, nothing is executed twice or after a
  refusal, the transport is always given back, one job at a time is current.
  (That one engine trades does not hold: a finding.)
* **Time and data.** Three clocks, two summer times, bars that form while they
  are read, harvests that overlap. Correct: no decision sees what had not
  happened, none rests on an old market, a stored bar is final, a session is the
  session, no engine trades through a release.
* **Chart and strategies.** Every analysis starts again from the bars; every
  rule is written once for each side; evidence may be missing. Correct: what was
  reported stays or decays, one expansion is traded once, long and short mirror
  each other, worse or missing evidence never helps.
* **Replay and learning.** Both levels in one bar, missing minutes, labels that
  look forward. Correct: the books balance, no test bar labels a sample of the
  training, every bar is judged once. (That a loss which may have happened is taken, and
  that nothing crosses the boundary of a window, do not hold: findings.)

All hazards, with the line where each bites, are in `PROJECT.json`.

## 2. The modules

### OrderManager, and the promise TradeIntent

`OrderManager` is `execute()` for a set of *tags* (idempotency keys), cut at its
network calls: `phase` is where a call stands (guard query, quote, send, reply, query
before a retry, polls), `attempt` and `polls` its counters, `reply` the class of the
last return code (`retcodes.classify`), `record` what the persist callback holds,
`outcome` what the engine was told. `GuardPasses`, `QuotePasses`, `Send`, `On...`,
`FindBeforeRetry`, `Poll`, `GiveUp` are the branches of the loop; `ResolveAtStartup`,
`EngineReady` and `Restart` are the startup. The server is `open` (positions with the
tag), `inflight` (sends not yet executed: `Land`, `Lose`) and `recent` (a deal in the
history window of `find_by_tag`). `SendResults` pairs an answer with what became of
the order: a success may be PLACED, an order that waits and may never be executed, and
an answer that stops the engine (locked, frozen, unmapped) may hide an executed one.
`acknowledged` is history: the server has answered with success. `Visible` keeps the
code's detail that open positions are searched under the main magic only.

Switches state the environment: `LateLanding` (a send of unknown fate may still
be queued), `FindFails` (a query may raise, which `_find` answers with None),
`Durable` (the persist callback outlives the process). The running engine is
`Durable = FALSE`: its callback only logs, and a restart finds no record. The safety
of one position for each trade is checked, and proved, without it; `TRUE` is what
the module documents, and the only setting in which startup has anything to resolve.

`TradeIntent` is what a caller may rely on for a tag: at most one position, a fill is
reported only if the server executed it, an unknown fate comes with a halt. It is kept
by a server that settles every send at once, with no PLACED order.
`ImplementsTradeIntent` is the refinement `held <- open`, `ever <- landed`, `told <-
outcome`, with `halts` for itself.

### PositionManager

Prices are levels in the direction of the trade, so that higher is better for a
long and for a short; 0 is no stop. A pass of `manage()` over one ticket is
`StartPass`, then one `rule` after another: break-even, partial, trail, exit.
`Verdicts` is what a mutating call may do: confirmed, refused, or (on the tickets
in `Unconfirmed`) done though answered otherwise. `Naked` tickets may be opened
without the stop that was asked for. `Trailed` tickets get a market snapshot;
the running engine calls `manage()` without one, so there trailing never runs.

### Engine

The threads `"m5"` and `"loop"` decide (`Observe`, `Gate`, `Filled` or `NotFilled`,
`Adopt`), the command thread drains (`Claim`, `RunCommand`, `ReadPositions`,
`CloseOne`, `Complete`), and the server (`PositionCloses`), the broker's midnight
(`DayTurns`) and crashes (`ProcessDies`) move at any time. Candidates, scores and
sizes are nondeterministic: `NoTrade` may turn down anything. `execute()` is one step
that reports a fill or none; with none, the position may still exist (OrderManager
shows when), and an unknown fate adds a halt. `SeesAll` says what
`positions(magic=None)` returns: every position with the simulated broker, the main
magic's with `Mt5Broker`. `standing` is what is open, `OurPositions` what of it the
list shows; the checks of the gates, and so the properties, speak of the latter.
Commands are claimed as a batch and run in the order in which they were queued
(`earlier`). The history variables `filled`, `late`, `target`, `dbFailed` exist for
the properties.

### Risk

One gate, drawdown guard and kill switch serve both deciding threads. A cycle is
`Read` (time and account), then for each engine's turn `Grant` or `Refuse` (any
number of plans, at most one executed) and `EndTurn`. `Update` is the guard's
`update()`: every evaluation calls it with what its thread has read, so a slow
thread can roll a period *back*; `Rolls`, `NewPeak`, `Trips` and `StaysLocked`
are its branches for one period, and `Affordable` the budget with the sizer's
rounding down. `Tick`, `Trip`, `ClearReason` and `HumanLifts` are the kill
switch, `HumanClears` the guard's `clear()`. Equity is a whole number, limits are
shares of `Scale`, days are numbered and a period is some days long. The loss
streak lock is left out: nothing calls `record_trade`. `past` is history: the
approvals given while the equity is at or past a period's limit.

### Bridge, InstanceLock, and Runtime which composes them

`Bridge` is the way of a call: a thread takes the transport's lock (`Take`),
sends on the socket or a new one (`Request`), and receives (`Receive`) or gives up
(`Fail`), after which a call that changes nothing is tried once more. The
handler of a connection reads, queues the job and waits, the worker takes the
jobs in order, and a handler that gives up leaves its job in the queue
(`HandlerGivesUp`, `Disowned`). `Ends` is what a job may come to, an effect whose
answer is an error included. `BridgeDies` and `ClientDies` lose what the process
held. `mixed` and `refused` are history.

`InstanceLock` is `acquire()` with a lock file, one action for each system call,
so that a second starter or a kill may fall between any two; the initial file
may be what a crash left: a pid, nothing, or no number (`Leftovers`). `Answers` is what
reading the file and asking for the process may say, that it may not be signalled
included (`UserOf`), and `IsStale` the three of them that the code takes for a dead
owner. `Runtime` lets an engine call the bridge only while it holds the lock, and
ties the ends: who quits or is killed leaves calls, connection and file.

### Feed, History, Sessions, Context: time and data

`Feed` is one decision from the tick that made the market to the order: `Quote`,
`Rates` and `RateOf` are what the terminal answers (the last bar as far as it has
come), `Visible` is `MarketView`, `Observe` the tick loop with `BrokerClock`,
`Wake`, `TakeQuote`, `TakeBars`, `Decide` and `Send` the cycle, which keeps the
instant at which it woke. `Ahead` is how far the server's clock is ahead of UTC;
`DecidedWithin(more)` says how old a market an order may have been decided on.
`History` is the harvest, a chunk a step, while bars close, with `Higher` for the
resampling of what it left. `Sessions` is all of `SessionEngine` in half hours,
over a week and the three seasons that the two summer times make. `Context` is
the refresh of the calendar and the copy of it that each engine decides by.

### Bars, Structure, Liquidity: the chart

`Bars` holds the closed bars of one timeframe and the swings; each step adds a
bar or analyses the bars anew with any ATR of `Atrs`, as the analyzer does.
`Structure` has events and bias (`WalkStep` is one turn of `detect_events`), gaps
and order blocks with their lifecycles; `Liquidity` the pools, their merging and
the sweeps, with the ATR (`scale`) by which the last analysis judged their depth
(`Fits`). A direction is 1 or -1, and a price is seen in it (`Tip`, `Close`), so
that the two copies that the code has of each rule are one here; where the copies
differ (a doji counts as a bearish candle) the definition says so. That the code's
copies agree otherwise was established by reading; Scalp and Setups, where they
differ more, keep them apart, and that they agree is proved.

`AnalysisCache` is the analyzer's `_cached()` between the decision thread and the
scan: a view is taken at an instant (`Fetch`), the entry looked up (`Look`) and, if it
does not fit, made and stored (`Make`), with the other thread and the clock in
between. A series is the time of its last closed bar, and what an analysis is made of
is a record of them. One name of the cache is followed in each behaviour.

### Market, Scalp, Setups, Confluence, Intraday: the decisions

`Market` is what a strategy sees: a set of features (sweeps, shifts, gaps,
blocks, levels, pools, biases, positions) that appear and vanish one by one, and
the conditions, from which `Regime` classifies. `MirrorOf` turns a feature upside
down. `Scalp` has the five models with stop, target, score, cost, correlation and
the scan that executes the first approval; `Setups` the four strategies with
their targets; `LastEvent` is the structure's last event of any kind, changes of
character included. Both keep the code's two branches for long and short.

`Confluence` is the judgement of one candidate: categories and penalties in
hundredths of a point, the mandatory gates and the classes, over a record of
evidence whose fields take grades; a step changes one field. `Intraday` is the
remembered setup: the sequence reads the biases and the last events, and
`Candidate`, `Remembered` and `Open` are what it works on; the controller, the
budget, the order and the follow-up of a fill are the actions around it. `lost` is
history: traded expansions that were forgotten.

### SimBroker and Backtest, WalkForward, Learning

`SimBroker` has `Outcome` (which level a bar takes, with the minutes that are
known), `Settle` and the broker's calls; `Backtest` the loop: `Advance`, `Manage`
and a turn for each engine, over every path that the price may take inside a bar.
`flattered` is history. `WalkForward` cuts the windows and runs those that are
large enough; `Learning` labels each candidate of a short history and splits
them into folds.

### JobRunner

The jobs of the dashboard, cut where the job's thread spawns, publishes, reaps
and clears, with `Exits` and `Cancel` beside it. `RunFails` is its `except` clause, which
also catches what the loop over the output raises, with the process still alive.

### MC and proof modules

`Desk` composes Feed, Context, History, JobRunner, AnalysisCache, Intraday, Sessions,
Scalp and Setups: each is an instance with its own variables and its parameters as
constants, and a step of `DeskNext` is a step of one of them (`FeedMoves`,
`WorldMoves`, ...), in any interleaving; they share no state, as the code's parts
share none. The theorems of these parts are stated of `DeskSpec`. `Study` composes
Structure, Liquidity, Learning, WalkForward, Confluence and Backtest in the same way:
what is judged before any order depends on it. `Values` is what the fields of the
evidence can be, `WorseGrade` which of two values of a field is the worse.

The runs that pass are three compositions. `MCTrading` extends Engine, Risk and
OrderManager, `MCCalls` Runtime, PositionManager and OrderManager again, under other
assumptions, `MCDesk` Desk and Study. Their parts do not call each other while
they work (what another module does to one is an action of its own: a fill, an
update, an approval), so that interleaving them would only multiply their states: a
behaviour chooses one `part` and stays with it, and the states are the sum of
theirs. Each property speaks of one part, so nothing is lost by that.
`MCEngine`, `MCOrderManager`, `MCPositionManager`, `MCRuntime` and `MCBacktest` name the
sets that the violation runs use. What flows between the parts is the constants of
the next: the events of Structure are the features of Market, the plans of Setups the
candidates of Confluence, its verdict the choice in Engine. `OrderManagerProofs`,
`PositionManagerProofs`, `EngineProofs`, `RiskProofs`, `RuntimeProofs`, `DeskProofs` and
`StudyProofs` hold the theorems; `Arithmetic` the facts on numbers and sums that the last
two share.
Definitions called *Mutation* are plausible slips; none is part of a specification.

## 3. The runs

| Run | States | What it shows |
|---|---|---|
| `trading` | 1 164 504 | *Engine*: three engines on two threads with the live broker's list, a FLATTEN on a third, crashes, a ticket on which calls fail. Limits, late entries, FLATTEN, adoption, commands. *Risk*: a day and a two-day week that needs a human, three days, both threads. Lockouts last, stops are covered, approvals past a limit are at most three (two is refuted). *Orders*: two tags (one under the main magic), two executions each, a retry, a crash that leaves no record; the server settles sends at once and answers queries. One position per tag, refinement of TradeIntent. |
| `calls` | 330 424 | *Bridge and lock*: two engines contend for the lock file, two threads of one call the bridge, which may die once. Answers belong to their calls, effects are what was answered, the transport is given back. *Positions*: one trailed and reliable, one naked and unconfirmed. Belief and book are true, stops are not widened, break-even and the partial hold. *Orders*: one tag, late landings, placed orders, failing queries, two crashes. Fills are founded, unknown halts, ambiguous is not resent; executions and startups end. |
| `desk` | 230 724 | The parts around the engines, each over all its behaviours within the bounds below: seventeen properties. |
| `order_unanswered` | finding | A failed query is read as absence: the trade is opened twice. |
| `position_naked` | finding | The plan's stop is believed to be at the server: a naked position stays naked. |
| `engine_flatten` | finding | With the main magic's list FLATTEN is DONE while a scalp is open. |
| `engine_stacked` | finding | With the main magic's list an engine opens a second position beside its own. |
| `lock_race` | finding | A second starter unlinks the lock that the first has just made: two engines run. |
| `feed_clock` | finding | With the server's clock ahead of UTC an order is decided on a market that stopped long ago. |
| `sessions_asia` | finding | With the repository's hours the Asian range is unknown during London. |
| `replay_gap` | finding | A bar that opens beyond the stop does not stop the position. |
| `walk_straddle` | finding | The bar at the boundary of a window is in both of its samples. |

Deadlock checking is off where the bounds let the system come to rest (every
tag executed, every ticket closed, every command completed, the last bar made).

**Bounds and why they are enough.**

* *Orders.* `MaxAttempts` 2 or 3: the default configuration sends three times;
  two has one retry, which is where a query and a retry race, and three adds an
  attempt that is neither first nor last. `MaxPolls` 1 or 2: a poll that is the
  last, and one that is not. `MaxRuns` 2: a tag executed again, after a fill, an
  abandonment or an unknown fate. `MaxCrashes` 1 or 2: a crash during the
  startup that follows a crash. Tags do not share any state of theirs beyond the
  halts, so two show what they do to each other.
* *Positions.* `MaxLevel` 5 with stop 1, break-even 2, triggers 3 and 4: prices
  below, between and above every threshold, and room for a trail over break-even.
* *Engine.* Two positions open or referred to at a time, tickets being used again once
  they are closed and forgotten: the second position of an engine, or one that opens
  while a FLATTEN is under way, needs no third. `MaxConcurrent` 2 is the default (with
  two tickets it is `OnePerEngine` that could be violated; beyond that the theorem
  speaks); `MaxTrades` 1 makes the daily limit bite at once. One FLATTEN, which halts
  like a HALT; batches of several commands are the theorem's.
* *Risk.* Three days contain a roll of the day alone and one of the week; equity 1
  to 3 with limits of 5 and 6 tenths has levels above both limits and past both, a
  level that is past the day's limit and not the week's (equity 1 from a peak of 2), and
  a loss of one after which a whole share would be too much.
* *Runtime.* Two calls are one that times out and one that may meet its answer;
  two connections are the old one and the new. The second engine only contends
  for the lock, since a call without the lock is impossible. One death
  of the bridge falls into every step of a call. The engines have two users here, so
  that each may take the other's lock for stale; in `lock_race` they have one, so that
  the violation does not rest on that.
* *Feed.* Bars of two instants, three of them served: a bar closed, one forming, one
  that has dropped out. Seven instants hold a midnight at 5 and a rounding step of 4;
  a pause of 2 is longer than a quote may be old. In `desk` the server's clock is UTC;
  `feed_clock` has it a rounding step ahead.
* *History.* Chunks of three with wishes for four and six: a last chunk that is
  full and one that is not, two harvests that overlap or leave a hole, eight bars.
* *Context.* Units of five minutes; windows of 15 and 60 minutes before, 10 and 30
  after, one after the other, the large one stretched by a cool-down that only applies
  when conditions are known to be abnormal, which the engine never passes on.
* *Sessions.* The whole week in half hours with the repository's hours in all
  seasons: not a small instance but the real one.
* *Charts.* Structure has six bars on four prices, a close every bar, no wicks, and an
  ATR of 1 or 2 that may change between two analyses: two breaks each way, gaps and
  blocks with their tests. Liquidity has five bars with and without wicks on three
  prices, an ATR of 1 or 2 that may change as well (a take of 2 is a sweep by the one
  and too deep by the other), the range of the day before and three bars scanned: a
  take, a close that comes back, a later take of the same pool, and a sweep whose bar
  is no longer scanned. The lookback is one bar instead of three: a swing is confirmed
  later than it occurs either way.
* *Decisions.* Scalp has up to three of some twenty features of every kind that a rule
  reads; Setups up to four, since the longest chain (sweep, shift, zone and target) is
  four. Confluence starts near the thresholds of both classes and varies ten
  fields; the others stand still at a value that lets the ten decide. Intraday has four
  closes with an expansion that is a setup for two, one restart, and fills whose
  follow-up raises.
* *Replay.* Three bars on four prices with two minutes at most, two bars a day,
  three engines, two tags, one point of slippage and of commission. The spread is
  zero (`Half`): with it, entries and exits are shifted by the same amount.
  `Gaps` is on in `replay_gap` only; the books balance with and without (the theorem).
* *Learning and WalkForward.* Five bars with a horizon of four, two folds; wicks that
  hold one barrier, both or none, no jumps. Histories of 7, 9 and 10 bars with a higher
  bar of three: boundaries on a higher bar, inside one, and one bar beyond it.
* *Cache.* Bars of 2, 4, 8 and 24 units (the code's are in the ratio 1, 4, 16, 96) and
  five units around a midnight: bars of the shortest series close within a day and
  with all others. A cycle lasts one unit at most, and one fetch of each may fail.
* *Jobs.* Three jobs and a memory of two: one running, one remembered, one dropped.

**Fairness.** `calls` assumes weak fairness of the handlers of a tag and of startup:
the thread inside `execute()` waits only on calls that have a timeout, and it holds no
lock across them. Nothing is assumed of the server, of approvals or of crashes. It
also assumes weak fairness of a thread inside a call of the bridge, whose socket has a
timeout (`Fail`); nothing is assumed of the bridge, which may hang for ever, nor of
who gets the lock next. `position_naked` assumes that the pass goes on and that every
managed ticket is visited again and again (the 1 Hz loop over the whole book; strong,
because one pass at a time excludes the others). Its violation therefore does not rest
on a manager that stops. All other runs are safety runs. Since only one part of
`calls` moves in a behaviour, each fairness condition holds of that part alone.

## 4. What is proved

All proofs are for arbitrary constants that satisfy the modules' assumptions.

* **OrderManager.** Type correctness; fills are founded (inductive invariant
  `Evidence`: everything that can be taken for a fill, a success answer, an open
  position, a deal, traces to an executed order or to the server's word for it), under
  every fault; an ambiguous send is never repeated; the attempts are bounded (`Budget`:
  whoever waits for the query before a retry has an attempt left); unknown halts
  (`Course`: where execute() stands determines what is recorded). Assuming
  neither late landing nor failing queries: one position per tag (`Single`: an
  execution about to send has no open position, and one that waits can see what
  it opened) and, with it, that OrderManager implements TradeIntent. None of this
  asks that records outlive the process. `order_unanswered` shows that the assumption on
  queries cannot be dropped.
* **PositionManager.** Type correctness; belief is the server's stop, and no stop
  widens (both from `Truthful`, which also says that belief never runs ahead
  of the server on tickets with unconfirmed calls and without a trail); no open
  position leaves the book; and both together as `BookTrue`. What the rules have done
  stays done: `Remembered` says that on a ticket whose calls are confirmed a
  reduction is marked as the partial, so that no later pass finds it to do, and that
  no rule serves a ticket before it is opened; break-even then stands because no
  later step widens a stop.
* **Engine.** Type correctness; whatever the broker lists, every position or the main
  magic's: one listed position per engine (`LaneInv`: A/A+ and intraday belong to one
  thread, the scalp to the other; a thread past its checks finds no listed position of
  its own lane, because only it could open one) and, for a limit of at least two, no more
  listed than the limit; the daily limit by one (`DayInv` counts trades and the trades
  already allowed); all three as `LimitsAreKept`; late entries (`LateInv` counts late
  entries and threads past the gate); fills are managed; no command stranded
  (`HandsInv`); DONE has closed what is listed (`FlatInv`: what was open when the FLATTEN
  in hand was queued is closed, not listed, still to do, or has failed the command).
  With a limit of one the concurrency theorem would be false: both threads may find
  the account empty. With a broker that lists every position, these are the promises of
  the code's comments; with `Mt5Broker` they are not, as `engine_stacked` and
  `engine_flatten` show.
* **Risk.** Type correctness; locks last (`Marked`: a locked period of a manual
  kind carries the mark that the roll looks at); approvals are covered
  (`ShareIsCovered` is the arithmetic: what is left of the limit, as a share of
  the equity, is no more than what is left in units of the peak, because no
  equity is above the peak its update has just raised); few approvals past a
  limit (`PastInv`: approvals so far, plus the turns left to cycles whose reading
  is still above the limit or of another period, are at most three; raising a
  peak cleans no reading, and a roll ends the count).

* **Runtime** (InstanceLock and Bridge together). Calls are answered, however many
  engines hold the lock: `CallInv` says that a
  connection carries one thing at a time (a request, a job or a response; `Wired`),
  that what it carries is of the call of the thread that reads from it (`Matched`), that
  a call that changes something is in one place only, on the wire, queued or worked
  on (`OnePlace`), and that what is still to be sent or is pending has not run and
  was not refused (`Once`). An answer can then only be the caller's own, although
  responses are matched by nothing but their connection.
* **Desk.** For every value of the constants of the eight parts:
  * *Jobs.* The current job is known and its thread lives, no other job's does, and what
    passed or failed has no process left (`JobsInv`: where a thread stands says which
    job is current, which process is published and what became of it).
  * *Calendar.* No engine sends through a release (`KnownLately`: whoever knows of the
    releases and of no blackout, the cached context, a decision in progress or what is
    sent, has it from an instant at most a refresh and a cycle ago at which there was
    none). `WorldAssumption` says that no window is wider than what the refresh reads,
    six hours back and twelve ahead (`intelligence/economic_calendar.py`).
  * *History.* Stored bars are final and higher bars whole (`HistoryInv`:
    a harvest works with bars that had closed when it began, and all that is stored is
    final; `BucketIsWhole` is the arithmetic of the resampling).
  * *Intraday.* One trade for one expansion unless the memory of it was lost
    (`IntradayInv`: an expansion that was traded is the one remembered, or lost, or too
    old to be found again (`TradedIsKnown`), and no two events are printed at one close
    (`EventsDiffer`), so that a close names an expansion).
  * *Feed and cache.* On a server whose clock is UTC or ahead of it, by whatever
    (`ClockAhead` a natural number), a live view is the end of the replay's
    (`FeedInv`; `ReplayStays`: no later tick changes a bar that had closed;
    `FetchedIsEnd`: the newest bars served, cut at the instant, are an end of the
    closed ones); an order is decided on the last bar that had closed by its stamp
    (`NewestIsIn`: the newest bar of the replay is in any such end) and on a quote
    that was no older than the limit and `ClockAhead` together, which for a server of
    UTC is `DecidedOnTheMarket`; and an analysis from the cache is the thread's own
    (`CacheInv`: an entry, and what a thread took from it, is a view of one instant
    kept by the bar that it bears; `LongerBars`: two instants with the same last bar
    of the series it is kept by have the same last bars of the longer ones).
    `feed_clock` shows that the allowance is used up. A server behind UTC would show a
    bar that still forms: the theorems do not cover it.
  * *Sessions.* In every season the range of a session is taken over that session so
    far, all of it and nothing else, and the minutes that the strategies count are
    those since its opening; nothing is entered in the first hour of the trading week
    nor in its last two. The hours of the cities are any, as long as Asia's cross
    midnight, the trading days are Monday to Friday and two hours are blocked at the
    end. `OfADay` places an instant in its day, `Offsets` bounds what the two clock
    changes do to it, `SinceOpening` and `CityIsOpen` say that the opening is the last
    start of the city's hours. How much the configuration blocks after the opening
    does not matter: the market opens on Sunday evening, and Sunday is not traded at
    all.
  * *Scalps.* A level, pool or zone of a higher timeframe only shortens a target, a
    swept pool is no wall, and what is worse never makes a trade of a refused scalp:
    for any set of features, any conditions, costs, thresholds and caps. Everything
    that a model makes of a market is an entry, a stop and factors that are handed to
    `Finish` (`Finishes`, one lemma for each of the five models, put together in
    `SignalFinishes`): where two markets read the same to the models, what is finished
    in one is finished in the other, and only the target and the factor of the higher
    timeframes can differ (`WallsOfLess`, `PositionsAreNoWalls`). `FewerWalls` is the
    target's arithmetic, `WorseIs` what a worse condition changes: the factor of the
    news falls, the cost grows (`ScoreFalls`, `CostsGrow`), and a regime is abnormal
    or what it was. The theorem supposes spreads of at most `MaxSpread` and four times
    the median. Beyond the second, where the regime is abnormal, a spread that cannot
    be read would help: it is charged as the widest allowed, but the regime controller
    takes it for none and finds the market normal again.
  * *Scalps upside down.* A market of features and its image, conditions and theirs,
    have signals that are each other's images, with the same score and verdict
    (`MirrorInv`: the features are of the kinds that `Sights` lists, the conditions of
    `Settings`). The image of an image is the original, so that of each rule only
    "what is here has its image there" needs a proof (`Upturned` of a feature, `Twins`
    of two markets). The models are taken one by one, then the walls and the target,
    where a nearest price becomes a nearest price on the other side, the confluence,
    the score, the budgets and the verdict (`TwinsAgree`). Prices lie within 9 000
    units of the current one: the model writes "no price" as a number, and a price
    that was taken for it would not be a price.
  * *Setups upside down, and on their own evidence.* The same for the four strategies
    (`Sound`, `Reversed`, `Mates` stand for kinds, images and two markets): stop,
    targets, the half of the range and each strategy turn with the market
    (`PlansTurn`, one lemma for each strategy, `MatesAgree`). Besides, what faces the
    other way, is used up or was taken is no evidence: two markets that agree on what
    a direction reads (`Alike`) have the same plans in that direction
    (`DetectedAlike`), and taking away one such feature leaves them alike. The hard
    case is the reversion, which makes one plan, that of the oldest sweep: a sweep of
    the other side could have taken its place. It cannot because a swept level counts
    only with the last event of the structure on its side, and the last event is one:
    the events of one bar go one way (`OneWay`, part of `SetupAssumption`), since
    `detect_events` leaves the bar after a bullish break (`core/structure.py:211`) and
    appends one event for each side. The edges of a zone are even numbers, so that its
    middle is one; that is a choice of the unit.
* **Study.** For every value of the constants of the six parts:
  * *Structure.* Over any bars, any ATR at any analysis and any thresholds, a change of
    character answers the other side's break of structure, and a second break the same way
    takes a swing that the first had not left behind. `WalkSound` is the invariant of one
    turn of `detect_events`: the bias is that of the last event, and behind every swing
    that this event left unbroken lies one that it did not close beyond, or that was not
    known when it happened (`Left`); `BreaksAreSound` and `StepsAreSound` carry it over a
    bar, `WalksExist` shows that there is such a walk over any number of bars.
  * *Zones.* A gap or block that cannot be traded at one close cannot be traded at the
    next, whatever ATR the next analysis finds. `DeadGap` and `DeadBlock` say what uses a
    zone up in terms of single bars (`GapsAreDead`, `BlocksAreDead`); a further bar takes
    none of that back (`DeadStays`).
  * *Sweeps.* While the bar of a sweep is among those that are scanned, a later
    analysis finds that sweep again, with the close that came back and at least the
    move it had; afterwards it can only find a later take of the pool. The depth of a
    take is measured by the ATR of the last bar, so another ATR may make a sweep too
    deep or too shallow (`Fits`), and that is the only way to lose or move it.
    `IsSweep` says what a reported sweep is in terms of the bars: no earlier bar that
    was scanned qualifies. A new bar may let an earlier take close back, but only if
    its wait reaches over the close of the sweep, and then but for its depth it had
    qualified already (`SweepsStand`, `DepthDecides`).
  * *Lessons.* No bar that labels a sample of the training labels one of the test,
    with any number of folds: the samples are in the order of their bars
    (`SamplesInv`; `Ranking` is the fact that the places in a finite order are all
    taken), so that whoever comes before the first test sample's entry or after the
    last outcome is clear of all of them. The windows that were run judge every bar
    from the first sample to the last boundary, none twice but at a boundary
    (`WalkInv`: window i begins i tests after the first). That the sample which
    chooses does not share that bar is what `walk_straddle` refutes.
  * *Judgement.* Worse evidence never makes a better class, and neither does losing
    what did not oppose the trade. `JudgeInv` says that the evidence has values of its
    fields and grades that are listed; a step that worsens a field then makes no field
    better (`Falls`). `SharesFall` takes the categories one by one, `PenaltiesRise`
    the penalties; the total is a sum over the categories, so a sum of less
    (`SumsCompare`) less what is more, and fewer categories are strong (`TotalFalls`).
    Gates and checks that pass on the worse evidence pass on the better (`GatesFall`,
    `ChecksFall`), and with them the class (`RankFalls`). `HarmlessLoss` lists what
    may be lost: a macro picture that did not oppose, news that were not against, a
    range in which the price stood on the right side. A model's probability is not
    among it (section 5).
  * *Replay, books.* Balance, reported trades and open positions agree (`BooksInv`:
    besides types, one position of an engine and one side at a time, which is what
    makes the positions that stay as many as they were; `SettledBooks` compares the
    two sums over what is closed, `KeptBooks` counts the rest). What has reached
    break-even cannot lose at its stop if the broker takes a stop one unit of the
    model's prices away (`StopsLevel <= 1`; `BreakEvenBehind` is the arithmetic: the
    offset stays behind the price). A broker that asks for more refuses the move, and
    the next bar tries again.

The constants are assumed to be what the configurations and the code give them:
`RuntimeAssumption` (engines are clients of the bridge), `TicketAssumption` (a value
that is no ticket), and in `Desk` naturals for the limits, lengths that are not zero,
the windows above, and for the cache that the quarter-hour divides the hour and the
day. The features of a strategy are records whose fields take what the types of the
code give them (`Sights` in Scalp and Setups: `domain/types.py`), not lists of
examples; the examples are in `MCDesk`. In `Study`, the offset of the break-even stop
is less than where the stop is moved there (0.05 and 1.0 R,
`src/config/base.yaml:128`), and the grades of a field are listed worst first. The
health of the model is not among the fields that vary: a model that is not healthy has
no opinion, which is neither better nor worse than one.

A sum of the community modules is a function that refers to itself, over the subsets of
what is summed, and so is the walk of the structure's events, over the bars. That there is
such a function is shown by the smallest subset, or bar, at which it would fail; two sums
are compared in the same way (`SumExists`, `SumsCompare`, `WalksExist`).

Arguments about "the newest" or "the last" of a set need that a bounded set of
integers has a largest element. It is had from the library's well-founded
minimum of a set (`WFMin` with `NatLessThanWellFounded`), which takes a set where
its induction theorem takes an operator.

Every invariant and every action property that a passing run checks is a theorem. Only
model-checked are the liveness properties `OrdersEnd` and `LockReleased`: fairness is
outside the prover's reach. So are the violations, which are behaviours of an instance.

## 5. Differences between the code and what it says

The nine violation runs are findings; `PROJECT.json` quotes the lines. Some
properties are stated in the modules because a text or a comment promises them,
hold of no run, and are described here:

* `OrderManager!AbandonedIsAbsent`: the last attempt leaves the loop before the
  query (`execution/order_manager.py:307`), so an order that landed is recorded
  ABANDONED with a position open.
* `OrderManager!FilledIsReal`: PLACED is classified as a success
  (`execution/retcodes.py:67`) and returned as FILLED with the volume that was asked
  for (`execution/mt5_broker.py:269-273`), though such an order waits and may never be
  executed. `FilledIsFounded` is what holds. TradeIntent, too, is kept only by a
  server that executes what it accepts.
* `OrderManager!IntentRecorded`: the tag "is written to the database as INTENT before any
  network call" (`execution/order_manager.py:6`); the engine's callback only logs
  (`engine/orchestrator.py:992`), so that after a restart there is no unresolved order
  to reconcile.
* `Learning!WinsAreProven`: "walk FORWARD from the decision bar until one of three
  barriers is touched" (`ml/labeling.py:3`); a bar that opens beyond the stop does not
  hold it (:75), and the walk goes on to the target.
* `Backtest!NeverFlatters` with `MinutesMissing`, for want of minutes instead of by
  the gap of `replay_gap`: the first known minute may show the target although a
  missing one held the stop.
* `Engine!NoEntryWhenHalted`: `docs/architecture/02-mt5-integration.md:187` lists
  "kill switch clear" among what is re-derived at send time; `preflight`
  (`execution/order_manager.py:79`) does not look at it. `LateEntriesBounded` is
  what holds instead.
* `Risk!LocksOutliveRestart`: `risk/drawdown.py:10` and `risk/kill_switch.py:1`; nothing
  is stored, a restart lifts what needs a human.
* `Intraday!OnceEach`: `strategy/intraday/expansion_pullback.py:23` promises one entry
  for each expansion; a neutral or opposite bias for one close forgets the consumed
  setup (:124), and the same expansion is found again, as it is after a restart or
  after a fill whose follow-up raised. `OnceUnlessForgotten` is what holds.
* `Structure!EventsKept`: `docs/architecture/05-roadmap.md:251` speaks of
  non-repainting detection. A swing that is replaced by a more extreme neighbour
  (`core/structure.py:119`), or another ATR, makes an earlier event disappear.
* `Liquidity!FirstTake`: `core/liquidity.py:287`, "the first take is the meaningful
  one"; the first take that qualifies is reported, the first one may not.
* `Scalp!MissingNeverLifts`: `strategy/scalp/htf.py:94`; a timeframe that conflicts
  scores nothing, one that is missing a quarter, so losing it lifts the factor.
* `History!ExhaustedIsTrue`: a batch of which only the forming bar was new ends the
  harvest as exhausted.
* `Sessions!BreakRefused`: `src/config/base.yaml:195` says that the daily break is
  refused; `is_market_open` knows of none.
* `Confluence!NewsNeverDecides`: `config/settings.py:541`; the news moves at most two
  points, which decides at a threshold.

Noted in reading, where no model was made of it:

* *Engine.* `open_position` of the repository has no caller, so the reconciler
  compares with no rows. The veto of the regime returns before `IntradayPipeline.run`,
  though `engine/intraday_pipeline.py:147` says that the sequence is always run.
  `:693` reads `p.price_open`, which `BrokerPosition` does not have, when a position
  has no stop, and `tracked`, which the position manager does not have, so that no
  exposure has a model. A missing quote has age 0, which is fresh.
* *Risk.* `evaluate` of the kill switch has flags for the periods that the tick loop does
  not pass (`risk/kill_switch.py:145`), and `clear_all` and the guard's `clear` have no
  callers. `risk/gate.py:139` re-reads "state, do not trust the cycle", but the account
  it is given is the cycle's. Neither `record_trade` (`risk/drawdown.py:145`) nor
  `observe_close` (`risk/engine_budget.py:232`) is called: loss streaks and
  per-engine drawdown never lock anything.
* *Processes.* An empty lock file, which a crash between creation and writing leaves,
  reads as pid 0, which is alive: the engine refuses until the file is removed. The
  lock of a live engine of another user, which may not be signalled, counts as stale
  (`engine/orchestrator.py:104`), and is taken without any race. An error of the loop
  that reads a job's output leaves its process alive while the next job may start
  (`dashboard/jobs.py:370`). The second `O_EXCL` and the `read_text` of a file that has
  just gone raise; `release()` removes whoever's file it is. `stop()` never stops the
  scanner. The bridge never compares the ids of responses, and keeps a timed-out job.
* *Clock.* `BrokerClock.to_utc` is called by nothing and the jump that `observe()`
  returns is ignored, against `docs/architecture/00-overview.md:366`. A feed that
  stalls for half a quarter hour just after the broker's midnight turns the day
  back and resets the trade counter. `preflight` measures ages against the instant
  of the cycle, not of the send.
* *Context.* The age of the context is never looked at; a decision after a start and
  before the first refresh knows of no release. Only the curated schedule is wired,
  at fixed hours of UTC, which miss the summer's 12:30. A failed refresh means no
  blackout. With no headlines the news risk is at least MODERATE, so A+ cannot be
  reached.
* *Scoring.* An opposing fresh headline that grows stale can raise a class, as can
  the loss of an opposing macro picture; a model that is missing asks for no
  probability of an A. A plan on the wrong side of the dealing range is refused, and is
  let through once the range is unknown (`strategy/gates.py:285`), with a lower score.
* *Analysis.* The levels are built from four timeframes and kept by the daily bar
  (`core/analyzer.py:302`), so they are those of the first analysis of the day or since
  the start: a restart, or a replay that begins at another hour, has other levels,
  against `core/analyzer.py:119`, "recompute only when a new bar has closed on that
  timeframe". What one failed fetch left out of an entry stays out until the next bar,
  for the levels a day. Zones are kept by the M15 bar or, without those, the H1 bar:
  after a pause in the cycles, an entry of the one may bear the time of the other.
* *Strategies.* Equal directional indices are read as bear. PdhPdl takes the oldest
  qualifying sweep and asks no higher timeframe; of two sweeps the one with better
  quality but too little displacement hides the other; an older shift hides a newer
  break. Scalp's `max_hold_minutes` is not enforced live; a spread of 0 counts as
  unreadable; its MODERATE news has no entry in the table.
* *Backtest.* `_manage` derives R from the moved stop (`backtesting/engine.py:573`), the
  live manager from the initial one (`execution/position_manager.py:179`);
  the counter of trades resets at UTC midnight.
* *Learning.* An embargo of one percent of fewer than a hundred samples is none; the
  training has no caller.

## 6. Plan

Done: OrderManager with TradeIntent, PositionManager, Engine, Risk; InstanceLock,
Bridge and Runtime; Feed, History, Sessions, Context; Bars, Structure, Liquidity,
AnalysisCache; Market, Setups, Scalp, Confluence, Intraday; SimBroker, Backtest,
WalkForward, Learning; JobRunner; Desk; Study; the proofs of section 4. What is left,
in order of importance:

1. An abstract ledger for SimBroker, and one for the account that the engines share,
   which a broker that lists every position would let Engine implement.
2. Feed composed with Engine: the daily counter reset by a clock that flips while
   both threads trade. Runtime composed with OrderManager: a send as a call of
   the bridge, instead of its outcomes.
3. The loss streaks and per-engine drawdown, once something calls them; the
   reconciler, once something writes its rows.

## 7. Not modelled, and why

* The reconciler: in the running engine it compares the main magic's positions
  with rows that no code writes, and nobody acts on the lists it makes.
* PostgreSQL's advisory lock, whose life is that of a pooled connection.
* Floating-point indicators, the assessment of headlines, the correlation of the
  dollar, machine-learning models, statistics of finished backtests: numbers that a
  finite model does not represent. Where their verdict matters it is a grade, a
  feature, an ATR or a choice.
* The clustering of support and resistance.
* Parsing of feeds, HTTP handlers and the browser page, logging and notification,
  configuration loading, the other commands of the command line and the launchers:
  they hold no state that trading depends on.
