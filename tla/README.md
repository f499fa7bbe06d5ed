# Verification of the market-making bot

This directory holds TLA+ models of two programs of the repository. The first is
the bot that `scripts/run_core_mm.py` starts: a loop that quotes both outcomes of
Polymarket markets, against a simulated exchange in PAPER mode and against the
real one in LIVE mode (the *core bot*). The second is the runtime it grew out of,
kept under `legacy/` and started by `legacy/scripts/run_system.py` (the *archived
runtime*): several loops around one engine, which trades the 15-minute markets and
rolls over from each to its successor. The models are checked with TLC on small
instances, and the most important properties are proved with TLAPS for every
value of the constants. Paths below are relative to the repository's root
(`src/`).

Contents

1. The system: parts, state, interactions
2. What is hard about it
3. The modules and how they correspond to the code
4. The runs: what they show, bounds
5. Fairness
6. Proofs
7. Disagreements between the code and what is said of it
8. What is not modelled
9. Plan

## 1. The system

### The core bot

One process, one event loop (`asyncio`). The script
(`scripts/run_core_mm.py`) creates a runner, a broker, the feeds and the
telemetry and then loops: refresh the market selection, run a pass over the
active markets, drain the new fills, record, check the loss cap, sleep. The
feeds are coroutines of the same loop. A pass never suspends (LIVE mode's HTTP
calls block the whole loop), so messages are handled between passes only.

| Component | State it keeps | Operations | Correct when |
|---|---|---|---|
| Script `scripts/run_core_mm.py` | the loop, deadline, loss cap | iterate, handle user messages, stop | every fill is recorded, quotes are withdrawn at the end |
| Runner `core_mm/runner.py` | active markets, dwelling times, position tracker | `refresh_market_selection`, `run_cycles`, merge, list open orders by quote key | slots are respected and used; the orders of all markets are accounted for |
| Main loop `core_mm/main_loop.py` | per-token flow filters | `run_market_cycle`, `_evaluate_token`, `_apply_actions` | what is planned is on offer, what is not is withdrawn |
| Order manager `core_mm/order_manager.py` | none | `decide_one`, `plan` | one order per key; small changes do not churn |
| Sizing `core_mm/sizing.py`, complement scanner `complement_arb.py` | none | `get_buy_sell_amount`, `evaluate` | exposure is bounded, sells are covered |
| Quote engine `core_mm/quote_engine.py`, book metrics `book_metrics.py`, overlay `alpha_overlay.py` | trackers of the overlay | `get_order_prices`, `find_meaningful_bbo`, `get_signal` | quotes are in order, passive, and cover their cost |
| Books `core_mm/book_manager.py` | levels of each token | snapshot, price change | the last message is what is quoted on |
| Flow filter `core_mm/flow_filter.py` | smoothed imbalance, cooldown | `update`, `check_reversal` | quiet for the whole cooldown after a reversal |
| Risk manager `core_mm/risk_manager.py` | end of the market's sleep | `evaluate` | a market that lost buys nothing while it sleeps |
| Paper broker `core_mm/paper_broker.py` | orders, fills, FIFO lots, bankroll, cursor | place, cancel, sweep on messages, merge, drain | an order fills at most once, within its terms; the accounts agree |
| Position tracker `core_mm/positions.py` | holdings | fills, merges | equals what was traded |
| Live broker `core_mm/live_broker.py`, execution `execution.py` | own tracker, realized result | risk checks, calls with retries, `cancel_all` | limits hold although reports lag |
| User feed `core_mm/user_feed.py`, `user_ws_adapter.py` | fills seen, connection | deduplicate, route, reconnect | holdings equal the account's |
| Market feed `core_mm/market_ws_adapter.py` | desired and subscribed tokens, events | connect, subscribe, reconnect, stop | follows the selection, ends when stopped |
| Telemetry `core_mm/telemetry.py` | queue, pending markouts, tapes, tables | record, flush, summarise | tape and tables tell the same |
| Market memory `core_mm/memory.py` | history and memory tables | `ingest_session` | no session counts twice |

How they interact:

    market feed --messages--> books, paper broker's sweep
    script --tokens of the active markets--> market feed
    script --pass--> runner --market by market--> main loop
        main loop: books -> flow, risk -> sizes, prices -> plan -> broker
    broker --fills--> position tracker (paper: in the call; live: user feed)
    script --drained fills--> telemetry --summary--> memory

Two objects hold holdings in PAPER mode (the tracker's positions and the
broker's FIFO lots) and two in LIVE mode (the runner's tracker and the
broker's). Open orders are known from the broker alone: each pass asks again.

### The archived runtime

One process, one event loop, a task per loop, and one lock that the engine's
cycles and the swap of markets take. The on-chain reader drains its filters in a
thread of its own. Paths in this table are below `legacy/`.

| Component | State it keeps | Operations | Correct when |
|---|---|---|---|
| Quote loop `scripts/run_system.py` (`run_quote_cycle`), `core/execution_fsm.py`, `policy_gate.py`, `broker_sim.py` | a state machine, inventory, ages and open quotes per token | a turn per token: hedge timer, unwind, verdict, freeze or thaw, quote or withdraw | exposure is one leg, inventory within the cap, a leg is hedged in time, a frozen token can thaw |
| Stats loop (`run_stats_cycle`) and liveness watch | breach, quiet and age counters, freeze, alarm | measure, freeze, thaw, alarm; error handlers that write to the database | a silent feed or a dead loop stops quoting |
| Reconciliation `core/broker_polymarket.py`, `_record_reconciliation`, `adopt_open_orders` | quotes filed by id, quarantine, mismatch counters | compare filed and resting orders, freeze, thaw, adopt at start | foreign orders are left alone, stray ones freeze |
| Rollover loop, `core/market_rollover.py`, market stream `data/data/polymarket_ws.py` | attempt, cooldown and gate of the loop; pending, active and applied tokens of the stream | resubscribe, confirm, commit, roll back, reconnect | the stream listens to what the runtime trades, and follows it |
| Discovery `core/market_discovery.py` | two files of remembered answers | ask by slug, ask all events, select | no market from old answers; a trouble is forgotten |
| Reference feeds `core/reference_feed.py`, `reference_ws.py`, price `pstar.py` | last quote of each venue | poll, receive, reconnect, price | a price is recent, and comes back |
| On-chain ingestion `core/onchain_ingest.py` | filters, deduper, tape, hashes | drain, reconcile, poll, fall back | an event is recorded once |
| Fill records `_handle_broker_event`, `_reconcile_missed_fills`, `core/sqlite_store.py` | seen-fill marks, rows, inventory, delayed measurements, daily counters | apply an event or a snapshot, measure, restart | a fill counts once |
| Replay `core/replay.py`, `core/decision_engine.py`, `core/entry_exit_rules.py` | books, price history, simulated positions, time of each decision | read the tape, make up heartbeats, decide | decisions rest on what was known, positions end |

How they interact:

    market stream --books--> quote loop --snapshots--> stats loop --freeze--> quote loop
    rollover loop: discovery -> stream (confirm) -> engine's swap, under the lock
    reference feeds --price--> verdict of a token
    broker --events, snapshots--> fill records --inventory--> quote loop
    every loop --rows--> database; tapes --offline--> replay

Around both stand a dashboard, report scripts, audit tools, a neg-risk scanner,
reward scoring and batch jobs over finished tapes; section 8 says why they are
left out.

## 2. What is hard about it

- **Orders outlive the pass that placed them.** Fills, merges, a dropped market
  or a cap change what an order was sized on; the planner reconciles from one
  snapshot of open orders, of which it keeps one per key.
- **Fills happen inside a pass in PAPER mode** (a crossing order fills when it
  is placed) and at any time in LIVE mode, where they are reported late,
  repeatedly or not at all.
- **Failures are values.** Calls of the exchange are retried without an
  identifier, answers are dropped by the caller, a snapshot that fails counts
  as no orders; a crash leaves orders behind.
- **Await points.** The selection changes and the session stops while the market
  feed connects, sends, closes or backs off; the archived stream is pointed
  elsewhere, confirmed late or dropped while the rollover loop waits for it.
- **Counters and clocks.** Cooldown cycles are counted on usable books only, a
  market sleeps but is judged token by token, dwelling times protect markets
  from eviction, a book goes stale, an order gets queued; venues' clocks run
  behind or ahead, and remembered answers are kept by two files that feed
  each other.
- **Roundings in a row.** A price is improved, skewed, floored at the cost,
  widened and rushed, each time to whole ticks, by steps that do not know of
  one another.
- **Records are written in steps** (queue, tape, flush, history, memory; marks,
  rows, inventory, measurements) by a process that may be killed between any two.
- **Loops that share a database and a lock.** An error handler writes to the
  database that made the work fail, and a dead task is noticed by nobody.
- **Unlocked sharing.** The drain thread and the event loop check and insert in
  one deduper.
- **Two accounts of one exposure.** The archived state machine forgets its leg at
  a swap of markets while the inventory keeps it.

`PROJECT.json` lists each hazard at its line, with the properties that would
catch it going wrong, or the reason why none does.

## 3. The modules

All abstract data the same way: prices are ticks, sizes are lots, messages are
members of a small set, clocks are flags or small counters. Definitions named
`Bug...` are variants a plausible slip would produce; they are used by no
specification and serve to see that each property can fail.

### Core bot

**TradeLedger** — the abstract specification. What an exchange promises,
however it matches: terms on file, live orders, trades, holdings. An order
trades at most once, only while it is live, within its terms; holdings move by
trades and redemptions only.

**PaperBroker** (`paper_broker.py`, the tracker of `positions.py`, the top of
`book_manager.py`). One action per call: `PlaceOrder` (with the crossing check
and its fill), `CancelOrder`, `CancelAll`, `MarketMessage` followed by one
`SweepOne` per registered order, `Merge` (the runner's merge and the broker's
closing of FIFO lots), `DrainNewFills`; and the clock, `BookGoesStale` and
`OrderGetsQueued`, which may act between any two orders of a sweep, since the
code reads the time per order. `_try_fill` is split into the conditions
(`Crosses`, `Touches`, `Fillable`), the depth cap (`FillSize`, which looks on
the side the code looks on) and the bookings (`Book`). A price level deeper
than the best is never read by a fill, so a book is its two best levels. A
partly filled order is final, as in the code. `Ledger` maps the broker to
TradeLedger and `ImplementsLedger` is the refinement.

**QuotingCycle** (`runner.run_cycles`, `main_loop.run_market_cycle`,
`sizing.py`, `order_manager.py`, `complement_arb.py`). `Iterate` starts a pass: a
selection, the aggregate caps looked at once. `StartMarket` merges, takes the
holdings the quotes are sized on and the trade size, which the complement
scanner may boost (`TradeSizes`). `SettleKey` settles one quote key: cancel,
keep, replace or place, with an instant fill in whole or part. `Trade` and `Age`
are the exchange and the clock between passes. What stops a quote (book state,
flow, risk, prices) and whether a price has moved past the threshold are free
choices here; TokenGates and QuotePrices model where they come from.
`KnownOrders` keeps the code's quirk that every open order is filed under the
market being quoted. The broker it runs against is what TradeLedger promises.

**TokenGates** (`_evaluate_token`'s gates, `flow_filter.py`,
`risk_manager.py`). A cycle takes the tokens in turn: `Blind` (no usable
book), `KeepQuiet` (cooldown), `Quote` (risk and sides). `Buy`, `Sell` and
`Tick` come between cycles. The average is on a scale of whole units and its
remainder is rounded down.

**QuotePrices** (`book_manager.py`, `find_meaningful_bbo`,
`get_order_prices`, the signals of `alpha_overlay.py`, the rush of
`_evaluate_token`). `Snapshot` and `PriceChange` change the book, `Plan` prices
both quotes. The skew is a sum of the parts the code adds (`InventoryTicks`,
`ImbalanceTicks`, `ComplementTicks`), the multiplier the product of the book's
age, the adverse fills and the regime (`AgeMultipliers`, `FillMultipliers`,
`VolMultipliers`): each may widen or not, a quiet regime tightens, and the code's
1.3 for adverse fills outweighs its 0.8 for a quiet regime. Each step of the code's
price arithmetic is an operator: `BaseBid`/`BaseAsk` (improve or join), `Skewed`
with its fallback, `BidWithin`/`AskWithin` (floor and crossing guards), `Spread`,
`Rushed`, each with the rounding of the code.

**LiveSession** (`run_core_mm.py`'s loop in LIVE mode, `live_broker.py`,
`execution.py`, `user_feed.py`, `user_ws_adapter.py`). `StartPass` and
`SettleKey` are a pass over HTTP; `Fill` is the exchange; `Deliver`,
`Disconnect`, `Reconnect` the user feed; `Stop`, `Crash`, `Restart` the
session. A pass files the client's rows as they are (`Filed`, `Listed`), and how
rows name an order is the client's: `RowForms` are the forms that may occur.
Rows with the planner's lower-case side are recognised; rows with the side as it
was posted, in upper case, are filed under keys that nothing wants, so that the
pass cancels these orders before it places the same quotes again; rows whose
token or id has a name the code does not look for are dropped.
A retried placement may be accepted any number of times (`Copies`).
Which faults may happen, and how many, are constants. `misled` is a history
variable: it records that the session's knowledge of its fills is behind.

**MarketSelection** (`refresh_market_selection`) and **MarketFeed**
(`market_ws_adapter.py` under the script). `Select` protects, fills up and
arranges; MarketFeed extends it with the feed's coroutine, one step per
stretch between two awaits, and the script's `Refresh` and `Stop` in between.

**SessionRecords** (`telemetry.py`, `memory.ingest_session`, the script's
recording and shutdown). Steps are what a kill or a failure can come between.
`Start` may reuse a folder.

### Archived runtime

**QuoteRuntime** (`RuntimeEngine.run_quote_cycle` in PAPER mode with the state
machine, the policy gate and the simulated broker; the swap of markets). One
action per turn of a token, composed of operators in the order of the code:
`Rebalanced` (hedge timer and emergency unwind), `Judged` (verdict, freeze, thaw),
`Quoted` or `Withdrawn`. What the feeds and the broker answer are the inputs of
the turn. `Commit` swaps markets, `Guard` and `LiftGuard` are the rollover's
guard, `Settle` says that from now on the world is calm.

**TradeReconciliation** (TRADE mode: `PolymarketBroker`, `_record_reconciliation`, `adopt_open_orders`).
An order is filed under an id of the runtime's own that the exchange has never
heard of, so a quote and the order it is are two things here (`quote`, `rest`).
`Quote` and `Withdraw` are calls whose answers may be lost, `Reconcile` compares,
freezes and thaws, `Stop` and `Start` are a crash or stop and a restart that
adopts and quarantines; `Leave` and `Stranger` are what happens to orders outside.

**MarketRollover** (rollover loop, `RolloverManager` and its gate,
`MarketWSClient`). `Attempt` to `Commit`, or `CommitFails`, `SwitchRefused`,
`GiveUp` and the way back; each step is a stretch between two awaits, with
`Connect`, `Drop`, `Hear` and `Reconnects` of the stream in between. The swap
itself is QuoteRuntime's `Commit`.

**MarketDiscovery** (`market_discovery.py`). One `Attempt` is one call: both
files, any request failing, the windows around now, the selection; `List` and
`Tick` are the exchange and the clock.

**ReferencePrice** (`pstar.py` and the feeds). A feed of each of the three kinds
of the code per venue; a quote carries a time of its own. Whether two venues are
too far apart is kept, levels are not.

**RuntimeHealth** (the quote loop, the stats loop, their error handlers).
`QuotePass` is a round over all tokens (a fold), with `QuoteError` and
`QuoterDies` where the turn raises and where the handler raises too; the same for
`StatsCycle`.

**OnchainIngest** (`onchain_ingest.py`). `Check` and `Record` are two steps of
each reader (thread and event loop), so that both may pass the check; `Reconcile`,
`Poll`, `Drain` and what ends a turn are the loops, `Mine` and `Reorg` the chain.

**FillRecords** (the two ways a fill is processed). A handling is a queue of
statements (`job.todo`) that `Raise` or `Crash` may cut anywhere.

**DecisionReplay** (`replay.py`, `decision_engine.py`, `entry_exit_rules.py` and
what they read). `Quote` and `Read` take the next record of the tape, `Heartbeat`
makes up for an overdue decision dated in the past, `ApplyBook` and
`OnBookUpdate` are the record itself, `End` the last heartbeats.

### How they compose

PaperBroker implements TradeLedger, whose promises are the ones QuotingCycle's
`Trade` and `Place` rely on. MarketFeed extends MarketSelection, of which
QuotingCycle's `Selections` is the outline. TokenGates and QuotePrices refine
free choices of QuotingCycle (`through`, `moved`); LiveSession takes
QuotingCycle's pass with its sizes left open, for one market. MarketRollover's
candidates are the answers MarketDiscovery may give, its `Commit` is
QuoteRuntime's, whose `sky` sums up ReferencePrice, RuntimeHealth and the books.
Only the first of these is a formal refinement, checked and proved; composing
the others in one state space is out of TLC's reach.

Four modules put specifications that share nothing side by side, each with
constants and variables of its own: **PaperTrading** holds PaperBroker,
SessionRecords and DecisionReplay; **MarketQuoting** QuotingCycle and QuotePrices;
**RuntimeFeeds** MarketRollover, MarketDiscovery and ReferencePrice; **RuntimeWatch**
RuntimeHealth, TradeReconciliation, OnchainIngest and FillRecords. The first of
each is extended, the others are instances (`R!Spec`, `D!Spec`, ...), whose
assumptions the module asserts and whose properties it names. Proofs are about
each instance's own specification. The MC module of the same run adds a variable
`subject` that says whose behaviour this is, while the others rest in an initial
state; fairness is taken for the behaviours that are theirs (`Fairness` of each
instance).

## 4. The runs

Every run but the two marked *(violated)* ends without error. The number of
distinct states is in the last column.

| Run | Specifications | Shows | States |
|---|---|---|---|
| `paper_broker` | PaperBroker; SessionRecords; DecisionReplay | fills, FIFO lots, positions and tape agree, TradeLedger is implemented; tape and tables, and the rows of a fill, agree over kills and reused folders; replayed positions are entered on facts known by then, and end | 2,457,948 |
| `quoting_one` | QuotingCycle, one market; QuotePrices | one order per key, the plan on offer, sells covered, holdings bounded, with and without the boosted size; quotes in order and covering their cost | 1,252,296 |
| `quoting_two` | QuotingCycle, two markets and both caps | nothing unwanted on offer, a capped pass leaves no buys, stale quotes go | 263,244 |
| `two_markets_quoted` *(violated)* | QuotingCycle, two markets | one market's cycle cancels the other's quotes | |
| `live_faults` | LiveSession | with rows in lower case or as posted, duplicated placements, failed calls, a crash and a second session: holdings are known, and quotes go | 2,263,690 |
| `live_orders` | LiveSession | with rows in lower case or as posted, lost reports, refusals, crashes and merges: one order per key, position nearly capped | 771,544 |
| `market_feed` | MarketFeed | selection and feed, safety and liveness | 52,503 |
| `token_gates` | TokenGates | the cooldown is kept, and quoting resumes | 131,106 |
| `paper_runtime` | QuoteRuntime | one leg at most, inventory within the cap, legs resolve, flat tokens thaw | 41,168 |
| `runtime_feeds` | MarketRollover; MarketDiscovery; ReferencePrice | the stream is clean between attempts and follows the successor; answers are recent and troubles forgotten; the price is recent and returns | 260,917 |
| `runtime_watch` | RuntimeHealth; TradeReconciliation; OnchainIngest; FillRecords | silent books unquoted, a dead loop freezes; foreign orders untouched, stray ones freeze; events recorded once; fills counted once | 350,865 |
| `runtime_starved` *(violated)* | RuntimeHealth | a starved feed freezes nothing | |

Bounds, and why they are enough for the question:

- `paper_broker`, the broker: one market of two outcomes, two price ticks, three
  orders of four kinds (crossing and partly filled, resting, an oversized sell,
  the other outcome's buy), one message with a two-sided book and a one-sided
  one; books go stale and orders get queued at any time. Three orders suffice
  for a buy, a buy of the other outcome, and a sell or merge that closes parts of
  both. The records: two orders, two fills, three sessions in two folders,
  hence also a folder used twice; folders and orders are interchangeable
  (symmetry; the run has no liveness property). The replay: three quotes of two
  sources and three market records at times 0, 2 and 4, quotes that arrive 2
  late, so that a heartbeat made up for lies between a quote's event and its
  arrival; two values, hence momentum either way and back; one record a book
  without bids, hence a position that cannot be priced.
- `quoting_one`, the cycle: trade size 10 or, boosted, 20, `max_size` 20, hard cap
  25, minimum 3, merge from 5, partial fills of 4: the numbers are chosen such
  that the skewed sizes go through all regimes (full, reduced, below the minimum,
  none), that a merge leaves a remainder and that a kept order is off by less
  than 10%. The prices: six ticks, dust, fallback-sized and thick levels, up to
  two a side, skews from -3 to 4, no and a high cost, multipliers 1/3, 2/3, 1,
  4/3, 2, 8/3, 4 and 8. All roundings of halves and of the multipliers occur. At
  this scale the code's factor of 4/5 would be lost in rounding; 1/3 stands for
  it, and 4 for the 13/10 that outweighs it.
- `quoting_two`, `two_markets_quoted`: sizes 2 and 3, since the interest is in the
  selections (every ordered choice of at most two markets, changing at any
  turn) and the caps.
- `live_faults`: three faults of any of seven kinds, two accepted orders, two
  sessions. Three faults are enough for a duplicate whose cancellation fails
  once and another failure after it. Any snapshot may have either form of rows
  that the code recognises in full or in part (`paper`, `posted`). `MinMerge` is too high for merges, which are
  bookkeeping of one tracker only and would make the equation meaningless.
- `live_orders`: two faults, three orders, cap and sizes of one lot, merges. The
  faults that do produce duplicates (timeouts, failed cancellations and
  snapshots) are left to `live_faults`: with them `OneOrderPerQuote` is false
  by design of the retries (section 7). The forms of rows as in `live_faults`:
  with unread rows it is false with no fault at all.
- `market_feed`: three markets for two slots: one protected, one moving, one left
  out; a dwelling time of one; one failure of the connection.
- `token_gates`: a scale of nine values with a span of 3, at which reversals do
  happen (they cannot at the defaults, see `NeverReversed`), two quiet cycles,
  a sleep of two, a hard cap of two.
- `paper_runtime`: two tokens, of which the session starts with one; a cap of two
  quotes, the least at which a forgotten leg and a new one add up; a timeout that
  has passed at the next tick. The legs, ages and sides of one token do not
  depend on another's, so two suffice for a swap that keeps, drops and brings.
- `runtime_feeds`: the three markets are the current one, its successor and the one
  after; the gate closes at two aborts. Discovery: windows of 4 ticks, files good
  for 2, one window back and one ahead, ten ticks, hence two changes of window,
  and remembered answers that outlive one. The price: ages to 2, venues 1 late or
  1 ahead.
- `runtime_watch`: two tokens with limits of one or two ticks; two slots with three
  orders, frozen after two mismatches and thawed after two clean cycles; two logs
  with a deduper that remembers one, two blocks, one fork; two fills on two days,
  two sessions. The specifications share nothing, so the states add up and do not
  multiply.

Deadlock is checked except where a system ends: LiveSession's last session,
MarketFeed's stopped feed, SessionRecords' and FillRecords' last session, the
end of the replayed tape, the last tick of discovery and the last block.

Each property of a passing run was seen to fail for a slip in the code's
translation (`mutants` in `PROJECT.json`): a dropped guard, a missing reset, a
wrong sign, an event that stays set.

## 5. Fairness

- `QuotingCycle!FairSpec`: weak fairness of `Iterate`, `StartMarket` and
  `SettleKey`. The script loops while the session lasts and nothing in a pass
  awaits. The exchange and the clock are not fair. `StaleQuotesGo` additionally
  assumes that markets are quoted again and again: with an empty selection the
  code runs no pass (`runner.py:221` onwards) and cancels nothing.
- `LiveSession!FairSpec`: weak fairness of `StartPass` and `SettleKey` while the
  session is on. Calls end (they have timeouts) and faults are finitely many.
  Nothing is assumed of fills, the feed, stops or restarts.
- `MarketFeed!FairSpec`: weak fairness of the feed's own steps (awaits have
  timeouts: `wait_for`, backoff), of the script's refresh and of time.
- `TokenGates!FairSpec`: weak fairness of the cycle's steps, strong fairness of
  `Tick`: time is enabled between cycles only in the model and runs on
  regardless in the world.
- `QuoteRuntime`: weak fairness of each token's turn (`run_quote_cycle` visits every
  token of its list), of time, and of lifting the guard once the world is calm
  (the rollover lifts it at the end of every attempt). Swaps, fills and answers
  are not fair.
- `RuntimeHealth!Fairness`: weak fairness of a whole round of either loop while it
  lives, and of time. Errors, messages and the state of the database are not.
- `MarketRollover!Fairness`: weak fairness of the loop's steps and of the stream's
  (its waits have timeouts), and of the exchange sending enough to confirm a
  subscription; drops are not fair, and `Follows` speaks of the time after the
  last one.
- `TradeReconciliation!Fairness`: weak fairness of `Reconcile` (it runs on a timer)
  and of withdrawing a slot while held. A frozen turn withdraws only if the book is
  not DOWN and the token is not guarded (`run_system.py:992`); that such turns come
  again is part of the assumption.

PaperBroker, QuotePrices, SessionRecords, DecisionReplay, MarketDiscovery,
ReferencePrice, OnchainIngest and FillRecords are checked for safety only; what
their code must do *in time* is stated with a bound (`TroubleIsForgotten`,
`PriceReturns`, `PositionsEnd`).

## 6. Proofs

Proof modules extend a component's module, or the module that puts several side
by side. They assume only the named assumptions of the modules, and what a
theorem says it assumes; all constants are otherwise arbitrary, so the results
hold for any number of markets, tokens, orders, fills, sessions, sizes, prices,
ages and thresholds. Every invariant that a passing run checks, and the
refinement, is a theorem.

### PaperTrading_proofs

| Theorem | Says | Argument |
|---|---|---|
| `TypeCorrect` | `Spec => []TypeOK` (PaperBroker) | inductive as it stands: a fill's size is positive, a merge takes no more than is held |
| `FifoCorrect` | `Spec => []FifoMatchesPosition` | inductive with `TypeOK`; every booking moves a position and the length of its lots alike, an oversized sell empties both |
| `FillsCorrect` | an order is filled at most once (`FilledAtMostOnce`) and within its terms (`FillsHonourTheirOrder`) | inductive with `TypeOK` and two facts: the order of a fill is never open again, and an order keeps its terms (`KeepsOrders`) |
| `LedgerImplemented` | `Spec => ImplementsLedger` | step by step: placing files terms and may trade, a sweep trades one order or none, a merge redeems, everything else stutters |
| `TapeTellsTablesCorrect` | `R!Spec => []TapeTellsTables` (SessionRecords) | `TapeInv`: fills are numbered as they are traded, so what is still to be recorded is newer than all a tape tells (`TapesOld`) and no id comes twice; a table *and the rows queued for it* tell what the tape tells (`TablesTell`); the queue is empty when a session waits or is over, so that no row reaches another session's folder |
| `MarkoutsAgreeCorrect` | `R!Spec => []MarkoutsAgree` | `MarkoutInv` = `TapeInv` and: a fill that is still being measured has no row with a second markout, and none with another first one than is remembered of it (`PendingOpen`); no fill is measured twice at a time (`PendingApart`) |
| `EntriesKnownCorrect` | `D!Spec => []EntriesKnown` (DecisionReplay) | `ReplayInv`: all that was heard came by the clock, a book came before the next heartbeat of its asset is due (`DatesInOrder`), and no signal or point of the history is newer than the newest quote (`FactsHeard`), so a heartbeat made up for later meets a validation that is newer than its own date and enters nothing |
| `PositionsEndCorrect` | `D!Spec => []PositionsEnd` | the same invariant: an asset's last decision is the one that entered its position or left it because its time was not up (`PositionsKept`), and no heartbeat is overdue once a record has entered its book |

### MarketQuoting_proofs

| Theorem | Says | Argument |
|---|---|---|
| `TypeCorrect` | `Spec => []TypeOK` (QuotingCycle) | needs `IdleHasNoKey` (between passes no key is being settled) and that sizes are natural numbers whatever the caps and the boost |
| `OneOrderCorrect` | `Spec => []OneOrderPerQuote` | inductive with `TypeOK`: a key is placed at only when it was empty or its newest, hence only, order was withdrawn |
| `UnwantedCorrect` | `Spec => []NothingUnwantedOnOffer` | strengthened to `WantedInv`: during a pass only keys the pass's *first* market has not settled yet (`at = 1`) may hold an unwanted order |
| `CappedCorrect` | `Spec => []CappedPassLeavesNoBuys` | `CappedInv`: in a capped pass no buy is wanted; with `WantedInv`, none is on offer after it |
| `SellsCorrect` | `Spec => []SellsNearlyCovered` | strengthened to `SellsInv` (during a pass, only sells still to be settled may be uncovered) and `HeldInv` (what quotes were sized on is still held by the key being settled) |
| `HoldingsCorrect` | `Spec => []HoldingsBounded` | `RoomInv`: a token's holdings *with its open buy filled* are within `max_size` (or the hard cap, if less) and the most a merge leaves of the other outcome; a buy still to be settled finds no more than the pass was sized on, and of a snapshot the lesser side is what cannot be merged (`SnapshotMerged`), which is why sizing on the net exposure bounds the holdings |
| `PlanCorrect` | for one active market, the default, `Spec => []PlanIsOnOffer` | `PlanInv`: a wanted key holds an order within the tolerance, and what is wanted during a turn is the market's own. For two markets it is false (section 7) |
| `PlanOrderedCorrect` | `P!Spec => []PlanOrdered` (QuotePrices) | `BookInv` (the book is not crossed) and one lemma per step of the arithmetic: `BaseBid` to `Rushed` |
| `CostCoveredCorrect` | `P!Spec => []CostCovered` | the same steps, followed from the floor at the cost to the clamp at the highest price |

### LiveSession_proofs

| Theorem | Says | Argument |
|---|---|---|
| `TypeCorrect` | `Spec => []TypeOK` | inductive as it stands: what is spent on faults was there, a booking never takes holdings below zero |
| `OneOrderCorrect` | if timeouts, failed cancellations and failed snapshots are no `Faults` (`Calm`) and the rows have the names the code looks for (`RowsRead`), `Spec => []OneOrderPerQuote` | strengthened by `Known`: of a quote the pass has yet to settle, the exchange holds the order the snapshot names under the quote's own key, or one it names under the key as posted and has yet to cancel, or none; posted keys sort before quotes' (`LiveAssumption`), so the latter are gone when the quote is placed. Each of the three excluded faults breaks one step of it: a snapshot that misses an order, an order that stays, two that come |
| `HoldingsKnownCorrect` | if the feed is not interrupted, `Spec /\ []NothingToMerge => []HoldingsKnown` | `HoldingsInv`: reports are numbered in the order of trading, and there is a path (`Leads`) from the tracker's holdings to the account's, one report at a time and each counted once, on which no holdings are negative; so no sale is ever cut at zero. What `Lots` adds up is settled by lemmas about the fold (below). Both hypotheses are met by `live_faults`; with an interruption or a merge the equation is false by what the code does |
| `PositionNearlyCappedCorrect` | if `Calm`, `RowsRead` and order sizes are bounded, `Spec => []PositionNearlyCapped` | `CapInv`, while the session is not `misled`: the broker's tracker comes to the account by such a path, so it *is* the account's when a pass starts with nothing to handle; what is held with the open buy filled is within the limit and one order, and of a buy the pass has yet to settle, above what the broker knew at its start by no more than was left of that order then (`Fits`) |

### MarketFeed_proofs, TokenGates_proofs, QuoteRuntime_proofs

| Theorem | Says | Argument |
|---|---|---|
| `MarketFeed_proofs!SelectionTypeCorrect`, `SlotsRespectedCorrect`, `SlotsUsedCorrect`, `DwellRespectedCorrect` | selection's type, slots and dwelling | `SelectionInv`: active markets are distinct, within the slots and a dwelling time is kept for each; protected markets fit because active ones did. Stated of the feed's specification, whose steps are steps of MarketSelection or leave it alone |
| `MarketFeed_proofs!NoLostChangeCorrect` | `Spec => []NoLostChange` | `FollowInv`: from the payload on, either what is sent is desired or the event is set |
| `MarketFeed_proofs!SelectionDesiredCorrect`, `TypeCorrect` | feed and selection agree; type | with `SelectionInv` |
| `TokenGates_proofs!TypeCorrect` | `Spec => []TypeOK` | needs `SellsHeld` (a sell is allowed only of what is held) and that smoothing stays on the scale |
| `TokenGates_proofs!QuietCorrect` | `Spec => []QuietAfterReversal` | `QuietInv`: cooldown and looks since the reversal add up to at least the quiet cycles, and what may be quoted has no cooldown left |
| `TokenGates_proofs!AsleepCorrect` | `Spec => AsleepBuysNothing` | `SleepInv`: `asleep` and the time since the loss add up to the sleep, and buys allowed during it are those of tokens evaluated before the loss, in the cycle that struck |
| `TokenGates_proofs!NeverReversed` | if `4 * Full <= (Swing - 1) * (Span + 1)` then `Spec => [](no cooldown ever)` | one step of the average moves it by at most `2 / (Span + 1)` of the scale's width |
| `QuoteRuntime_proofs!OneLegCorrect`, `InventoryCorrect`, `TypeCorrect` | `[]OneLegAtMost`, `[]InventoryBounded`, `[]TypeOK` | `InOrder` of every desk: besides the two, the inventory is within the cap *without* the leg as well (`WithoutLeg`), for the leg may be unwound at any time and a swap may forget it. One lemma per stage of a turn carries it: rebalanced, judged, quoted side by side (`HalfQuoted` in between) or withdrawn |
| `QuoteRuntime_proofs!LegCorrect` | `Spec => LegNeverGrows` | from `InOrder`; only with the emergency taker enabled, as it says (section 7) |

### RuntimeFeeds_proofs

| Theorem | Says | Argument |
|---|---|---|
| `IdleListensCorrect` | `Spec => []IdleListens` (MarketRollover) | `StreamInv`: what the stream waits for at each place of the attempt, and that only an attempt with a connection of its own has the connection told so |
| `CommittedIsStreamedCorrect` | `Spec => CommittedIsStreamed` | `StreamInv` at the commit: what was adopted is the candidate |
| `TypeCorrect` | `Spec => []TypeOK` | with `StreamInv` |
| `AnswersAreRecentCorrect` | `D!Spec => []AnswersAreRecent` (MarketDiscovery) | `DiscoveryInv`: the file of events is never older than the answers in it, the file of slugs by `Ttl` at most (`FilesRecent`), however they feed each other |
| `TroubleIsForgottenCorrect` | `D!Spec => []TroubleIsForgotten` | the same invariant: the file of slugs was asked for no window beyond those ahead of its date (`FileAsked`), and what it lacks was in trouble no earlier than it was written (`FileLacks`) |
| `PriceIsRecentCorrect` | `R!Spec => []PriceIsRecent` (ReferencePrice) | `PriceInv`: a quote's time of arrival is its age and what the venue's clock may run ahead (`Lag`) |
| `PriceReturnsCorrect` | `R!Spec => []PriceReturns` | `CalmInv`: since the last trouble feeds are up (`Undisturbed`), quotes from before it age with the calm (`OldOnes`), and from the second tick on both venues are new (`BothNew`) |

### RuntimeWatch_proofs

| Theorem | Says | Argument |
|---|---|---|
| `SilentCorrect` | `Spec => []SilentUnquoted` (RuntimeHealth) | `QuoteInv`: a loop that had its round in this tick has withdrawn what is too old, so the next tick finds the rest one tick older at most, and withdraws it before the book counts as down |
| `StrangersUntouchedCorrect` | `T!Spec => StrangersUntouched` (TradeReconciliation) | `FiledInv`: no slot files the id of an order that rests elsewhere, so no cancellation, cleanup or adoption names one |
| `FillsCountOnceCorrect` | `F!Spec => []FillsCountOnce` (FillRecords) | `FillsInv`: a step that is still to do of a handling has not been done (`JobInv`), what is not marked has no row and no effect (`CountInv`), and what waits to be measured has a row, no measurement, and no double (`WaitInv`) |
| `RecordedOnceCorrect` | `O!Spec => []RecordedOnce` (OnchainIngest) | `OnchainInv`: what a reader recorded and the deduper has not forgotten is among its keys (`TapeInv`); a reader that has passed the check has not recorded that log (`PassedInv`); the thread's batch is empty outside a drain |

### Induction over numbers

The provers cannot apply an induction theorem, since it takes the statement as an
operator. They can use that a non-empty set of naturals has a least element
(lemma `Least`, from the well-foundedness of `<`): a lemma is then proved by
looking at the least number for which it would be false. The order of quotes
(`PlanOrdered`, over a book's levels) and the sums of `HoldingsKnown` rest on it:
`SumsExist`, `LotsTaken` and `LotsWithout` show that `Lots`, a fold over a set, is
a number, and that taking out any report takes off its size.

### What the proofs changed

Where an attempt failed for a reason, the model or the property was wrong:

- `CostCovered` did not mention that an ask goes no higher than the highest price;
  a cost above it refuted the statement.
- `HoldingsBounded` was a looser bound with the largest trade in it; the invariant
  gave the exact one, `HoldingMax`.
- `PriceReturns` needs that a quote can last for a tick after it arrives
  (`Late < MaxAge`, now a hypothesis of the property), and a calm of one tick where no
  clock runs behind or ahead, since a reset may leave a gap in the tick it comes in
  (`Settling`). The constants of the run satisfied both and hid it.
- `TokenGates!Smoothed`, `OnchainIngest!Check`, `DecisionReplay!Status` and
  `ReferencePrice!State` were restated so that their cases exclude each other as the
  code's do.
- QuotePrices and DecisionReplay assumed less of their constants than they used
  (snapshots are books; what is traded is among the assets).

### Model-checked only

All liveness, since the prover has neither fairness nor ENABLED: `StaleQuotesGo`,
`QuotesGo`, `SelectionFollowed`, `LeaderGetsIn`, `QuotingResumes`, `LegResolves`,
`FlatThaws`, `Follows`, `DeadLoopFreezes` and `StrayFreezes`. Type invariants of the
instances are proved as parts of their invariants where these need them, not as
theorems.

Properties defined and run by no cfg, because another run or a proof covers them
or because they state what the code does *not* keep (section 7):
`AsleepBuysNothing` and `CommittedIsStreamed` are proved; `StaysPassive`,
`HistoryComplete`, `FifoClosesOldestFirst`, `TapeIsPrefixOfFills`, `AlarmClears` and
the `TypeOK`s that no theorem names are statements to check by hand.

## 7. Disagreements between the code and what is said of it

Two are shown by runs and listed in `PROJECT.json`:

- `two_markets_quoted`: `runner.py:437` files every open order under the market
  being quoted, so each market's cycle cancels the others' quotes;
  `run_core_mm.py:61` speaks of "Max markets to quote simultaneously".
- `runtime_starved`: a snapshot carries the time it is taken
  (`core/book_cache.py:35-66`), and the stats loop measures starvation on it
  (`run_system.py:2877`): a silent feed never starves while the quote loop runs;
  `RELEASE_NOTES.md:7` promises a freeze for "WS starvation".

The core bot, met while reading and modelling. A definition in parentheses states
what is said, and TLC finds it violated:

- A touch fill looks up its depth on the opposite side, finds none and fills the
  whole order (`paper_broker.py:297`, `TouchFillsCapped`); the comment at lines
  291-296 says it is capped.
- `quote_engine.py:102` multiplies the spread after the average-cost floor; a
  tightening takes the ask below it (`AskNeverBelowCost`,
  `test_ask_never_below_average_cost`). `CostCovered` is about plans without
  a rush whose multipliers do not tighten all in all.
- The emergency cancellation cannot fire with the defaults. `main_loop.py:228-233`
  compares the *smoothed* imbalance with 5000 bps, which at a span of 10 moves
  by at most 3636 bps a cycle. Proved: `NeverReversed` (40000 <= 54989).
- When a skew would cross the quotes, `quote_engine.py:82` replaces them by quotes
  around the middle, which may be dearer than without skew although a long
  inventory should lower both (best levels thick at 0.50/0.53, skew 1: the ask
  goes from 0.52 to 0.53).
- Two thick levels 0.50/0.52 are both improved to 0.51: bid and ask are equal
  (`PlanOrdered` is therefore `<=`), while `test_quote_engine.py:237` speaks of a
  spread that never inverts.
- The 0.8 tightening may also pull a bid through the best ask (best 0.50/0.52,
  cost 0.90: bid 0.54), and a rush (`main_loop.py:276-303`) may take an ask a
  tick below its cost or onto the best bid (`StaysPassive`).
- The overlay's spot-momentum signal is fed by no caller (`update_spot`,
  `alpha_overlay.py:396`), and its depth change is only recorded.
- `runner.py:432-437` looks for `token_id`, `order_id` or `orderID` and `side` in
  the client's rows as they come and wants the side in lower case, while orders
  are posted with it in upper case (`execution.py:66`, `:80`); `live_broker.py:14-15`
  says the broker "Matches PaperBroker's public interface so the rest of the system
  [...] works identically in LIVE mode". Which rows the client gives is not in the
  repository (the archived `broker_polymarket.py:289-296` reads several names of
  each field and lowers the side), so LiveSession takes each form. Rows as posted
  cost every order its place in the queue: each pass cancels all and places all
  anew, tolerance or not. Unread rows (`RowForms = {"unread"}`, no fault of any
  kind) violate `OneOrderPerQuote`: every pass places a further order per quote, and
  only `cancel_all` ends it.
- A placement that times out is made again without an identifier
  (`execution.py:123`) and may rest twice; `Polymarket Trading Plan.md:108` asks
  for no duplicate intents. `QuotesGo` shows that duplicates go away.
- `max_position_notional` is checked against reported holdings; a fill between
  report and placement is in neither (`GO_LIVE_GUIDE.md:226`,
  `run_core_mm.py:70`). `PositionNearlyCapped` bounds the excess by one order.
- `cancel_all` may fail at the end, and nothing tries again
  (`run_core_mm.py:365`, `GO_LIVE_GUIDE.md:417`).
- The daily loss limit of the broker refuses buys only (`live_broker.py:89`) and
  the loop ends on `--daily-loss-cap` only (`run_core_mm.py:307`;
  `GO_LIVE_GUIDE.md:305`).
- The user feed reconnects for ever (`user_ws_adapter.py:74`,
  `GO_LIVE_GUIDE.md:501`), its table of orders is read by no code, and a restart
  does not read the account's holdings (`run_core_mm.py:152`,
  `GO_LIVE_GUIDE.md:514`).
- The two trackers of LIVE mode (`live_broker.py:14-15`) differ after a merge,
  which only the runner's is told of (`runner.py:272`): sizes and limits then
  go by different holdings.
- The cap on markets with holdings (`run_core_mm.py:63`) is compared with `>` once
  per pass (`runner.py:233`); one pass may open several more.
- A kept sell may exceed the holdings by the 10% tolerance
  (`order_manager.py:76`, against `sizing.py:62`). `SellsNearlyCovered` bounds it.
- Adverse fills are counted per row, of which a fill has two or more
  (`telemetry.py:75`, rows from `process_markouts`); the ratio in
  `memory.py:66` can exceed 1.
- A session's result is the *largest* recorded (`telemetry.py:71`, 563), so losses
  are remembered as the session's best moment.
- Pending markouts are kept per order (`telemetry.py:446`): in LIVE mode an earlier
  partial fill of the order is no longer measured.
- A runtime root used again: its summary counts the earlier session's rows too,
  the history's entry is replaced and the memory adds both. The properties of
  SessionRecords say `Apart` where this matters.
- Fills between the last drain and the end are recorded nowhere
  (`run_core_mm.py:264`); remembering a session is best effort (line 381).

The archived runtime, in the same way:

- A swap of markets gives a token that stays a new state machine, and the leg it
  had is never unwound (`LegsAreUnwound`, `Polymarket Trading Plan.md:71`). A leg
  that follows an unwind takes over its maker flag and its timer, so it may be
  crossed without a maker order of its own (`MakerFirst`, `:72`). With
  the emergency taker disabled an unwind freezes the token, and a frozen token
  is quoted: `LegNeverGrows` is proved for an enabled taker only.
- Cancel and replace submit whatever the cancellation answered, so two orders of one
  side may rest at the exchange (`SingleActiveQuote`, `:107`).
- A snapshot that fails counts as no orders, and releases the quarantine although
  the order rests (`QuarantineHolds`, `RELEASE_NOTES.md:8`).
- A commit that fails after the stream has adopted leaves the stream on the new
  market and the runtime on the old one (`run_system.py:5668`;
  `RollbackRestores`, `test_market_rollover_ws_confirm.py:334`).
- Exits ask for no validated price, so a heartbeat made up for later may close a
  position on what came after its date (`ExitsKnown`, lines 100 and 113 of
  `Polymarket Trading Plan.md`); a decision's recorded time is at least one past its
  event's, which makes the causality checks vacuous (`run_system.py:620-690`).
- The entry gate compares the size of an edge and drops its sign (`EntriesPay`), and
  an exit measures a short's edge with the opposite sign (`ShortsHold`).
- A fill is marked before it is applied, and what breaks off in between is never
  taken up again (`MarkedIsApplied`); its two reports are filed under different keys
  (`WaysAgree`, `audit/V1_IMPLEMENTATION_REPORT_2026-02-11.md:97-98`); an event of
  yesterday's fill sets the daily counters back (`DayCounted`).
- Polling starts at the newest block and skips ranges it could not read
  (`NothingMissed`); logs of a replaced block are dropped as duplicates before
  their hash is looked at (`ForksNoticed`). A reconnect that creates no filter
  counts as a good turn, while a first filter that fails ends the ingestion though
  polling could serve. The deduper is checked and filled by thread and loop
  without a lock, so either may record an event once.
- A feed's task that ends with an exception is noticed at the shutdown only
  (`run_system.py:5886-5889`); one venue's session ends at its first error
  (`reference_ws.py:72`).

## 8. What is not modelled

- Arithmetic that nothing branches on: average prices, PnL, fees beyond the
  notional they are charged on, statistics, report rows.
- The averages and windows behind the overlay's signals (`alpha_overlay.py`):
  QuotePrices takes any value each of them can give.
- The market selector's scoring and HTTP (`market_selector.py`): MarketSelection
  takes any ranking.
- Parsing of messages, formatting, files, status output, wiring of options.
- Modules the running bot does not call: `rewards.py`, `negrisk_scanner.py`,
  `spot_momentum.py`'s update, `audit/`; and the readers of recorded files:
  dashboard and reports. They keep no state that another step could meet.
- Of the archived runtime: datasets and model training, reports, gates and audits
  of finished runs, tools run by hand (batch jobs that read files and write
  others), and the execution runner, which the runtime does not call; the user
  stream, which only records; TRADE mode's correction of missed fills beyond what
  FillRecords says of it.
- One process only: two bots on one account are not considered, nor is the
  exchange's matching beyond what an order may experience.

## 9. Plan

Built, in this order: PaperBroker and TradeLedger, QuotingCycle, LiveSession,
MarketSelection and MarketFeed, TokenGates, QuotePrices, SessionRecords; then
the archived runtime: QuoteRuntime, TradeReconciliation, MarketRollover,
MarketDiscovery, RuntimeHealth, ReferencePrice, DecisionReplay, OnchainIngest,
FillRecords; with the proofs of section 6.

Next, in this order:

1. Refine: QuotingCycle's `through` by TokenGates; QuotingCycle's broker by
   TradeLedger, with the passes' actions as ledger steps; MarketRollover's
   candidates by MarketDiscovery.
2. Prove: what liveness rests on and the prover can state, such as that each of a
   pass's steps brings it nearer its end; the types of the instances as theorems;
   `StaysPassive` under the conditions it does hold; `HoldingsKnown` for a tracker
   that is told of its merges, as a relation between the account and what was
   merged.
3. Model: the order states of the user feed under reordered updates, should any
   code come to read them; the summary's results and adverse counts (two of the
   disagreements above).
