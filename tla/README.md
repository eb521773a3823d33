# A TLA+ model of the async trading engine

The program (`src/src/bot`) is a single-process asyncio bot that places spread bets on IG. A forecast ranks the
universe every hour, candle handlers enter and leave positions, and a reconcile compares the bot's books with IG's
account. This directory holds TLA+ modules translated from that code, the TLC runs that check them on small
instances, and proofs of the main results for instances of any size. Paths below are relative to `src/src/bot/`
unless they start with `src/`.

    tlc -workers 2 -config PositionSafety.cfg MCPositionLifecycle
    tlapm PositionLifecycle_proofs.tla

`PROJECT.json` lists the components, the runs, the source lines every definition stands for, the mutants that show each
property can fail, the hazards of the code and the theorems; findings are in section 4.

## 1. Inventory

What makes this code hard: the trading program is one event loop, so a task runs alone between two `await`s and anything
can happen during one. Every REST call, every Telegram alert and every `EventBus.emit` is an await. There is one mutex that
spans awaits for trading (`ctx.entry_lock`) and only entries take it; closes, reconciles and fill handlers do not. Beside the
loop there are threads: those of the Lightstreamer SDK, which report drops, and two workers of the rerank loop, which write
through the loop's SQLite connection. The process may end at any step, and each subsystem saves something else at other times.

| Component | State | Operations | Meets | What must be true |
|---|---|---|---|---|
| Entry (`execution/entry_executor.py`) | `entry_lock`; writes `ig_deal_ids`, the risk budget, take-profit tracking | `maybe_enter`, gate chain, place, size retry, confirm | fill handler, reconcile | at most one order per symbol on its way; the lock is always released |
| Close and reconcile (`execution/ig_close.py`) | `ig_deal_ids`, `alerted_orphan_deals` | `request_close`, `handle_close_failure`, `reconcile_positions_with_ig`, `_purge_stale_position` | entry, other closes, IG's account | ghosts are purged, orphans surface, a live position is not purged |
| Fill and margin handlers (`core/event_wiring.py`) | `state.positions`, `RiskManager._open_positions` | `handle_order_filled`, `handle_margin_breaker`, candle handler | everything above | the books follow IG |
| IG stream (`data/ig_feed*.py`) | `_update_queue`, consumer task | chart, account and TRADE messages | fill and margin handlers | a confirm handled twice, or late, does no harm |
| Drawdown breakers (`risk/drawdown.py`, `risk/risk_manager.py`, `monitoring/health.py`) | equity, peak, tier, red count, halt, FSCS flag, their save | `update_equity`, `_evaluate_drawdown_halt`, save, `load_state` | heartbeat, entry, restart | the tier follows the drawdown, the halt follows the tier, a saved halt outlives a restart |
| Trading hours (`trading_hours.py`) | none | open / safe / blackout predicates | entry, breakers | windows agree with each other |
| Risk gates and ledgers (`risk/`) | loss windows, consecutive losses, budgets, order times | `evaluate_ig_order`, `on_fill`, `on_position_closed`, `seed_position`, `drop_position` | entry, fill handler, reconcile, save | no order over a limit; limits lift; the caps see every deal |
| Margin breaker (`risk/margin.py`) | last level | ratio classification, edge-triggered events | account stream, close, entry gate | an emergency reduces exposure |
| IG session and transport (`execution/ig_session.py`, `ig_http.py`) | tokens, `_refreshing`, `_auth_lock`, token buckets | refresh, 401 retry, rate limit, ambiguous errors | all REST users | one refresh at a time; no order twice |
| Rerank loop and selection (`strategy/rerank_runner.py`, `topk_strategy.py`, `correlation.py`) | `topk_signals`, `topk_selected`, correlation matrix | reconcile, scan, select, decay exits | entry gate, take profit, database | the selection is the greedy one of its scan; positions it drops leave, others stay |
| Take profit (`strategy/take_profit.py`) | per-position trail, peak, strike and miss counts | register, evaluate price, evaluate signal, deregister, snapshot | candle handler, rerank, save | a trailing stop only tightens; every position ends |
| Candle feeds (`data/eodhd_feed.py`, `twelve_data_feed.py`, `ig_candle_feed.py`) | hourly buckets, `_pending_repairs` | backfill, aggregate, drop partial hours, repair, poll | buffer, database, candle handlers | one version of an hour; a lost hour is repaired |
| Candle store and database (`data/store.py`, `candle_db.py`) | buffer per symbol, SQLite rows | append, insert, reload, warm | feeds, strategy | what was stored stays |
| Lightstreamer (`data/ig_ls_connection.py`, `ig_candle_feed.py`) | client, `_reconnect_scheduled`, `_needs_reconnect` | connect, reconnect with backoff, heartbeat, rebuild, close | SDK threads, session | one client, one recovery, the stream comes back |
| Signal history (`data/signal_history_store.py`, `correlation_store.py`, `macro_store.py`) | rows, pairs, series on one connection | write a batch, write pairs, upsert, resolve | rerank loop, worker threads | no writer loses another's rows; every row is resolved |
| Sentiment (`sentiment/`) | `_current_scores`, `_escalation_times` | scan, agents, consensus, escalate | rerank's gate and rows | escalations stay under the cap |
| State files, startup, shutdown, heartbeat | `bot_state.json` | save, load, start, stop | breakers, books | an atomic save; a restart resumes, unless a start failed in between |
| Not modelled at all | | Kronos's numbers, FinBERT, Telegram texts, queries of the web interface, price scales and margin tables, offline analysis, configuration | | numerics or output |

## 2. Modules

| Module | Models |
|---|---|
| `SerialEntry` | abstract: what the entry lock promises about `state.positions` |
| `PositionLifecycle` | entries, closes, reconciles, reranks and margin actions over IG's account and the five books |
| `PositionStream` | the same with `candle_exchange = "ig"`: one stream consumer, and TRADE confirms that report the fills again |
| `TradingHours` | market schedules, the entry gate, the equity-mark blackout |
| `EquityBreakers` | drawdown tier, entry halt, FSCS warning, heartbeat, entries' stakes, save and restart |
| `DealCall` | abstract: what `place_order` promises its caller |
| `IGSession` | tokens, account switch, re-authentication, token cache and the retry loop of the REST session |
| `LossLimits` | loss windows, pause after losses, order rate, their save, crash and load |
| `Exposure` | sizing, risk and margin caps, size retry, budgets, reconciles, restarts, the margin breaker's level |
| `TakeProfit` | stop loss, breakeven, ratchet, target and time limit of one position; its record's life |
| `Rerank` | scan, ranking, correlation filter, signal decay, and the entries between the loop's awaits |
| `HourlyBars` | bucket, buffer and table of one symbol's bars: operators the feeds share |
| `CandleFeed` | the three feeds of a symbol: backfill, ticks, repair, poll, crash |
| `LSStreams` | both Lightstreamer connections: SDK reports, reconnects, heartbeat, rebuild, shutdown |
| `Sentiment` | engine, agents, consensus, escalations |
| `SignalHistory` | the SQLite connection its writers share, the resolver, beside `Sentiment` |
| `MC*` | constants, symmetry and small data for TLC |
| `PositionLifecycle_proofs`, `EquityBreakers_proofs`, `IGSession_proofs`, `Feeds_proofs`, `TakeProfit_proofs`, `Rerank_proofs`, `Exposure_proofs`, `SignalHistory_proofs` | theorems; `PositionLifecycle_proofs` is also about `PositionStream`, `EquityBreakers_proofs` about `LossLimits`, `Feeds_proofs` about `CandleFeed` and `LSStreams`, `SignalHistory_proofs` about `Sentiment` |

### PositionLifecycle

*State.* `broker` is the set of deals open on IG. The five books each map a symbol to a deal or `None`: `positions`
(`ctx.state.positions`), `dealIds` (`ctx.ig_deal_ids`), `openPos` (`RiskManager._open_positions`), `budget`
(`RiskBudgetLedger`), `tp` (`TakeProfitManager._positions`). A Position object is identified by the deal it was opened
with; stakes and prices are left out. `lock` is `ctx.entry_lock`; `pc`, `sym`, `deal`, `sig`, `pnl`, `todo`, `rec`, `back`
are the tasks' locals.

*Actions.* One action is the code from one await to the next; the value of `pc` names the await. Two awaits between which
a task reads and writes nothing shared are merged. `EventBus.emit` starts its handlers in a later loop iteration; the
hop is folded into the segment, except after a BUY, where the return of `gather` to the entry (`register`) is a step of
its own because take-profit tracking follows it.

    entry   lockwait -> balance -> market -> placing [-> replacing] -> confirming -> buyalert -> register
            (any of market .. confirming may raise -> entryfailed)
    close   closing -> closeconfirm -> sellalert         (a failure -> recfetch)
    recon   recfetch -> recread -> orphanalert* -> purging*
    rerank  reconcile -> infer -> select -> next*        margin  marginalert -> next*

*Environment.* IG may open an order and lose the acknowledgement, reject it, defer or fail a close before or after doing
it, list its positions in any order, and close a deal by itself at any time. The gates other than the position cap are
nondeterministic refusals.

*Bounds.* `Deals` bounds the number of orders IG ever fills. Each dealId belongs to one symbol, because the bot only
trades EPICs of its map.

*Not in it.* Positions opened by hand in IG's own front end; the reconcile at startup (the model starts flat, possibly
with a restored selection).

### PositionStream

`lifecycle.py:40-75` and `120-144` build an `IGFeed` only when `candle_exchange` is `"ig"`. Then one consumer task takes
chart, account and TRADE messages from a FIFO; a chart message runs the candle handler to its end. `queue` holds the
TRADE confirms; chart and account messages may be taken at any time the consumer is free. A confirm repeats
`handle_order_filled` for a fill REST reported already, or reports one REST lost. A push may be lost, and closes IG makes by
itself arrive as OPU, which the code ignores. With the EODHD or Twelve Data feed there are several concurrent candle
tasks, no TRADE stream and no account stream (and so no margin event): that is `PositionLifecycle` with `MarginTasks = {}`.
`ImplementsSerialEntry` is claimed for that configuration only: with the stream, a BUY confirm writes a position that no entry
announced.

### EquityBreakers and TradingHours

Two tasks apply balances: the heartbeat (and the startup read before it) and the entry. The rerank's read applies the balance
as a heartbeat does, without a save, which the model has as a heartbeat whose save failed. An answer carries the mark of the
moment IG gave it and may be applied later and in the other order. `update_equity` does nothing during the blackout;
otherwise it sets the FSCS flag, the tracker, and the debounced halt. `stake` is the share of the stake the last step
approved (the tier's multiplier; 0 for none). `Restart` is a crash or a graceful stop, then perhaps a start that fails in
`connect()`, whose shutdown saves an empty state (`Ended`, `Blank`), then a start with `Fresh` for `load_state`. `due` is
what a running process saved last, with the halt a milder reading has lifted since, and `wiped` says that a failed start has
overwritten it; both are only read by a property. Fractions are whole percent points and the lines are compared by
cross-multiplication, so no rounding enters. The red counter is capped at `RedConfirm`, beyond which the code only compares
it; `MaxRestarts` bounds restarts.

### IGSession

*State.* `cst` and `account` are `IGClient._cst` and the type of the account `_account_id` names; `cache` is
`.ig_session_cache.json`; `lock` and `waiting` are `_auth_lock` and its FIFO. `_refreshing` is set exactly while the lock is held,
so it is an operator. `req` has the locals of the request each caller is in: where it is, its `attempt`, `sent`
(`token_at_send`) and `rejected` (0 until `reauthed` is set, then the token that was denied). On IG's side, `logins` numbers the
sessions (the number is the CST), `onSpread` are those whose active account is the SPREADBET one, and `executed` counts
what became of the latest order of each task.

*Actors.* `Traders` place orders (not idempotent), `Pollers` read and may start a refresh of their own (`refresh_loop`,
`force_full_reconnect`, `_rebuild`). Two frames run the login and the switch: `Main` is `connect()` and `close()`, `Refresh` is
`refresh_session()`, of which there is one because it holds the lock; its `/accounts` probe is a request like any other.

    frame     login -> body -> probe [-> put -> putBody] -> switched -> up (Main) or the lock is left (Refresh)
    request   ready -> sent [-> executed] -> idle; 401 -> refresh -> ready; retries -> ready

*Environment.* IG may answer 401 at any time, so expiry needs no clock. An answer may be a success, a 401, a 403 or 429, a lost
or broken answer after or before the order was executed, or another refusal; POST and PUT `/session` may fail at each of
their awaits, the PUT before or after IG has switched. `Exit` is a crash at any step, or the end after an error. `Close` is
the graceful stop, which cancels the tasks.

*Left out.* Only the CST of the token pair is kept; a stale security token shows as a 401. The token buckets are a
delay before `Send`. The account always has a SPREADBET entry. `MaxLogins` bounds the successful logins.

`PlacedOnce` maps `IGSession` to `DealCall`: an order is executed at most once, `ok` means it was, `denied` and `refused`
that it was not, and only `unknown` (the ambiguous errors, or a cancelled task) leaves it open. A reconcile then finds the
deal, see `OrphanSurfaces`.

### LossLimits

`results` is the bag of the closes of positions, each with its age, whether the process knows it (`_trade_results`) and
whether the state file has it; so one variable shows what a crash or a prune does to the windows. An order is approved, then
filled or refused; a SELL takes the position out first and records its result after the alert. `Purged` is a position IG
closed: no result is recorded. `LimitsRestart` loads what the last `Save` wrote, or nothing after a start that failed: its
shutdown saved an empty ledger. Times are ages in ticks: a result older than `Month` is dropped, an order counts for `Hour`.
Two things follow that the code does not say: an order is approved while the alert of a losing SELL is awaited, so a window
may go over its limit after the approval (`core/event_wiring.py:164`), and the pause after consecutive losses has no end of
its own, unlike the windows.

### Exposure

`deal` is what IG holds, `tracked`, `open` and `budget` the bot's books; `order` keeps what the gates saw. `Approve` is sizing,
risk caps, margin caps and the breaker in the code's order, for any equity, stop distance, margin rate and stake quarter of a
drawdown tier; percentages are integers and rounding is the code's. `Filled` places the stake or, after a size error, the stake
snapped up to IG's grid. `lock` is how far the trailing stop has come up. `Restart` may keep or lose it, and its reconcile may
fail: `blind` says so until one succeeds. `AccountPush` classifies the margin ratio. Positions IG opened without
the bot are `PositionLifecycle`'s.

### TakeProfit

One position on a grid of price levels. `Candle` is the candle handler: the stop loss of the latest scan, then the record:
peak, trail (breakeven, then ratchet), target, time limit. A close is asked for, refused or done; a margin breaker may ask
too; a reconcile may find the position gone. The record is registered after the fill's alert, so a candle, a close or a
shutdown may come before it. `Shutdown` saves the record, `Crash` falls back to the last save, `StartFails` forgets position
and record. `sound` says that the record is the position's and nothing was lost: crashes and failed starts break it, and so
do a position that left before its registration and one whose shutdown came before it.

### Rerank

*State.* `phase` is the loop's place; `ranked`, `chosen` and `matrix` are its locals between scan and assignment; `signals`,
`selected`, `scanned` are the context's; `tp` has the decay counters. `doubts` counts the reranks that disagreed with a
position, and `raced` whether a scan ended after an entry's selection check; both are only read by properties, as are `torn`
(signals and selection came from a shutdown between the two) and the field `own` of a record (it is of the position it is
applied to). `fileTopk` and `fileTp` are the selection and the records of `bot_state.json`.

*Actions.* `RerankStart`, then the scan: Kronos runs the symbols with and without volume as two groups; each group has draws
or none (`Passes`), and a failed first pass leaves no signals (`ScanFails`). Signals change when the scan ends, the selection
after the correlations are written (`Assign`): these are two awaits. Then `DecayNext` looks at each position, and a close may
be done or not. `EntryCheck` is `maybe_enter` up to its first await, `EntryFilled` what follows. `Restart` is an orderly
shutdown at any await of the loop, the one inside the correlation write included, a crash, or a start that fails. A shutdown
saves everything (`Snapshot`). In a crash the positions are those of the heartbeat's last save, while selection and records
are those the process loaded or an earlier shutdown saved (`LastSave`), since `HealthMonitor._snapshot_state` refreshes
neither. A failed start leaves nothing (`Blank`). So a record may meet a later position of its symbol. The selection is
restored if it is young enough; records of positions IG no longer has may go.

### HourlyBars and CandleFeed

A bar is its hour and the set of instants whose prints went into it, so two bars of one hour differ exactly if their prices
may. The buffer and the table are sets of bars with the code's rules: append only newer ones, insert only missing hours, keep
the newest. `Prints` are the instants of trades, `Open` those of the market: hours without trades and closed hours both
exist. `wire` holds ticks on their way, a metals reconnect begins with a snapshot that may be old, the provider serves an
hour some time after it ended (`final`). The process may crash, SQLite may refuse any insert (`DbRefuses`), a request may
fail, and the feed may be changed at a restart. What a refusal does depends on who inserts: a tick and a poll log it with the
bar in memory (`Polled`), a repair goes on later, but the start-up backfill of EODHD raises, which ends `run()` for good
(`Backfilled`, and `RunEnds` for another symbol's row); `proc` is `"ended"` then. `refused` are the hours whose bar a poll
could not save while they formed. At the last instant the repair and the poll go on, which stands for the hours after it.

### LSStreams

`client` is what each SDK client of `IGFeed` does: off, opening, barred (its password is stale), up, or silent (its threads
died without a report). Reports reach the event loop later (`notices`). `rec` is `reconnect_with_backoff` in its sleep, `hb`
the heartbeat, `scheduled` the flag they share. A `disconnect()` of the program is reported by the listener of a client that
was not off. The metals' client has no heartbeat: `mneeds` is its flag, `mloop` its loop, and `mdeaf` says that `_connect`
cleared the flag of a client that was down. Both log in with the REST session's `tokens`, which a drop may invalidate. Times
are multiples of the shortest retry delay.

### Sentiment and SignalHistory

`Sentiment` has the engine's scan: five agents whose answers are any of those their parsers can return, the weighted
consensus, which assets are contested, the slots of the last hour (the deque is popped from its old end only), Gemini's
answer or failure, and the scores that stay; `calls` lists when Gemini was called, for the property alone. `clock` is
`time.monotonic()` in `Parts` ticks an hour: a slot goes once it is more than 3600 s old (`WithinHour`), not at an hour's
end. `SignalHistory` extends it with `candles.db`. SQLite's transactions belong to the connection: `view` is what the
connection sees, `disk` what is committed, and a worker thread's statement may come between two statements of the loop.
`Commit` and `Rollback` are everyone's. Writers are the feeds' candles, the rerank's rows, the correlation thread, FRED's
daily upsert (which commits, or rolls back) and the hourly resolver. Rows keep their asset, hour and whether they were
resolved with or without a gap.

## 3. Runs

| Run | Instance | Shows |
|---|---|---|
| `PositionSafety` | symbols A, B; deals a1, a2 (A), b1 (B); two candle tasks; cap 2 | `TypeOK`; `EntryGuard`: no second order for a symbol on its way; `ImplementsSerialEntry` |
| `PositionRecovery` | one symbol, two deals, one candle task, the rerank | orphans surface, ghosts are purged, the lock comes free |
| `PositionStream` | one symbol, one deal, consumer, rerank, margin handler, queue of 1 | the guard and the purge still hold with duplicated, lost and late confirms |
| `Drawdown` | five marks around the lines, two instants (one in the blackout), one restart, after a failed start or not | the tier within its band, the halt in step, a saved halt kept, stakes, and that halts start and end |
| `Session` | an order task, a polling task, one retry, two switch attempts, three logins, default account CFD | orders at most once, refreshes end on the right account, retries carry new tokens, requests return |
| `LossLimits` | two symbols, three P&Ls, windows of 1, 2 and 3 ticks, three results, pause 2, crashes and failed starts | no order over a limit; a reached limit lifts |
| `Exposure` | two symbols of a sector and one of another, two equities, stops and margin rates, grid 2 | the books cover the deals; a fill is within the caps, or within a grid step |
| `TakeProfit` | six levels from below the stop to above the target, two plans, two restarts of three kinds | a seen profit is locked; every position ends |
| `Rerank` | two correlated pairs and a share that may close, k = 2, two outcomes of the share, old records of the share on disk or not, one restart of three kinds | greedy selection, entries on their signal, deserved decay exits, evicted positions leave |
| `CandleFeed` | six hours of two instants, one closed, one without trades, a late first trade; three feeds; one crash, one refused insert of any kind | one version of an hour, ticks close hours, reloads keep bars, queued hours land while the feed runs |
| `LSStreams` | two SDK clients, three faults, one report on its way | one client, one recovery, nothing after the shutdown; IG's stream comes back, the metals' too but for finding 17 |
| `SignalHistory` | gold and a closed share, two agents, four hours of two ticks, horizon 2, a rerank in the first, one fault | stored candles stay, rows are resolved, the escalation cap holds |

*Properties.* `EntryGuard`, `ImplementsSerialEntry`: the re-check of the position under the lock is what they rest on.
`OrphanSurfaces`: a deal whose confirm was lost is closed, alerted about or tracked. `GhostPurged`: a position IG closed
goes, although a KeyError may end any one reconcile. `TierWithinBand`: the tier is never milder than the plain lines, never
harsher than one band beyond. `HaltMatchesTier`: halt, count and tier agree. `SavedHaltHolds`: crashes, restarts and stale
answers lose neither the peak nor a halt that a running process saved, until a reading is milder than RED by that peak; only
a start that fails first takes both (finding 15). `StakeFitsDrawdown`: an order's stake multiplier fits the drawdown of the
balance it was sized with. `RedHalts` and `RecoveryResumes`: a lasting RED drawdown halts entries, a lasting recovery ends
the halt. `RefreshedOnSpreadbet`: what `refresh_session` leaves behind is the SPREADBET account, in the client and at IG.
`RetriedWithNewToken`: a denied request never goes out with the tokens IG rejected, however many refreshes ran in between.
`RequestReturns`: no task waits for the auth lock for ever, although the probe inside a refresh is itself a request that may
get a 401. `ApprovedWithinLimits`: pruning, snapshot, load and the windows' edges agree with the results the process was told
of and did not lose unsaved or to a failed start. `BooksCoverDeals`: unless the start was blind, each tracked deal is counted
at what it has at risk or more. `ExposureCapped`: so a fill keeps the total and the sector within their caps of the equity
the gates saw. `ProfitLocked`: whatever closes were refused and restarts came, no candle is held at or below what the best
price locked in. `SelectionGreedy`: a candidate is chosen exactly if fewer than k better ones are and it correlates with none
of them. `EntryOnSignal`: outside the window of finding 8, which a shutdown may carry over a restart (18), an order has a
tradeable signal. `DecayDeserved`: one eviction, one weak or failed scan, a closed market or a re-entry never closes a
position; only a record of an earlier position, restored by a crash, does (19). `OneVersion`, `TicksCloseHours`,
`ReloadKeepsBars`: memory and disk agree but for an hour that a poll could not save while it formed (16), only a closed hour
is emitted, a repair's reload takes nothing away. `QueuedHourLands`: a lost hour is repaired, unless it is given up, which
includes that a refused row has ended the feed. `FeedRestored`, `MetalsRestored`: a connection that is not up comes up. For
the metals that is not so after `run()` has ended, nor if the drop came while `_connect` subscribed (17). `OneClient`,
`OneRecovery`, `ClosedStaysClosed`: fills are not delivered twice, the flag tells the truth, and a sleeping reconnect opens
nothing after the shutdown. `AckedCandlesStay`: whoever rolls back on the shared connection, a candle whose insert returned
is in the file. `EscalationsCapped`: any cap + 1 calls in a row take more than 3600 s, whichever clock hours they fall into.

*Why the bounds are enough.* Two candle tasks are enough for one to act between two steps of another, and two deals of one
symbol for a position, its successor, and an orphan beside a tracked deal; a second symbol lets the lock serialise entries of
different symbols. The cap 2 can be reached by two positions, and by one that the risk manager still holds. The liveness runs
have one symbol and one candle task because each liveness property is about one symbol; reranks and closes of that symbol
still interleave with its entries. The stream run has one deal: a duplicate BUY after a close, a late SELL and a lost confirm
all need one only. Marks in `Drawdown` sit at the peak, in YELLOW, on either side of RED by less than the band, and above the
peak; with `RedConfirm` 2 a stale or recovered read can fall between two RED ones. `Session` starts with a login that IG puts
on the CFD account, so that every login needs its switch; three logins are the first `connect()`, a refresh, and a refresh
inside or after it (or after a restart from the cache). One retry tells a first attempt from the last; two tasks and the two
frames are what can meet at the lock (holder, waiter, and a request answered meanwhile). `LossLimits`: three results
(`MaxResults`) reach each limit in one, two or three closes, and span all windows and the prune. `Exposure`: with these
percentages one position fills a sector and two fill the account; a stake of 1 is snapped to 2; `HaltPct` and its three
neighbours each classify some push. `TakeProfit`: with a stop of 2 the levels reach breakeven (4), ratchet (6), the stop-loss
(0) and either target; ages end at the later limit, and two restarts let a crash follow a shutdown (`MaxRestarts`). `Rerank`:
the share is strong (and sure, or too uncertain to hold) or turned; `Fillable` names the only symbol that is held, the others
compete with it for the places; two strikes and three misses tell the two counters apart; `OldRecords` is what the file's
records may be at the start (none, or an old one of the share with misses), so that one crash (`MaxRestarts`) is enough to
restore a stale record; what is saved before a restart that the bound forbids is not kept. `CandleFeed`: the buffer holds two
bars, so appends and reloads evict; `QueuedHourLands` watches hour 4 (`Watched`), the one with hours before and after it;
`MaxNow`, `MaxCrashes` and `MaxDbFails` bound the run. `LSStreams`: `MaxFaults` 3 lets a drop fall into the recovery from a
silence or a server error; a second report on its way (`MaxNotices`) would be ignored. `SignalHistory`: four hours are a
row's hour, its horizon of two and the hour it must be resolved in; `MaxFaults` counts failures and restarts together,
because each undoes a transaction; `RerankHours` and `Agents`, `Tones` keep the scans small, while two agents that differ in
confidence make assets contested in consecutive hours; no bar is late (`Late`). `Parts` 2 lets two calls of consecutive hours
be an hour or less apart as well as more, which whole hours could not tell.

*Deadlock.* `CHECK_DEADLOCK FALSE` is set where the instance ends: for the position runs once every deal is used, for
`Exposure` and `Rerank` because their bounded runs may rest with nothing to do, for `SignalHistory` after the last hour. The
others check deadlock. `PositionSafety` uses symmetry of the candle tasks, which no property distinguishes; the liveness runs
use none.

*Fairness.* Every await ends (REST calls and alerts have timeouts and the tasks do not cancel each other), so entry, close,
list and rerank steps are weakly fair. The rerank asks for the positions every hour and `GET /positions` succeeds now and
then: strong fairness of `IGListsPositions`. The consumer takes its queue in order: strong fairness of `FillTaken`.
Nothing makes the market breach a stop, IG close a deal, or the margin move.
In `Session` every request has a total timeout and every backoff ends, so sending, answering, the frames' steps and the lock's
hand-over are weakly fair; `Connect`, `Connected`, `Call`, `Close` and `Exit` are not.
For the breakers, the clock goes on, and the heartbeat is every 60 s while the blackout is 75 minutes a day, so its read,
its application and its save each happen outside the blackout again and again (strong fairness of each).
`LossLimits`: time passes, alerts end. `TakeProfit`: time passes, candles come, IG does not refuse every close (strong fairness of
`Closed`). `Rerank`: candles load, the loop goes on, and a scan and a close succeed again and again. `CandleFeed`: the clock, the
provider, the queue and the start-up go on, and a repair that is tried every hour succeeds at last. `LSStreams`: time passes and tasks
run, a login and a connection that are tried again and again work at last, and the keep-alive or the refresh loop renews stale tokens;
without the last, a client barred by a stale password could be replaced by another one for ever, and `FeedRestored` fails.
`SignalHistory`: the hours pass, feeds store closed bars, a thread that began goes on (it may fail), the resolver wakes every hour.

## 4. Findings

None of these has a run of its own; each was met while modelling and can be read from the lines named. The models
contain the behaviour, and their properties are those that hold in spite of it.

1. *Purge of a live position* (`execution/ig_close.py:112`). The reconcile reads IG's list, awaits orphan alerts, and then purges every
   tracked symbol the old list lacks. An entry that fills meanwhile is purged although its deal is open on IG; the next
   reconcile flags it as an orphan. The purge's docstring (line 179) says "a local position IG no longer reports".
2. *Deferred flatten* (`core/event_wiring.py:135`). A close IG defers is to be retried by the "next candle/rerank"
   (`execution/ig_close.py:357`), but a margin breaker's close has no condition there that would ask again.
3. *Phantom slot* (`core/event_wiring.py:176`). A SELL whose alert outlasts a purge and a re-entry pops the new position from
   `state.positions` and leaves it in the risk manager. When IG closes that deal nothing removes it, because the purge loops over
   `state.positions`, and a slot of `max_open_positions` is gone until a restart.
4. *Blackout* (`risk/risk_manager.py:442`). The comment says entries are blocked while the breaker is frozen; for FX they are blocked
   21:50-22:10, the breaker 21:50-23:05.
5. *Halt after a restart* (`risk/risk_manager.py:663`). `load_state` recomputes the tier before any equity is known, so the
   tier restarts NORMAL and a restored halt ends on the first read under the RED line instead of a band below it
   (`risk/drawdown.py:97`).
6. *401 while another task refreshes* (`execution/ig_http.py:262`). The `_refreshing` flag is there to keep the probe of a refresh from
   refreshing again, but every request tests it: an order that gets a 401 while a poller refreshes is given up without the
   retry the docstring (line 219) promises.
7. *Order on another account* (`execution/ig_session.py:187`). `create_session` puts the new tokens on the client before the switch to
   the spread-bet account, and leaves them there if the switch fails. Requests of other tasks do not wait for the switch, so an order
   may be executed on the account the login starts on.
8. *Entry on another signal* (`execution/entry_executor.py:157`). `maybe_enter` checks the selection, awaits the balance, and
   then reads the symbol's signal; signals change before the selection does. In that window an entry goes out on a SHORT or
   untradeable signal, or on none (with the minimum stop), although "Only LONG signals are traded"
   (`strategy/topk_strategy.py:948`).
9. *A failed first pass does not abort* (`strategy/topk_strategy.py:625`, "aborting rerank"). It leaves no signals, the rerank goes on,
   the selection is emptied and every position gets a strike; two in a row close all positions.
10. *Thresholds that disagree* (`config.py:168`, `config.py:230`). A symbol may be selected with an uncertainty up to 5.0 while decay
    strikes at 3.0: positions are closed after two reranks and may be entered again.
11. *The forming hour* (`data/twelve_data_feed.py:229`, and the metals' REST backfill). Every bar of an answer is stored as
    confirmed, the one of the hour that has not closed included; later inserts of that hour are ignored
    (`core/models.py:158`: "False while the candle is still forming").
12. *Own disconnect reported* (`data/ig_ls_connection.py:198`). `reconnect_with_backoff` clears `_reconnect_scheduled` before
    it disconnects; if the client was not off, its listener reports that, which schedules a reconnect of the new, healthy
    client, and so on.
13. *One connection, several writers*. The stores say the event loop is the one writer (`data/candle_db.py:58`), but the
    resolver and `write_correlations` run in threads on the same connection. A worker's commit may commit half a batch of the
    loop; the loop's commit and a crash leave part of a correlation matrix, which is read as a whole one
    (`data/correlation_store.py:53`); a worker that fails leaves its transaction open until someone else commits it.
14. *Size retry over the caps* (`execution/entry_executor.py:94`). The snapped-up stake is said to stay within "the
    already-approved gate"; it may exceed the caps by up to one grid step, which `ExposureCapped` allows for.
15. *A failed start wipes the state* (`core/lifecycle.py:151`, `main.py:279`). `start()` connects before it restores
    `bot_state.json`; if `connect()` raises, `main` still runs `shutdown()`, which saves the fresh state over the file
    (`core/lifecycle.py:479`). Halt, peak, loss windows, positions, selection and take-profit records are gone at the next
    start. The process exits with 0, so the unit's `Restart=on-failure` leaves that start to the operator.
16. *Refused rows* (`data/twelve_data_feed.py:229`, `data/eodhd_feed.py:242`). A poll logs a row SQLite refused and keeps its
    bar. If the hour was still forming, the next poll saves the whole bar, so memory and disk hold two versions of it.
    EODHD's start-up backfill has no such handler: a refused row ends `run()` (line 634), nothing restarts the feed
    (`core/lifecycle.py:178`), and the hours queued for repair are never fetched.
17. *A drop during the subscription* (`data/ig_candle_feed.py:423`). `_connect` ends by clearing `_needs_reconnect`. A status
    report that came while it subscribed is taken back, and the metals' stream, which has no heartbeat, stays down.
18. *Shutdown in the middle of a rerank* (`core/lifecycle.py:472`). The cancellation may reach the rerank while it awaits
    `write_correlations` (`strategy/rerank_runner.py:356`), after the new signals and before the new selection; the snapshot
    has both, and the next process enters on a pair that no scan produced: the window of finding 8 lasts until its first
    rerank.
19. *Records of an earlier position* (`monitoring/health.py:190`). The heartbeat saves new positions beside the take-profit
    records that were loaded at the start. After a crash such a record is applied to a position of the symbol that was
    entered since (`strategy/take_profit.py:502`), and with its strikes one weak scan closes it.

Smaller: the tier's hysteresis is lost in a restart and no property covers it (finding 5); the reconcile takes the first deal
IG lists for an EPIC for the tracked one (`execution/ig_close.py:102`); a `connect()` whose probe is denied twice, with a
nested refresh that succeeds and one that fails after POST `/session`, goes on with the account of the earlier session
(`execution/ig_session.py:126`); with the stream, a late BUY followed by a SELL counts a loss twice, and a deal the stream
alone reported has no deal id and no budget until a reconcile; with the default feed nothing feeds the margin breaker; a
position without a stop level counts nothing towards the caps (`execution/ig_close.py:141`); an order is approved while a
losing SELL's alert is awaited; the take-profit record of a position that left before its registration stays; the stop loss
uses the latest scan's stop, which may be wider than the entry's; the loop waits for the bars of all symbols before its first
scan (`strategy/rerank_runner.py:150`); a gap at the start of a row's window is not seen (`signal_history_store.py:88`), and
a row without bars stays unresolved; a score no agent renews is used for ever (`sentiment/engine.py:157`); the escalation cap
is kept in memory; `RiskManager.update_atr` has no caller.

## 5. Proofs

`PositionLifecycle_proofs`, for any `Symbols`, `Deals`, tasks and `MaxOpen` that satisfy the module's assumptions (dealIds
belong to symbols, `None` is none of the values, the three kinds of tasks are disjoint):

- `TypeCorrect`: `Spec => []TypeOK`.
- `DoubleEntryGuard`: `Spec => []EntryGuard`.
- `SerialEntries`: `Spec => ImplementsSerialEntry`.

`EntryGuard` is not inductive by itself. `IInv` adds `Located` (which task knows its symbol at which await), `Opened` (once IG
opened the deal the task's `deal` is one of that symbol), `LockHeld` (the lock is held exactly by the task inside
it), and `SnapUsed` (IG's list names deals it opened; the types of `alerted` need it). The argument: entry steps run
under the lock, and one of them writes a position only as its task leaves `EnteringPC` (`EntryKeeps`); every other step is
*aloof* (`AloofClose`, `AloofOther`): it moves no entry, leaves the lock, and at most takes a position away. The refinement maps
`held` to `positions` and `entry` to the lock holder's symbol while it is in `EnteringPC`: `LockAcquired` is `Begin`, giving up is
`Abandon`, `EntryTracked` is `Fill`, `CloseRecorded` and `PurgeEnd` are `Release`, the rest stutters.

`EquityBreakers_proofs`, for any marks, instants, lines, band and debounce count:

- `TypeCorrect`, `TierStaysWithinBand`, `HaltInStep`, `SavedHaltKept`: the conjunction of the four invariants is inductive.
  `HysteresisWithinBand` is the lemma about the tiers (adding the band only makes a line easier to reach), `UpdateTracker`
  the one about `update_equity`; a quiet step keeps all four. For `SavedHaltKept` a reading that lifts the halt is milder
  than RED by the live peak, and that is no
lower than the saved one; a restart gets back what is `due` or sets `wiped`. The lines need not be ordered.
- `StakeWithinDrawdown`: only `EntryEvaluated` approves a stake, and the tier it uses is at least the drawdown's
  (`StakeMonotone`).

`IGSession_proofs`, for any tasks, retries, switch attempts, logins and either default account:

- `TypeCorrect`: `Spec => []TypeOK`.
- `RefreshEndsOnSpreadbet`: `Spec => []RefreshedOnSpreadbet`.
- `RetriesWithNewToken`: `Spec => []RetriedWithNewToken`.
- `OrdersPlacedOnce`: `Spec => PlacedOnce`, with result and count mapped to themselves.

The invariant `IInv` adds to the types: `Control` (the refresh runs only while `connect()` checks or probes, or the client is
up or closing; no request is left over where none is awaited), `Waiters` (the lock's holder and the waiters are distinct
callers in `refresh_session`, so a caller that leaves it is in no queue), `TokenOrder` (tokens only grow while the process
lives; a denied request is older than the tokens it goes out with, because a refresh under way has logged in since its caller
sent), `OnSpread` (what the refresh knows of the account at each await) and `Orders` (pending means under way, executed once
means at its end). `Again` and `Raised`, in which most handlers end, have their effects stated once (`Effects`, `Answered`,
`Settled`); then each part of the invariant has one step per action. The proofs assume that `None` is neither a caller nor an
account, that the groups of callers are disjoint, and that there is at least one switch attempt.

`PositionLifecycle_proofs`, `EquityBreakers_proofs` and `Feeds_proofs` each continue with a second module:

`PositionStream`, for any length of its queue: `StreamTypeCorrect` (`TypeOK` and the types of the stream's own variables) and
`StreamEntryGuard` (`EntryGuard`). The invariant is that of `PositionLifecycle` with `StreamTypeOK` (a confirm is a side and
a deal, whose symbol is the deal's) and `MessageAlone` (while the consumer handles a confirm no candle task is in an entry).
The last is what makes the guard hold: `FillTaken` and `FillRecorded` write the books without the lock, which is harmless
only because they share one task with the entries; the mutant of the guard gives the confirms a task of their own.

`LossLimits`, for any symbols, amounts, limits, windows and number of results: `LossesWithinLimits` (`ApprovedWithinLimits`).
`Faithful` says that every close of the last month that neither a crash nor a failed start took is in the deque; it survives
ageing, pruning (`PrunedFaithful`: no window is longer than a month), a save, a crash and a load (`LoadedFaithful`). Then the
sum the gate computes is the sum over the actual results of the window (`WindowsExact`), and an order that passes the gate is
approved within every limit (`ApprovalStep`). Two modules that a proof module extends must not share a name: `LossLimits`,
`LSStreams` and `PositionStream` call their specification `LimitsSpec`, `LSSpec` and `StreamSpec`, and the missing value
`Nil`.

`Feeds_proofs`, for any market, feeds, history, faults, crashes and number of instants:

- `MemoryAndDiskAgree` (`OneVersion`), `BarsOfClosedHours` (`TicksCloseHours`), `SavedBarsStay` (`ReloadKeepsBars`).
- `OneVersion` alone is not inductive: a bar refused by the disk, or a row memory lacks, would meet a second version later.
  `IInv` adds `Mirrored` (with EODHD, until the stream is live, memory holds the newest rows), `Polls` (with the poll, memory
  is never behind the disk, and a bar that
is no row is `refused`, or whole and its hour not on disk),
  `Ahead` (a row newer than all of memory is one a failed repair saved, of an hour the ticks have passed), `Unsaved` (a bar
  that is not on disk is behind the bucket and not queued for repair, so nothing fetches its hour again), and `Phases` (what
  each place of `run()` and each feed can hold).
- The operators have their lemmas: `LastIs` says what the newest n of a buffer are and `LastKeeps` that a bar leaves only
  when n newer ones are there (by `RankIs`, a bijection between a finite table and its ranks); `AddIs`, `AddOneIs` and
  `InsertIs` say what the store and the table keep; `TickIs` what a tick does to the bucket. A table is finite and has one
  bar per hour (`Table`).
- `LSStreams`, for any clients, timeouts and faults: `NoSecondClient` (`OneClient`), `NoSecondRecovery` (`OneRecovery`),
  `ShutdownFinal` (`ClosedStaysClosed`). `Control` adds that the heartbeat awaits its login with no current client, and what
  a shutdown leaves; tearing down leaves no client alive (`NoneAfterTearDown`), so each connect starts from none.

Four shorter modules, with one lemma per action and no bound on anything:

- `TakeProfit_proofs`, for any price grid, stop distance and predictions: `SeenProfitLocked` (`ProfitLocked`). `Keeps` says where
  the best price has put the trail (at the entry from one stop distance on, half a stop below the peak from two on, and never
  under the entry once armed); `TrailedKeeps` shows that a candle restores it, whichever stage it reaches, skips or falls back from.
- `Rerank_proofs`, for any finite set of symbols, any forecasts and thresholds. `DecayHasReasons` (`DecayDeserved`): the
  counters of a record never outrun the reranks that doubted the position (`CountedCounts`); this needs `Owned` (a record
  belongs to a held position) and `EnteringFresh` (the symbol of an entry is not held), so that an entry never inherits an
  old record's counters: a record that outlives its
position is not its `own`, on disk as in memory.
  `Greedy` (`SelectionGreedy`): the selection is a fold over the ranking, and `PicksAlong` and `PicksAreFinal` are its
  induction: a place once given is kept, and the pick of a rank depends on the better ranks only. `SelectionInv` carries what
  the fold returned through the correlation write to its assignment, over scans that fail and restarts that keep an old
  selection, in memory and in the file. `EntriesOnSignals` (`EntryOnSignal`): only `EntryFilled` makes a symbol held
  (`OnlyFillsHold`), and what the selection check saw still holds at the order unless `raced` says that a scan ended, or was
  not assigned, in between; `TopkPasses` has what is selected
pass the filters while no scan waits to be assigned and the pair is not `torn`, and the same of the file.
- `Exposure_proofs`, for any finite set of symbols, any amounts, caps and rates.
  `BooksCover` (`BooksCoverDeals`): unless the books are blind, every tracked
  deal is counted with its stake times its distance; `LockedShrinks` does the arithmetic of the trailing stop.
  `Capped` (`ExposureCapped`): the caps are sums over symbols, so the proof has facts of its own about them (`SumTakes`: one symbol's
  share can be taken out; `SumMonotone`). The gates saw a sum of books; between approval and fill books may only shrink or be
  corrected downwards, so the order still fits (`StillFits`); the snapped stake adds less than one grid step (`SnapAddsLess`), and
  the deals' risk is covered by the books (`BooksCoverRisk`), so the fill fits (`FillFits`).
- `SignalHistory_proofs`, for any bars and faults: `AcknowledgedCandlesStay` (`AckedCandlesStay`). What is acknowledged is
  committed, and what is committed the connection sees, as it does the candle it is about to commit: a foreign commit or
  rollback between two statements changes neither. `CappedEscalations` (`EscalationsCapped`), for any assets, scans and cap:
  the slots are the last of the calls made, and the k calls it has forgotten are more than an hour old (`Forgot(k)`): popping
  the old slots (`PoppedOld`) forgets more of them, and a slot is taken only when fewer than the cap are left
  (`SlotsReserved`), so the call the cap before it is a forgotten one.

*Assumptions.* `None` is not one of the values it stands beside (clients, levels, records, symbols, instants, bars, buckets).
`Symbols` is finite where a sum or a ranking of symbols is formed; the history and the look-back of a feed are finite. TLC
evaluates every assumption in the runs.

*Induction.* Library theorems that take an operator cannot be used here, so `Induction` states it about a set of
naturals that has 0 and every successor, from the well-foundedness of `<`. The selection's fold and the largest element of a
finite set rest on it; the sums take a smallest counterexample instead.

*Only model-checked:* the liveness properties (`OrphanSurfaces`, `GhostPurged`, `EntryLockReleased`, `RedHalts`,
`RecoveryResumes`, `RequestReturns`, `LimitsLift`, `Outlived`, `EvictedLeaves`, `QueuedHourLands`, `FeedRestored`, `MetalsRestored`,
`RowsResolved`), because fairness and ENABLED are beyond this prover. Every invariant, action property and refinement a run
checks is proved.

## 6. Not modelled, and what is left

Kronos's numbers, FinBERT, price scales, spreads, funding and the margin table are numerics without state; the web
interface's queries, the Telegram texts, the progress display and the offline analysis are output; configuration is constants
here. The token buckets and the sentiment rate limiter are delays. `IGFeed`'s chart handler (tick validation, confirmation of
candles) and the paging of IG's price history are the largest pieces of state left out. Three failures inside a handler are
too: an orphan alert that raises still marks the deal as alerted (`execution/ig_close.py:174`); a `disconnect()` that raises
is suppressed and its client forgotten (`data/ig_ls_connection.py:200`); a connect that raises between its subscriptions
counts as silent, though some of them may tick (`data/ig_ls_connection.py:121`). Each module has its own part of a restart;
`PositionLifecycle` itself starts flat.

Next, in this order:

1. Action properties of the steps the liveness rests on: a request leaves the retry loop only with an answer or its last attempt, a
   resolver pass never takes a resolution back, a reconcile never tracks a deal twice.
2. The type invariant of `LossLimits`, `SignalHistory` and `TakeProfit` in full.
3. The chart handler of `IGFeed` on `HourlyBars`.
4. A token bucket: what a first minute may send against the allowance.
