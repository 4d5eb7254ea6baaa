# A TLA+ verification of bacchus-mm

bacchus-mm is an asyncio market maker for Kalshi: one coroutine per market
requotes a bid and an ask, a websocket feeds it books and fills, and a handful of
global tasks (reconcile, risk, marks, settlement) repair, mark and stop it. Its
difficult part is not pricing. It is keeping a local picture of orders, exposure
and position right while every REST call is an `await` at which everything else
may run, answers are lost or ambiguous, and the exchange's own listing may lag.

This directory holds the specifications of that part, the configurations that
model-check them, and machine-checked proofs of the properties that matter most.

## The system

| component | source | state it keeps | operations | talks to |
|---|---|---|---|---|
| market worker | `marketmaker.py` `MarketWorker` | `bid_order`, `ask_order`, `_pending_create`, `pause_suspected`, `evicted`, `reduce_only`, `pulled_until` | `run`, `_requote`, `_reconcile`, `_adopt_if_resting`, `order_filled`, `stop` | exchange (awaits), risk manager (calls), guard, gate, strategy |
| global reconcile task | `reconcile.py` | none of its own; holds two listings across awaits | `reconcile_pass`, `reconcile_loop`, sweep detector | exchange, every worker's references, risk manager |
| risk manager | `risk.py` | positions, cash, marks, `resting` registry, high-water mark, `halted` | `on_fill`, `on_mid`, `on_settlement`, `register_order`, `release_order`, `approve_order`, `should_halt`, `halt` | called by everybody |
| exchange adapter | `exchange/kalshi.py` | books, fractional residuals, token bucket, subscription | create, cancel, list, positions, `stream` | Kalshi REST and websocket |
| fill dispatch | `main.py` `FillDispatcher` | seen trade ids | one callback per fill | event log, risk manager, worker |
| supervision and loops | `main.py` | stop event, tasks | marks, settlement, reaper, bench, risk loops, shutdown, `halt-clear` | risk manager, event log, workers |
| event log | `eventlog.py` | SQLite kv store, fills, settled markers, a buffered event queue | `emit`, `record_fill`, `kv_set`, `mark_settled` | all |
| fifteen-minute mode | `fifteen.py` | windows, rides, release blackouts, spot feed, tripwire | discovery, pulls, drain, per-side tripwire | workers, risk manager, settlement |
| fast-move guard, quoting gate | `marketmaker.py` `FastMoveGuard`, `QuotingGate` | mids in a window, confirmations, cool-offs | `update`, `blocked`, `engage_cooloff` | worker, reconcile task |
| strategies and fees | `strategy/*.py`, `fees.py` | none | `join_touch`, `compute_quotes`, `compute_fee` | worker |
| selector, health, config, analysis, cross-venue | the rest | none that acts | - | - |

### What is hard

* **Interleaving at every await.** A worker's `_reconcile` suspends in the cancel,
  in the create and in the adopt lookup. Fills (`order_filled`) and the reconcile
  task write the same references and the same registry meanwhile.
* **Ambiguity.** A create that times out may rest, may land later or may be lost.
* **Lag and loss.** The resting list is eventually consistent; fills sent while the
  websocket is down never arrive; recent fills are redelivered after a resubscribe.
* **Partial failure and crashes.** Cancels fail, passes time out, the process dies
  between two commits of the equity chain.
* **Edges.** Clamps at zero, confirmations counted across updates, residuals.

`PROJECT.json` lists each hazard at its line, with the properties that guard it or the
reason why none can.

### What would make each component correct

* worker + reconcile task: an order that rests is always accounted for; a side
  never has two orders at work; the registry is exactly what is tracked; strays,
  ghosts and drift are repaired without help.
* risk manager: caps see what can really be held; equity is conserved by fills,
  settlements and adoption; a halt is sticky.
* fill path: every contract is applied once, whatever is redelivered.
* equity chain: no crash or concurrent `halt-clear` makes the next run start from
  an equity that was never there.
* loops: a pull is obeyed, a halt and an eviction outlive the process, an alarm ends
  it, a shutdown leaves nothing resting.
* worker decisions: the cap holds however fills race the orders, what nobody wants any
  more is taken off, an exit that is stuck is reported, and the touch is joined, not led.
* guard: the cheap threshold is the right one, a gap always blocks, and guard and worker together
  are a breaker: an episode is scored once, after its cool-off.
* order book: its best levels are those of the exchange's book.

## The modules

| module | what it is |
|---|---|
| `SingleQuote` | abstract specification: per side a slot that holds at most one order |
| `OrderLifecycle` | the worker, the exchange, the websocket, the registry and the reconcile task on one ticker |
| `OrderLifecycleProofs` | types and the registry, for every constant; no order is let go of, the vanish repair is sound, and `SingleQuote` is refined |
| `EquityChain` | one market's books, the equity chain on disk, the kill switch, settlement, restarts, crashes and `halt-clear` |
| `EquityChainProofs` | types, the kill switch's reference when `halt-clear` runs alone, and the chain as the account's equity over any number of sessions |
| `FillStream` | the websocket loop, fractional residual, trade-id set and fills table, seeding and adoption, for one market |
| `FillStreamProofs` | no fill applied twice, no fraction lost, for every unit, size and bound |
| `WindowLifecycle` | the fifteen-minute mode: one series of windows through discovery, quoting, pulls, eviction, settlement, reconciliation and removal |
| `WindowLifecycleProofs` | its invariants for any number of windows and any times |
| `Session` | the process of either mode from its start to its end, over several tickers and sessions: selection, sweeps, eviction, bench, discovery, kill switch, task supervision, the finally block, crashes |
| `SessionProofs` | its types and safety properties, for any tickers, modes and bounds |
| `Breaker` | abstract specification: what guard and worker promise together |
| `FastMove` | the fast-move guard and what the worker makes of its trips |
| `FastMoveProofs` | threshold and gaps, and the refinement of `Breaker`, for any mids, spreads and times |
| `Requote` | what one worker decides, with sizes, on both sides, and carries out while fills come in |
| `RequoteProofs` | its cap and types, for every cap and number of fills on their way |
| `JoinTouch` | the local order book and the join-the-touch policy that reads it |
| `JoinTouchProofs` | the book is the exchange's and a quote never leads, for any levels and any number of deltas on their way |

The modules share no state: each takes one subject to the depth its hazards need and reduces the
others to what it must know of them. `OrderLifecycle` has orders without money, `EquityChain`
money without orders, `FillStream` delivery without either, and `WindowLifecycle` the loops that
own a market from its opening to its removal. `Session` has all markets and the whole process,
with an order reduced to resting or not; `Requote` has sizes without prices or calls that fail
(they are served or refused), `JoinTouch` prices without sizes, and `FastMove` neither. Every
module with a coroutine of a worker in it cuts it at the same awaits.

### OrderLifecycle and the code

An *order id* is also the `client_order_id` of the create that made it: 1, 2, ... in
sending order. Prices, the order of checks inside `_requote` and the strategy are
abstracted to a choice per side between keeping, pulling and placing some size.

| variables | code |
|---|---|
| `sent sideOf st rem truePos` | the exchange's book and position. `st` is `new`, `sent` (request on the wire), `hidden` (rests, not listed yet), `live`, `gone`, `void` (never accepted) |
| `fills` | per order, the one-contract fill messages on the websocket |
| `position` | `MarketState.position` |
| `registry` | `RiskManager.resting` |
| `ref`, `cnt` | `bid_order` / `ask_order` and the `count` of those `Order` objects |
| `pend`, `empties`, `age` | `_pending_create`: the parked id, its empty lookups, and how many lookups were answered |
| `paused`, `evicted` | `pause_suspected`, `evicted` |
| `cycle`, `w` | the running `_requote` (sides left, whether it quotes) and the `await` at which `_reconcile` is suspended |
| `r` | the `await` at which `reconcile_pass` is suspended, and what it holds |
| `faults`, `leaked` | bound on injected faults; history of orders whose cancel failed |

Between two awaits a coroutine runs alone, so an action is what the code does from
one await to the next: `StartCancel` up to `cancel_order`, `CancelServed` or
`CancelFails` for the exchange's answer, `AfterCancel` for the release, the approval
and the next `create_order` (or the return). A REST call of the reconcile task is
two steps, the snapshot (`ListAll`, `Confirm`, `FetchPositions`) and the use of it
(`Diff`, `Repair`, `AdoptDrift`). `DeliverFill` is `FillDispatcher`'s callback:
position first, then `order_filled`.

Three constants say what is assumed of Kalshi. `ListLag` lets a landed order be
missing from the list for a while. `WsFirst` says that a fill message is delivered
(or lost) before a REST answer that already reflects the fill. `ListDelay` bounds the
lookups after which a create is settled: listed, or lost for good.

### EquityChain and the code

One market stands for the book: every quantity of the chain is a sum over markets and
no operation relates two of them. Money is a number of ticks; a fee is part of the
fill's price. Orders are `OrderLifecycle`'s subject: here a fill happens and is
delivered in one step.

| variables | code |
|---|---|
| `status mark held paid` | the exchange: the market, its mid or settlement value, the account's position and cash flow |
| `proc` | where `cmd_trade` is: `loaded` (chain read, clock-skew check awaited), `starting` (market and position calls), `up`, `stopping` (`worker.stop()` awaited), `closing` (tasks cancelled) |
| `loop` | where `risk_loop`, then the final persist, is: between the two kv commits (`pnl`, `high`), awaiting the kill switch's `cancel_all` (`halting`) |
| `polling` | `settlement_poll` awaits `get_market_status` |
| `ms`, `offset highWater newHigh halted` | `MarketState`, `RiskManager` |
| `top`, `queued` | the worker has a book; the newest mid in the event log's queue |
| `kvPnl kvHigh kvSettled logged haltFile` | the disk: kv rows `cumulative_pnl`, `high_water`, `settled:<ticker>`, the newest row of `mids`, the `HALTED` file |
| `clear clearCum` | where `cmd_halt_clear`, another process, is |
| `peak`, `used` | history for `HaltIsJustified`; how much of each bound is spent |

A round of `risk_loop` is `RiskTick` and, when it persists, `WritePnl` and `WriteHigh`:
no coroutine runs between the commits (`Scheduled`), but the process may die there and
`halt-clear` may run there. `drawdown()` raises the high-water mark as a side effect, so
`RaiseHighWater` is part of `marks_tick` and of every round. `Seed` keeps the code's
cases: settled, selected and flat, selected and held, held only.

`MidsLogged`, `EarlyPayouts` and `ClearWhileRunning` say what is assumed: that every mid
reaches the `mids` table (the worker throttles it), when Kalshi may pay out a market the
bot has not realised, and whether the operator runs `halt-clear` beside the bot.

Not in it: drift adoption (it moves the position without cash), promotion from the
bench, dry runs, and fills while the process is down.

### FillStream and the code

Contracts are counted in sub-units (`Unit` to a contract), trades are numbered, and the
number is the `trade_id`. A stream iteration is one action: `Receive` is a message from
`ws.receive()` to the resubscribe check at the end of the loop, with the whole of
`FillDispatcher.__call__` in between, as no await interrupts it.

| variables | code |
|---|---|
| `fractional replays` | what kind of Kalshi this is, fixed for a behaviour |
| `trades truth` | the account's trades and position, in sub-units |
| `conn wire served last asked` | the connection, the fill messages on the socket with their `seq`, `seqs[sid]`, and the roster `get_tickers()` gave this connection |
| `roster scanning resub` | `active_tickers()`, a `discovery_loop` pass in progress, `_resubscribe` |
| `position residual seen` | `MarketState.position`, `_fill_residual`, `FillDispatcher.seen` |
| `fetched` | the positions answer `reconcile_pass` holds |
| `rows` | the fills table, which seeds `seen` (`known_trade_ids`) |
| `applied unlogged owed` | history for the properties |

A message is lost in the network (`LoseMessage`), with the connection (`HungUp`), or
because it was sent while there was none. `Start` seeds with the truncated position the
exchange reports; the trades of the time the process was down are in it. The roster only
grows here: the loop's wait for a first ticker, and windows that are cleaned up, are not
modelled. Orders, cash and fees are the subject of other modules.

### WindowLifecycle and the code

Time is counted in ticks of some seconds; window `n` is open from `n * Period` to
`(n + 1) * Period`. A worker has one order of one contract at a time, on either side.

| variables | code |
|---|---|
| `sided order stale truth final paid wire` | the exchange: two-sided books, the session's resting orders and those nobody tracks (of an earlier session, or left by a failed cancel), the account's position, finalized markets, positions no longer reported, fill messages under way |
| `boot positions already` | where the start of `run_fifteen` is; the positions it read; `already_settled` |
| `workers closes awaiting` | `workers`, `window_close`, `awaiting_cleanup` |
| `reaped evicted pulled woken` | `close_reaped`, `evicted`, `pulled_until` and the wake event of each worker |
| `call ref parked` | the exchange call a worker awaits; whether it tracks an order, or has a create of unknown outcome in `_pending_create` |
| `known pos unvalued booked settled` | `RiskManager.markets`: which exist, position, `unvalued_inventory`, the contracts whose basis is in `cash`, `settled` |
| `listing stopping asking fetched` | what `discovery_loop`, `pull_loop`, `settlement_poll` and `reconcile_pass` hold over an await |
| `realised inherited blind failed slow used` | history: how often a position was realised, what an earlier session left, where the book was one-sided at some time, where a cancel failed or a create was in doubt, where a call was slow; the bounds |

An action is again what the code does between two awaits. `Retire` is `pull_loop`'s pass
over the closing windows, `Remove` and `Stopped` the removal around the awaited
`worker.stop()`; `AskStatus` and `Settle` are `settlement_poll` around its REST call;
`ListSeries` and `Discover` are `discovery_loop`, which judges an old answer by the new
clock.

A worker's calls end in every way the code knows. A cancel that fails is logged and treated
as done (`marketmaker.py:915-923`): the reference is dropped, the order rests on as one of
`stale`, and a replacement is sent beside it (`CancelEnds`, `ReplaceAnswered`). A create is
served, refused, or of unknown outcome (`CreateAnswered`): then its id is parked, and later
cycles look it up before they do anything else, adopt it or give it up (`LookupAnswered`; it
is given up only when it does not rest - what a lagging list does there is
`OrderLifecycle`'s). The reconcile task sweeps what nobody tracks, unless that cancel fails
too.

What `Tick` assumes of the code's timing is `Prompt` and `CallsEnd`: a message is delivered
and a woken worker runs within a tick; the reconcile task, which sleeps before each pass, is
at most `ReconcileEvery` ticks late; and a worker's call ends within a tick, whichever way,
or it is slow. The client gives an attempt 15 s and retries 5xx answers and lost connections,
so a call may take longer than the time a pull has. A slow call is an upset like a failed
one, puts its window in `slow`, and ends before the window is removed. A listing may take
any time. The order of everything within a tick is free. `PayoutWaits` says that Kalshi reports a
position until the bot has realised it, which its 300 s poll beats in practice.

The cross-market limits, the fast-move guard and the quoting gate only make a worker
quote less: `CycleWithdraw` may happen at any time. Not in it: the per-side tripwire, and
a crash (the start of a session that inherits what a crash leaves is).

### Session and the code

A worker has one order per session, named by its ticker and the session, so that what an
earlier session left is told apart. A position is held or not. Both modes are in it,
`mode` being fixed for a behaviour; they differ in `StartRun` / `StartFifteen`, in what a
marker at the start does (exit, or idle until it is cleared), and in their loops.

| variables | code |
|---|---|
| `resting sent held over` | the exchange: orders, creates approved and not served, positions, closed windows |
| `marker`, `ev` | the `HALTED` file; the `market_evicted` event of a ticker: queued, in a transaction that failed half way, committed |
| `proc`, `session` | `reading` (balance and positions awaited), `cleaning` (the startup sweep), `running`, `stopping` (a worker's `stop()` awaited), `sweeping` (the tasks are cancelled), `idle` (`_idle_until_halt_cleared`), `down` |
| `halted stop died` | `risk.halted`, `stop_event`, a supervised task that raised |
| `picks standby atStart` | the selector's picks, the bench, the `positions` the start read, from which a promotion is seeded |
| `roster` | the `workers` dict: absent, quoting, `reduce_only`, or out (`evicted` or `close_reaped`) |
| `owed`, `armed` | evictions not replaced yet; the loops that change the dict and are past their test of `stop_event` |
| `cycle`, `ref` | the `await` each worker is suspended in; which of them track an order |
| `stage` | a `cancel_all_orders(managed_tickers(...))` that somebody awaits |
| `size told awaited` | the iteration over `workers.values()` in the finally block |
| `persisted exit report` | what the end of the process did and logged |
| `caught`, `used` | history for `NeverAbandoned`; the bound on fills and faults |

A loop tests `stop_event` only at its head, so one that sleeps when the event is set goes
through its body once more (`Rearm`), while the finally block is already at work: that is
how the dict changes under the iteration (`Breaks`). `StopSeen` and `StopAnswered` run the
iteration from one `stop()` that awaits to the next; workers that track nothing are stopped
without an await. `Finish` is everything from the second listing to the end, where nothing
is awaited. A create in flight when its task is cancelled stays in `sent` and may still
land. `Flush(FALSE)` is a flush whose insert of the mids raises after the events are in the
transaction and off the queue.

Not in it: several orders per worker (`OrderLifecycle`), dry runs, and the wind-down
workers fifteen mode makes for positions outside its series.

### FastMove and the code

Times are ages, at most one past the window; prices are multiples of one unit, and the
threshold is kept in quarters of it, so that the default spread multiple of 3/4 is exact.
`hist`, `spreadMin`, `left`, `pend` are `_hist`, `_spread_min`, the time to `_blocked_until`
and the pending move; `trip` is the context behind `trip_seq` while the worker has not read
it, `latched` and `trips` the worker's `_guard_trip_ref` / `_guard_trip_eff` and
`_guard_trips`, `winding` the `reduce_only` of a worker evicted with a position, which goes on
to pass the guard. `Update` is `on_book_top`, `Requote` any pass of `_requote` that reaches the
guard. The two loops that pop the deque are `Live` (from the front, what expired) and
`Narrower` (from the back, what is no narrower); the branch order of `update` (shock, confirmed
move, candidate) is kept, and so is the reference it trips with, which is what the scoring at
the end of the cool-off uses.

`Breaker` is what the two promise together. Its `episode` is the trip the worker has not read,
or else the one it latched (`Seen`); the worker reads both in one pass, so an episode whose
cool-off ended without a pass before the next trip is forgotten: `trip_ref` is overwritten.

### Requote and the code

`rests`, `held` are the exchange's; `late` are fills on their way of the order the worker tracks
or is creating, `old` of one it tracked before; `position`, `ref`, `registry` the process's
books of them. `role` is what the worker is for (quoting, `reduce_only`, `close_reaped`,
`evicted`), `blocked` and `pulled` what the guard, the gate, the spot feed and the calendar say,
`paused` is `pause_suspected`, and `sided` says that the book has a mid. Without one no cycle
begins: `_requote` returns before `_track_winddown` and before every pull. `Pull`, `SitOut` (the
return of a paused market, which comes after the pulls and before the guard), `Evict` and
`Decide` are the ways through `_requote` up to its first await: the size each side wants is
`Shaped(Room(q))`, from the position at that moment. `Turn`, `CancelAnswered`, `Place`, `Land`
and `CreateAnswered` are `_reconcile` for a side, `approve_order` being asked after the cancel
and before the create. `wind` is `_track_winddown`'s clock. An order may expire while the worker
still has it. A create may be refused, because of a pause too; that a call fails otherwise is
`OrderLifecycle`'s subject, and that no cycle runs once the kill switch is tripped `Session`'s.
A side may have no price (`Decide`'s choice), which is what the tripwire and a strategy at its
limits do.

### JoinTouch and the code

Both sides are books of bids, as on the wire. `book` is `OrderBook` with quantities and the
cached best level of each side; `deltas` is what is on the socket; a snapshot comes with a
connection and a lost connection empties the book. The worker's own orders are in the book
like anybody's, and `BestExcluding` takes out the one it tracks. `Told` is the delta of any
change, those of the worker's own creates and cancels included, which arrive after the
answer. The fill message of an order and the delta that shows it gone are separate, in
either order, as `Take` leaves them. `Disconnect` is the redial, which installs empty books
(`kalshi.py:614-616`); in the moments between the loss of the socket and it the code has the old
book, as the model has while the deltas that were lost are late.

### Properties

Every module's type invariant is proved, and so not checked once more by a run.

* `RegistryMatchesRefs` - exposure is registered and released in four places, across
  awaits, yet equals the tracked order's unfilled count at every step, except while a
  replacement is being created.
* `NoStrayOrder` - an order that rests, or may yet rest, is tracked, parked or in
  hand, or its cancel failed.
* `VanishIsSound` - the pass drops a reference only to a dead order.
* `NeverDoublePlaces` - `OrderLifecycle` implements `SingleQuote` under the mapping
  `slot[s]` = orders of side `s` that rest or may yet rest and were not leaked.
* `StrayOrderCancelled`, `GhostRefCleared`, `PositionConverges` - what goes wrong is
  repaired by the reconcile task.
* `ChainExact` - in a session `cumulative_pnl` is the account's cash flow plus its
  position at the bot's own mark, through seeding, settlement, payout and restarts.
* `HaltIsJustified` - the kill switch trips on a loss of `Threshold` from a level that
  was acknowledged or reached, never from a reference a crash or a torn persist left.
* `PeakPersists` - only `halt-clear` lowers the persisted high-water mark.
* `PeakFlagged` - whichever loop raises the high-water mark, it is on disk or flagged for
  the next persist.
* `AppliedOnce` - a fill with an id and a row is applied once, over all connections and
  sessions.
* `FillsConserved` - position and residual together are what was seeded, adopted and
  applied.
* `RosterSubscribed` - a promoted market is subscribed, on a silent book too.
* `PositionConverges` (`FillStream`) - the position ends at the exchange's, truncated.
* `QuietAverage` - no order rests in the minute the settlement is averaged over.
* `PullsTakeEffect` - a pull (spot jump, release, close) is obeyed within a tick, whatever
  the worker was awaiting when it came.
  Both speak of `Undisturbed` windows, and of nothing more: without a mid `_requote` returns
  early, a failed cancel counts as done, a create in doubt is not tracked until it is found,
  and behind a slow call the worker does not look at its flags. A disturbance in one window
  excuses that window only.
* `SentBeforePull` - what a disturbed window can do to the average is bounded: nothing is sent
  after the pull, so what rests, tracked, parked or stray, is gone one TTL later. Only a slow
  call is excepted, behind which a create decided on before is still sent.
* `FrozenIsFlat` - a window that is frozen and never realised is flat at the exchange,
  whatever was lost, late or adopted.
* `BookedOnce` - every contract is given a basis once, by the fill, the seed, the mid or
  the adoption; `RealisedOnce` - and realised once, though settlement, adoption and
  removal overlap. Both speak of windows the session found untouched.
* `NeverRejoined` - a stale listing does not bring back a settled or removed window.
* `WindowsEnd` - what a window held is realised and its worker removed.
* `HaltHolds` - after a kill switch nothing is approved: not in a cycle under way, not beside
  the shutdown or `halt-clear`, not in the next session while the marker is there.
* `AlarmsStop` - a tripped kill switch or a dead task ends the process.
* `ShutdownClean` - when the shutdown logs that nothing rests, nothing of this session does:
  the tickers it looks at cover evicted, reaped, promoted and dropped workers.
* `EvictedStaysOut` - a market the guard evicted is not quoted again, by its worker, the
  bench, or a later session whose penalty box can know of it.
* `NeverAbandoned` - a worker goes dark only flat, as far as it knows.
* `LeftoversGo` - what an earlier session left on the book goes while a session runs, on
  managed tickers and on others.
* `ShutdownCompletes` - every way down but a crash persists the equity chain (refuted).
* `SpreadMinExact` - the deque's front is the narrowest spread of the window.
* `GapBlocks` - a gap of twice the threshold blocks as long as it is in the window, however
  wide the spread made the threshold.
* `ActsAsBreaker` - `FastMove` implements `Breaker` under `open <- left > 0`,
  `episode <- Seen`: an episode is scored at most once and only after its cool-off, and the
  market is out with the `EvictTrips`-th move that stuck, no sooner and no later.
* `CapHeld` - the account is within the cap and the fills on their way, though sizes are
  decided before the awaits.
* `UnwantedGoes` - an order of a worker that was pulled, reaped or evicted, or that would add
  to a position being wound down, does not stay while the book has a mid, paused market or not.
  It is not the TTL that takes it: the TTL may never come in the model.
* `DistressRaised` - a wind-down gets flat or its worker finds it distressed, unless the book
  has lost its mid. It is about `_winddown_distressed`; the event goes out with it, or when
  `winddown_distress_repeat_seconds` are over since the last.
* `BestExact`, `CaughtUp` - the cached best is the scanned one; a book that has been told
  everything is the exchange's.
* `NeverLeads` - "JOIN, never lead": decided on a book that has been told everything, a quote is
  no better than what others quote, and exactly there if the worker's order still rests.
* `AloneIsBrief`, `JoinsTouch` - the worker does not stay alone at a level while there is a
  mid, and does join a touch that stays.

## The runs

| run | instance | shows |
|---|---|---|
| `lifecycle` | bid; 2 orders of 1 or 2 contracts; 1 fault; cap 2; eviction | the safety properties of `OrderLifecycle` |
| `repair_liveness` | bid; 2 orders of 1 contract; 1 fault; `ListLag`; not `WsFirst` | its three liveness properties, under `FairSpec` |
| `equity_chain` | 2 starts, 2 fills, 2 moves, 1 settlement, 1 `halt-clear` at any time; `MidsLogged`, no early payout | `ChainExact` |
| `equity_crash` | 3 starts, 1 crash, 1 fill, 1 move, 1 `halt-clear` alone; throttled mids, early payouts | `PeakFlagged`, `HaltIsJustified`, `PeakPersists` |
| `fill_stream` | 3 trades of half a contract, the second without an id; 2 sessions, 2 tickers, 2 dials, 1 fault | `AppliedOnce`, `FillsConserved`, and under `FairSpec` `RosterSubscribed`, `PositionConverges` |
| `windows` | 1 window of 4 ticks, quoted in the second, averaged over the fourth; 1 fill, which may be lost; 1 upset (an emptied book, a spot jump, a release, a failed or slow call, a create in doubt); TTL 2; an inherited position, order or settled marker; `PayoutWaits` | all the window properties, `WindowsEnd` under `FairSpec` |
| `session` | 2 tickers, 1 session, both modes, 1 fill or fault | `NeverAbandoned`, `ShutdownClean` |
| `session_restart` | 1 ticker, 2 sessions, both modes, 1 fill or fault or crash | `EvictedStaysOut`, `HaltHolds`, and under `FairSpec` `AlarmsStop`, `LeftoversGo` |
| `guard` | 4 mids, 2 spreads, window 1, cool-off 2, 2 confirmations, 2 trips to evict, 3 updates in a window | all of `FastMove`, `Breaker` included |
| `requote` | both sides, orders of 2, cap 2, 1 fill on its way; pulls, pauses, cool-offs, expiries and one-sided books at any time | all of `Requote`, its liveness under `FairSpec` |
| `touch` | 2 levels a side, cap 2, 1 delta on its way (2 with the worker's own) | all of `JoinTouch`, its liveness under `FairSpec` |
| `shutdown` | 2 tickers, 1 session, no faults | a counterexample to what `main.py:875` promises; see `findings` |

Bounds. Two creates are what replacement, adoption and double placement need: an
old order and its successor. Two contracts distinguish a partial fill from a full
one. One fault is a failed cancel, a lost fill or a failed pass, at any point; the
liveness runs need it to make strays at all. Three trades are the fewest that show a
sequence gap: one received, one lost, one that reveals it. They are of half a contract, so
that the residual carries; with whole contracts too the run takes too long, and what is said
of those is proved (`ContractsConserved`). `ConfirmLost` 2 over `ListDelay` 1 keeps
the code's ratio: more confirmations (3) than the listing needs to settle.
In the equity runs a dollar is four ticks and the mids are 1 and 3, so that a fill, a move
and a settlement each change the equity by another amount; the threshold is two ticks, one
move. Two starts carry a position over a restart; three are a crash, a clear and the
session after it. The process may stop for good, so deadlock is not checked there.
`lifecycle` and `repair_liveness` have one side; the theorems cover any set of sides, as the
sides meet only in the coroutine that serves them in turn.
A window of four ticks is the shortest with a tick in each phase (forming, quoted, pulled,
averaged); removal is two ticks after the close and a reconcile pass at most one late, so
that it fits between the two, as 300 s and the reconcile interval do. The TTL is two ticks,
as long as from the pull to the close: an order sent just before the pull, and then
forgotten, rests into the average and can be told from one sent after it. One fill on top of an
inherited contract exceeds what flat and held tell apart. Windows of a series share only the
loops, which handle a set at a time: one is checked, any number is proved about. The clock
stops at a horizon, where the loops go on; so deadlock is not checked.
In `session` two tickers are what an eviction, its replacement from the bench, and a dict
that changes while it is iterated need; one event is a fill, a failed call, a failed flush, a
dead task or a crash, at any point. A second session is checked with one ticker only, as the
tickers meet in the dict and not over restarts. The starts are bounded, so deadlock is not
checked. In `guard` the window holds three updates, which is a last mid, one to confirm and
one between, and the mids 0 to 3 with the threshold 1 contain a step, a gap of twice the
threshold and a slow move; the spreads scale the threshold to itself and to twice itself. In
`requote` orders of two show partial fills, and one fill on its way is heard before, during or
after any await. In `touch` two levels are a touch and a worse level; one
delta on its way already separates a fill from its delta and a create from its echo. The tilt is
a dollar there and never keeps a side out; `QuotesNeverLead` is proved for any. Two more
of anything there are beyond a few minutes.

Fairness (`FairSpec`): the reconcile task runs on a timer for ever and its calls are answered
(`reconcile_loop` catches every exception), the websocket delivers what it carries, the list
catches up. Nothing is assumed of the worker, of trades or of the TTL: the repairs must not need
them. In `FillStream` the loops of a process that is up run: the stream dials, receives (with a
timeout, so that it honours a request on a silent socket), discovery ends its passes and the
reconcile task is on its timer. In `WindowLifecycle` the clock reaches the horizon
(`TimePasses`: what `Tick` waits for happens; a call ends, served or not), `pull_loop`,
`settlement_poll` and the reconcile task go on for ever, on timers and catching what a call
raises, and Kalshi finalizes later than a second after the close and then pays. `Settle` is
strongly fair: answers fail now and then, not each time. In `Session` the main task goes on once
`stop_event` is set, the kill switch's cancel-all is answered or raises (the client's timeout),
and the reconcile task comes past every order again, on its timer; nothing is assumed of
workers, exchange or operator. In `Requote` and `JoinTouch` the worker goes round (`run` wakes
at least every minute), but does nothing while its book has no mid (`_requote` returns at
`marketmaker.py:520`: `sided` guards every cycle of `Requote`, `TwoSided` those of `JoinTouch`);
its calls are answered; in `Requote` the reconcile task ends a pause (the worker does so itself
after five minutes). The clock runs, the stream, one coroutine, delivers or reconnects; nothing
is assumed of fills, pulls, the guard, other traders or the TTL.

## Known limits of the code

What TLC refuted besides. Five of these contradict a comment or a document, and have a
configuration of their own beside the runs' (`tlc -config <cfg> <module>` shows the trace):

* `doc_no_double_place.cfg` (`OrderLifecycle`, `NeverDoublePlaces`): an adoption takes the
  remaining count of the listing after a fill whose message is still to come; the message then
  clears the reference while the order rests, and a second order is placed.
  `marketmaker.py:864` says "no double-place".
* `doc_clear_race.cfg` (`EquityChain`, `HaltIsJustified`): `halt-clear` run while the halted
  process is on its way down is overwritten by the final persist, and the next session halts on
  a loss already acknowledged. `deploy.md:182` says the command is safe while the bot runs.
* `doc_drift.cfg` (`FillStream`, `DriftBounded`): an adoption sets the truncated position and
  leaves the carried residual, so the position ends a whole contract off. `kalshi.py:701` says
  the drift is below one.
* `doc_valued.cfg` (`WindowLifecycle`, `ValuedOnce`): a window held over a restart is seeded at
  the start and again by discovery, and gets a second basis.
* `doc_average.cfg` (`WindowLifecycle`, `AlwaysQuiet`): on a one-sided book `_requote` returns
  before it looks at the pull, and the order rests into the averaging minute until its TTL.
  `fifteen.py:14` says quotes are pulled before it. (The property excepts failed and slow
  calls, so that it is the book's doing alone.)

Of orders and workers: a worker evicted or reaped while flat can be filled afterwards (a parked
create that landed, a fill racing the cancel) and nobody winds the position down (`caught` in
`Session`), although `_resolve_guard_trip` says it never abandons inventory; the orphan sweep may
cancel an order whose create is not answered yet, or one that is being adopted from a parked
create (`marketmaker.py:1002` says it does not); a create parked on an evicted worker is never
looked up; an order released while its last fill is under way is in neither term of the cap, so
the cap may be passed by the fills not heard of (`MaxUnheard` in `CapHeld`); an exit's size is
capped by the position before the cancel is awaited, so one that was filled in part meanwhile can
flip through flat, which `marketmaker.py:722` excludes; a lagging list makes a live order vanish;
the worker joins its own order for a moment, when a fill is heard of before its delta; and an
order alone at its level stays while the opposite book is empty, until its TTL.

Of the process: a create in flight when the tasks are cancelled may land after "shutdown clean";
a flush that fails after its events are off the queue keeps them in an open transaction, which a
crash loses, and with it an eviction from the penalty box; a promotion seeds from the positions
the start read, not from what is known since.

Of money: a crash between a raised high-water mark and its persist forgets it; a settlement
marked but not yet persisted into the chain is lost by a crash; a trade made while the process
was down is in the seeded position and, if Kalshi sends it again, applied on top of it; and a
market that was settled and paid while the bot was down never reaches the equity chain.

Of windows: an order whose cancel failed at the pull, or whose create was in doubt, rests into
the averaging minute until the reconcile task or its TTL takes it, and behind a cancel that
takes longer than the pull allows a create is sent after the pull (`QuietAverage` without its
exceptions, `SentBeforePull` without its own); `RealisedOnce` after a restart, since the
exchange still reports a position that was marked settled and the reconcile task adopts it;
`FrozenIsFlat` and `WindowsEnd` without `PayoutWaits`, since an early payout is adopted as 0
before the poll has asked, and the window is never realised; `WindowsEnd` if Kalshi finalizes
within a second of the close, since `settlement_poll` then evicts the worker before `pull_loop`
has queued it for removal (`fifteen.py:873`), and it stays in `workers`; and `FrozenIsFlat` if a
status answer may span the close together with an older positions answer.

## What is proved

For every set of sides and every value of the bounds (`SidesAssumption`,
`BoundsAssumption`):

* `TypesKept`, `RegistryExact`: `RegistryInv` is inductive. `TypeOK` alone is not: an
  answer to a cancel or a create acts on the order the coroutine held before the
  await, so `HandShape` records what that is, `RefShape` that a reference is to a
  landed order of its side with contracts left and nothing parked beside it, and
  `OrderShape` that an order that was never sent has no state. Each step of the proof
  is an action; `ReturnsKeeps`, `PlaceOrLeaveKeeps` and `PassiveKeeps` serve all the
  actions that return from `_reconcile`, send an order, or touch neither.
* `NothingStrays`, `VanishSound`, `SingleQuoteImplemented`, under `Consistent`
  (`~ListLag`, `WsFirst`, `ListDelay < ConfirmLost`): `StrayInv` adds `CountsCover` (a
  tracked count covers what rests and the fills on their way, so a fill clears a
  reference only when the order is done), `Superseded` (an order about to lose its
  reference is dead or leaked), `LookupsSettle` (empty lookups are counted no faster
  than the listing settles) and `PassSound` (missing from both listings means gone).
  `OneHolder` then leaves each side one order, and `ImplementsNext` maps every step to
  a `Send`, a `Finish` or a stutter.

The assumptions are not decoration: `doc_no_double_place.cfg` is what happens without
`WsFirst`, and without `~ListLag` a live order may vanish.

For every price set, threshold and bound of `EquityChain`:

* `EquityTypesKept`; its lemmas (`SeededType` ... `SettledType`, `ValueInt`) say what the
  operations of the risk manager return.
* `HaltJustified`, `ReferencePersists`, assuming `~ClearWhileRunning`: `ReferenceInv` says
  that nothing on disk or in memory is above the history's peak (`PeakCovers`), that a
  session's high-water mark is never below the row on disk, and where the loop may be
  (`LoopAsleep`, `ClearAlone`). It must talk about `kvPnl` too: a crash before the first
  persist leaves no `high_water` row, and the next start takes `kvPnl` for it. Without the
  assumption `doc_clear_race.cfg` refutes it. `PeakAlwaysFlagged` rests on the same
  invariant: a peak in memory is above the row only while it is flagged.
* `EquityExact`, assuming `Exact` (mids logged, no early payout, no crash): `Level` is the
  equity the next session will see, computed from the account and the newest mid that is
  or will be logged; `Asleep` keeps the persisted row at it, `Books` keeps position and
  cash of the session consistent with it, `Leaving` carries it through the shutdown. Each
  conjunct of `Exact` is needed: after an early payout the
  last repricing is lost; without logged mids a position
  is seeded at an older mark than it was persisted at, and a crash may fall between the
  settled marker and the chain.

For every unit, trade size and bound of `FillStream`:

* `NeverAppliedTwice`, `ContractsConserved`: `StreamInv` says that whoever is applied under
  its id is in the table and the table is in `seen` (`Logged`), that a Kalshi that replays
  nothing has only unseen, distinct trades on the wire (`Fresh`), and that with whole
  contracts the residual is 0 (`Numbered`), so a redelivered fill changes nothing before
  its id is looked at. `TruncBounds` is what `int()` and the residue do to any number.

For any number of windows, any times in the order `WindowAssumption` gives them, and any
bound on fills, losses and upsets of `WindowLifecycle`:

* `WindowTypesKept`, `ContractsBookedOnce`, `PositionsRealisedOnce`, `AverageIsQuiet`,
  `PullsAreObeyed`, `NothingSentLate`, `SettledStaysOut`. `WindowInv` is inductive: `Dormant`
  and `Roster` say which window may be in which of the loops' sets, and that what is settled,
  final or queued for removal has closed; `Untouched` that a window nobody joined is flat
  everywhere, also in the positions `run_fifteen` read at its start, from which discovery seeds
  it; `Settlement` that what was realised is settled and what is asked about is not yet
  realised, which is why adoption after a settlement cannot realise again. `OnlyWorkers` follows
  an order through the awaits, whatever becomes of the calls: one that rests with no call under
  way is tracked or parked, and a create is under way only up to the pull, or behind a slow
  call. `CallOutcome` says once what the end of a call, served or not, may change; `CallEffect`
  and `SentKept` carry `SentBeforePull` through it, for strays as for tracked orders.
  `Withdrawing` adds, for an undisturbed window, that a worker that may not quote is awake or
  about to cancel, and `Prompt` and `CallsEnd` let no tick pass while it is. The order of the
  four times (`AverageBefore < PullBefore`) then gives `QuietAverage`.
* `FrozenWindowsFlat`, assuming `PayoutWaits`: `Ended` says that a closed window trades no
  more, so every positions answer fetched since the close is right until the payout, and
  that an adoption since the close has made the local position right. `ReconcileEvery <
  Grace` puts one between the close and the removal.

For any tickers, modes and bounds of `Session`:

* `HaltHoldsAlways`: `MarkerSeen` says that a marker beside a running session finds its kill
  switch tripped, and one left on disk keeps the next session from leaving the ground.
* `ShutdownCleanAlways`: `Covered` says that an order of the session that rests or may land is
  on a ticker whose worker is still in the dict, or whose window has closed, where none rests
  (`OpenOnly`). `NamedBefore` (no order bears a session to come), `NoCrewYet` and `InTheDict`
  (a worker leaves the dict only between two calls) carry it through starts and removals. So the
  second listing misses none.
* `EvictedStaysOutAlways`: `Screened` says that picks and bench have no event of an eviction,
  `Apart` that a market is picked, on the bench or quoted, one of the three, `NoBench` that
  fifteen mode has neither, and `Landed` that between two sessions an event is in the table or
  lost. An eviction of the running session keeps the market in the dict, where neither the
  bench nor discovery puts it again.
* `NeverAbandonedAlways`: from `OutIsOver` (in fifteen mode only closed windows' workers are
  out) and what is known when a worker goes out.
* `TypeCorrect`; each invariant is a lemma with one step per action, and the theorems combine
  them.

For every cap, every quote size up to it (`Fits`) and any number of fills not heard of in
`Requote`:

* `CapHeldAlways`, `RequoteTypesKept`: `CapInv` is inductive, whatever the book, the pauses and
  the expiries do. `Headroom` is a potential of
  each side: the position as the worker knows it and all that may still be added to it there
  (what rests, what was sent and has not landed, the fills on their way) are within the cap
  and the bound on fills not heard of. No fill and no message moves it up, since a contract
  only goes from one term to the next; only a create does, and `Covers` says that
  `approve_order` is then asked of a side on which nothing rests, so that all it cannot see
  is the fills of orders already released. They are the `MaxUnheard` of `CapHeld`.
  `Balance` says that position and fills on their way are what the account holds. `Fits` is
  needed where an order that reduces the position is approved without a look at the cap: one
  larger than the cap could take the account past it on the other side.

For any set of levels, any cap and tilt and any number of deltas on their way in `JoinTouch`:

* `BestAlwaysExact`, `AlwaysCatchesUp`, `TouchTypesKept`: `apply_delta` cuts a quantity off at
  zero, so the sum of the deltas on their way says nothing of what they leave. `Replays`
  instead has the books the stream goes through, one per delta, from the local one to the
  exchange's, all in range: then nothing is ever cut off, and `AppliedExact` keeps the best
  level, in each of the four cases of the code. `Known` says that the worker's order is
  where it thinks, so that what it places is one change of the book.
* `QuotesNeverLead` joins the three: on a told book, what the worker sees without its order
  (`OthersShown`) is what others quote, less one contract at most where it has not heard the
  end of an order; so the best of it is not above the touch.

For any mids, spreads, thresholds, confirmations and times of `FastMove` with a cool-off longer
than the window:

* `ThresholdExact`: `GuardInv` has the monotonic deque's invariant in three parts. `Aged`: both
  sequences age from the front, so what `Live` drops is a prefix of each. `Rising`: the deque
  gets strictly wider towards its back, so what `_push_spread` pops is a suffix
  (`NarrowerIsPrefix`). `Covers`: each entry of the deque is one of the history, and each of the
  history has one in the deque that is no older and no wider. `LiveCovers` and `PushKeeps` carry
  the three through the two ends of an update, `TickKeeps` through time, and `FrontIsLeast` is
  what they are for. `CoversLength` bounds the deque by the history (`GuardTypesKept`).
* `GapsAlwaysBlock`: `GapBlocks` says nothing of time and is not inductive. `GapsCovered` is: the
  time left to block is at least the cool-off less the age of any gap that still counts. The
  worker and the pending candidate do not enter into it; the shock branch before them does.
* `BreakerImplemented`: an update opens the breaker or is not seen by it
  (`UpdateOpens`), time closes it, a pass of the worker scores a closed episode or is not seen by
  it (`RequoteOutcomes`). It needs the invariant, for what `Context` is.

Model-checked only: the liveness properties (fairness and ENABLED are out of the prover's
reach), `UnwantedGoes` and `AloneIsBrief` among them. Every invariant, action property and
refinement a run checks is proved.

## Not modelled

* `TokenBucket` (it only delays calls, which every module lets be late), the sweep detector and
  the gate's cool-off (a pull at any time in `OrderLifecycle` and `Requote`), `SideTripwire` (a
  side without a price at any time in `Requote`).
* The notional caps of `approve_order`, which sum over markets and only refuse more; foreign
  orders on the account; the wind-down workers of fifteen mode for positions outside its series.
* Pure functions of decimals: `compute_fee`, the prices of `compute_quotes`, `apply_join_best`,
  selector and health scores.
* `src/research/daily_review.py`, `arb_scan3.py`, `analyze.py`, `crossvenue.py`: reports and
  read-only monitors; nothing acts on what they compute.
* Request signing, HTTP, paging, the JSONL mirror and pruning, configuration, the CLI, dry runs.

What a continuation would take first: the sweep detector over several tickers; the tripwire's
sample arithmetic.
