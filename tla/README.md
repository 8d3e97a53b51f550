# Formal verification of the hedge bot

This directory holds TLA+ models of the program in `src/` (AutoMoney: a
delta-neutral hedge of a Beefy CLM position with perpetual shorts), the TLC
configurations that check them on small instances, and proofs checked by TLAPS.
Paths below are relative to `src/`.

## 1. The system

The program is one asyncio process. Nothing runs in parallel, but every `await`
is a point where another coroutine, a WebSocket message or a web request may
run, and the exchange, the chain and the vault move on their own. The process may
die at any time; what survives is a SQLite database, the chain and the exchange.

```
 web panel ── requests ──> engine (start/stop/hedge) ──> OperationLifecycle
     │                        │  main loop 1 s              │        │
   StateHub <─────────────────┤  grid event loop 100 ms     │        │
 (in memory)                  │  audit 90 s                 │        │
                              ▼                             ▼        ▼
                        LighterAdapter                  SQLite    ChainExecutors
                  pump, reconciler 5 s, pollers 60 s   (db.py)    (vault, swaps)
                              │                                      │
                          exchange                                 chain
```

### Components, their state and what makes them correct

| Component (source) | State | Operations | Hard behaviour | Correct when | Module |
|---|---|---|---|---|---|
| Position truth: `exchanges/lighter.py`, drift decisions in `engine/__init__.py` | two estimates of the short (`_observed_*`, `_expected_short_size`), last order stamp | place an IOC order with retries, merge account messages, reconcile, reconnect | messages lag, drop flat positions; answers are lost; the reconciler awaits HTTP while orders are placed | no short is read too small and sold twice; estimates converge | `PositionTruth` |
| Event-driven grid: `engine/__init__.py`, `engine/grid_state.py`, teardown of `engine/lifecycle.py` | `_local_grid`, `_last_known_position`, signature; live stops at the exchange; rows of `grid_orders` | post the grid, detect fills, replace stops, audit, tear down | two loops share the grid without a lock; any request may fail; several stops fire at once; a stop request runs beside the loops, one of which does not know of it | only real fills are replaced; the grid is no larger than allowed; memory and exchange agree in the end; a closed operation leaves nothing behind | `EventGrid`, `GridTeardown` |
| Operation lifecycle: `engine/lifecycle.py`, `engine/__init__.py`, `db.py`, `app.py` | rows (`status`, `bootstrap_state`), `StateHub`, vault shares | start, hedge-existing, stop, legacy stop, recover, withdraw part, resume, restore | about 15 database writes and chain calls in sequence, each of which may raise; crash between any two | hub mirrors table; ACTIVE means deposited; CLOSED means withdrawn; nothing is left half way | `Lifecycle`, `OperationStatus` |
| Perp legs of an operation: `engine/lifecycle.py`, order lock of `exchanges/lighter.py`, `engine/__init__.py` | orders under way, positions, what was opened | open (parallel or one by one), undo, close, drift trade | `asyncio.gather` leaves children running; the stop reads a lagging view; the main loop acts on a state it read earlier | ACTIVE means answered; failed hedges undone; CLOSED means flat | `HedgeLegs` |
| Funding accumulator: `engine/__init__.py`, `exchanges/lighter.py`, `db.py` | persisted sum, in-memory set of counted ids | poll, callback, new operation, restart | two pollers (connect() runs twice) in one callback with three awaits; write may fail; the set is lost on restart | a payment counts once and finally arrives | `FundingAccumulator` |
| Operations database: `db.py` | `operations`, `grid_orders`, `config` tables | insert, two kinds of update, close, two queries | no transaction spans two of these | a row's status moves along the declared machine | in `Lifecycle`, `OperationStatus`, `FundingAccumulator`, `GridTeardown`, `VaultReaders` |
| State hub: `state.py` | current operation and state; PnL breakdown; display values | assignments | lost at a crash | mirrors the table | in `Lifecycle`, `FundingAccumulator`, `GridTeardown`, `OperatorView` |
| Startup and shutdown: `app.py`, `run*.py`, `engine.start` | – | resume, restore, cancel leftovers, connect | runs after any crash | see the modules | all |
| On-chain executors: `chains/*executor.py` | nonce at the node | deposit, withdraw, swap | calls overlap and share nonces; a call raises before, after or without being mined; the pool is not calm; crash while waiting | an effect at most once, an answer only with an effect, a row that is never left half way | `ChainTx`, `CallOnce`; what it leaves in the vault in `Lifecycle` |
| Hedge model cache: `engine/hedge_model.py`, `chains/v3_position.py` | cached range and liquidity, pending flag | refresh, verify | refreshes that nobody awaits overlap; a read is torn by a move of the vault; the pair is switched under them | the cache is of the pair in use, and it and the grid catch up with the vault | `HedgeModelCache` |
| Legacy reconciler: `engine/reconciler.py` | – | compare database and exchange | two snapshots taken at different times | no live order is written off | planned |
| Margin and alerts: `engine/margin.py`, `web/alerts.py` | last alert level | check, post | the level is set after an await, also when the post failed; collateral, shorts and prices come in messages of their own; passes end early | the level the account stays at was told | `OperatorView` |
| Grid curve and LP mathematics: `engine/curve.py`, `grid.py`, `lp_math.py` | none | pure functions | real arithmetic | – | level selection only, in `EventGrid` |
| PnL: `engine/pnl.py`, `get_*_since` of the adapter | a 30 s cache in the adapter; the window in the row | pure functions; change the window | the cache does not know its window; sums fall back to others; a pass writes after the operation has ended | what is shown ends up as hedge and funding of the same, current window | `OperatorView` (windows only) |
| Pair picker: `engine/pair_factory.py`, `pair_resolver.py`, `chains/beefy_api.py`, `stables.py`, `_refresh_vault_readers` | selected pair; readers, settings, markets and model of the engine | select, rebuild | selecting during an operation; main loop and dashboard rebuild at once; requests fail | the last selection wins; model, markets and readers are of one vault | `VaultReaders` |
| Web panel: `web/` | none of its own | requests | requests overlap | – | its requests start actions of `Lifecycle`, `HedgeLegs`, `GridTeardown`, `VaultReaders`, `OperatorView` |
| dYdX adapter, other chain readers, backtest, scripts, configuration, metrics | – | I/O, parsing, offline tools | – | – | not modelled |

`PROJECT.json` lists the same components with their sources, and the hazards of
this code at their lines with the property that would catch each one.

## 2. The modules

Every module is written from the code; a comment at its head says what it leaves
out. An action is the code from one `await` to the next (`EventGrid`,
`FundingAccumulator`, `Lifecycle`) or one step whose inside cannot interleave with
what the module is about. Operators marked *(Variant: ...)* are not used by any
specification: each one is a plausible slip in the operator next to it
(a dropped guard, a wrong order), and the property it is paired with has been
seen to fail when it takes that operator's place. They show that the property can
tell right from wrong.

### `PositionTruth` – one perp leg

State: the short at the exchange and what the adapter believes of it (`observed`,
`expected`, `tracked`, `lastFire`), the engine's place in an iteration, the
reconciler's place in a pass. The actions follow the code: `ReadState`,
`Skip`/`Decide` (both settings of `predictive_grid_v2`), `CreateOrder` .. `Stamp`
.. `Verified` (`_place_long_term_order_unlocked`), `WsUpdate` (`_on_account_update`
with its defensive merge), `Scan`, `CatchUp`, `Query`, `HttpAnswer`, `Pin`
(`_reconcile_once`; the HTTP answer is produced while orders go on being placed),
`WsReconnect`, `Restart`. The environment fills or kills accepted orders
(`Match`), fires a resting stop (`StopFill`), drops messages.
Assumed: sizes are whole market steps; an accepted IOC order settles before
`_verify_fill` gives up (2 s) and before the 10 s time-out; and the HTTP answer of
the exchange, if there is one, is well formed and true (`HttpAnswer`): an answer
without an account or with a size that cannot be parsed would be pinned as 0 (see
"Met while modelling"). Nothing else is assumed about delays.

### `EventGrid` – the grid of stop orders

The main loop `M` and the event loop `E` with the audit are two program counters
over one grid, interleaved at every await, with the exchange's book, the market as
an integer gap between levels, and the range of the hedge cache, which may change
at any time. Any request may fail, a stop may be silently rejected, the process may
restart. Sizes are one. `_on_grid_fill` (a cosmetic log) and the range check of
single levels are left out.

### `GridTeardown` – the grid and the end of its operation

Composes `EventGrid`, whose actions it uses as they are, with `teardown`: `TBegin` ..
`TEnd` run between any two steps of the loops. What the three share is
`operation_state` (the main loop looks at it once a pass; `late` is what a pass that
looked in time may still begin), the rows of `grid_orders` (`PlacedWithRow`,
`ClearWithRows`, `TRead`, `TMark`) and the position. The event loop and the audit do
not ask what the operation does and go on; `Start` begins the next operation and leaves
the grid alone, as `bootstrap` does. `cancel_long_term_order` sends the client's index
where the exchange may want its own and swallows the refusal: `missed` says that the
cancels of a teardown find no order.

### `OperationStates`, `OperationStatus`, `Lifecycle` – operations

`OperationStatus` is the abstract specification: a status moves along declared
transitions and an operation begins only when none is live. `Lifecycle` is the
code: rows with status and stage, hub, vault shares, one coroutine per request, and
as many requests at once as `Tasks`, for the web layer locks none against another.
`CommonSteps`, `SingleSteps` and `DualSteps` are the stages the coroutines write
(`bootstrap`, `teardown`, and their dual-leg forms), `Calls` how many awaits lie
at each; every call may raise, and status and stage are written one after the
other, in the order the code has. `Crash` at any moment; `Scan`, `ResumeStage`,
`ResumeStatus`, `Resumed`, `Restore` are the startup of `app.py` and
`engine.start`. Where requests write in the middle of one another the code does let hub,
table and vault part; four history variables, which occur in no guard, name the coroutines
it happened to, and the properties except those and no other: `disturbed` (another one wrote
the table or the hub since this one first looked at it), `parted` (there was such a one
since the hub was last restored), `emptied` (a start in whose time the vault was emptied) and
`filled` (a teardown in whose time shares entered it). `OperationStatus` knows of the first
by its variables `contended` and `late`.
Left out: the legacy start path, cashout (touches neither rows nor shares),
transactions mined long after their call gave up, and a pair selected during an
operation (`dual` is fixed in a behaviour). Database writes do not raise; the
crash covers a write that does not happen.

### `HedgeLegs` – the shorts of an operation

Who sends orders through `_order_lock`, in which order, and what is left running:
`Gather` (both children queue, the request awaits both), `OpenNext`/`Undo`
(hedge-existing, one by one, with clean-up), `CloseLegs` (reads the raw view),
`LoopRead`/`LoopFire` (the main loop, which looks at the hub once and trades several
awaits later), `Place` (filled; accepted and unfilled; refused; filled with the answer
lost), `Returned`/`Raised` (what the awaiting coroutine does; an exception leaves
the siblings in the queue), `Message`/`Reconcile`, `Crash`.
Left out: fills of resting grid stops, recover and partial withdrawal. Requests
come one at a time; a partial fill is an unfilled one; the main loop's estimate is
the larger of what was shown and what is open (the conclusion of `PositionTruth`,
without its corner cases).

### `FundingAccumulator`

Pollers, the callback cut at its three awaits, the in-memory set and the
persisted sum, operations that start and end, failing fetches, reads and writes,
restart. Entries are numbered in time order and counted, not summed. No page is
fetched between a row's `started_at` and the hub update; a write that fails after
having been applied is left out.

### `VaultReaders` – following the pair picker

`_refresh_vault_readers` cut at its awaits, run by any number of coroutines on one
engine (the main loop in every pass, the dashboard's `GET /curve`): `Outdated` (the
selected vault against the key), `Built` (readers, settings, key and funding markets,
without an await in between because the Lighter adapter answers `get_market_meta` from
memory), `Modelled` or `ModelFails` (after the chain has told the strategy). A hedge
model is a pair of the vaults its strategy and its pool are of.

### `HedgeModelCache` – the cache of the vault's positions

Extends `VaultReaders` with the main loop as its only refresher. `refresh_cache` is a
task: `ReadRange`, `ReadLiquidity` and `ReadAlt` are its requests, `Complete` stores, and
any number of tasks overlap. A pass of the main loop begins (`PassBegins`), reads the
vault (`ReadChain`), may end early, and otherwise starts a refresh if one is due,
verifies, and hands the cached range to the grid (`HedgeStep`). A position is the number
of the last move of its vault; amounts that differ by more than the threshold are
different numbers. A new model starts with an empty cache; the tasks of the old one
write into an object that is no longer referenced (`Orphaned`).

### `CallOnce`, `ChainTx` – on-chain calls

`CallOnce` is what the lifecycle may take a call for: at most one effect, an answer only
after it, and a raise that says nothing. `ChainTx` is the code: the row's `*_pending`
(`Begin`), the calm check with the code's number of tries (`Calm`, `Waits`), `GetNonce`,
`Send` or `SendAnswerLost`, the receipt (`Confirmed`, `Reverts`, `TimesOut`), the row after
it (`Record`), and `Crash`/`Resume`. The node accepts a transaction for an unused nonce or in
place of one that pays less, the chain executes nonces in order, and a transaction may
be evicted or never be executed.

### `OperatorView` – PnL and alerts

The tail of a pass of the main loop, cut at its awaits: `RowRead`, the hedge's sum (from
the 30 s cache, from the exchange, or the process's own), funding, `Publish`,
`CheckMargin`, the webhook. A sum is represented by the time it counts from. Next to it
the operator changes the window, the operation stops and another begins, the margin's
level and the range move, the process restarts. A pass that ends early (out of range, no
operation, not ACTIVE) checks no margin. A margin ratio is represented by its level, and
`Measured` says which one a pass reads: a short nobody told of is None and a book without a
price gives 0.0, so that such a leg requires nothing, and nothing required is healthy;
collateral nobody told of is 0.0, so that whatever is required is an emergency. Before the first
message of all the account is thus healthy, with a short and a price but no collateral it is
an emergency, and with one of two legs it is better than it should be. `balance` and `counted`
are what the messages have told; a book may run empty again (`LegLost`). A webhook is assumed to
be configured.

### How they fit together

`Lifecycle` is about the table and the vault and takes a short as one call that
returns or raises; `HedgeLegs` opens that call for the table's statuses alone;
`PositionTruth` opens a single order and a single pair of estimates. `EventGrid` runs
while an operation is active, and `GridTeardown` puts the end of the operation beside it.
`Lifecycle`'s chain calls are `ChainTx`'s; `EventGrid` takes the cached range as an input
that may change at any time, `HedgeModelCache` says when it does, and `VaultReaders` whose
range it is. `OperatorView` only reads what the others write. The modules share code
regions only at these seams.

## 3. What the runs check

| Run | Instance | Shows |
|---|---|---|
| `truth` | targets {0,2,4}, drift threshold 2, tolerance 1, 2 attempts, 2 orders, 1 fault | types; `ShortNeverUnderread`, `NoOverHedge`: a bot that only sold on estimates it did not lose never over-hedges; `OneOrderPerDecision`; `TruthConverges` |
| `grid` | 2 ranges, 2 stops a side, 2 events | `FillsAreReal`; `KeptBounded`; `TrackingConverges` |
| `grid_teardown` | 2 ranges, 2 stops a side, 1 event, 2 further operations | types (of `EventGrid`, too); `RowedStopsGone`; `TableIsClean` |
| `grid_teardown_leftover` | the same | **violation** of `ClosedLeavesNoStop`: a teardown whose every request is answered leaves live stops behind, against the docstring of `teardown` |
| `lifecycle` | 2 requests beside each other, 2 operations, 2 crashes, vault of 2, single and dual leg | types; `HubMirrorsRow`; `ActivatedOnDeposit`; `ClosedIsWithdrawn`; `TableIsOrderly` (refinement of `OperationStatus`); `Settles` |
| `hedge_legs` | 2 legs of size 0 or 1, 2 operations, 2 drifts, 1 fault, 1 crash | types; `ActiveIsAnswered`; `LeftBehindIsFailed`; `FailedHedgeUndone`; `LoopLetsGo`; `ClosedIsFlatAsSeen`; `RequestsEnd` |
| `hedge_closed` | 1 operation, no fault | **violation** of `ClosedIsFlat`: a stop before the account message of the opening fills closes nothing and marks the operation CLOSED |
| `funding` | 2 pollers, 2 entries, 2 operations, 2 faults, 1 restart | types; `CountedOncePerRun`; `FundingArrives` |
| `vault_readers` | 3 vaults, main loop and dashboard, 3 selections, 2 faults | `ModelOfReaders`; `LegsFollow`; `ReadersSettle` |
| `model_cache` | 2 vaults, 2 refreshes at once, 1 selection, 1 move, 1 fault | types (of `VaultReaders`, too); `CacheOfReaders`; `CatchesUp` |
| `chain_tx` | a swap and a deposit, 4 tries, 3 fees, 2 faults, 2 crashes | types; `FailedIsUndone`; `OnceSpec` (refinement of `CallOnce`); `RowsSettle` |
| `operator_view` | 2 operations, 2 legs, 2 levels and healthy, 1 picked window, 3 events (windows picked, moves, failures, restarts) | types; `AlertsArrive`; `ViewSettles` |

The violation runs check one claim a document or comment makes; `PROJECT.json`
quotes it in `findings`.

### Known divergences

Further claims of documents and comments are stated in the modules and not kept by the
code. They are not part of the runs above; adding one to the INVARIANTS (for
`NoFireWhenHedged`, `ClosedIsSeen` and `LeftoversRecovered`, the PROPERTIES) of the named
configuration, with the constants changed as the table says, makes TLC show how.

| Property | Configuration | The code | The claim |
|---|---|---|---|
| `NoFireWhenHedged` | `PositionTruth.cfg` with `MaxFires = 3`, `MaxFaults = 0` | after a filled cover the observed size, which lags, is the larger estimate: the engine covers again and goes long | `engine/__init__.py:2079` "drift goes to 0 right after a successful fire, so re-fire is impossible during WS lag" |
| `ClosedIsSeen` | `PositionTruth.cfg` | a flat position is absent from the message, the merge keeps the old size, and the reconciler visits only markets whose estimates differ: a close by a stop or by hand is masked for ever | `exchanges/lighter.py:543` "so this only DEFERS clearing" |
| `NoOrphan` | `EventGrid.cfg` | of two stops that fired in one iteration the second retires the replacement the first has just posted; its cancel is skipped, the order stays. | docstring `engine/__init__.py:1603` |
| `LiveBounded` | `EventGrid.cfg` with `Bounds <- MCWideBounds` | `_post_initial_grid` posts the sells below the market and the buys above it, so that `lowest_buy` of the second fill is the buy the first one has just posted; its cancel is skipped, and the exchange holds more orders than `max_open_orders`, no request having failed | `web/templates/partials/settings.html:26` "Máximo open orders na exchange"; `docs/superpowers/specs/2026-05-15-event-driven-grid-design.md:158` "assert 6 writes (2 cancels + 4 posts)"; `engine/grid_state.py:20` "farthest from market below" |
| `LeftoversRecovered` | `EventGrid.cfg` | the numbering of stops restarts at 1, leftovers share cloids with new stops, the audit compares cloids | `engine/__init__.py:758` "`_safety_reconcile` (90s cadence) adopts whatever survives" |
| `OneLiveOperation` | `Lifecycle.cfg` | check and insert are several awaits apart, without a lock | `docs/superpowers/specs/2026-04-27-operation-lifecycle-design.md:34`: one active operation at a time |
| `CountedOnce` | `FundingAccumulator.cfg` | the set of counted payments is lost at a restart, the sum is not: payments are added again | `docs/superpowers/specs/2026-05-08-pnl-funding-accumulator-design.md:101` "acceptable because backfill at startup re-syncs" |
| `UnknownIsNoAlarm` | `OperatorView.cfg` | the margin check takes collateral of 0.0 as it is: with a short and a price, before a message has told the collateral, it posts an emergency | `exchanges/lighter.py:1493` "callers should treat 0 as 'unknown' (the engine already does)" |
| `ModelFollowsReaders` | `VaultReaders.cfg` | the slower of two refreshes builds a model of one vault's strategy and the other's pool, and the key says that all is up to date | comment `engine/__init__.py:935` |

Met while modelling, without a property of their own:
- the hash of a transaction is written only with the `*_confirmed` stage, so the branches of
  `resume_in_flight` that wait for a receipt (`engine/lifecycle.py:1953-1964`) are never taken,
  although its docstring and `docs/superpowers/specs/2026-04-29-onchain-execution-design.md:286`
  describe them; a call that is mined after a crash belongs to a FAILED row;
- a webhook post that failed still sets `_last_alert_level`: that alert is not repeated
  (`AlertsArrive` exempts it). The level is not reset between operations. While a short or
  a price is missing the margin reads healthy, however it is, and no alert goes out;
- `_fetch_short_size_via_http` answers 0.0, and not None, for an answer without an account
  and for a size that cannot be parsed (`exchanges/lighter.py:1285`, `1300`), although its
  docstring promises "None on HTTP/parse error"; `_reconcile_once` would pin that into both
  estimates. `PositionTruth` assumes that the exchange does not answer so;
- an error that both estimates share is not looked at by the reconciler: an order the server
  took although `create_order` raised, and a close masked by the merge (`TruthConverges`
  exempts both as external moves);
- margin is not looked at while the price is out of the position's range, nor for a FAILED or
  STOPPING operation; a pass that was under way writes the breakdown back after `teardown` has
  cleared it, and nothing clears it before the next operation;
- a hedge model that could not be built is not tried again until another pair is selected,
  which is the exception in `CatchesUp`; the grid rests until then;
- after a switch from a cross pair to a single one `_token1_mid` keeps the old market; a pass
  that was under way computes with old amounts and new symbols; the old pair's stops stay;
- `_posted_grid_signature` survives a teardown: the next operation in the same range gets no
  initial grid.

### Conditions in the properties

Some properties are conditional because the code promises no more; the
conditions are history variables, so that they say *when* and not *whether*.
- `ShortNeverUnderread` and `NoOverHedge`: no cover was decided, and the short
  moved only by stamped orders. `eroded` counts the credit that catch-up pins give
  away within their tolerance; it is part of the bound, and the code does lose it.
- `FillsAreReal`: the exchange told the truth, the process did not restart and the two loops
  did not overlap; `KeptBounded`: no request failed and they did not overlap. With an overlap the code does replace stops that never fired;
  `TrackingConverges` has no such condition.
- `FailedHedgeUndone` and `ClosedIsFlatAsSeen`: not on a leg where an accepted order
  did not fill, an answer was lost or, for the stop, the leg was not seen as it was.
  `ClosedIsFlat`, without the condition, is the `hedge_closed` run.
- `RowedStopsGone` and `ClosedLeavesNoStop`: no request failed, the cancels found their orders,
  and no pass of the main loop was under way when the stop began (`raced`); `TableIsClean`
  needs only the last.
- `ModelOfReaders`: no refresh replaced the readers while another waited for a strategy
  (`crossed`). `ReadersSettle` has no such condition. `LegsFollow`: no market was missing.
- `FailedIsUndone`: the call was not between sending and receipt when it raised or died
  (`unseen`). There nothing is known, and `OnceSpec` is all that holds.
- `HubMirrorsRow`: no request wrote in the middle of another since the last restore (`parted`).
  `ActivatedOnDeposit`: the vault was not emptied since the start came (`emptied`).
  `ClosedIsWithdrawn`: no shares came in since the teardown began (`filled`), and the legacy
  stop was not overtaken. `TableIsOrderly`: the row of a coroutine another one has overtaken may
  move any way (`contended`), and only such a one may insert a second live row (`late`).
  Requests that overlap without writing in between are held to all of it, and crashes
  and raises excuse nothing.
- `AlertsArrive`: collateral, shorts and prices have been told and stay so (`Measurable`). What
  was read before, wrong as it may be, excuses nothing; a post that was lost does.
- `CatchesUp` and `AlertsArrive`, `ViewSettles` presuppose that the passes of the main loop come
  as far as the code in question again and again: an operation that stays ACTIVE and in range.
- `CountedOncePerRun` speaks of the latest operation; one more count per restart.
- `TableIsOrderly` allows two moves the declared machine lacks (a start cut short by
  a crash is stopped from STARTING; a close cut short between its two writes turns
  from CLOSED into FAILED at the next start).

### Bounds, and why they are enough

`MaxFires`, `MaxFaults`, `MaxEvents`, `MaxReads`, `MaxOps`, `MaxCrashes`, `MaxStops`,
`MaxSelects`, `MaxMoves`, `MaxRestarts`, `MaxOverlaps`, `Entries`, the fees of `ChainTx` and the tasks at one
time of `HedgeModelCache` bound what happens from outside, never how the code reacts: retries, awaits
and reconciler passes are unbounded or have the code's own bound. Every hazard listed
takes at most two such events (an order and a fault, two crossings, a
failed call and a crash, a payment and a restart), and two orders, two stops a side,
two legs, two pollers, two refreshes, two calls are the smallest numbers at which an order, a
sibling or a competitor exists; an older answer that overwrites a newer one takes two tasks
and one move, a crossed refresh two coroutines and two selections, two calls that fight for
one nonce three fees (one is replaced, and replaces again). `Lifecycle`, `HedgeLegs`,
`FundingAccumulator` and `HedgeModelCache` check deadlock; the others are run without: when the
budget of events is spent, or every call has ended, nothing more has to happen.

### Fairness, and why the code justifies it

- `PositionTruth`: weak fairness of the placement, the exchange, the reconciler, the
  message pump and the time-out. They are loops that catch their exceptions and
  sleep a fixed time; the server answers or the call times out. The engine's
  decisions need no fairness.
- `EventGrid`: both loops, the account messages and the audit timer. Both loops catch
  every exception and go on.
- `Lifecycle`: a coroutine that can go on does, a process that starts up goes on. No
  request has to arrive.
- `HedgeLegs`: a request that can go on does, and the adapter gives every order an
  end (bounded retries, bounded wait for the fill).
- `FundingAccumulator`: pollers poll, market ids get resolved. Failures are bounded by
  `MaxFaults`, so that a retry finally succeeds.

- `GridTeardown`: none, its properties are about safety.
- `VaultReaders`: the main loop comes back every second; a request that was sent is answered
  or raises. The dashboard need not ask.
- `HedgeModelCache`: the same, and each task goes on.
- `ChainTx`: a request to the node is answered or raises, a sleep and the wait for a receipt end
  (180 s), and the process is started again. Nothing makes the chain execute a transaction.
- `OperatorView`: the main loop comes round, and the cache ages. Account and book messages are not fair.

Nothing is assumed fair about markets, users, faults or crashes.

## 4. What is proved

For every value of the constants, under the named assumptions of the modules
(finite bounds are natural numbers, targets are sizes), which TLC also evaluates
in each run.

**`PositionTruthProofs`**: `TypeCorrect`, `SingleOrder`, `NeverUnderread`,
`NeverOverHedged`. Neither of the last two is inductive. The invariant is
`IInv == TypeOK /\ OrderInv /\ ClockInv /\ CreditInv /\ TargetInv`:
- `OrderInv`: an order under way belongs to the placement that sent it;
- `ClockInv`: an HTTP answer that may still be pinned is newer than every settled
  stamp. It carries the whole argument about the reconciler: `_reconcile_once`
  re-reads the stamp after its await, and no order can hide in that gap;
- `CreditInv`: what the estimate lacks of the short is in the hands of the order
  being placed, or was given away by a catch-up pin;
- `TargetInv`: an order being placed ends at its target.

**`FundingAccumulatorProofs`**: `TypeCorrect`, `OncePerRun`, from
`IInv == TypeOK /\ OwnerInv /\ CountInv`. `OwnerInv` says that a callback between its
awaits works for the latest operation, to which the set then belongs, or on an
entry older than that operation; `CountInv` that an entry the set does not hold was
not added in this run, that one whose write is awaited was not either, and that no two
writes of it are awaited. The code's marking of an entry *before* the awaited
write is what makes the last part hold for any number of pollers.

**`HedgeLegsProofs`**: `TypeCorrect`, `LeftBehind`, `LetsGo`, `Answered`, `Undone`,
`FlatAsSeen`, which is every safety property of `HedgeLegs` that its run checks, for
any number of legs, operations, drifts, faults and crashes. The invariant is `IInv ==
TypeOK /\ PcInv /\ QueueInv /\ LoopInv /\ FlatInv /\ AnswerInv /\ UndoInv`:
- `PcInv`: where a request is, which request it is, and the status of its operation;
- `QueueInv`: an order of a request is awaited, or its operation has failed or is about
  to; an operation has no two orders on one leg. This is what `asyncio.gather` can leave
  running, and the rest of the argument rests on it: a request that awaits nothing has
  nothing under way (`NoOwn`), so that what it recorded cannot change behind its back;
- `LoopInv`: the main loop has one order per leg, to send or under way, all from an
  iteration that found the operation ACTIVE;
- `FlatInv`: a closing order is what makes its leg flat, or the leg is flat already;
- `AnswerInv`: a leg to open is awaited or was answered;
- `UndoInv`: the short hedge-existing added to a leg is the one it remembers, and it
  remembers a leg once.

The history variables `net`, `excused` and `late` occur in the invariants and in no
guard. An order in the queue is compared with a *current* `short`, which is why a
drift order that fills during a stop has to excuse its leg.

**`ReadersProofs`** (`VaultReaders`, and `HedgeModelCache`, which extends it):
`ReadersTypeCorrect`, `ModelIsOfReaders`, `LegsFollowReaders`, for any
number of coroutines. `IInv` adds `LocalsAreVaults` (what a coroutine at work holds is a
vault of the list) and `SoleBuilder`: as long as no refresh overtook another, the one that
waits for the strategy's address is alone and waits for the readers' own vault.
`CacheTypeCorrect`, `CacheIsOfReaders`: with one refresher `~crossed` is itself invariant, so
that a model is of one vault; `HeldInv` says that the cache and all tasks that may still
store are of the model's strategy. `CacheOfReaders` alone is not inductive: it says nothing
of the tasks.

**`ChainTxProofs`**: `TypeCorrect`, `FailureIsUndone` and `CallsTakeEffectOnce`, the theorem
that `ChainTx` implements `CallOnce`, for any number of calls, fees, faults and crashes. The
invariant says where a call's one transaction can be: `UnsentInv` (nowhere before it is
sent), `MempoolInv` (in the mempool, alone, with no outcome beside it), `OutcomeInv`
(executed once), `RaisedInv` (a call that raised with its outcome in sight had none),
`RowInv` (what a row says of its call, also while the process is down), `TriesInv`. `MempoolInv`
holds although a nonce may be used by several calls, because a call never sends twice.

**`LifecycleProofs`**, for any number of requests at a time, operations, crashes, overlaps
and units of deposit: `TypeCorrect`, `HubMirrors`, `ActiveOnDeposit`, `ClosedWithdrawn` and
`TableImplements`, the theorem that `Lifecycle` implements `OperationStatus`. Nothing is assumed
of the requests. Each one is a handful of writes and calls in a row, any of which may raise,
the process may die between any two, and another request may come in at each of them;
none of the four properties is inductive. The argument goes in layers:
- `TInv`: types, and that each kind of request goes through the places of its own coroutine
  (`Places`) and from some place on has a row;
- `TableInv`: what a coroutine nobody disturbed knows: the status its row has at each place (where
  two writes of a row follow each other, nothing that could raise is awaited in between), that
  its row is the only live one, and that none is live where it is about to insert one;
- `VaultInv`: shares that were deposited are there unless the start is `emptied`, shares that
  were withdrawn are gone unless the teardown is `filled`. `ActivatedOnDeposit` and
  `ClosedIsWithdrawn` rest on this;
- `PartInv`: as long as nothing has `parted`, how far hub and table may be apart at each
  place, and that they agree whenever no coroutine is at work. While the process is down or
  starting up it says only that there is no coroutine and nothing in the hub: startup brings
  it in step with whatever rows it finds, which is why the number of crashes does not matter;
- the refinement: each step of each coroutine writes at most one status of one row; an
  undisturbed one moves it along the declared machine, because of what `TableInv` says of it,
  and the row of a disturbed one is `contended`.

**`GridProofs`** (`EventGrid`, and `GridTeardown`, which extends it), for every grid, range,
market, number of stops a side and budget of disturbances:
- `GridTypes`, from `GridInv`: every set is finite, a grid in memory, an answer and what is
  being posted have one entry per cloid, and the exchange has one order per cloid *and
  process* (`Numbering`): leftovers of an earlier process may share a cloid, but not a
  generation, with a stop of this one. That the grid stays a function of the cloid is not
  plain, because `_safety_reconcile` adopts what the exchange shows;
- `ReplacedStopsFired` (`FillsAreReal`), from `FillsInv`: in a process whose reads told the truth
  and whose loops kept apart, every cloid in memory is live, or fired, or just being
  cancelled as the job's opposite stop (`Accounted`), except while the main loop clears; the
  snapshot a diff is taken from shows all of memory that has not fired, and so what is
  queued has fired. A second stop of the same iteration is compared with the same, older snapshot:
  the invariant holds because the queue is fixed before the first replacement is posted;
- `GridStaysBounded` (`KeptBounded`), from `KeptInv`: the grid plus what is still to
  be posted is never more than `2 * PerSide`; a replacement in progress takes two and adds two,
  which needs that the job's two stops are still in memory and are different (`JobParts`),
  and an initial post begins with an empty grid. The latter needs that the audit has nothing
  to adopt while the main loop has cleared the grid, and so how the orders at the exchange
  and the snapshots follow the grid at each place;
- `TeardownTypeCorrect`, `ClosedTableClean` (`TableIsClean`), from `TableInv`: a teardown that
  began with no pass of the main loop under way has the only hand on `grid_orders`, so that
  the rows that look live are exactly those it has still to mark;
- `ClosedRowsGone` (`RowedStopsGone`), from `RowsInv`: a live order with a row has
  one that is active, and is on the list of the teardown until its cancel.
  The event loop keeps posting meanwhile, but what it posts gets a higher number than any row.

The proof of `GridStaysBounded` was begun for the orders at the exchange (`LiveBounded`). No
invariant could be found because there is none: in a range with room for both stops of
each side the second of two fills leaves an order behind. The formula is now one of the
Known divergences, and `KeptBounded` says what the code does keep.

**`OperatorViewProofs`**: `ViewTypeCorrect`. `TypeOK` needs `BegunInv` (an operation in some state
has begun) and `AlarmInv` (only alarms are posted).

Each proof has one lemma per part of its invariant or per action.

With that each invariant, each action property and each refinement the runs check is a
theorem. Only model-checked are the liveness properties (`TruthConverges`, `TrackingConverges`,
`Settles`, `RequestsEnd`, `FundingArrives`, `ReadersSettle`, `CatchesUp`, `RowsSettle`,
`AlertsArrive`, `ViewSettles`): liveness under fairness and ENABLED are out of the prover's
reach, as is induction over data and recursive operators (the modules have none).

## 5. What is not modelled, and the plan

Done, in this order: `PositionTruth`, `EventGrid`, `Lifecycle` with
`OperationStatus`, `FundingAccumulator`, `HedgeLegs`, `GridTeardown`, `VaultReaders`,
`HedgeModelCache`, `ChainTx` with `CallOnce`, `OperatorView`.

Next modules:
1. `LegacyReconciler`: the database is read before the exchange, and an error answer is taken
   for "no orders". The path is off under `predictive_grid_v2`.
2. `FundingAccumulator` with a page smaller than the backlog: what `Window >= Entries` hides.
3. Pure parts as functions checked against a reference over bounded inputs:
   level selection of `compute_grid_from_pool_ticks`, `GridManager.diff`, the
   32-bit cloid layout.

Next theorems: what the liveness properties presuppose, as invariants (an order that was
accepted ends, a queue empties); lemmas about
level selection and the cloid layout once they are modules.

Not planned, with the reason: the other chain readers, pair API and configuration (stateless
I/O and parsing), PnL and curve formulas (real arithmetic), the dYdX adapter (a
wrapper over a library that the current configuration does not use), backtest,
scripts, templates and metrics.

## 6. Running

```
tlc -workers 2 -config PositionTruth.cfg MCPositionTruth
tlapm PositionTruthProofs.tla     # likewise the other *Proofs modules
```

The configurations take from some seconds to a minute each on two cores, `EventGrid.cfg`,
`HedgeLegs.cfg`, `Lifecycle.cfg` and `OperatorView.cfg` two to three minutes; the proofs some minutes each, `GridProofs` and
`LifecycleProofs` the longest.
