# FEDR, specified

FEDR is an asyncio program that looks for price differences between exchanges
(CEX, DEX, perpetual venues), executes both legs of a trade, and keeps itself
from losing money with reservations, an emergency hedge, circuit breakers, an
emergency stop and a reconciler. These TLA+ modules specify the parts of
`src/backend/fedr` whose correctness depends on the order of events. TLC checks
them on small instances; TLAPS proves the main results for all constants.

Paths below are relative to `src/backend/fedr` unless they start with `src/`.

## The system

One process, one event loop. Background tasks are started by `app.py`: scan
loop, health check, balance refresh, gas check, reconcile loop, positions loop,
housekeeping. HTTP requests of the operator run on the same loop beside them.
Two tasks interleave only where one awaits something that really suspends:
order I/O, quotes, the simulated latency, database sessions, a contended lock.
The program is killed at any moment and restarts from its database.

| Component | State | Operations | Talks to | Hard because | Correct when |
|---|---|---|---|---|---|
| Paired execution engine (`engine/execution/executor.py`) | the trade record, `open_trade_ids`, `unhedged_since_ms`, failure counters | check, quote, reserve, submit two legs, recover, record | ledger, inventory, hedger, breakers, repo, venues | checks and commit are separated by awaits; legs fill in part, time out, raise | a completed trade is flat; an exposure pauses trading; every flight ends |
| Emergency hedger (`engine/execution/emergency_hedge.py`) | none | try venues until the exposure is gone | ledger, venues | attempts raise, their reservation remains | only what was hedged counts |
| Paper ledger and executor (`connectors/paper`, `engine/execution/paper_executor.py`) | free and used balance per venue and asset | reserve, release, settle, gas, perp collateral | executor, positions, reconciler | one pool per account, clamped at zero | money is neither made nor lost |
| Inventory (`engine/inventory.py`) | last seen balances, reservations per trade | reserve, release, refresh | executor, positions | the view is older than the ledger | a reservation leaves with its trade |
| Reconciler (`engine/reconciliation.py`) | expected balances | release stale reservations, compare with venues | ledger, breakers | runs beside trades and closes | it never takes what a trade needs |
| Circuit breakers (`engine/circuit_breakers.py`) | active breakers, counters | trip, reset, restore | everyone; repo | lock held across a write that may fail; crash | what was tripped stays tripped until reset |
| Emergency stop (`engine/emergency_stop.py`) | a flag and its document | activate, release, restore | breakers, venues, repo | persisted last; two operators | once active it survives restarts |
| Carry positions (`engine/positions.py`) | open positions, their rows | open, mark, accrue, close, reload, reconcile | executor, ledger, breakers, venues | two closers, two legs, crashes between them | closed once, booked once, never oversold |
| Trading modes (`app.py`, `engine/context.py`) | settings, connectors, ledger, live activation | switch, activate, rebuild | everything | settings change before connectors do | real orders only in real modes, P&L per mode |
| Opportunity engine and guards (`engine/opportunity.py`, `engine/*_guard.py`, `engine/risk_engine.py`) | daily loss, learned buffers | assess | hub, breakers, gas oracle | many limits and edge values | nothing executes that a limit forbids |
| Market data (`marketdata`) | books, sequence numbers, quality | ingest, verdict | connectors, breakers | reordered and stale updates | no decision on a stale or crossed book |
| Transfers (`wallets`, `api/routes/wallets.py`) | requests, rows, allowlist | withdraw, broadcast, confirm, credit a deposit | keystore, venues, repo | retries, lost answers, duplicates | one request moves money once |
| Flash loans (`engine/flashloan.py`, `src/contracts/src/FlashLoanArbitrage.sol`) | transaction, contract flags | simulate, broadcast, callback | chain | atomicity on chain, loss of the broadcast answer | repaid with profit, or nothing happened |
| Boot (`app.py`, `main.py`) | all of the above | start, stop | everything | order of restoring safety state | safety state is active before trading |
| API, frontend, simulation, backtest, security helpers | little or none | I/O, presentation, generators | app | not a matter of ordering | not modelled |

`PROJECT.json` lists the hazards of this code with the line where each bites and
the properties that watch it, or a note why none does yet.

## Modules

| Module | Models | Built on |
|---|---|---|
| `PaperLedger` | the ledger's methods as operators on a function from accounts to `[free, used]` | |
| `PairedExecution` | execution engine, hedger, inventory, paper executor, reconciler, and the breakers and stop as they see them | `PaperLedger` |
| `SafetyControl` | breaker manager and emergency stop with lock, writes, crashes and boot order | |
| `CarryPositions` | position manager: opening, closing by several tasks, persistence, restart, reconciliation | `PaperLedger` |
| `TradingModes` | settings updates, live activation, rebuild of the connectors under its lock, restart, trades across a switch | |
| `OncePerRequest` | what a ledger of requests promises: claimed once, moved at most once, never after a refusal | |
| `Transfers` | withdrawals from the bot wallets: allowlist, request keys, rows, signing, broadcast, the chain | `OncePerRequest` (refinement) |
| `FlashLoan` | flash-loan engine and the contract it calls, its owner, the daily counters | |
| `ProfitGuard` | profit, gas, slippage and latency guards as operators | |
| `RiskEngine` | risk limits and score as operators | `ProfitGuard` |
| `Decision` | opportunity engine and scan loop: candidates, sizes, quotes, verdicts, choice per route, hand-over | `RiskEngine` |
| `MarketFeed` | feed tasks, quality gate, cached books, health loop and the breakers of one venue | |
| `VenueOrders` | one order from request to answer, at an exchange or through the gateway | |
| `OrderBook` | walking, sizing and quoting a book, and the simulated leg that meets another one | |
| `*_proofs` | theorems of the module in their name; `PaperLedger_proofs` also has the laws of sums the others use | the module they name, TLAPS |
| `SafetyAndVenues_proofs` | theorems of `SafetyControl`, `VenueOrders`, `MarketFeed` and `OrderBook` | these, TLAPS |
| `MC*` | sets of trades, venues, callers, routes and requests for TLC; `MCVenues` puts the three venue modules side by side, `MCPersistence` transfers and safety control | |

An action is the code of one task between two points where it really suspends.
`PaperLedger`'s and the inventory's locks guard no await, so their methods are
atomic and need no lock variable; the breaker manager's lock is held across a
database write, so `SafetyControl` has it.

### PairedExecution

`simulated` is `ctx.is_simulated_execution`, which does not change in a
behaviour (`TradingModes` has the changes): it selects the paper ledger and
`PaperExecutor`, or venues. `pc[t]` is where `execute()` stands: `quoting` (checks done, quotes awaited),
`legs` (reservation taken, both orders sent), `recover`, `hedge`, `post`, `done`.

| Action | Code |
|---|---|
| `Start` | the checks up to the first await; `open` is not yet changed |
| `RejectQuotes`, `ReserveFails`, `Submit` | re-assessment on fresh quotes, then inventory and ledger reservation, then `open_trade_ids` |
| `PaperLeg`, `VenueExecutes`, `VenueAnswers`, `LegTimesOut` | one leg: settled by the paper executor, or executed by the venue and answered in time or not |
| `LegsDone` | release of what was not used, failure counters, outcome |
| `FindHedge`, `PaperHedge`, `PaperHedgeRaises`, `VenueHedge`, `HedgeSkips` | the hedger venue by venue |
| `Verdict`, `Finish`, `ExecutionError` | recovery's decision, `_post_trade`, the exception handler and `finally` |
| `Refresh`, `ReconcilePaper`, `ReconcileVenues`, `WindowPasses` | the loops |
| `Stop`, `ReleaseStop`, `ResetBreakers`, `ResetPaper` | the operator |

Prices are 1 and a buy may cost up to `Tol` more; `Gas` is paid in the base
asset, the worst case for the pools, since it competes with the trade itself.
Two pools of one chain share their account, so a trade may buy and sell on the
same DEX. Both legs are spot legs: the branches for a perp short as second leg
(`executor.py:131-136`), which only carry positions take, are not modelled.
`did` is what the venue executed, `filled` what the engine was told.

### SafetyControl

`stage` is where `start()` stands. A call waits for the lock, changes the
breakers in memory, and commits; the stop's document is written after. `owed`,
`engaged`, `missed` and `erased` are history: breakers whose trip was committed,
a stop that returned, a last write that failed, and what the health check of a
start wrote over before it was read (`Erases`).

### CarryPositions

`status` is `Position.status`; `none`, `opening` and `filled` are the opening
trade before `PositionManager.open` knows it, `unknown` is what a restart does
not load. `stored` is the row. `task[c]` is where a closer (the monitor, or a
request) stands inside `close()`: `save`, `reserve`, `sell`, `buy`, `book`,
`final`. `spot` and `short` are what the venues hold for the position.

| Action | Code |
|---|---|
| `Open`, `Fill`, `Track`, `SaveNew` | `open_from_opportunity` around the paired execution |
| `StartClose` | the status check of monitor, close-all and API with the assignment that opens `close()` |
| `SaveClosing`, `CannotClose`, `ReserveSpot`, `NoQuote`, `SellLeg`, `BuyLeg`, `Book`, `SaveFinal` | `close()` from await to await |
| `WriteFails`, `LegRaises` | the exceptions that leave `close()` where it is |
| `SweepPaper`, `ReconcileShorts`, `ResetBreakers`, `Restart` | reconciler, venue comparison, operator, crash and `load()` |

All positions share one spot and one perp account. An opening trade that fills
unevenly ends here as no position; how the executor unwinds it is modelled in
`PairedExecution` for spot legs only. `SaveFinal` writes what the position is at
the commit, where the code builds the row a moment before it. `Restart`
is modelled on venues; a simulated restart reads the balances from the database
and is not modelled.

### TradingModes

`settings` is `self.settings`, which `ctx.settings` is; `saved` the stored
document; `venues` the mode `ctx.connectors` were built for; `executor` the mode
`ctx.paper_executor` simulates. `queue` is the rebuild lock, its holder first.
`request[r].at` is what a request awaits: `dump` the write of the paper
balances, `list` the live trades, `save` the settings document and the audit
row, `queue` the lock and the closing of the old connectors, `connect` the new
ones. `trade[t]` is `idle`, has its `quote`s awaited, is about to `submit` or
has `sent` an order to a real venue.

| Action | Code |
|---|---|
| `Update`, `Assign` | `update_settings` before and after it awaits the paper balances; `deactivate_live` is such an update |
| `Activate` | `activate_live` after the readiness list, whose verdict is a free choice |
| `Promote`, `Confirm`, `Decline` | `activate_full_live` around the list of live trades |
| `Save`, `SaveFails` | the settings document and the audit row |
| `Account` | requests that only rebuild: exchange accounts |
| `Build`, `Connected`, `ConnectFails` | `rebuild_connectors` around the connection of the venues |
| `Start`, `Reserve`, `Submit`, `Finish` | `execute()` and `_submit`, as far as they look at the mode |
| `Restart` | the end of the process and `start()` of the next |

Clearing and building the connectors is one step: the builders await nothing
before the new venues connect. `Restart` is one step as well: the API
is not served and no trade starts before `start()` is over. A request's document
is fixed where it is computed, not where it is assigned: `Assign` may overwrite
what another request did meanwhile. `adrift` is history: the mode was set by a
request that owes no rebuild, or a rebuild was lost with a failing database; a
failing audit row after a saved document is not told from a failing document.

### Transfers and OncePerRequest

`request[r].at` is what a withdrawal awaits: `quote` the gas price, `create` the
insertion of its row, `send` the node before signing, `broadcast` the node with
the signed transaction, `book` and `fail` the write of the outcome. `rows` is
the table `withdrawals` by request key, `pool` and `mined` are the chain's.
`editor` is a settings request, which replaces mode and allowlist meanwhile.

| Action | Code |
|---|---|
| `Submit`, `Quote` | `withdraw` in `api/routes/wallets.py`: simulation, allowlist and delay, then the node's gas price |
| `Create`, `CreateFails` | `create_withdrawal`: the look for the key, the insertion, the unique column |
| `SignEvm`, `SignSolana`, `SendFails`, `Broadcast` | `WithdrawalService.execute` in `wallets/transfers.py`, its answer heard or lost |
| `Record`, `RecordFails` | `update_withdrawal` |
| `Restructure`, `ActivateLive`, `PatchAllowlist`, `RemoveAllowlist`, `Assign`, `Rebuild`, `Connect`, `DelayPasses` | the settings requests that change mode and allowlist |
| `Mine`, `Crash` | the chain; the process |

`RequireAllowlist` and `DelaysEntries` are the settings that `Allowed` asks, true
in the run and anything in the proofs. A settings request assigns a document it
computed before an await, and may so bring a removed destination back or lose an
added one; nothing promises that it does not.

The refinement maps a row to the phase of its request and the transactions the
node accepted for a key to the money moved for it. A transaction that waits in
the pool is not counted for the next nonce, as in the code.

### FlashLoan

`trade[t].at` is what the engine awaits: `quote`, `simulate` (`eth_call`),
`call` (the last simulation), `nonce`, `send`, `wait` (the receipt) or `settle`
(on paper), then `save`, `book` and `count`: its row, the P&L row, the audit. `fate[t]` is what became of the transaction and
`balance` what the contract owns. Amounts are the profit of a route after loan
and fee. `Mine` is the contract: `executeArbitrage` and its callback succeed
only when every swap returns its minimum and the balance covers loan, fee and
minimum profit; what earlier trades left counts there, as in the contract. A
quote counts with a premium of 0.0005 (`flashloan.py:301`), the pool asks its own:
the difference is `Surcharge`, and `Shortfall`, what a transaction may make less
than its quote, is `Slippage` and `Surcharge` together.
Whether a transaction comes after its deadline is a free choice.

| Action | Code |
|---|---|
| `Start`, `Quoted`, `Simulated` | `execute` and `_assess` of `engine/flashloan.py` |
| `Settle` | `_settle_paper` |
| `FinalCall`, `ReadNonce`, `Send`, `Receipt`, `Timeout`, `Refused` | the broadcast |
| `Save`, `Book`, `Count`, `WriteFails` | `save_trade`, `add_pnl`, the counters in memory, the exceptions |
| `Rescue`, `Administer` | the contract's owner |
| `SetMode`, `Rebuild`, `Activate`, `Resume`, `ReadStats`, `AssignStats`, `Crash` | the application around it |

The mode is read where the code reads it: at the decision, when the trade is
booked and when the day's numbers are loaded. A trade that met a change of the
mode is `mixed`, and the properties that compare modes except it.

### Decision, ProfitGuard, RiskEngine

`ProfitGuard` and `RiskEngine` are the guards as functions of their inputs, in
integers: money in small units, percentages in thousandths, both chosen so that
the divisions are exact. A value the code may not know is `{}` or `{value}`.
The weights of the risk score are left to its bands.

`Decision` runs the scan of `engine/opportunity.py`: `work[c]` is the evaluation
of a candidate with the portfolio `p` it read before it asked for quotes and the
settings `s` it captured, `latest` is the engine's table, `place` and `document`
what the world and the settings are now.

| Action | Code |
|---|---|
| `ScanBegins` | candidates, sizes (`_pick_size`, the ladder of a loan), portfolio snapshot |
| `QuotesArrive`, `QuoteFails`, `Simulated` | `_evaluate` and `_assess` from await to await |
| `ScanEnds` | `_annotate_alternatives` and the table |
| `Expires` | the housekeeping |
| `HandsOver` | `ranked` and `_scan_loop`'s choice |
| `WorldChanges`, `SettingsChange` | everything else |

The routes of a run are fixed, where the code reads strategies and venues again
at each scan; `ControlsHold` asks the chain that the code asks, the buyer's, and
no route of the run has two. Rates are 1, since every quote asset is a stablecoin. The sizes of a loan are
the rungs of the ladder that are not too small: the ladder descends
(`LadderAssumption`), so they are its first ones. `HonestProfit` is claimed at
`OrdinaryRates`, of which the instance is one: multipliers of the worst case and
of gas below 1 would make the worst case better than the expected one, a fee
above its amount or a short sold above the top of the book would break the
attribution. Venues answer within these rates; the settings accept any number.

### MarketFeed, VenueOrders, OrderBook

`MarketFeed` is one venue: per symbol a feed task that reads a web socket
(`watching` = `ws`), polls while it reconnects (`rest`) or for ever (`poll`), one
quality gate whose last number all symbols share (as in the code), the tracker's
marks, and the health loop, one step per check, whose trips and resets queue for
the breaker lock beside the operator's. `offers` is what the exchange has:
`fetchStatus`, sockets, numbers in its snapshots. Without a status nothing takes a
maintenance mark back that a failing call once set; without numbers an older
snapshot passes, if it is late by a second at most.

| Action | Code |
|---|---|
| `WatchYields`, `WatchFails`, `WatchUnsupported`, `PollAnswers`, `PollFails`, `Reconnect` | `marketdata/hub.py`, `ingest` and the quality gate included |
| `CheckStatus`, `CheckRate`, `CheckData`, `CheckMaintenance`, `CheckWs` | the health loop of `app.py` for this venue |
| `OperatorResets` | `POST /system/breakers/reset`, of one breaker or of all |
| `Saved` | the end of the write made under the breaker lock, or its exception |
| `MaintenanceStarts`, `MaintenanceEnds`, `RateLimitEnds` | the exchange and the clock |

`VenueOrders` follows one `place_order()`. `order` is the truth at the venue,
`result` what the connector knows, `blind` that a failed call left it without
the truth. An exchange may close an immediate-or-cancel order that is partly
filled, list a fill late, or answer a creation with the id alone. `Create*`,
`Poll`, `Cancel`, `Refetch` and `LoadFills` are `connectors/cex/ccxt_connector.py`;
`QuoteExpires`, `Swap*`, `Confirm` and `ConfirmTimesOut` the gateway's
`connectors/dex`.

`OrderBook` follows a leg over the four books that the code reads for it, any of
which may be another: the cached one that caps its size, the one it is evaluated
on, the one the executor quotes the same size on, and the one it meets.

| Action | Code |
|---|---|
| `PickSize` | `pick_size`: the cap of the depth, if a book is cached |
| `Evaluate`, `Requote` | `evaluate` for an offer, and again in `execute()` for the size offered: quote, limit of the tier, Profit Guard and slippage guard (`Passes`) |
| `Block` | a guard that objects, or a cap, which is a reason to block |
| `BookMoves` | the feed, at any time before the fill |
| `FillLeg`, `FillSwap` | the paper executor, on a book thinner by the stress and worse by the drift, or by a fresh DEX quote |

Prices are integers, values of a
simulated fill ten-thousandths, averages are compared by cross-multiplication.
A walk and the totals of the levels are functions of the number of levels done,
which the provers can follow pass by pass. Levels of the same price may be in any
order, and of the levels after the first that misses the limit, where the code
leaves its loop, nothing is taken (`Met`).

`MCVenues` takes one of the three at a time: they share no state, so their
product would only multiply interleavings that do not meet. The parts that are
not taken stay in one initial state.

## Runs

| Run | Instance | Shows |
|---|---|---|
| `PairedPaper` | 2 simulated trades, 2 venues, one a DEX with gas; hedges may raise | reservations are covered (`PoolCovers`), the ledger equals the trade records (`LedgerMatchesTrades`) |
| `PairedFaults` | 1 trade of size 2 with partial fills, simulated or on venues: timeouts, lost and false answers, hedges that raise, failing writes, the operator; fair | completed trades are flat, exposures pause, no trade commits while paused, flights end, pools drain |
| `PairedTimeout` | 1 trade, timeouts | violation: a timed-out leg that executes leaves an exposure and no pause |
| `Persistence` | one of two. 2 withdrawal requests, with a shared key or none, from an EVM and a Solana wallet; one settings request; lost answers, failing writes, a crash. Or 3 breakers, 2 loops, 1 operator; crashes, failing writes, starts that connect venues | once per key (refinement), rows tell what was sent, no row without its task; memory and database agree, only such a start loses a breaker in force, a stop survives |
| `SafetyBoot` | 3 breakers, 1 loop, 1 operator; a venue connects while the application starts | violation: the health check erases the stored breakers before they are read |
| `CarryPositions` | 2 positions of sizes 2 and 1, monitor and a request, simulated and on venues, all faults | one close at a time, P&L booked once, nothing sold twice, ledger and holdings agree, the perp account settles |
| `TradingModes` | PAPER and LIVE, 2 overlapping requests, 1 trade, restarts, failing writes; fair | LIVE only by activation and as the small test, no live order without the environment's consent, connectors follow the mode, every request ends |
| `FlashLoan` | 2 trades with quotes and results around the slippage; lost answers, reverts, crash, failing writes, stop, mode change, the owner | rows match the chain, gains and books are covered up to what each success may fall short, a stop ends what has not passed its checks, every trade ends |
| `FlashStop` | as `FlashLoan`, without faults | violation: a transaction is sent after the stop is active |
| `Decision` | 6 listings with routes of every kind over 6 venues, with mixes of fees, impact, gas and funding; one change of settings or world at any await | the profit shown is never more than the cash, one executable variant per route, controls are read after the quotes, the best is handed over |
| `Venues` | 2 symbols of a venue with overlapping numbers and 2 faults or resets, on an exchange that has everything and on two that lack most; or an order of size 2 with 2 lost calls at an exchange, router or pool; or a leg on 4 books with stress, drift and impact | bad data pauses the venue, answers are true and never overstated, orders are sent once, a cap fits its book, the simulation never flatters, books go forward, breakers are lifted again |
| `ModesMixed` | as `TradingModes`, no small-test route chosen | violation: a trade recorded in PAPER orders from live venues |

**Bounds.** Two trades are the fewest that share a pool and the limit; two
venues give both routes and one hedge venue each way. Size 1 makes both legs
contend for every unit, size 2 adds partial fills and partial hedges. `Funds` of
2 lets one trade take what the other needs. `MaxFailures = 2` lets the
counter reach its limit. Two positions of different sizes are needed for one
closing against the other's collateral; two closers for one closing under the
other. `Overrun = 1` lets attempts sell or buy one unit more than a position
holds: with 0 `NeverOversold` could not fail. Counters (`failures`, `dexFails`)
stop at their thresholds, beyond which the code does the same again.
PAPER and LIVE are the modes between which something can be mixed up; TESTNET
behaves as LIVE does without an activation (all four are in the theorems). Two
requests are what an overlap needs. One choice of `Toggles`, shadow mode off and
auto-execute on, is the one that lets trades through. `small_test_route` cannot
be set through the API; `TestRoute` is true in `TradingModes`, which lets more
trades through, and false in `ModesMixed`, where nothing but the stage could.
For the transfers, two requests are what a repeated or a competing request needs,
and the bodies with and without a client key collide or not; a minute more only
gives a keyless body another key. In `FlashLoan`, two trades are what a shared
nonce and a left-over balance need; with `Slippage`, `Surcharge` and `Gas` of 1,
`MinProfit = 3` and quotes and results on both sides of each, every comparison of
the contract goes both ways, and a swap that misses the minimum profit passes on
what an earlier one left. In `Decision`,
two scans let an old result meet a new one and one change falls between any two
awaits. In `Venues`, thresholds of 2 are the least that count; two versions and
overlapping numbers make one symbol's snapshots late for the other; `Size = 2`
has partial fills, two lost calls lose an answer and its repetition.
Books are flat, steep, thin and with an empty level, and sizes go past them.

**Deadlock** is not checked where a run of trades simply ends.
`Transfers` and `SafetyControl` always have a next step, and their runs do check it.

**Fairness** (`FairSpec`). A task that can run does: asyncio resumes every ready
task, each simulated leg has a finite latency and each venue leg a `wait_for`.
Hedges are awaited without a limit but answer or raise in the model; a venue
that hangs in a hedge would hold the task, which is outside this fairness. The
reconcile loop catches every exception and sleeps again, so `ReconcilePaper`
runs again and again. Venues and operators owe nothing. In `TradingModes` the
steps of an accepted request are fair: database calls return or raise, venues
connect within `wait_for`, and `asyncio.Lock` serves its waiters in order.
Nobody owes a request, a trade or a restart. In `FlashLoan`
what a trade has begun is fair, since every await of the node has a limit, the
receipt's being 180 seconds. In `MarketFeed` tasks and the lock's writes are
fair, rate limits pass with time, and `Reconnect` is strongly fair, because the
backoff ends by the clock however often a poll waits for the lock in between.
Nothing is asked of an exchange or of the operator: `QuietVenueRecovers` says what
happens if its maintenance ends for good, and faults of the feed and resets are
bounded by `MaxFaults`.

**Exceptions in properties.** `CompletedIsFlat` and `ExposurePauses` except
trades of which an answer was lost; `PairedTimeout` is what happens then.
`ExposurePauses` ends when the operator resets breakers after the trade ended.
`NeverOversold` excepts positions whose close filled in part, since the code
reopens them with the size they had; `SpotMatches` excepts runs in which the
reconciler released the reservation of a running close. `BuiltForMode` excepts what is
`adrift`, and `BooksAreCovered` trades that are `mixed`. `QuietVenueRecovers`
excludes the breaker for bad market data, which the loop does not always lift
(below), and excepts what nothing but the operator lifts (`Lasting`): maintenance
once met on an exchange without a status, the socket where there is none.
`UnhealthyIsPaused` excepts a breaker that the operator lifted, until the next
rejection, and `BooksGoForward` speaks of venues that number their snapshots.
`OnlyStartsErase` excepts what a start wrote over (`SafetyBoot`), and
`NothingNewIsSent` trades past their checks (`FlashStop`). `RowsTellTheTruth` of `Transfers` excepts a failed row whose answer was
lost: the code cannot know better. `OpenRowsHaveATask` excepts what a crash or a
failing write left behind, which the code leaves to the operator.

**Types.** `TypeOK` of the modules with proofs is a theorem and is not repeated
in the runs.

## Proofs

All theorems hold for any number of trades, venues, callers, positions,
symbols and requests and any sizes, amounts and answers, from the `ASSUME`s of
the modules: positive sizes, natural costs and prices, finite sets where
something is counted or summed. Four theorems have a hypothesis of their own,
said below where they are: an operator who does not reset the paper account
(two), `OrdinaryRates`, one operator at a time.

* **Ledger** (`PaperLedger_proofs`). Every operator maps ledgers with natural
  pools to such ledgers; reserving and releasing keep each account's total;
  a fill covered by its pool takes exactly its cost; opening and closing a perp
  moves totals exactly. The type proofs of `PairedExecution` and
  `CarryPositions` rest on these. Then the laws of sums over a finite set
  (`SumChanges`, `SumConstant` and their like): a sum of the community modules
  is an entry of a table over the subsets of the set, and a law that failed for
  some subset would fail for a smallest one (`MinimalSubset`), which is
  inspected. That replaces the induction theorems of the library, which take an
  operator as parameter.
* **Paired execution**: `TypeCorrect`, `CompletedTradesAreFlat`,
  `ExposurePausesTrading`, `CommitsAreClear`. The properties are not inductive:
  the decision of `Verdict` is taken on what the engine was told, the property
  speaks of what the venues did. `AllSound` says per trade that an unanswered
  leg has nothing recorded (`LegSound`), what a hedge may have filled at each
  stage (`HedgeSound`), and that from the decision on a trade is flat as
  *reported* or trading is paused by a breaker other than the stop's
  (`EndSound`). Without a lost answer report and reality coincide
  (`RecordedIsReal`), which gives the theorems.
* **The paper account under trades**: `PoolsCoverClaims` (`PoolCovers`) and
  `LedgerFollowsTrades` (`LedgerMatchesTrades`). Neither is inductive alone: that
  a fill takes its whole price from its pool is what the first says, and the
  total moves by exactly that price is what the second needs. `PaperInv` joins
  them with what a trade in flight is (`PaperSound`): it is open, hedged on one
  venue at a time, and an unanswered order has cost nothing. A step changes the
  claims of one trade, so each sum changes by one term. Hypothesis: `Events`
  without `reset_paper`, which seeds the ledger again without waiting for trades
  in flight; with it both are false.
* **Safety control**: `TypeCorrect`, `Persisted`, `BreakersSurvive`, `StopHolds`.
  `LockInv` says who may be in a call and that the snapshot of the call under
  the lock is the memory; `Owing` adds that what is owed, unless a start wrote over
  it, is stored; `Stopping` follows flag and document through `activate()`.
  `BreakersSurvive` (`OnlyStartsErase`) holds whether venues connect during boot
  or not, and says that nothing but the finding of `SafetyBoot` loses a breaker.
  `StopHolds` assumes that there is one operator, which is needed.
* **Carry positions**: `TypeCorrect`, `OneCloser`, `PnlBookedOnce`, `SoldOnce`.
  The invariant `IInv` ties, per position, the holding to status and row
  (`Holds`: an open position and an `open` row are intact, a booked one is
  closed, and a row never promises more than memory), and, per closer, stage to
  position (`Does`: in every stage after the first save the row no longer says
  `open`, and after the sale exactly what was sold is missing). The second half is what makes a
  crash harmless: a reload finds `open` only where nothing was sold.
  `PositionStep` and `CloserStep` reduce a step to the one position it is for.
* **The paper account under positions**: `BooksBalance`, from it
  `PerpAccountSettles` (`PerpSettles`) and `SpotAccountMatches` (`SpotMatches`).
  `CarryBooks` says that the margin and twice the collateral bucket are what was
  seeded plus the open shorts (the bucket pays twice for what it holds: when it
  is emptied and as the price of the short) and that the bucket is empty without
  them; and, until the reconciler sweeps under a running close, that the spot
  account is what was seeded plus what the positions hold and its pool covers
  what the closes under way have still to sell.
* **Trading modes**: `TypeCorrect`, `LiveOnlyByActivation`,
  `LiveOrdersAreAllowed`, `RebuiltForMode`, `LiveStartsSafely`, for any modes,
  requests and trades. `Lawful` says of every document in flight what is claimed
  of the settings: LIVE and activated go together, and a document that waits for
  the paper balances is never LIVE, or an outdated update could bring LIVE back.
  It also says where a trade may hold live venues, so that a mode that changes
  under it does no harm. `Locked` (only the head of the queue connects) and
  `Fitting` (without an owed rebuild the venues are those of the mode, without a
  running one the simulator is theirs) give `BuiltForMode`, which is not
  inductive: it says nothing while a rebuild is owed.
* **Transfers**: `TypeCorrect`, `RowsTellTheTruthHolds`,
  `OpenRowsHaveATaskHolds`, and the refinement `SendsOncePerKeyHolds`, for any keys, wallets and requests. `LedgerInv` says
  that a row has one owner at most (`OneOwner`), that an owner past the
  insertion knows its key and that nothing was sent yet (`OwnersKnow`), and that
  closed rows agree with the chain (`RowsAgree`); from it every step is a step
  of `OncePerRequest` or a stutter (`StepRefines`).
* **Flash loans**: `TypeCorrect`, `RowsCorrect`, `StopObeyed`, `GainsCovered`,
  `BooksCovered`, for any trades and amounts. `Told` says at each stage what row
  and fate may be. `GainsCovered` is kept by `Mine`, where a success adds one
  quote and one `Shortfall`, and by `Rescue`, which only moves what was gained.
  `BooksCovered` (`BooksAreCovered`) needs to know of what is *not yet* booked:
  a won transaction's net is due until its P&L row is written, and booked and due
  together never exceed what the quotes of won transactions leave after gas
  (`NetIsDue`). A transaction is only sent for a quote that pays (`Priced`), so
  what a crash loses of the dues makes the books poorer, never richer.
* **Decision**: `AttributionIsExact` (what a router's quote loses against the
  reference price is split into swap fee, impact and slippage with nothing lost
  or counted twice, for any amounts), `OneVariant` (`OneSafePerRoute`),
  `ControlsObeyed` (`ControlsHold`), `HonestNumbers` (`HonestProfit`) and
  `StrongestHanded` (`HandedIsStrongest`).
  For the numbers, cost by cost: a part of the worst case is at least the part
  expected (`GasParts`, `ReserveParts`, `FundingParts`, `TradingParts`), and the
  parts of a leg together are at least its fee and its deviation (`BookCost`,
  `DexCost`), whichever way the fee is known. `Assessed` and `CashCovers` add them
  up. `PricedInv` follows the numbers from the answers of the venues through the
  wait for a loan's simulation, with quotes that age and settings that change
  meanwhile, to the table: every record it holds was made of quotes of its own
  candidate (`Quoted`). What `HandsOver` picks is an element none comes before;
  that one exists is a fact about finite sets (`NobodyBefore`) and about
  `Precedes`, which is transitive and irreflexive on numbers.
* **Orders**: `AnswersAreCovered` (`NeverOverstated`), `FinalAnswersAreTrue`
  (`AnswerIsTrue`) and `AcceptedAtMostOnce` (`SentOnce`), for orders of any size
  and any number of lost calls. `OrderInv` adds what a venue's order can look
  like (`Executable`) and what the connector has learnt at each step of
  `place_order` (`Known`): unless a call failed, it goes on to the fills only
  with an order that nothing can be added to.
* **Market feed**: `UnhealthyVenuesArePaused` (`UnhealthyIsPaused`) and
  `BooksOnlyGoForward` (`BooksGoForward`), for any number of symbols. The trip
  that a bad book asks for may still wait behind other calls for the breakers'
  lock; `InForceAtLast` says what the breakers will be when the queue is served,
  as the last call about a reason decides, and that is what is inductive. For the
  numbers: no cached book is ahead of the number the gate remembers
  (`Numbered`).

* **Order books**: `CapsFitTheirBook` (`SizesFitTheirBook`) and
  `SimulationIsHonest` (`SimulationNeverFlatters`), for books of any depth, any
  sizes, limits, stresses and drifts. A loop over the levels is a function defined by recursion, a choice among the functions that satisfy its
  equation: `LoopsRun` proves that there is one, `CountingUp` replaces the
  induction theorem of the library (a number without a property would be a
  smallest one), and `WalksGo` and `TotalsGo` then give the loops of the code pass
  by pass. Sales count their prices negative (`Signed`), so that one argument
  serves both sides. The sizing (`SizedLegsFit`): the code keeps whole levels
  while their average is within the limit, and between two totals that are within
  it every part is (`BetweenTotals`); the order of the levels plays no role. The limit
  (`WalkStays`): levels that each meet it meet it on average. The fill
  (`ThinnerIsDearer`): a thinner book takes the same lots from later levels, so
  what was taken by then plus what is missing at the price of the level is no
  cheaper, and this is where sorting is needed. `BookInv` adds that books
  are sorted and that the last quote of a leg past its guards passed them
  (`PassedGuards`).

**Only model-checked**: `FlightEnds`, `PoolsDrain`, `RequestEnds`, `TradeEnds` and
`QuietVenueRecovers`, which are liveness; the violations, which are
counterexamples.

## Where the code and its texts differ

Four differences are violations of a run: an order that times out and executes
(`PairedTimeout`), stored breakers lost while starting (`SafetyBoot`), a
trade of PAPER that orders from live venues (`ModesMixed`), and a flash loan
that is sent after a stop (`FlashStop`), which `OPERATIONS.md:55-56` says it
blocks. The others were met
while modelling. The models do what the code does; a property excepts the case
where it would fail on it, as said above or in `PROJECT.json`.

* Execution: the limit on open trades is checked before the quotes are awaited
  (`executor.py:96`), so two trades may both pass it; when the ledger refuses a
  reservation, the one the inventory made before stays for good
  (`executor.py:137-138`); a database failure before
  the hedge ends the trade with its exposure (`executor.py:346`); the limit
  price is made of the quote's average (`executor.py:149`), not of the worst
  price touched, which `orderbook.py:36` says to use; a simulated DEX sale is held against
  `min_received` only (`paper_executor.py:158`); `open_trades()` is never called
  (`db/repo.py:246`), so a crash in mid-trade leaves a row no start looks at;
  resetting the paper account does not wait for trades in flight (`app.py:1051`).
* Carry: a crash between the opening fills and the first row
  (`positions.py:117`); a report of the venue awaited before the positions are
  read (`positions.py:424`); funding accrued after an await on a position closed
  meanwhile (`positions.py:253`); close legs without a time limit
  (`positions.py:346`).
* Market data: the last number is kept per venue although numbers are per symbol
  (`quality.py:86-90`), so one symbol may be rejected for good; `on_reject` may
  take the mark away while MARKET_DATA_FAILURE stays active (`app.py:234`;
  `PRODUCTION_VERIFICATION_MATRIX.md:58` says it "recovers when the feed is clean",
  and it does not: one rejection below the limit, after accepted books, takes the
  mark that the loop asks for); an exchange without `fetchStatus` never clears its
  maintenance (`ccxt_connector.py:682-686`), so its breaker stays; one without
  sockets is read by REST for ever with the breaker for the socket (`hub.py:202-205`);
  one flag
  tells for all symbols that the socket is up (`hub.py:193`); RAPID_MARKET_MOVE
  is only reset by hand.
* Orders: a swap confirmed by polling is booked at price zero
  (`gateway_connector.py:295`); fills are taken from the first answer that lists
  any (`ccxt_connector.py:525`), which may understate the quote amount; a
  gateway timeout is read as a refusal (`gateway_client.py:141`) although the
  swap may land; failures of `create_order` note neither rate limit nor
  maintenance.
* Decision: `PROFIT_GUARD_CALL_GRAPH.md:49-50` says that buffers cannot be set
  below the schema's floors; `config/schema.py` has no bounds for them, nor for the
  multipliers of the worst case, and below 1 those make it better than what is
  expected (`HonestNumbers` assumes they are not); a breaker of the second chain of a cross-chain route is not asked
  for (`opportunity.py:350`); a size that depth or inventory caps is a reason to
  block, where `ARCHITECTURE.md:57-60` has it reduced (`opportunity.py:157-186`);
  the conservative gas fallback always blocks (`profit_guard.py:113`); an
  alternative of an earlier scan may stay executable until it expires; two
  candidates of one scan are sized against the same inventory; results of a scan
  that a rebuild interrupts are recorded under the new mode (`app.py:1057`).
* Flash loans: a success is booked with the quote's legs (`flashloan.py:482`), and
  the comment there that "reconciliation adjusts" is not borne out: nothing reads
  the receipt or corrects the row, so what the slippage cost stays in the books as
  profit, where `src/README.md:9` says that "Estimated profit is never treated as
  realized profit". `BooksAreCovered` bounds by how much. A stop or a breaker
  between the assessment and the broadcast is not asked for again
  (`flashloan.py:265`), although lines 4-6 promise "abort-before-broadcast if
  anything changed"; the gas of a reverted transaction is counted in memory only
  (`flashloan.py:278`), so that the next load of the day's numbers forgets it;
  the contract's "minimum profit" may be met by what earlier trades left in it
  (`FlashLoanArbitrage.sol:135`).
* Transfers: two transactions of one wallet may carry the same nonce
  (`transfers.py:332`); the mode is checked before the quote is awaited
  (`wallets.py:301`); a keyless retry in the next minute is another withdrawal
  (`wallets.py:319`); `POST /wallets/allowlist` stamps its entry with a number
  where the settings want text, and is refused.

## Not modelled

* Market data: a venue that numbers only some of its snapshots, the price index, clock drift, gas prices and the RPC loop.
* Connectors: fee tables and their conversion, token allowances, prices of
  single fills, market metadata, the connectors' own reconnection.
* Deposits: the monitor only notifies; creation and import of wallets are calls
  of one task on encrypted rows.
* The perp-short branches of `execute()` (`executor.py:131-136`).
* Saved paper balances and P&L per mode across a switch, beyond what
  `TradingModes` and `FlashLoan` have of them.
* Rebalancer, experience, readiness and shadow: reports that move no money.
  The readiness verdict is a free choice in `TradingModes`.
* Frontend, synthetic market and backtest (no shared state), encryption and
  redaction (data), migrations, scripts and QA tools.

## Plan

Done, in this order: `PaperLedger`, `PairedExecution`, `SafetyControl`,
`CarryPositions`, `TradingModes`, `Transfers` over `OncePerRequest`,
`FlashLoan`, `ProfitGuard`, `RiskEngine` and `Decision`, `MarketFeed`,
`VenueOrders` and `OrderBook`; all with proofs, and every invariant that a
passing run checks is a theorem. Next, most important first:

1. `PairedExecution`, extended: the row of a trade and a crash in mid-trade; an
   abstract `TwoLegs` (a trade is flat, or trading is paused) that it implements;
   its venue answers as exactly those of `VenueOrders`.
2. `TradingModes`, extended: the saved paper balances and the daily P&L of each
   mode, a trade that settles after a switch.
3. `PairedExecution`: a perp short as second leg, and when an inventory
   reservation that nobody gives up blocks trading.
