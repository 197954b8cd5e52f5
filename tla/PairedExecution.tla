---------------------------- MODULE PairedExecution ----------------------------
(***************************************************************************)
(* The execution engine of engine/execution/: paired (two-leg) trades that *)
(* run concurrently as asyncio tasks, the inventory and ledger             *)
(* reservations they hold, the emergency hedge of a one-leg fill, and the  *)
(* reconciler, circuit breakers and emergency stop they share.             *)
(*                                                                         *)
(* An action is the code between two points where the task really yields   *)
(* (quotes, order I/O, database writes).  The ledger and inventory locks   *)
(* guard no await, so they are never contended and never yield.            *)
(*                                                                         *)
(* Amounts: a trade is for Size base units at price 1, so Size units of    *)
(* quote plus at most Tol for slippage and fee.  simulated selects the     *)
(* PAPER/SIMULATION path (ledger and PaperExecutor) or the venue path of   *)
(* LIVE and TESTNET, where "books" is what the venues hold.                *)
(***************************************************************************)
EXTENDS FiniteSetsExt, PaperLedger

CONSTANTS
    Trades,         \* identities of the executions started
    Venues,         \* ledger venues
    Dex,            \* the venues among them that are a chain's DEX
    Size,           \* base amount of a trade
    Tol,            \* price tolerance and fee on a trade, in quote
    Gas,            \* native (here base) units a DEX fill costs
    Funds,          \* starting balance of every account
    MaxConcurrent,  \* risk.max_concurrent_trades
    MaxFailures,    \* risk.max_failed_trades_per_hour
    Simulated,      \* the values of ctx.is_simulated_execution considered
    Events          \* the faults and operator actions a run allows

ASSUME SizeAssumption  == Size \in Nat \ {0}
ASSUME CostAssumption  == Tol \in Nat /\ Gas \in Nat /\ Funds \in Nat
ASSUME LimitAssumption == MaxConcurrent \in Nat /\ MaxFailures \in Nat \ {0}
ASSUME ModeAssumption  == Simulated \subseteq BOOLEAN
ASSUME VenueAssumption == Dex \subseteq Venues
ASSUME FiniteAssumption == IsFiniteSet(Trades) /\ IsFiniteSet(Venues)

VARIABLES
    simulated,  \* ctx.is_simulated_execution, which the trades here do not see change
    pc,         \* where each execution stands
    status,     \* TradeRecord.status
    route,      \* the venues it buys and sells on, fixed by its opportunity
    order,      \* the two legs: sent or answered, reported and real fill, cost
    hedge,      \* the hedge: venues left to try, venue being tried, fills, cost
    books,      \* paper ledger, or the balances the venues hold
    seen,       \* free balances as of the last inventory refresh
    expected,   \* reconciler.expected (venue path)
    held,       \* trades with a reservation in the inventory manager
    open,       \* ctx.open_trade_ids
    unhedged,   \* ctx.unhedged_since_ms is set
    failures,   \* the breaker counter order_failures, in its window
    failedHour, \* ctx.failed_trades_last_hour
    dexFails,   \* dex_fail:<chain> in its window
    breakers,   \* active breakers, <<scope, reason>>
    estop,      \* ctx.emergency_stop
    reviewed    \* history: trades that had ended when breakers were last reset

tradeVars  == <<pc, status, order, hedge>>
safetyVars == <<failures, failedHour, dexFails, breakers, estop, reviewed>>
vars == <<simulated, tradeVars, route, books, seen, expected, held, open, unhedged, safetyVars>>

Assets   == {"base", "quote"}
Accounts == Venues \X Assets
Sides    == {"buy", "sell"}

\* ledger_venue_for: two DEXes of one chain share that chain's accounts.
Routes   == {r \in [Sides -> Venues] : r["buy"] # r["sell"] \/ r["buy"] \in Dex}

NotYet   == -1      \* the venue has not executed the order

Reasons  == {"MANUAL", "ONE_LEG_FILL", "REPEATED_ORDER_FAILURE",
             "POST_TRADE", "BALANCE_DISCREPANCY", "DEX_TX_FAILURE"}

NoOrder == [sent |-> FALSE, answered |-> FALSE, filled |-> 0, did |-> NotYet, cost |-> 0]
NoHedge == [left |-> {}, at |-> {}, filled |-> 0, did |-> 0, cost |-> 0, gas |-> 0]

--------------------------------------------------------------------------------
(* What a trade needs, and what it has done.                               *)

QuoteNeeded == Size + Tol

PayAccount(t, s) ==
    IF s = "buy" THEN <<route[t].buy, "quote">> ELSE <<route[t].sell, "base">>
GetAccount(t, s) ==
    IF s = "buy" THEN <<route[t].buy, "base">> ELSE <<route[t].sell, "quote">>
Needed(s) == IF s = "buy" THEN QuoteNeeded ELSE Size
Spent(t, s) == IF s = "buy" THEN order[t][s].cost ELSE order[t][s].filled

Executed(t, s) == Larger(0, order[t][s].did)

\* Exposure as the engine sees it, and as the venues have it.
Exposure(t) == order[t]["buy"].filled - order[t]["sell"].filled
Long(t)     == Exposure(t) > 0
Amount(t)   == IF Long(t) THEN Exposure(t) ELSE -Exposure(t)
RealNet(t)  == Executed(t, "buy") - Executed(t, "sell")
               + (IF Long(t) THEN -hedge[t].did ELSE hedge[t].did)

Flat(t)     == 50 * Larger(RealNet(t), -RealNet(t)) <= Amount(t)

HedgePay(t, v) == <<v, IF Long(t) THEN "base" ELSE "quote">>
HedgeGet(t, v) == <<v, IF Long(t) THEN "quote" ELSE "base">>
HedgeNeeded(t) == IF Long(t) THEN Amount(t) ELSE Amount(t) + Tol

\* InventoryManager.available: last seen free balance minus reservations.
ReservedFor(a) ==
    MapThenSumSet(LAMBDA t : MapThenSumSet(LAMBDA s : Needed(s),
                                           {s \in Sides : PayAccount(t, s) = a}),
                  held)
Available(a) == Larger(0, seen[a] - ReservedFor(a))

GlobalTripped == \E b \in breakers : b[1] = "global"
TripStrategy(reason) == breakers \cup {<<"strategy", reason>>}   \* mutant: scope
Trip(reason) == breakers \cup {<<"global", reason>>}

\* A failed trade is counted (up to the threshold, beyond which nothing
\* changes); record_and_check trips when the count reaches it.
CountFailure ==
    /\ failures' = Smaller(failures + 1, MaxFailures)
    /\ failedHour' = Smaller(failedHour + 1, MaxFailures)
RepeatedFailure ==
    IF failures + 1 >= MaxFailures THEN {<<"global", "REPEATED_ORDER_FAILURE">>} ELSE {}

--------------------------------------------------------------------------------
(* execute(): preconditions, re-validation and reservation.                *)

Aborted(t) ==
    /\ pc' = [pc EXCEPT ![t] = "done"]
    /\ status' = [status EXCEPT ![t] = "ABORTED"]

\* Preconditions, candidate_for and the portfolio snapshot of evaluate() run
\* without a yield; a snapshot the Risk Engine rejects is an abort later on.
Startable ==
    /\ ~estop
    /\ Cardinality(open) < MaxConcurrent
    /\ ~GlobalTripped
    /\ failedHour < MaxFailures

Start(t) ==
    /\ pc[t] = "idle"
    /\ \/ /\ Startable
          /\ pc' = [pc EXCEPT ![t] = "quoting"]
          /\ UNCHANGED status
       \/ /\ ~Startable \/ unhedged        \* unhedged for too long
          /\ Aborted(t)
    /\ UNCHANGED <<simulated, route, order, hedge, books, seen, expected, held, open, unhedged, safetyVars>>

\* The guards that evaluate() applies after the quotes, in one run with the
\* reservation: profit, slippage and latency are a free choice.
\* One chain is looked up: that of the buy leg, else that of the sell leg.
ChainChecked(t) == IF route[t].buy \in Dex THEN route[t].buy ELSE route[t].sell
BlockedByChain(t) == \E b \in breakers : b[1] = ChainChecked(t)   \* mutant: no re-check
Blocked(t) == estop \/ GlobalTripped \/ \E b \in breakers : b[1] = ChainChecked(t)

InventoryCovers(t) == \A s \in Sides : Available(PayAccount(t, s)) >= Needed(s)
LedgerCovers(t)    == \A s \in Sides : CanReserve(books, PayAccount(t, s), Needed(s))

RejectQuotes(t) ==
    /\ pc[t] = "quoting"
    /\ Aborted(t)
    /\ UNCHANGED <<simulated, route, order, hedge, books, seen, expected, held, open, unhedged, safetyVars>>

\* The inventory takes the reservation; the ledger refuses it.  The ledger's
\* part is undone, the inventory's is not.
ReserveFails(t) ==
    /\ pc[t] = "quoting"
    /\ simulated /\ ~Blocked(t) /\ InventoryCovers(t) /\ ~LedgerCovers(t)
    /\ Aborted(t)
    /\ held' = held \cup {t}
    /\ UNCHANGED <<simulated, route, order, hedge, books, seen, expected, open, unhedged, safetyVars>>

Reserved(t) ==
    Reserve(Reserve(books, PayAccount(t, "buy"), QuoteNeeded), PayAccount(t, "sell"), Size)

Submit(t) ==
    /\ pc[t] = "quoting"
    /\ ~Blocked(t) /\ InventoryCovers(t)
    /\ IF simulated THEN LedgerCovers(t) /\ books' = Reserved(t)
                    ELSE UNCHANGED books
    /\ held' = held \cup {t}
    /\ open' = open \cup {t}
    /\ pc' = [pc EXCEPT ![t] = "legs"]
    /\ status' = [status EXCEPT ![t] = "EXECUTING"]
    /\ order' = [order EXCEPT ![t] = [s \in Sides |-> [NoOrder EXCEPT !.sent = TRUE]]]
    /\ UNCHANGED <<simulated, route, hedge, seen, expected, unhedged, safetyVars>>

--------------------------------------------------------------------------------
(* The legs.                                                               *)

\* A fill of f base units: what it costs and what it brings.
GasOf(v, f) == IF v \in Dex /\ f > 0 THEN Gas ELSE 0
Settled(ledger, v, pay, get, buying, f, c, reserved) ==
    ChargeGas(SettleFill(ledger, pay, IF buying THEN c ELSE f, get, f, reserved),
              <<v, "base">>, GasOf(v, f))

Costs(buying, f) == IF buying /\ f > 0 THEN f .. f + Tol ELSE {0}

\* What a filled order may fill: anything up to the amount asked for.
FillableBeyond(t) == 1 .. Size + 1     \* mutant: fill_base is not clamped
Fillable(t) == 1 .. Size

\* PaperExecutor.execute_leg: a rejection, an order that cannot be filled at
\* its limit and a timeout settle nothing; a fill settles the ledger before
\* the answer is returned, with no yield in between.
PaperLeg(t, s) ==
    /\ simulated /\ pc[t] = "legs" /\ ~order[t][s].answered
    /\ \/ /\ order' = [order EXCEPT ![t][s].answered = TRUE, ![t][s].did = 0]
          /\ UNCHANGED books
       \/ \E f \in Fillable(t) : \E c \in Costs(s = "buy", f) :
            /\ order' = [order EXCEPT ![t][s] =
                            [@ EXCEPT !.answered = TRUE, !.filled = f, !.did = f, !.cost = c]]
            /\ books' = Settled(books, route[t][s], PayAccount(t, s), GetAccount(t, s),
                                s = "buy", f, c, TRUE)
    /\ UNCHANGED <<pc, status, simulated, route, hedge, seen, expected, held, open, unhedged, safetyVars>>

\* The venue executes an order it was sent, answered to the engine or not.
VenueExecutes(t, s) ==
    /\ ~simulated /\ order[t][s].sent /\ order[t][s].did = NotYet
    /\ \E f \in 0 .. Size : \E c \in Costs(s = "buy", f) :
        /\ f > 0 => books[PayAccount(t, s)].free >= IF s = "buy" THEN c ELSE f
        /\ order' = [order EXCEPT ![t][s].did = f, ![t][s].cost = c]
        /\ books' = Settled(books, route[t][s], PayAccount(t, s), GetAccount(t, s),
                            s = "buy", f, c, FALSE)
    /\ UNCHANGED <<pc, status, simulated, route, hedge, seen, expected, held, open, unhedged, safetyVars>>

VenueAnswers(t, s) ==
    /\ ~simulated /\ pc[t] = "legs"
    /\ ~order[t][s].answered /\ order[t][s].did # NotYet
    /\ order' = [order EXCEPT ![t][s].answered = TRUE, ![t][s].filled = order[t][s].did]
    /\ UNCHANGED <<pc, status, simulated, route, hedge, books, seen, expected, held, open, unhedged, safetyVars>>

\* wait_for expires: _as_result turns it into a FAILED result filled 0.
LegNeverTimesOut(t, s) == FALSE        \* mutant: no wait_for
LegTimesOut(t, s) ==
    /\ ~simulated /\ "timeout" \in Events /\ pc[t] = "legs" /\ ~order[t][s].answered
    /\ order' = [order EXCEPT ![t][s].answered = TRUE]
    /\ UNCHANGED <<pc, status, simulated, route, hedge, books, seen, expected, held, open, unhedged, safetyVars>>

\* _release_unused: what the legs did not spend goes back to free.
Unreserved(t) ==
    Release(Release(books, PayAccount(t, "buy"), Larger(0, QuoteNeeded - Spent(t, "buy"))),
            PayAccount(t, "sell"), Larger(0, Size - Spent(t, "sell")))

\* _note_dex_failures: two failed DEX legs of a chain trip its breaker.  An
\* unfilled leg may also have been cancelled, which does not count.
DexUnfilled(t) == {s \in Sides : route[t][s] \in Dex /\ order[t][s].filled = 0}
FailedOn(t, v, failed) == Cardinality({s \in failed : route[t][s] = v})
DexTrips(t, failed) ==
    {<<v, "DEX_TX_FAILURE">> :
        v \in {route[t][s] : s \in {x \in failed :
                    dexFails[route[t][x]] + FailedOn(t, route[t][x], failed) >= 2}}}

\* What the legs leave the trade as: an exposure to recover, a double
\* failure, or a pair.
Outcome(t, trips) ==
    \/ /\ Exposure(t) # 0
       /\ pc' = [pc EXCEPT ![t] = "recover"]
       /\ status' = [status EXCEPT ![t] = "RECOVERING"]
       /\ unhedged' = TRUE
       /\ breakers' = breakers \cup trips
       /\ UNCHANGED <<failures, failedHour>>
    \/ /\ Exposure(t) = 0 /\ order[t]["buy"].filled = 0
       /\ pc' = [pc EXCEPT ![t] = "post"]
       /\ status' = [status EXCEPT ![t] = "FAILED"]
       /\ CountFailure
       /\ breakers' = breakers \cup trips \cup RepeatedFailure
       /\ UNCHANGED unhedged
    \/ /\ Exposure(t) = 0 /\ order[t]["buy"].filled > 0
       /\ pc' = [pc EXCEPT ![t] = "post"]
       /\ status' = [status EXCEPT ![t] = "FILLED"]
       /\ breakers' = breakers \cup trips
       /\ UNCHANGED <<failures, failedHour, unhedged>>

LegsDone(t) ==
    /\ pc[t] = "legs" /\ \A s \in Sides : order[t][s].answered
    /\ books' = IF simulated THEN Unreserved(t) ELSE books
    /\ \E failed \in SUBSET DexUnfilled(t) :
         /\ dexFails' = [v \in Dex |-> Smaller(2, dexFails[v] + FailedOn(t, v, failed))]
         /\ Outcome(t, DexTrips(t, failed))
    /\ UNCHANGED <<simulated, route, order, hedge, seen, expected, held, open, estop, reviewed>>

--------------------------------------------------------------------------------
(* _recover(): the emergency hedge.                                        *)

\* The venues that hold the asset, are healthy and quote the whole amount;
\* the best three are tried.  Health and quotes are a free choice.
HedgeVenues(t) == {v \in Venues : Available(HedgePay(t, v)) > 0}

FindHedge(t) ==
    /\ pc[t] = "recover"
    /\ \E vs \in SUBSET HedgeVenues(t) :
        /\ Cardinality(vs) <= 3
        /\ hedge' = [hedge EXCEPT ![t].left = vs]
    /\ pc' = [pc EXCEPT ![t] = "hedge"]
    /\ UNCHANGED <<status, simulated, route, order, books, seen, expected, held, open, unhedged, safetyVars>>

Hedging(t) == pc[t] = "hedge" /\ hedge[t].filled = 0 /\ hedge[t].at = {}

\* The ledger cannot reserve for this venue any more: the next one is tried.
HedgeSkips(t, v) ==
    /\ simulated /\ Hedging(t) /\ v \in hedge[t].left
    /\ ~CanReserve(books, HedgePay(t, v), HedgeNeeded(t))
    /\ hedge' = [hedge EXCEPT ![t].left = @ \ {v}]
    /\ UNCHANGED <<pc, status, simulated, route, order, books, seen, expected, held, open, unhedged, safetyVars>>

\* The ledger reserves; the order then travels for the simulated latency.
HedgeReserves(t, v) ==
    /\ simulated /\ Hedging(t) /\ v \in hedge[t].left
    /\ CanReserve(books, HedgePay(t, v), HedgeNeeded(t))
    /\ books' = Reserve(books, HedgePay(t, v), HedgeNeeded(t))
    /\ hedge' = [hedge EXCEPT ![t].left = @ \ {v}, ![t].at = {v}]
    /\ UNCHANGED <<pc, status, simulated, route, order, seen, expected, held, open, unhedged, safetyVars>>

\* An attempt at v that filled f for c, of which the engine was told.
Attempt(h, v, told, f, c) ==
    [left |-> h.left \ {v}, at |-> {}, filled |-> told, did |-> h.did + f,
     cost |-> h.cost + c, gas |-> h.gas + GasOf(v, f)]

\* What a partly filled hedge gives back: the unfilled base, or its price
\* without the tolerance that was reserved on top.
HedgeSettled(t, v, f, c) ==
    Release(Settled(books, v, HedgePay(t, v), HedgeGet(t, v), ~Long(t), f, c, TRUE),
            HedgePay(t, v), Amount(t) - f)

PaperHedge(t, v) ==
    /\ simulated /\ pc[t] = "hedge" /\ v \in hedge[t].at
    /\ \E f \in 0 .. Amount(t) : \E c \in Costs(~Long(t), f) :
        /\ books' = HedgeSettled(t, v, f, c)
        /\ hedge' = [hedge EXCEPT ![t] = Attempt(@, v, f, f, c)]
    /\ UNCHANGED <<pc, status, simulated, route, order, seen, expected, held, open, unhedged, safetyVars>>

\* execute_leg raises while it fetches the book: nothing is settled and the
\* reservation is not given back.
PaperHedgeRaises(t, v) ==
    /\ simulated /\ "hedge_error" \in Events
    /\ pc[t] = "hedge" /\ v \in hedge[t].at
    /\ hedge' = [hedge EXCEPT ![t].at = {}]
    /\ UNCHANGED <<pc, status, simulated, route, order, books, seen, expected, held, open, unhedged, safetyVars>>

\* venue.place_order; the answer may be lost after the venue executed, and the
\* next venue is then asked for the whole amount again.
Told(f) == IF "hedge_error" \in Events THEN {0, f} ELSE {f}

VenueHedge(t, v) ==
    /\ ~simulated /\ Hedging(t) /\ v \in hedge[t].left
    /\ \E f \in 0 .. Amount(t) : \E c \in Costs(~Long(t), f) : \E told \in Told(f) :
        /\ f > 0 => books[HedgePay(t, v)].free >= IF Long(t) THEN f ELSE c
        /\ books' = Settled(books, v, HedgePay(t, v), HedgeGet(t, v), ~Long(t), f, c, FALSE)
        /\ hedge' = [hedge EXCEPT ![t] = Attempt(@, v, told, f, c)]
    /\ UNCHANGED <<pc, status, simulated, route, order, seen, expected, held, open, unhedged, safetyVars>>

\* The hedge has filled or no venue is left: _recover gives its verdict.
\* What is left may be 2% of the exposure.
AnyHedgeCounts(t) == hedge[t].filled > 0     \* mutant: the remainder is ignored
Neutralised(t) == 50 * (Amount(t) - hedge[t].filled) <= Amount(t)

Verdict(t) ==
    /\ pc[t] = "hedge" /\ hedge[t].at = {} /\ (hedge[t].filled > 0 \/ hedge[t].left = {})
    /\ pc' = [pc EXCEPT ![t] = "post"]
    /\ status' = [status EXCEPT ![t] = IF Neutralised(t) THEN "HEDGED" ELSE "RECOVERING"]
    /\ unhedged' = IF Neutralised(t) THEN FALSE ELSE unhedged
    /\ CountFailure
    /\ breakers' = breakers \cup RepeatedFailure
            \cup IF Neutralised(t) THEN {} ELSE Trip("ONE_LEG_FILL")
    /\ UNCHANGED <<simulated, route, order, hedge, books, seen, expected, held, open, dexFails, estop, reviewed>>

--------------------------------------------------------------------------------
(* Accounting, and the end of the trade.                                   *)

EndedStillOpen(t) ==       \* mutant: the id stays in open_trade_ids
    /\ pc' = [pc EXCEPT ![t] = "done"]
    /\ open' = open
    /\ held' = held \ {t}
Ended(t) ==
    /\ pc' = [pc EXCEPT ![t] = "done"]
    /\ open' = open \ {t}
    /\ held' = held \ {t}

\* _post_trade may trip a breaker on the result (loss, prediction error,
\* slippage, fees); then the trade leaves open_trade_ids and the inventory.
Finish(t) ==
    /\ pc[t] = "post"
    /\ Ended(t)
    /\ breakers' \in {breakers} \cup IF "bad_result" \in Events THEN {Trip("POST_TRADE")} ELSE {}
    /\ UNCHANGED <<status, simulated, route, order, hedge, books, seen, expected, unhedged,
                   failures, failedHour, dexFails, estop, reviewed>>

\* A database write fails: the last line of defence marks the trade FAILED
\* and pauses trading.
ExecutionError(t) ==
    /\ "db_error" \in Events /\ pc[t] \in {"recover", "post"}
    /\ Ended(t)
    /\ status' = [status EXCEPT ![t] = "FAILED"]
    /\ breakers' = Trip("REPEATED_ORDER_FAILURE")
    /\ UNCHANGED <<simulated, route, order, hedge, books, seen, expected, unhedged,
                   failures, failedHour, dexFails, estop, reviewed>>

--------------------------------------------------------------------------------
(* The background loops and the operator.                                  *)

\* _refresh_balances: the ledger's venues in one run, a venue's balances one
\* fetch at a time.
Refresh ==
    /\ \E vs \in IF simulated THEN {Venues} ELSE {{v} : v \in Venues} :
        seen' = [a \in Accounts |-> IF a[1] \in vs THEN books[a].free ELSE seen[a]]
        /\ expected' = IF simulated THEN expected
                       ELSE [a \in Accounts |-> IF a[1] \in vs THEN Total(books[a]) ELSE expected[a]]
    /\ seen' # seen \/ expected' # expected
    /\ UNCHANGED <<tradeVars, simulated, route, books, held, open, unhedged, safetyVars>>

\* _reconcile_paper: reservations are stale, and freed, when no trade is open.
StaleAlways == TRUE            \* mutant: the reconciler does not look for open trades
StaleInverted == open # {}     \* mutant: the test is inverted
ReservationsStale == open = {}

ReconcilePaper ==
    /\ simulated
    /\ books' = IF ReservationsStale THEN [a \in Accounts |-> Release(books, a, books[a].used)[a]] ELSE books
    /\ breakers' = IF \E a \in Accounts : books[a].free < 0
                     THEN Trip("BALANCE_DISCREPANCY") ELSE breakers
    /\ books' # books \/ breakers' # breakers
    /\ UNCHANGED <<tradeVars, simulated, route, seen, expected, held, open, unhedged, failures, failedHour, dexFails, estop, reviewed>>

\* _reconcile_real: a balance that differs from the last one seen pauses
\* trading; reality is adopted.
ReconcileVenues ==
    /\ ~simulated
    /\ \E a \in Accounts : Total(books[a]) # expected[a]
    /\ breakers' = Trip("BALANCE_DISCREPANCY")
    /\ expected' = [a \in Accounts |-> Total(books[a])]
    /\ UNCHANGED <<tradeVars, simulated, route, books, seen, held, open, unhedged, failures, failedHour, dexFails, estop, reviewed>>

Stop ==
    /\ "stop" \in Events /\ ~estop
    /\ estop' = TRUE
    /\ breakers' = Trip("MANUAL")
    /\ UNCHANGED <<tradeVars, simulated, route, books, seen, expected, held, open, unhedged, failures, failedHour, dexFails, reviewed>>

ReleaseStop ==
    /\ estop
    /\ estop' = FALSE
    /\ breakers' = {b \in breakers : b[2] # "MANUAL"}
    /\ UNCHANGED <<tradeVars, simulated, route, books, seen, expected, held, open, unhedged, failures, failedHour, dexFails, reviewed>>

\* "Reset after investigation" of every breaker.  The counters stay.
ResetBreakers ==
    /\ "reset" \in Events /\ breakers # {}
    /\ breakers' = {}
    /\ reviewed' = reviewed \cup {t \in Trades : pc[t] \in {"post", "done"}}
    /\ UNCHANGED <<tradeVars, simulated, route, books, seen, expected, held, open, unhedged, failures, failedHour, dexFails, estop>>

\* The failure windows slide past what they counted.
WindowPasses ==
    /\ "window" \in Events
    /\ failures > 0 \/ failedHour > 0 \/ \E v \in Dex : dexFails[v] > 0
    /\ failures' = 0
    /\ failedHour' = 0
    /\ dexFails' = [v \in Dex |-> 0]
    /\ UNCHANGED <<tradeVars, simulated, route, books, seen, expected, held, open, unhedged, breakers, estop, reviewed>>

\* reset_paper: the ledger is seeded again and the results are purged.
ResetPaper ==
    /\ simulated /\ "reset_paper" \in Events
    /\ books' = Seed(Accounts, [a \in Accounts |-> Funds])
    /\ seen' = [a \in Accounts |-> Funds]
    /\ order' = [t \in Trades |-> IF pc[t] = "done" THEN [s \in Sides |-> NoOrder] ELSE order[t]]
    /\ hedge' = [t \in Trades |-> IF pc[t] = "done" THEN NoHedge ELSE hedge[t]]
    /\ failedHour' = 0
    /\ breakers' = {}
    /\ reviewed' = reviewed \cup {t \in Trades : pc[t] \in {"post", "done"}}
    /\ UNCHANGED <<pc, status, simulated, route, expected, held, open, unhedged, failures, dexFails, estop>>

--------------------------------------------------------------------------------

Init ==
    /\ simulated \in Simulated
    /\ pc = [t \in Trades |-> "idle"]
    /\ status = [t \in Trades |-> "PENDING"]
    /\ route \in [Trades -> Routes]
    /\ order = [t \in Trades |-> [s \in Sides |-> NoOrder]]
    /\ hedge = [t \in Trades |-> NoHedge]
    /\ books = Seed(Accounts, [a \in Accounts |-> Funds])
    /\ seen = [a \in Accounts |-> Funds]
    /\ expected = [a \in Accounts |-> Funds]
    /\ held = {} /\ open = {}
    /\ unhedged = FALSE
    /\ failures = 0 /\ failedHour = 0
    /\ dexFails = [v \in Dex |-> 0]
    /\ breakers = {}
    /\ estop = FALSE
    /\ reviewed = {}

Leg(t, s) == PaperLeg(t, s) \/ VenueAnswers(t, s) \/ LegTimesOut(t, s)

Hedge(t, v) ==
    \/ HedgeSkips(t, v) \/ HedgeReserves(t, v) \/ PaperHedge(t, v) \/ PaperHedgeRaises(t, v)
    \/ VenueHedge(t, v)

\* The steps of the task of a trade that has been started.
Task(t) ==
    \/ RejectQuotes(t) \/ ReserveFails(t) \/ Submit(t)
    \/ \E s \in Sides : Leg(t, s)
    \/ LegsDone(t)
    \/ FindHedge(t)
    \/ \E v \in Venues : Hedge(t, v)
    \/ Verdict(t) \/ Finish(t) \/ ExecutionError(t)

Loops == Refresh \/ ReconcilePaper \/ ReconcileVenues \/ WindowPasses
Operator == Stop \/ ReleaseStop \/ ResetBreakers \/ ResetPaper

Next ==
    \/ \E t \in Trades : Start(t) \/ Task(t) \/ \E s \in Sides : VenueExecutes(t, s)
    \/ Loops
    \/ Operator

Spec == Init /\ [][Next]_vars

\* A task that can run does, and the reconcile loop runs again and again;
\* nothing obliges the operator, or a venue, to act.
Fairness ==
    /\ \A t \in Trades : WF_vars(Task(t))
    /\ WF_vars(ReconcilePaper)

FairSpec == Spec /\ Fairness

--------------------------------------------------------------------------------
(* What the execution engine promises.                                     *)

PCs == {"idle", "quoting", "legs", "recover", "hedge", "post", "done"}
Statuses == {"PENDING", "ABORTED", "EXECUTING", "RECOVERING", "HEDGED", "FILLED", "FAILED"}
Orders == [sent : BOOLEAN, answered : BOOLEAN, filled : 0 .. Size,
           did : NotYet .. Size, cost : 0 .. Size + Tol]
Hedges == [left : SUBSET Venues, at : SUBSET Venues, filled : 0 .. Size, did : Nat, cost : Nat, gas : Nat]

\* Every variable keeps its shape; a reservation pool is never negative and a
\* leg never fills more than its size.
TypeOK ==
    /\ simulated \in BOOLEAN
    /\ pc \in [Trades -> PCs]
    /\ status \in [Trades -> Statuses]
    /\ route \in [Trades -> Routes]
    /\ order \in [Trades -> [Sides -> Orders]]
    /\ hedge \in [Trades -> Hedges]
    /\ books \in [Accounts -> [free : Int, used : Nat]]
    /\ seen \in [Accounts -> Int]
    /\ expected \in [Accounts -> Int]
    /\ held \subseteq Trades /\ open \subseteq Trades
    /\ unhedged \in BOOLEAN
    /\ failures \in 0 .. MaxFailures /\ failedHour \in 0 .. MaxFailures
    /\ dexFails \in [Dex -> 0 .. 2]
    /\ breakers \subseteq ({"global"} \cup Dex) \X Reasons
    /\ estop \in BOOLEAN
    /\ reviewed \subseteq Trades

\* What a leg or a hedge attempt in flight still has to find in an account's
\* pool, and what all of them do.
LegClaim(t, s, a) ==
    IF pc[t] = "legs" /\ PayAccount(t, s) = a THEN Needed(s) - Spent(t, s) ELSE 0
HedgeClaim(t, a) == IF \E v \in hedge[t].at : HedgePay(t, v) = a THEN HedgeNeeded(t) ELSE 0
Claim(t, a) == LegClaim(t, "buy", a) + LegClaim(t, "sell", a) + HedgeClaim(t, a)
Outstanding(a) == SumFunctionOnSet([t \in Trades |-> Claim(t, a)], Trades)

\* The pool of an account, shared by all trades and by the reconciler, always
\* covers what is reserved for the legs and hedges in flight: a fill is paid
\* from what was reserved for it, never from another trade's reservation
\* (_reserve, settle_fill, _release_unused, hedge, _reconcile_paper together).
PoolCovers ==
    simulated => \A a \in Accounts : books[a].used >= Outstanding(a)

\* What the trade records say moved, by asset.
Moved(t, asset) ==
    IF asset = "base"
      THEN order[t]["buy"].filled - order[t]["sell"].filled
           + (IF Long(t) THEN -hedge[t].filled ELSE hedge[t].filled)
           - hedge[t].gas - GasOf(route[t]["buy"], order[t]["buy"].filled)
           - GasOf(route[t]["sell"], order[t]["sell"].filled)
      ELSE order[t]["sell"].filled - order[t]["buy"].cost
           + (IF Long(t) THEN hedge[t].filled ELSE -hedge[t].cost)

\* What all trades moved, and what the ledger holds at all venues.
AllMoved(asset) == SumFunctionOnSet([t \in Trades |-> Moved(t, asset)], Trades)
Worth(asset) == SumFunctionOnSet([v \in Venues |-> Total(books[<<v, asset>>])], Venues)

\* The simulated ledger holds what it started with plus what the trade records
\* say was bought, sold, paid and burnt as gas: no interleaving of legs, hedges,
\* releases and reconciliations makes or loses money (settle_fill's unchecked
\* max(0, used - cost) never bites).
LedgerMatchesTrades ==
    simulated => \A asset \in Assets :
        Worth(asset) = Funds * Cardinality(Venues) + AllMoved(asset)

\* An answer was lost: a leg that timed out, or a hedge attempt that failed on
\* the way back, was executed by the venue nevertheless.
Lost(t) ==
    \/ \E s \in Sides : order[t][s].answered /\ order[t][s].filled # Executed(t, s)
    \/ hedge[t].did # hedge[t].filled

\* A trade recorded as FILLED or HEDGED has left no base exposure at the venues
\* (at most 2% of what was hedged), however its legs, partial fills, retries and
\* hedge attempts interleaved, unless an answer was lost.
CompletedIsFlat ==
    \A t \in Trades : pc[t] \in {"post", "done"} /\ status[t] \in {"FILLED", "HEDGED"} /\ ~Lost(t)
                        => Flat(t)

\* A trade that ended with an exposure has paused trading: a global breaker
\* stays active until the operator resets it after the trade has ended
\* (_recover's ONE_LEG_FILL, the exception handler of execute), unless an
\* answer was lost.
ExposurePauses ==
    \A t \in Trades : pc[t] = "done" /\ ~Flat(t) /\ ~Lost(t) /\ t \notin reviewed => GlobalTripped

\* The same whether or not an answer was lost: recovery neutralises an
\* imbalance or trips ONE_LEG_FILL.
EveryExposurePauses ==
    \A t \in Trades : pc[t] = "done" /\ ~Flat(t) /\ t \notin reviewed => GlobalTripped

\* A reservation is taken, after the quotes were awaited, only in a state with
\* neither an emergency stop nor a global breaker: what execute() checked on
\* entry holds again at the moment it commits.
CommitsOnlyWhenClear ==
    [][open' \subseteq open \/ (~estop /\ ~GlobalTripped)]_vars

\* A trade in flight ends: its id leaves open_trade_ids and its reservation the
\* inventory, whatever the legs, the hedge and the database do.
FlightEnds == \A t \in Trades : t \in open ~> t \notin open \cup held

\* Whatever a failed hedge leaves in a pool is given back: every reservation
\* of the simulated ledger is eventually zero.
PoolsDrain == \A a \in Accounts : books[a].used > 0 ~> books[a].used = 0
================================================================================
