-------------------------------- MODULE FlashLoan --------------------------------
(***************************************************************************)
(* Flash-loan arbitrage (engine/flashloan.py) and the contract it calls    *)
(* (contracts/src/FlashLoanArbitrage.sol).                                 *)
(*                                                                         *)
(* A trade is quoted and simulated, then settled on paper or sent to the   *)
(* contract, and then booked.  Each trade is a task, cut where it awaits a *)
(* venue, the node or the database; the chain, the operator, the           *)
(* housekeeping and mode changes go on meanwhile.  Amounts are the profit  *)
(* of a route in the loan's asset, after the loan and its fee are repaid.  *)
(***************************************************************************)
EXTENDS Integers, FiniteSets

CONSTANTS
    Trades,      \* trades, each executed once, by the scan loop or an API request
    Quotes,      \* the profit that the venues quote for a route
    Profits,     \* the profit that the swaps make when the transaction runs
    Slippage,    \* what max_slippage_bps lets the swaps fall short of the quote
    Surcharge,   \* what the pool's premium is above the 0.0005 that a quote counts with
    MinProfit,   \* min_net_profit_usd: the contract's minProfit
    Gas,         \* what a transaction costs, reverted or not
    MaxLoss,     \* max_daily_loss_usd
    MaxSwitches, \* bound: stops, and changes of the mode and of the contract
    Faults       \* "crash", "db_error", "lost_answer"

ASSUME TradeAssumption  == IsFiniteSet(Trades)
ASSUME QuoteAssumption  == Quotes \subseteq Int /\ Profits \subseteq Int
ASSUME AmountAssumption ==
    /\ Slippage \in Nat /\ Surcharge \in Int
    /\ MinProfit \in Nat /\ Gas \in Nat /\ MaxLoss \in Nat /\ MaxSwitches \in Nat

Modes == {"PAPER", "LIVE"}

VARIABLES
    mode,      \* ctx.mode
    ledger,    \* ctx.ledger is there
    stop,      \* ctx.emergency_stop
    tripped,   \* the breaker strategy:flash_loan|FLASH_LOAN_FAILURE
    daily,     \* ctx.daily_pnl_usd
    reading,   \* what _load_daily_stats has read and not assigned yet, if anything
    trade,     \* what each trade is doing
    row,       \* the status in the table trades
    pnl,       \* today's net in the table pnl_daily, by mode
    fate,      \* what became of each trade's transaction
    mined,     \* the bot wallet's transactions in blocks: its next nonce
    balance,   \* the contract's own balance of the asset
    halted,    \* the contract is paused, or the route is not on its lists
    rescued,   \* history: what the owner took out of the contract
    quoted,    \* history: the quotes of the trades that succeeded on the chain
    paid,      \* history: trades whose profit reached the paper account
    caught,    \* history: trades past their checks when trading was last stopped
    mixed,     \* history: a trade met a change of the mode that was under way
    lost,      \* history: trades that ended with an exception or a crash
    switches   \* the changes counted for MaxSwitches

controls == <<mode, ledger, stop, tripped, caught, mixed, switches>>
counters == <<daily, reading>>
chain    == <<fate, mined, balance, halted, rescued, quoted>>
books    == <<row, pnl, paid, lost>>
vars     == <<controls, counters, chain, books, trade>>

Before    == {"new", "quote", "simulate"}
Sending   == {"call", "nonce", "send"}
Booking   == {"save", "book", "count"}
Phases    == Before \cup Sending \cup Booking \cup {"settle", "wait", "done"}
Statuses  == {"PENDING", "FILLED", "FAILED", "ABORTED"}
NoNonce   == -1

Trade == [at : Phases, limited : BOOLEAN, quote : Quotes \cup {0},
          nonce : Nat \cup {NoNonce}, status : Statuses]

TypeOK ==
    /\ mode \in Modes /\ {ledger, stop, tripped, halted, mixed} \subseteq BOOLEAN
    /\ daily \in Int /\ reading \subseteq Int
    /\ trade \in [Trades -> Trade]
    /\ row \in [Trades -> Statuses \cup {"none"}]
    /\ pnl \in [Modes -> Int]
    /\ fate \in [Trades -> {"unsent", "pending", "ok", "reverted", "dropped"}]
    /\ mined \in Nat /\ balance \in Nat /\ rescued \in Nat /\ quoted \in Int
    /\ {paid, caught, lost} \subseteq SUBSET Trades
    /\ switches \in Nat

Init ==
    /\ mode \in Modes /\ ledger = (mode = "PAPER")
    /\ stop = FALSE /\ tripped = FALSE /\ daily = 0 /\ reading = {}
    /\ trade = [t \in Trades |-> [at |-> "new", limited |-> FALSE, quote |-> 0,
                                  nonce |-> NoNonce, status |-> "PENDING"]]
    /\ row = [t \in Trades |-> "none"] /\ pnl = [m \in Modes |-> 0]
    /\ fate = [t \in Trades |-> "unsent"] /\ mined = 0
    /\ balance = 0 /\ halted = FALSE /\ rescued = 0 /\ quoted = 0
    /\ paid = {} /\ caught = {} /\ mixed = FALSE /\ lost = {} /\ switches = 0

\* Trades that passed their checks, and trades that began and did not end.
Passed   == {t \in Trades : trade[t].at \in Sending \cup {"settle", "wait"}}
InFlight == {t \in Trades : trade[t].at \notin {"new", "done"}}

--------------------------------------------------------------------------------
(* The contract.                                                           *)

\* What a transaction may make less than quoted: minAmountOut bounds what the swaps
\* return, the premium is what the pool asks.
Shortfall == Slippage + Surcharge

\* minAmountOut of the swaps, as a profit after the premium.
\* Mutant: without the limit on the swaps only the final balance counts.
MinOutAsQuoted(q) == q - Shortfall
MinOutAnything(q) == -Shortfall
MinOut(q) == MinOutAsQuoted(q)

\* The balance that must cover loan, fee and minProfit includes what earlier trades left.
Covered(p) == balance + p >= MinProfit

\* executeArbitrage and its callback, for swaps that make the profit p.
Succeeds(q, p) == ~halted /\ p >= MinOut(q) /\ Covered(p)

\* What eth_call tells: the same call, at the state and the prices of the moment.
MaySucceed(q) == \E p \in Profits : Succeeds(q, p)

\* A block takes the transaction with the next nonce; others with that nonce are void.
\* A transaction that comes later than its deadline reverts.
Mine(t) ==
    /\ fate[t] = "pending" /\ trade[t].nonce = mined
    /\ mined' = mined + 1
    /\ \E p \in Profits, late \in BOOLEAN :
           LET ok == ~late /\ Succeeds(trade[t].quote, p) IN
           /\ fate' = [u \in Trades |->
                  IF u = t THEN IF ok THEN "ok" ELSE "reverted"
                  ELSE IF fate[u] = "pending" /\ trade[u].nonce = mined THEN "dropped" ELSE fate[u]]
           /\ balance' = IF ok THEN balance + p ELSE balance
           /\ quoted'  = IF ok THEN quoted + trade[t].quote ELSE quoted
    /\ UNCHANGED <<halted, rescued, controls, counters, books, trade>>

\* rescueERC20, and pause, unpause, setRouter and setToken, by the owner.
Rescue ==
    /\ balance > 0
    /\ rescued' = rescued + balance /\ balance' = 0
    /\ UNCHANGED <<fate, mined, halted, quoted, controls, counters, books, trade>>

Administer ==
    /\ switches < MaxSwitches /\ switches' = switches + 1
    /\ halted' = ~halted
    /\ UNCHANGED <<fate, mined, balance, rescued, quoted>>
    /\ UNCHANGED <<mode, ledger, stop, tripped, caught, mixed, counters, books, trade>>

--------------------------------------------------------------------------------
(* A trade, from the request to its transaction.                           *)

Becomes(t, tr)  == trade' = [trade EXCEPT ![t] = tr]
Goes(t, phase)  == Becomes(t, [trade[t] EXCEPT !.at = phase])
Ends(t, status) == Becomes(t, [trade[t] EXCEPT !.at = "save", !.status = status])

\* execute: the portfolio, with the daily loss, is a snapshot taken before the quotes.
Start(t) ==
    /\ trade[t].at = "new"
    /\ IF stop
       THEN Ends(t, "ABORTED")
       ELSE Becomes(t, [trade[t] EXCEPT !.at = "quote", !.limited = (daily <= -MaxLoss)])
    /\ mixed' = (mixed \/ ledger # (mode = "PAPER"))
    /\ UNCHANGED <<mode, ledger, stop, tripped, caught, switches, counters, chain, books>>

\* The end of _assess: profit guard, breakers, stop and loss limit.
\* Mutant: the stop is asked for at the start only.
Worth(q) == q - Gas >= MinProfit
ClearNow(t)     == ~stop /\ ~tripped /\ ~trade[t].limited
ClearAtStart(t) == ~tripped /\ ~trade[t].limited
Clear(t) == ClearNow(t)

\* The mode is read again: the trade is settled for the mode of this moment.
Decide(t, q, simulated) ==
    LET go == simulated /\ Worth(q) /\ Clear(t) IN
    Becomes(t, [trade[t] EXCEPT
        !.at = IF ~go THEN "save" ELSE IF mode = "PAPER" THEN "settle" ELSE "call",
        !.quote = q, !.limited = FALSE, !.status = IF go THEN "PENDING" ELSE "ABORTED"])

\* The quotes are there; on paper the simulation is a comparison, else it awaits eth_call.
Quoted(t) ==
    /\ trade[t].at = "quote"
    /\ \/ Ends(t, "ABORTED")
       \/ \E q \in Quotes :
              IF mode = "PAPER"
              THEN Decide(t, q, q >= MinProfit)
              ELSE Becomes(t, [trade[t] EXCEPT !.at = "simulate", !.quote = q])
    /\ UNCHANGED <<controls, counters, chain, books>>

Simulated(t) ==
    /\ trade[t].at = "simulate"
    /\ \/ MaySucceed(trade[t].quote) /\ Decide(t, trade[t].quote, TRUE)
       \/ Decide(t, trade[t].quote, FALSE)
    /\ UNCHANGED <<controls, counters, chain, books>>

\* _settle_paper: without a ledger the trade is filled and nobody is paid.
Settle(t) ==
    /\ trade[t].at = "settle"
    /\ paid' = IF ledger THEN paid \cup {t} ELSE paid
    /\ Ends(t, "FILLED")
    /\ UNCHANGED <<controls, counters, chain, row, pnl, lost>>

\* The last simulation, the gas estimate and the gas price, right before the broadcast.
FinalCall(t) ==
    /\ trade[t].at = "call"
    /\ \/ MaySucceed(trade[t].quote) /\ Goes(t, "nonce")
       \/ Ends(t, "ABORTED")
    /\ UNCHANGED <<controls, counters, chain, books>>

ReadNonce(t) ==
    /\ trade[t].at = "nonce"
    /\ Becomes(t, [trade[t] EXCEPT !.at = "send", !.nonce = mined])
    /\ UNCHANGED <<controls, counters, chain, books>>

\* The node accepts the transaction; its answer may be lost.
Send(t) ==
    /\ trade[t].at = "send" /\ trade[t].nonce >= mined
    /\ fate' = [fate EXCEPT ![t] = "pending"]
    /\ \/ Goes(t, "wait") /\ UNCHANGED lost
       \/ "lost_answer" \in Faults /\ Goes(t, "done") /\ lost' = lost \cup {t}
    /\ UNCHANGED <<mined, balance, halted, rescued, quoted, controls, counters, row, pnl, paid>>

\* The receipt; a reverted transaction pauses the strategy.
\* Mutants: a receipt is taken for a success, or its status for the trade's.
StatusOfReceipt(f) == IF f = "ok" THEN "FILLED" ELSE "FAILED"
StatusOfAny(f)     == "FILLED"
StatusAsIs(f)      == f
StatusOf(f) == StatusOfReceipt(f)

Stopping == caught' = Passed

Receipt(t) ==
    /\ trade[t].at = "wait" /\ fate[t] \in {"ok", "reverted"}
    /\ IF fate[t] = "ok" THEN UNCHANGED <<tripped, caught>> ELSE tripped' = TRUE /\ Stopping
    /\ \/ Ends(t, StatusOf(fate[t])) /\ UNCHANGED lost
       \/ /\ fate[t] = "reverted" /\ "db_error" \in Faults   \* the breaker's own write
          /\ Goes(t, "done") /\ lost' = lost \cup {t}
    /\ UNCHANGED <<mode, ledger, stop, mixed, switches, counters, chain, row, pnl, paid>>

\* An exception leaves through the finally block: nothing is saved, booked or counted.
Fails(t) ==
    /\ Goes(t, "done") /\ lost' = lost \cup {t}
    /\ UNCHANGED <<controls, counters, chain, row, pnl, paid>>

\* The node does not answer or refuses: a nonce that is used, a replacement underpriced.
Refused(t) == trade[t].at \in Sending \ {"call"} /\ Fails(t)

\* wait_for_transaction_receipt gives up after 180 seconds.
\* Mutant: the receipt is awaited without a limit.
GivesUpInTime(t) == trade[t].at = "wait"
GivesUpNever(t)  == FALSE
GivesUp(t) == GivesUpInTime(t)
Timeout(t) == GivesUp(t) /\ Fails(t)

--------------------------------------------------------------------------------
(* Booking.                                                                *)

\* compute_outcome: the legs of a filled trade are those quoted.
\* Mutant: the gas of a filled trade is not counted.
NetOfGas(tr) == CASE tr.status = "FILLED" -> tr.quote - Gas
                  [] tr.status = "FAILED" -> -Gas
                  [] OTHER -> 0
NetBeforeGas(tr) == CASE tr.status = "FILLED" -> tr.quote
                      [] tr.status = "FAILED" -> -Gas
                      [] OTHER -> 0
Net(tr) == NetOfGas(tr)

\* save_trade: the row of the trade is inserted or replaced.
Merged(t) == [row EXCEPT ![t] = trade[t].status]

\* add_pnl: a net amount is added to the day's row of a mode.
Added(m, net) == [pnl EXCEPT ![m] = @ + net]

\* pnl_summary: what the day's row of the mode in force says.
TodayNet == pnl[mode]

Save(t) ==
    /\ trade[t].at = "save"
    /\ row' = Merged(t)
    /\ Goes(t, IF trade[t].status = "FILLED" THEN "book" ELSE "count")
    /\ UNCHANGED <<controls, counters, chain, pnl, paid, lost>>

\* add_pnl, for the mode of this moment.
Book(t) ==
    /\ trade[t].at = "book"
    /\ pnl' = Added(mode, Net(trade[t]))
    /\ Goes(t, "count")
    /\ UNCHANGED <<controls, counters, chain, row, paid, lost>>

\* After the audit row.
Count(t) ==
    /\ trade[t].at = "count"
    /\ daily' = daily + Net(trade[t])
    /\ Goes(t, "done")
    /\ UNCHANGED <<reading, controls, chain, books>>

WriteFails(t) == "db_error" \in Faults /\ trade[t].at \in Booking /\ Fails(t)

Progress(t) ==
    \/ Start(t) \/ Quoted(t) \/ Simulated(t) \/ Settle(t)
    \/ FinalCall(t) \/ ReadNonce(t) \/ Send(t) \/ Refused(t) \/ Receipt(t) \/ Timeout(t)
    \/ Save(t) \/ Book(t) \/ Count(t) \/ WriteFails(t)

--------------------------------------------------------------------------------
(* The rest of the application.                                            *)

Switch == switches < MaxSwitches /\ switches' = switches + 1

\* The mode is assigned, and the ledger follows behind the rebuild's awaits.
SetMode(m) ==
    /\ Switch /\ m # mode /\ mode' = m
    /\ mixed' = (mixed \/ InFlight # {})
    /\ UNCHANGED <<ledger, stop, tripped, caught, counters, chain, books, trade>>

Rebuild ==
    /\ ledger # (mode = "PAPER") /\ ledger' = (mode = "PAPER")
    /\ mixed' = (mixed \/ InFlight # {})
    /\ UNCHANGED <<mode, stop, tripped, caught, switches, counters, chain, books, trade>>

Activate ==
    /\ Switch /\ ~stop /\ stop' = TRUE /\ Stopping
    /\ UNCHANGED <<mode, ledger, tripped, mixed, counters, chain, books, trade>>

\* The operator releases the stop and resets the breaker.
Resume ==
    /\ stop \/ tripped
    /\ stop' = FALSE /\ tripped' = FALSE
    /\ UNCHANGED <<mode, ledger, caught, mixed, switches, counters, chain, books, trade>>

\* _load_daily_stats, every 300 seconds and after a mode change: read, then assign.
ReadStats ==
    /\ reading = {}
    /\ reading' = {TodayNet}
    /\ UNCHANGED <<daily, controls, chain, books, trade>>

AssignStats ==
    /\ \E n \in reading : daily' = n
    /\ reading' = {}
    /\ UNCHANGED <<controls, chain, books, trade>>

\* The process is killed and starts again; stop and breaker are restored.
Crash ==
    /\ "crash" \in Faults /\ InFlight # {}
    /\ trade' = [t \in Trades |-> IF t \in InFlight THEN [trade[t] EXCEPT !.at = "done"] ELSE trade[t]]
    /\ lost' = lost \cup InFlight
    /\ daily' = TodayNet /\ reading' = {}
    /\ ledger' = (mode = "PAPER")
    /\ UNCHANGED <<mode, stop, tripped, caught, mixed, switches, chain, row, pnl, paid>>

Next ==
    \/ \E t \in Trades : Progress(t) \/ Mine(t)
    \/ Rescue \/ Administer
    \/ \E m \in Modes : SetMode(m)
    \/ Rebuild \/ Activate \/ Resume \/ ReadStats \/ AssignStats \/ Crash

\* Requests are not owed, what a trade has begun is: every await of the node has a limit.
Fairness == \A t \in Trades : WF_vars(trade[t].at # "new" /\ Progress(t))

Spec == Init /\ [][Next]_vars /\ Fairness

--------------------------------------------------------------------------------
(* Properties.                                                             *)

\* What a trade's row says happened: FILLED rows were paid by the contract or on paper
\* (unless a trade met a change of the mode), FAILED rows reverted,
\* ABORTED rows sent nothing; a trade without a row ended with an exception.
RowsTellTheTruth ==
    \A t \in Trades :
        /\ row[t] = "FILLED" => fate[t] = "ok" \/ t \in paid \/ mixed
        /\ row[t] = "FAILED" => fate[t] = "reverted"
        /\ row[t] = "ABORTED" => fate[t] = "unsent" /\ t \notin paid
        /\ trade[t].at = "done" /\ row[t] = "none" => t \in lost

\* What the contract gained falls short of what was quoted for the transactions that
\* succeeded by no more than the slippage and the premium's difference per transaction,
\* although one of them may lose money that an earlier one left (executeOperation).
Successes == Cardinality({t \in Trades : fate[t] = "ok"})
GainsCoverQuotes == balance + rescued >= quoted - Shortfall * Successes

\* The books of LIVE are made of quotes, not of what the chain says.  They are ahead of
\* what the transactions really made by no more than their shortfall: a transaction is
\* booked once at most, with its gas, and only if it succeeded (execute, compute_outcome),
\* unless a trade met a change of the mode.
Realized == balance + rescued - Gas * Successes
BooksAreCovered == ~mixed => pnl["LIVE"] <= Realized + Shortfall * Successes

Sends(t) == fate[t] = "unsent" /\ fate'[t] = "pending"

\* The emergency stop "blocks DEX / flash-loan execution" (docs/OPERATIONS.md): nothing is
\* sent while it is active.  The code asks it before the last simulation, and then awaits
\* answers of the node one after the other before it broadcasts (_broadcast).
StopBlocksLoans == [][\A t \in Trades : Sends(t) => ~stop]_vars

\* What the stop and the breaker do block: once trading is stopped, by the operator or by
\* a reverted transaction, a trade that still awaits its quotes or its first simulation is
\* not sent, though it was clear when it began (the end of _assess).  A trade past that
\* point is sent nevertheless, which StopBlocksLoans is about.
NothingNewIsSent == [][\A t \in Trades : Sends(t) /\ (stop \/ tripped) => t \in caught]_vars

\* Every trade that starts leaves the open trades, whatever node and database do.
TradeEnds == \A t \in Trades : trade[t].at = "quote" ~> trade[t].at = "done"
================================================================================
