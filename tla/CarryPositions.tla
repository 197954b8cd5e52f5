----------------------------- MODULE CarryPositions -----------------------------
(***************************************************************************)
(* The carry positions of engine/positions.py: spot bought on one venue    *)
(* and sold short on a perpetual venue, opened by the paired executor and  *)
(* closed, one leg after the other, by the monitor of app._positions_loop  *)
(* or by a request of the operator.                                        *)
(*                                                                         *)
(* All positions share one spot and one perp account, the worst case for   *)
(* the pools.  Prices are 1 and fees 0, so a round trip moves no value.    *)
(* "spot" and "short" are what the venues hold for a position; "simulated" *)
(* is ctx.is_simulated_execution, fixed for a run of the program.          *)
(* Recovery of an opening trade that fills unevenly is PairedExecution's.  *)
(***************************************************************************)
EXTENDS FiniteSetsExt, PaperLedger

CONSTANTS
    Positions,  \* identities of the carry trades
    Closers,    \* tasks that close: the monitor and the API requests
    Monitor,    \* the positions loop among them
    Nobody,     \* the position of a closer that has nothing to do
    Sizes,      \* base amount that each carry trade fills, if it does
    Funds,      \* starting balance of the accounts, and of the spot inventory
    Simulated,  \* the values of is_simulated_execution to consider
    Faults,     \* "crash", "db_error", "leg_error", "partial"
    Overrun     \* bound: how far attempts may sell or buy back beyond a holding

ASSUME CloserAssumption   == Monitor \in Closers /\ IsFiniteSet(Closers)
ASSUME PositionAssumption == Nobody \notin Positions /\ IsFiniteSet(Positions)
ASSUME AmountAssumption   == Sizes \in [Positions -> Nat \ {0}] /\ Funds \in Nat /\ Overrun \in Nat
ASSUME ModeAssumption     == Simulated \subseteq BOOLEAN

VARIABLES
    simulated,
    status,     \* Position.status, and the opening trade before it exists
    stored,     \* the status in the database, "none" without a row
    unsaved,    \* positions whose first row is being written
    spot,       \* base the spot venue holds for a position
    short,      \* what the perp venue is short for it
    task,       \* each closer: where close() stands, of what, sold so far
    books,      \* the paper ledger
    breakers,   \* "global", and "carry" for scope strategy:carry
    booked,     \* history: times the P&L of a position was booked
    partly,     \* history: positions one of whose close legs filled in part
    swept       \* history: the reconciler released the reservation of a close

holdings == <<spot, short, books>>
history  == <<booked, partly, swept>>
vars == <<simulated, status, stored, unsaved, task, holdings, breakers, history>>

Accounts == {"base", "quote", "margin", "collateral"}
Idle == [at |-> "idle", p |-> Nobody, sold |-> 0]

InTrade  == {p \in Positions : status[p] \in {"opening", "filled"}}
Tracked  == {p \in Positions : status[p] \in {"open", "closing"}}
Working  == {task[c].p : c \in Closers} \ {Nobody}
\* PositionManager.open: a closed position leaves it when its P&L is booked.
InOpen   == Tracked \cup {p \in Positions : status[p] = "closed" /\ booked[p] = 0}
Sum(f)   == SumFunctionOnSet(f, Positions)

\* What one leg may fill: nothing, everything, and in part where a run has it.
Fills(n) == IF "partial" \in Faults THEN 0 .. n ELSE {0, n}

--------------------------------------------------------------------------------
(* Opening: execute(allow_carry) and the position made of a filled pair.   *)

\* A breaker of scope strategy:carry is not among those evaluate() asks for:
\* the strategies are called spot_perp, funding and basis.
Open(p) ==
    /\ status[p] = "none"
    /\ "global" \notin breakers
    /\ IF simulated
         THEN /\ CanReserve(books, "quote", Sizes[p]) /\ CanReserve(books, "margin", Sizes[p])
              /\ books' = Reserve(Reserve(books, "quote", Sizes[p]), "margin", Sizes[p])
         ELSE UNCHANGED books
    /\ status' = [status EXCEPT ![p] = "opening"]
    /\ UNCHANGED <<simulated, stored, unsaved, spot, short, task, breakers, history>>

\* Both legs fill the size, or the trade ends without a position and releases
\* what it had reserved.
Opened(p) ==
    OpenPerp(SettleFill(books, "quote", Sizes[p], "base", Sizes[p], TRUE),
             "margin", "collateral", Sizes[p], 0)
Unopened(p) == Release(Release(books, "quote", Sizes[p]), "margin", Sizes[p])

Fill(p) ==
    /\ status[p] = "opening"
    /\ \/ /\ status' = [status EXCEPT ![p] = "filled"]
          /\ spot' = [spot EXCEPT ![p] = Sizes[p]]
          /\ short' = [short EXCEPT ![p] = Sizes[p]]
          /\ books' = IF simulated THEN Opened(p) ELSE books
       \/ /\ status' = [status EXCEPT ![p] = "none"]
          /\ books' = IF simulated THEN Unopened(p) ELSE books
          /\ UNCHANGED <<spot, short>>
    /\ UNCHANGED <<simulated, stored, unsaved, task, breakers, history>>

\* The trade is accounted for; it leaves open_trade_ids as the position enters
\* PositionManager.open, and its first row is written afterwards.
Track(p) ==
    /\ status[p] = "filled"
    /\ status' = [status EXCEPT ![p] = "open"]
    /\ unsaved' = unsaved \cup {p}
    /\ UNCHANGED <<simulated, stored, task, holdings, breakers, history>>

SaveNew(p) ==
    /\ p \in unsaved
    /\ \/ stored' = [stored EXCEPT ![p] = status[p]]
       \/ "db_error" \in Faults /\ UNCHANGED stored
    /\ unsaved' = unsaved \ {p}
    /\ UNCHANGED <<simulated, status, task, holdings, breakers, history>>

--------------------------------------------------------------------------------
(* close(), from one await to the next.                                    *)

Goes(c, stage) == task' = [task EXCEPT ![c].at = stage]
Ends(c)  == task' = [task EXCEPT ![c] = Idle]
Reopened(p) == status' = [status EXCEPT ![p] = "open"]

\* monitor, close_all and the API look at the status and close() sets it with
\* no await in between; the emergency stop and a global breaker suspend the
\* monitor only.
ClosableTwice(p) == status[p] \in {"open", "closing"}   \* mutant: status not looked at
Closable(p) == status[p] = "open"

StartClose(c, p) ==
    /\ task[c].at = "idle" /\ Closable(p)
    /\ c = Monitor => "global" \notin breakers
    /\ status' = [status EXCEPT ![p] = "closing"]
    /\ task' = [task EXCEPT ![c] = [at |-> "save", p |-> p, sold |-> 0]]
    /\ UNCHANGED <<simulated, stored, unsaved, holdings, breakers, history>>

SaveSkipped(c) == stored                \* mutant: not persisted before the legs
Saved(c) == [stored EXCEPT ![task[c].p] = "closing"]

SaveClosing(c) ==
    /\ task[c].at = "save"
    /\ stored' = Saved(c)
    /\ Goes(c, "reserve")
    /\ UNCHANGED <<simulated, status, unsaved, holdings, breakers, history>>

\* A venue is missing, or the ledger lacks the spot: open again.
CannotClose(c) ==
    /\ task[c].at = "reserve"
    /\ Reopened(task[c].p)
    /\ Goes(c, "final")
    /\ UNCHANGED <<simulated, stored, unsaved, holdings, breakers, history>>

ReserveNothing(c) ==               \* mutant: the ledger is not asked
    /\ task[c].at = "reserve"
    /\ Goes(c, "sell")
    /\ UNCHANGED <<simulated, status, stored, unsaved, spot, short, books, breakers, history>>

ReserveSpot(c) ==
    /\ task[c].at = "reserve"
    /\ IF simulated THEN /\ CanReserve(books, "base", Sizes[task[c].p])
                         /\ books' = Reserve(books, "base", Sizes[task[c].p])
                    ELSE UNCHANGED books
    /\ Goes(c, "sell")
    /\ UNCHANGED <<simulated, status, stored, unsaved, spot, short, breakers, history>>

NoQuote(c) ==
    /\ task[c].at = "sell"
    /\ books' = IF simulated THEN Release(books, "base", Sizes[task[c].p]) ELSE books
    /\ Reopened(task[c].p)
    /\ Goes(c, "final")
    /\ UNCHANGED <<simulated, stored, unsaved, spot, short, breakers, history>>

SellLeg(c) ==
    /\ task[c].at = "sell"
    /\ \E f \in Fills(Sizes[task[c].p]) :
        /\ f > 0 => spot[task[c].p] - f >= -Overrun
        /\ ~simulated => f <= Funds + Sum(spot)         \* what the venue holds
        /\ books' = IF simulated THEN SettleFill(books, "base", f, "quote", f, TRUE) ELSE books
        /\ spot' = [spot EXCEPT ![task[c].p] = @ - f]
        /\ task' = [task EXCEPT ![c].at = "buy", ![c].sold = f]
    /\ UNCHANGED <<simulated, status, stored, unsaved, short, breakers, history>>

VerdictRetry(p, f, g) ==           \* mutant: half closed counts as open
    IF f = Sizes[p] /\ g = Sizes[p] THEN "closed" ELSE "open"

\* What both legs filled decides: closed, stuck half way, or open again with
\* the size it had.
Verdict(p, f, g) ==
    IF f = Sizes[p] /\ g = Sizes[p] THEN "closed"
    ELSE IF f = Sizes[p] \/ g = Sizes[p] THEN "closing" ELSE "open"

BuyLeg(c) ==
    LET p == task[c].p
        f == task[c].sold
    IN  /\ task[c].at = "buy"
        /\ \E g \in Fills(Sizes[p]) :
            /\ g > 0 => short[p] - g >= -Overrun
            /\ ~simulated => g <= Sum(short)        \* reduce_only
            /\ books' = IF ~simulated THEN books
                        ELSE Release(IF g = 0 THEN books ELSE ClosePerp(books, "margin", "collateral", g, 0),
                                     "base", Larger(0, Sizes[p] - f))
            /\ short' = [short EXCEPT ![p] = @ - g]
            /\ status' = [status EXCEPT ![p] = Verdict(p, f, g)]
            /\ breakers' = IF Verdict(p, f, g) = "closed" THEN breakers ELSE breakers \cup {"carry"}
            /\ partly' = IF {f, g} \subseteq {0, Sizes[p]} THEN partly ELSE partly \cup {p}
            /\ Goes(c, IF Verdict(p, f, g) = "closed" THEN "book" ELSE "final")
        /\ UNCHANGED <<simulated, stored, unsaved, spot, booked, swept>>

\* add_pnl, after which the position leaves PositionManager.open.
Book(c) ==
    /\ task[c].at = "book"
    /\ booked' = [booked EXCEPT ![task[c].p] = @ + 1]
    /\ Goes(c, "final")
    /\ UNCHANGED <<simulated, status, stored, unsaved, holdings, breakers, partly, swept>>

SaveFinal(c) ==
    /\ task[c].at = "final"
    /\ stored' = [stored EXCEPT ![task[c].p] = status[task[c].p]]
    /\ Ends(c)
    /\ UNCHANGED <<simulated, status, unsaved, holdings, breakers, history>>

\* A write or a leg raises and close() is left where it was: the status stays
\* what it is and a reservation stays taken.  A venue may have executed.
WriteFails(c) ==
    /\ "db_error" \in Faults /\ task[c].at \in {"save", "book", "final"}
    /\ Ends(c)
    /\ UNCHANGED <<simulated, status, stored, unsaved, holdings, breakers, history>>

LegRaises(c) ==
    /\ "leg_error" \in Faults /\ task[c].at \in {"sell", "buy"}
    /\ \E n \in IF simulated THEN {0} ELSE {0, Sizes[task[c].p]} :
        IF task[c].at = "sell"
          THEN n <= Funds + Sum(spot) /\ spot' = [spot EXCEPT ![task[c].p] = @ - n] /\ UNCHANGED short
          ELSE n <= Sum(short) /\ short' = [short EXCEPT ![task[c].p] = @ - n] /\ UNCHANGED spot
    /\ Ends(c)
    /\ UNCHANGED <<simulated, status, stored, unsaved, books, breakers, history>>

--------------------------------------------------------------------------------
(* The loops, the operator, and a restart.                                 *)

\* _reconcile_paper looks at open_trade_ids, in which a close never is.
SweepPaper ==
    /\ simulated /\ InTrade = {}
    /\ \E a \in Accounts : books[a].used > 0
    /\ books' = [a \in Accounts |-> Release(books, a, books[a].used)[a]]
    /\ swept' = (swept \/ \E c \in Closers : task[c].at \in {"sell", "buy"})
    /\ UNCHANGED <<simulated, status, stored, unsaved, spot, short, task, breakers, booked, partly>>

\* reconcile(): the tracked sizes against the shorts the venue reports.
ReconcileShorts ==
    /\ ~simulated /\ InOpen # {}
    /\ MapThenSumSet(LAMBDA p : Sizes[p], InOpen) # Sum(short)
    /\ breakers' = breakers \cup {"global"}
    /\ breakers' # breakers
    /\ UNCHANGED <<simulated, status, stored, unsaved, task, holdings, history>>

ResetBreakers ==
    /\ breakers # {}
    /\ breakers' = {}
    /\ UNCHANGED <<simulated, status, stored, unsaved, task, holdings, history>>

\* A restart loads the open and closing rows; what has another row, or holds
\* something without a row, is not known to the program any more.
Reloaded(p) ==
    IF stored[p] \in {"open", "closing"} THEN stored[p]
    ELSE IF stored[p] = "none" /\ spot[p] = 0 /\ short[p] = 0 THEN "none" ELSE "unknown"

Restart ==
    /\ "crash" \in Faults /\ ~simulated
    /\ status' = [p \in Positions |-> Reloaded(p)]
    /\ unsaved' = {}
    /\ task' = [c \in Closers |-> Idle]
    /\ UNCHANGED <<simulated, stored, holdings, breakers, history>>

--------------------------------------------------------------------------------

Init ==
    /\ simulated \in Simulated
    /\ status = [p \in Positions |-> "none"]
    /\ stored = [p \in Positions |-> "none"]
    /\ unsaved = {}
    /\ spot = [p \in Positions |-> 0] /\ short = [p \in Positions |-> 0]
    /\ task = [c \in Closers |-> Idle]
    /\ books = Seed(Accounts, [a \in Accounts |-> IF a = "collateral" THEN 0 ELSE Funds])
    /\ breakers = {}
    /\ booked = [p \in Positions |-> 0]
    /\ partly = {} /\ swept = FALSE

Opening(p) == Open(p) \/ Fill(p) \/ Track(p) \/ SaveNew(p)

Closing(c) ==
    \/ SaveClosing(c) \/ CannotClose(c) \/ ReserveSpot(c) \/ NoQuote(c)
    \/ SellLeg(c) \/ BuyLeg(c) \/ Book(c) \/ SaveFinal(c)
    \/ WriteFails(c) \/ LegRaises(c)

Next ==
    \/ \E p \in Positions : Opening(p) \/ \E c \in Closers : StartClose(c, p)
    \/ \E c \in Closers : Closing(c)
    \/ SweepPaper \/ ReconcileShorts \/ ResetBreakers \/ Restart

Spec == Init /\ [][Next]_vars

--------------------------------------------------------------------------------
(* What the position manager promises.                                     *)

Statuses == {"none", "opening", "filled", "open", "closing", "closed", "unknown"}
Stages == {"save", "reserve", "sell", "buy", "book", "final"}
Tasks == {Idle} \cup [at : Stages, p : Positions, sold : Nat]

\* Every variable keeps its shape, and every running close has a position.
TypeOK ==
    /\ simulated \in BOOLEAN
    /\ status \in [Positions -> Statuses] /\ stored \in [Positions -> Statuses]
    /\ unsaved \subseteq Positions
    /\ spot \in [Positions -> Int] /\ short \in [Positions -> Int]
    /\ task \in [Closers -> Tasks]
    /\ books \in [Accounts -> [free : Int, used : Nat]]
    /\ breakers \subseteq {"global", "carry"}
    /\ booked \in [Positions -> Nat]
    /\ partly \subseteq Positions
    /\ swept \in BOOLEAN

\* The monitor and the requests never work on the same position at once: the
\* status that each of them looks at is taken before the first await of close().
\* (The last write of an unsuccessful attempt may overlap with the next one.)
OneCloseAtATime ==
    \A c, d \in Closers :
        c # d /\ task[c].at \notin {"idle", "final"} /\ task[d].at \notin {"idle", "final"}
            => task[c].p # task[d].p

\* The P&L of a position is booked at most once, and only when both of its legs
\* are closed, through failing writes, crashes and restarts.
BookedOnce ==
    \A p \in Positions : booked[p] <= 1 /\ (booked[p] = 1 => spot[p] <= 0 /\ short[p] <= 0)

\* A position is never sold or bought back for more than it holds, through any
\* number of attempts, crashes and restarts, unless an attempt filled in part:
\* the size is not adjusted to what is left.
NeverOversold ==
    \A p \in Positions \ partly : spot[p] >= 0 /\ short[p] >= 0

\* Nothing is left of the perp account's profit and loss once no short is
\* outstanding: what opens and closes moved through the collateral bucket that
\* all positions of a venue share comes back exactly.
PerpSettles ==
    simulated /\ (\A p \in Positions : short[p] = 0) =>
        Total(books["margin"]) + Total(books["collateral"]) = Funds

\* The spot account of the ledger holds what the positions hold, as long as the
\* reconciler has not released the reservation of a running close.
SpotMatches ==
    simulated /\ ~swept => Total(books["base"]) = Funds + Sum(spot)
================================================================================
