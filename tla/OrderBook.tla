----------------------------- MODULE OrderBook -----------------------------
(***************************************************************************)
(* A leg and the books it is read on: sized on a cached book, evaluated on *)
(* the book of the moment, quoted again for the execution, and simulated   *)
(* on the book found on arrival, thinner by the stress multiplier and      *)
(* worse by the drift; the book may move between any two of them.  A DEX   *)
(* quotes the exact size instead, and its simulated swap is a fresh quote  *)
(* made worse.  Prices and lots are integers and averages are compared as  *)
(* fractions.                                                              *)
(***************************************************************************)
EXTENDS Integers, FiniteSets, SequencesExt

CONSTANTS
    Depths,      \* what a feed may deliver: sets of levels [price, amount]
    Sizes,       \* lots that capital, inventory and the other leg leave
    Slippages,   \* slippage limits, percent
    Tolerance,   \* the engine's limit around a quote's average, percent
    Stresses,    \* stress multipliers of the simulation
    Drifts,      \* quote drifts of the simulation, percent
    Impacts,     \* price impacts a DEX quotes, percent
    Floor        \* percent below its quote that a DEX sale still accepts

ASSUME OrderBookAssumption ==
    /\ Tolerance \in 0 .. 99 /\ Drifts \subseteq 0 .. 99
    /\ Slippages \subseteq Nat /\ Sizes \subseteq Nat \ {0}
    /\ Stresses \subseteq Nat \ {0} /\ Floor \in 0 .. 99
    /\ \A i \in Impacts, m \in Stresses : i \in Nat /\ i * (m - 1) < 100
    /\ \A d \in Depths :
          /\ IsFiniteSet(d) /\ d \subseteq [price : Nat \ {0}, amount : Nat]
          /\ \A l \in d, m \in Stresses : l.amount % m = 0

VARIABLES
    pool,     \* the venue is a DEX
    side,     \* "buy" walks asks upwards, "sell" walks bids downwards
    depth,    \* the side of the book now, best level first
    lastBook, \* the book that was last read for the leg; <<>> if none was
    size,     \* lots of the leg
    limit,    \* slippage limit of that reading
    fill,     \* lots and value of the simulated execution
    leg       \* "idle", "sized" or "capped", "offered", "quoted", "filled"

bookVars == <<pool, side, depth, lastBook, size, limit, fill, leg>>

\* --- Books --------------------------------------------------------------------

\* Whether price p is no worse than q for the side.
AsGood(p, q) == IF side = "buy" THEN p <= q ELSE p >= q

\* OrderBook.from_raw(): the levels with an amount, the best first, in any
\* order where they have the same price.
FromRaw(levels) ==
    {book \in SetToSeqs({l \in levels : l.amount > 0}) :
        \A i, j \in DOMAIN book : i < j => AsGood(book[i].price, book[j].price)}

Least(a, b) == IF a < b THEN a ELSE b

\* OrderBook.walk(): a taker order of n lots, level by level; after i levels ...
WalkedTo(book, n) ==
    LET after[i \in 0 .. Len(book)] ==
            IF i = 0 THEN [left |-> n, lots |-> 0, value |-> 0]
            ELSE LET acc == after[i - 1]
                     take == Least(book[i].amount, acc.left)
                 IN [left |-> acc.left - take, lots |-> acc.lots + take,
                     value |-> acc.value + take * book[i].price]
    IN after

\* ... and after all of them.
Walk(book, n) == WalkedTo(book, n)[Len(book)]

\* Slippage of lots worth value against the best price, at most p percent.
Within(book, lots, value, p) ==
    IF side = "buy" THEN (value - lots * book[1].price) * 100 <= p * lots * book[1].price
                    ELSE (lots * book[1].price - value) * 100 <= p * lots * book[1].price

\* The lots of the first i levels and what they are worth.
Totals(book) ==
    LET upTo[i \in 0 .. Len(book)] ==
            IF i = 0 THEN [lots |-> 0, value |-> 0]
            ELSE [lots |-> upTo[i - 1].lots + book[i].amount,
                  value |-> upTo[i - 1].value + book[i].amount * book[i].price]
    IN upTo

\* (Mutant: the level that is too far is taken too.)
MaxSizeTooFar(book, p) ==
    LET total == Totals(book)
        fit == {i \in 1 .. Len(book) :
                  \A j \in 1 .. i - 1 : Within(book, total[j].lots, total[j].value, p)}
    IN IF book = <<>> THEN 0 ELSE total[CHOOSE i \in fit : \A j \in fit : j <= i].lots

\* OrderBook.max_size_within_slippage(): whole levels until one is too far.
MaxSizeWithinSlippage(book, p) ==
    LET total == Totals(book)
        fit == {i \in 0 .. Len(book) :
                  \A j \in 1 .. i : Within(book, total[j].lots, total[j].value, p)}
    IN total[CHOOSE i \in fit : \A j \in fit : j <= i].lots

\* What the guards ask of a quote of n lots: it can be filled, and on a book it
\* stays within the limit.
Passes(book, n, p) ==
    LET walked == Walk(book, n)
    IN /\ walked.left = 0
       /\ ~pool => Within(book, walked.lots, walked.value, p)

\* OrderBook.apply_stress().
Stressed(book, m) == [i \in DOMAIN book |-> [book[i] EXCEPT !.amount = @ \div m]]

\* --- Limit price and simulated execution ----------------------------------------

Quote == Walk(lastBook, size)

\* Around the average of the quote: price * (100 + drift) / 100 is not worse
\* than the limit value / lots * (100 + tolerance) / 100.
MeetsLimit(price, drift) ==
    IF side = "buy"
    THEN price * (100 + drift) * Quote.lots <= Quote.value * (100 + Tolerance)
    ELSE price * (100 - drift) * Quote.lots >= Quote.value * (100 - Tolerance)

\* A value a number of percent worse for the side, in hundredths.
Worse(value, percent) ==
    value * (IF side = "buy" THEN 100 + percent ELSE 100 - percent)

\* The levels before the first whose drifted price misses the limit; nothing is
\* taken of the others.
Met(book, drift) ==
    [i \in DOMAIN book |->
        IF \A j \in 1 .. i : MeetsLimit(book[j].price, drift) THEN book[i]
                                                           ELSE [book[i] EXCEPT !.amount = 0]]

\* (Mutant: the drift favours the leg.)
SimulatedAtBook(book, drift) ==
    LET walked == Walk(Met(book, 0), size)
    IN [lots |-> walked.lots,
        value |-> 100 * walked.value * (IF side = "buy" THEN 100 - drift ELSE 100 + drift)]

\* PaperExecutor._simulate_fill() on a book; value is in ten-thousandths.
SimulatedFill(book, drift) ==
    LET walked == Walk(Met(book, drift), size)
    IN [lots |-> walked.lots, value |-> 100 * Worse(walked.value, drift)]

\* The same on a DEX: the whole leg at a fresh quote, worse by the drift and by
\* extra impact, when a purchase meets the limit and a sale the minimum received.
SimulatedSwap(drift, extra) ==
    LET fresh == Walk(depth, size)
        value == Worse(Worse(fresh.value, drift), extra)
        met == IF side = "buy" THEN value <= 100 * Quote.value * (100 + Tolerance)
                               ELSE value >= 100 * Quote.value * (100 - Floor)
    IN IF fresh.left = 0 /\ met THEN [lots |-> size, value |-> value]
                                ELSE [lots |-> 0, value |-> 0]

\* --- The steps of a leg -----------------------------------------------------------

BookInit ==
    /\ pool \in BOOLEAN /\ side \in {"buy", "sell"}
    /\ \E d \in Depths : depth \in FromRaw(d)
    /\ lastBook = <<>> /\ size = 0 /\ limit = 0
    /\ fill = [lots |-> 0, value |-> 0]
    /\ leg = "idle"

\* pick_size(): a cached book caps the lots at what the slippage limit leaves,
\* and a cap ends the evaluation as blocked.  A pool has no book, a rung of the
\* flash-loan ladder asks for none, and a venue may have none cached.
PickSize ==
    /\ leg = "idle"
    /\ \E n \in Sizes :
          \/ leg' = "sized" /\ size' = n /\ UNCHANGED <<lastBook, limit>>
          \/ /\ ~pool /\ lastBook' = depth /\ limit' \in Slippages
             /\ size' = Least(n, MaxSizeWithinSlippage(depth, limit')) /\ size' > 0
             /\ leg' = IF size' = n THEN "sized" ELSE "capped"
    /\ UNCHANGED <<pool, side, depth, fill>>

\* A quote of the leg's size on the book as it is, under the limit as it is (the
\* tiers follow the notional), that the guards let through.
Assess ==
    /\ lastBook' = depth
    /\ IF pool THEN UNCHANGED limit ELSE limit' \in Slippages
    /\ Passes(depth, size, limit')
    /\ UNCHANGED <<pool, side, depth, size, fill>>

\* evaluate() after pick_size(), and the executor's of the size it was offered.
Evaluate == leg = "sized" /\ leg' = "offered" /\ Assess

Requote == leg = "offered" /\ leg' = "quoted" /\ Assess

\* A guard, one of these or another, or a cap ends the leg.
Block ==
    /\ leg \in {"sized", "capped", "offered"} /\ leg' = "idle"
    /\ lastBook' = <<>> /\ size' = 0 /\ limit' = 0
    /\ UNCHANGED <<pool, side, depth, fill>>

\* A new book arrives before the leg does.
BookMoves ==
    /\ leg # "filled"
    /\ \E d \in Depths : depth' \in FromRaw(d)
    /\ UNCHANGED <<pool, side, lastBook, size, limit, fill, leg>>

FillLeg ==
    /\ leg = "quoted" /\ ~pool /\ leg' = "filled"
    /\ \E m \in Stresses, drift \in Drifts :
          fill' = SimulatedFill(Stressed(depth, m), drift)
    /\ UNCHANGED <<pool, side, depth, lastBook, size, limit>>

\* Stress raises the impact that the fresh quote has.
FillSwap ==
    /\ leg = "quoted" /\ pool /\ leg' = "filled"
    /\ \E m \in Stresses, drift \in Drifts, impact \in Impacts :
          fill' = SimulatedSwap(drift, impact * (m - 1))
    /\ UNCHANGED <<pool, side, depth, lastBook, size, limit>>

BookNext == PickSize \/ Evaluate \/ Requote \/ Block \/ BookMoves \/ FillLeg \/ FillSwap

BookSpec == BookInit /\ [][BookNext]_bookVars

\* --- Properties -------------------------------------------------------------------

\* What a fill must be against the book it meets, the leg and the quote: its
\* lots not cheaper (dearer to sell) than a walk of the book, within the leg, and
\* on average within a number of percent of the quote.
HonestFill(f, below) ==
    LET real == Walk(depth, f.lots)
    IN /\ f.lots <= size
       /\ IF side = "buy"
          THEN /\ f.value >= 10000 * real.value
               /\ f.value * Quote.lots <= 100 * Quote.value * (100 + Tolerance) * f.lots
          ELSE /\ f.value <= 10000 * real.value
               /\ f.value * Quote.lots >= 100 * Quote.value * (100 - below) * f.lots

\* The cap and the guards agree: a leg that was sized on a book passes them on
\* that book, whole levels against a walk that takes the last in part
\* (max_size_within_slippage against walk and SlippageGuard.check).
SizesFitTheirBook ==
    leg \in {"sized", "capped"} /\ lastBook # <<>> => Passes(lastBook, size, limit)

\* A simulated leg never flatters: it is filled honestly within the limit price,
\* or for a sale on a DEX the minimum received, of the executor's own quote, and
\* that quote passed the guards (walk and _simulate_fill: the book may have moved
\* since the sizing, since the evaluation and since the quote).
SimulationNeverFlatters ==
    leg = "filled" => /\ Passes(lastBook, size, limit)
                      /\ HonestFill(fill, IF pool THEN Floor ELSE Tolerance)
=============================================================================
