------------------------- MODULE PairedExecution_proofs -------------------------
(***************************************************************************)
(* Proofs about PairedExecution, for every value of its constants.         *)
(***************************************************************************)
EXTENDS PairedExecution, PaperLedger_proofs

USE SizeAssumption, CostAssumption, LimitAssumption, ModeAssumption, VenueAssumption

--------------------------------------------------------------------------------
(* Type correctness.                                                       *)

\* Booking a fill on a venue yields a ledger.
LEMMA SettledType ==
    ASSUME NEW ledger \in Ledgers(Accounts), NEW v \in Venues, NEW a \in Accounts, NEW b \in Accounts,
           NEW buying \in BOOLEAN, NEW f \in Nat, NEW c \in Nat, NEW reserved \in BOOLEAN
    PROVE  Settled(ledger, v, a, b, buying, f, c, reserved) \in Ledgers(Accounts)
<1> DEFINE spent == IF buying THEN c ELSE f
           ledger2 == SettleFill(ledger, a, spent, b, f, reserved)
<1>1. spent \in Nat
  OBVIOUS
<1>2. ledger2 \in Ledgers(Accounts)
  BY <1>1, SettleType
<1>3. GasOf(v, f) \in Nat /\ <<v, "base">> \in Accounts
  BY DEF GasOf, Accounts, Assets
<1>4. ChargeGas(ledger2, <<v, "base">>, GasOf(v, f)) \in Ledgers(Accounts)
  BY <1>2, <1>3, GasType
<1> QED BY <1>4 DEF Settled

\* Each leg of a trade has a venue, and accounts that it pays and gets from.
LEMMA RouteFacts ==
    ASSUME TypeOK, NEW t \in Trades, NEW s \in Sides
    PROVE  /\ route[t][s] \in Venues
           /\ PayAccount(t, s) \in Accounts /\ GetAccount(t, s) \in Accounts
<1>1. route[t] \in [Sides -> Venues]
  BY DEF TypeOK, Routes
<1> QED BY <1>1 DEF PayAccount, GetAccount, Accounts, Assets, Sides

\* What the legs report and did is within the size of the trade.
LEMMA OrderFacts ==
    ASSUME TypeOK, NEW t \in Trades
    PROVE  /\ \A s \in Sides : /\ order[t][s] \in Orders
                               /\ order[t][s].filled \in 0 .. Size
                               /\ order[t][s].did \in NotYet .. Size
                               /\ order[t][s].cost \in 0 .. Size + Tol
                               /\ Spent(t, s) \in Nat
           /\ order[t]["buy"].filled \in 0 .. Size /\ order[t]["sell"].filled \in 0 .. Size
           /\ Exposure(t) \in Int /\ Amount(t) \in 0 .. Size
           /\ HedgeNeeded(t) \in Nat
<1>1. \A s \in Sides : order[t][s] \in Orders
  BY DEF TypeOK
<1>2. "buy" \in Sides /\ "sell" \in Sides
  BY DEF Sides
<1>3. \A s \in Sides : /\ order[t][s].filled \in 0 .. Size
                       /\ order[t][s].did \in NotYet .. Size
                       /\ order[t][s].cost \in 0 .. Size + Tol
  BY <1>1 DEF Orders
<1>4. Exposure(t) \in Int /\ Amount(t) \in 0 .. Size
  BY <1>2, <1>3 DEF Exposure, Amount, Long
<1> QED BY <1>1, <1>2, <1>3, <1>4 DEF Spent, HedgeNeeded, Long

\* A leg that was filled is still an order.
LEMMA FilledOrder ==
    ASSUME NEW o \in Orders, NEW f \in 0 .. Size, f \in NotYet .. Size, NEW c \in 0 .. Size + Tol
    PROVE  [o EXCEPT !.answered = TRUE, !.filled = f, !.did = f, !.cost = c] \in Orders
  BY DEF Orders

\* What the hedge reports is within the size, and its accounts are known.
LEMMA HedgeFacts ==
    ASSUME TypeOK, NEW t \in Trades
    PROVE  /\ hedge[t] \in Hedges /\ hedge[t].left \subseteq Venues /\ hedge[t].at \subseteq Venues
           /\ hedge[t].filled \in 0 .. Size /\ hedge[t].did \in Nat
           /\ \A v \in Venues : HedgePay(t, v) \in Accounts /\ HedgeGet(t, v) \in Accounts
<1>1. hedge[t] \in Hedges
  BY DEF TypeOK
<1> QED BY <1>1 DEF Hedges, HedgePay, HedgeGet, Accounts, Assets

\* A hedge attempt, whatever it fills and costs, leaves a well-typed hedge.
LEMMA AttemptType ==
    ASSUME TypeOK, NEW t \in Trades, NEW v \in Venues,
           NEW told \in 0 .. Size, NEW f \in Nat, NEW c \in Nat
    PROVE  Attempt(hedge[t], v, told, f, c) \in Hedges
<1>1. GasOf(v, f) \in Nat
  BY DEF GasOf
<1> QED BY <1>1, HedgeFacts DEF Attempt, Hedges

\* What a fill costs exceeds its size by at most the slippage tolerance.
LEMMA CostsType ==
    ASSUME NEW buying \in BOOLEAN, NEW f \in 0 .. Size, NEW c \in Costs(buying, f)
    PROVE  c \in 0 .. Size + Tol
  BY DEF Costs

\* The paper books are a ledger of the named accounts.
LEMMA BooksType == TypeOK => books \in Ledgers(Accounts)
  BY DEF TypeOK, Ledgers

\* Reserving the funds of both legs yields a ledger.
LEMMA ReservedType == ASSUME TypeOK, NEW t \in Trades PROVE Reserved(t) \in Ledgers(Accounts)
<1>1. QuoteNeeded \in Nat /\ Size \in Nat
  BY DEF QuoteNeeded
<1>2. PayAccount(t, "buy") \in Accounts /\ PayAccount(t, "sell") \in Accounts
  BY RouteFacts DEF Sides
<1>3. Reserve(books, PayAccount(t, "buy"), QuoteNeeded) \in Ledgers(Accounts)
  BY <1>1, <1>2, BooksType, ReserveType
<1> QED BY <1>1, <1>2, <1>3, ReserveType DEF Reserved

\* Releasing what the legs did not spend yields a ledger.
LEMMA UnreservedType == ASSUME TypeOK, NEW t \in Trades PROVE Unreserved(t) \in Ledgers(Accounts)
<1>1. /\ Larger(0, QuoteNeeded - Spent(t, "buy")) \in Nat
      /\ Larger(0, Size - Spent(t, "sell")) \in Nat
  BY OrderFacts DEF Larger, QuoteNeeded, Sides
<1>2. PayAccount(t, "buy") \in Accounts /\ PayAccount(t, "sell") \in Accounts
  BY RouteFacts DEF Sides
<1>3. Release(books, PayAccount(t, "buy"), Larger(0, QuoteNeeded - Spent(t, "buy"))) \in Ledgers(Accounts)
  BY <1>1, <1>2, BooksType, ReleaseType
<1> QED BY <1>1, <1>2, <1>3, ReleaseType DEF Unreserved

\* Booking a fill of the hedge yields a ledger.
LEMMA HedgeSettledType ==
    ASSUME TypeOK, NEW t \in Trades, NEW v \in Venues, NEW f \in 0 .. Amount(t), NEW c \in Nat
    PROVE  HedgeSettled(t, v, f, c) \in Ledgers(Accounts)
<1> DEFINE filled == Settled(books, v, HedgePay(t, v), HedgeGet(t, v), ~Long(t), f, c, TRUE)
<1>1. f \in Nat /\ Amount(t) - f \in Nat
  BY OrderFacts
<1>2. HedgePay(t, v) \in Accounts /\ HedgeGet(t, v) \in Accounts
  BY HedgeFacts
<1>3. (~Long(t)) \in BOOLEAN
  BY DEF Long
<1>4. filled \in Ledgers(Accounts)
  BY <1>1, <1>2, <1>3, BooksType, SettledType
<1> QED BY <1>1, <1>2, <1>4, ReleaseType DEF HedgeSettled

\* The failure counters and the breakers a step can trip.
LEMMA CounterFacts ==
    ASSUME TypeOK
    PROVE  /\ Smaller(failures + 1, MaxFailures) \in 0 .. MaxFailures
           /\ Smaller(failedHour + 1, MaxFailures) \in 0 .. MaxFailures
           /\ RepeatedFailure \subseteq {"global"} \X Reasons
           /\ \A v \in Dex, n \in Nat : Smaller(2, dexFails[v] + n) \in 0 .. 2
<1>1. ASSUME NEW v \in Dex, NEW n \in Nat PROVE Smaller(2, dexFails[v] + n) \in 0 .. 2
  <2>1. dexFails[v] \in 0 .. 2
    BY DEF TypeOK
  <2> QED BY <2>1 DEF Smaller
<1> QED BY <1>1 DEF TypeOK, Smaller, RepeatedFailure, Reasons

\* The breakers a reason trips are known ones.
LEMMA TripType ==
    ASSUME TypeOK, NEW reason \in Reasons
    PROVE  Trip(reason) \subseteq ({"global"} \cup Dex) \X Reasons
  BY DEF TypeOK, Trip

\* The breakers failed DEX legs trip are known ones.
LEMMA DexTripsType ==
    ASSUME NEW t \in Trades, NEW failed \in SUBSET DexUnfilled(t)
    PROVE  /\ DexTrips(t, failed) \subseteq ({"global"} \cup Dex) \X Reasons
           /\ \A v : FailedOn(t, v, failed) \in Nat
<1>1. DexTrips(t, failed) \subseteq ({"global"} \cup Dex) \X Reasons
  BY DEF DexTrips, DexUnfilled, Reasons
<1>2. ASSUME NEW v PROVE FailedOn(t, v, failed) \in Nat
  <2> DEFINE F == {s \in failed : route[t][s] = v}
  <2>1. IsFiniteSet(Sides)
    <3>1. IsFiniteSet({"buy"}) /\ Sides = {"buy"} \cup {"sell"}
      BY FS_Singleton DEF Sides
    <3> QED BY <3>1, FS_AddElement
  <2>2. F \subseteq Sides
    BY DEF DexUnfilled
  <2> QED BY <2>1, <2>2, FS_Subset, FS_CardinalityType DEF FailedOn
<1> QED BY <1>1, <1>2

\* Every step keeps the state well typed.
LEMMA TypeStep == TypeOK /\ [Next]_vars => TypeOK'
<1> SUFFICES ASSUME TypeOK, [Next]_vars PROVE TypeOK'
  OBVIOUS
<1> USE DEF tradeVars, safetyVars
<1>1. ASSUME NEW t \in Trades, Start(t) PROVE TypeOK'
  BY <1>1 DEF Start, Aborted, TypeOK, PCs, Statuses
<1>2. ASSUME NEW t \in Trades, RejectQuotes(t) \/ ReserveFails(t) PROVE TypeOK'
  BY <1>2 DEF RejectQuotes, ReserveFails, Aborted, TypeOK, PCs, Statuses
<1>3. ASSUME NEW t \in Trades, Submit(t) PROVE TypeOK'
  <2>1. books' \in [Accounts -> [free : Int, used : Nat]]
    BY <1>3, ReservedType DEF Submit, TypeOK, Ledgers
  <2>2. [NoOrder EXCEPT !.sent = TRUE] \in Orders
    <3>1. NotYet \in NotYet .. Size /\ 0 \in 0 .. Size /\ 0 \in 0 .. Size + Tol
      BY DEF NotYet
    <3> QED BY <3>1 DEF NoOrder, Orders
  <2>3. order' \in [Trades -> [Sides -> Orders]]
    BY <1>3, <2>2 DEF Submit, TypeOK
  <2> QED BY <1>3, <2>1, <2>3 DEF Submit, TypeOK, PCs, Statuses
<1>4. ASSUME NEW t \in Trades, NEW s \in Sides, PaperLeg(t, s) PROVE TypeOK'
  <2>1. CASE order' = [order EXCEPT ![t][s].answered = TRUE, ![t][s].did = 0] /\ UNCHANGED books
    <3>1. order' \in [Trades -> [Sides -> Orders]]
      <4>1. [order[t][s] EXCEPT !.answered = TRUE, !.did = 0] \in Orders
        <5>1. 0 \in NotYet .. Size
          BY DEF NotYet
        <5> QED BY <5>1, OrderFacts DEF Orders
      <4> QED BY <2>1, <4>1 DEF TypeOK
    <3> QED BY <1>4, <2>1, <3>1 DEF PaperLeg, TypeOK
  <2>2. ASSUME NEW f \in Fillable(t), NEW c \in Costs(s = "buy", f),
               order' = [order EXCEPT ![t][s] =
                            [order[t][s] EXCEPT !.answered = TRUE, !.filled = f, !.did = f, !.cost = c]],
               books' = Settled(books, route[t][s], PayAccount(t, s), GetAccount(t, s),
                                s = "buy", f, c, TRUE)
        PROVE  TypeOK'
    <3>1. f \in 0 .. Size /\ f \in Nat /\ f \in NotYet .. Size
      BY <2>2 DEF Fillable, NotYet
    <3>2. c \in 0 .. Size + Tol /\ c \in Nat
      <4>1. (s = "buy") \in BOOLEAN
        OBVIOUS
      <4>2. c \in 0 .. Size + Tol
        BY <3>1, <4>1, CostsType
      <4> QED BY <4>2
    <3>3. [order[t][s] EXCEPT !.answered = TRUE, !.filled = f, !.did = f, !.cost = c] \in Orders
      <4>1. order[t][s] \in Orders
        BY <2>2, OrderFacts
      <4> QED BY <3>1, <3>2, <4>1, FilledOrder
    <3>4. order' \in [Trades -> [Sides -> Orders]]
      BY <2>2, <3>3 DEF TypeOK
    <3>5. books' \in [Accounts -> [free : Int, used : Nat]]
      BY <2>2, <3>1, <3>2, SettledType, RouteFacts, BooksType DEF Ledgers
    <3> QED BY <1>4, <3>4, <3>5 DEF PaperLeg, TypeOK
  <2> QED BY <1>4, <2>1, <2>2 DEF PaperLeg
<1>5. ASSUME NEW t \in Trades, NEW s \in Sides, VenueExecutes(t, s) PROVE TypeOK'
  <2> PICK f \in 0 .. Size, c \in 0 .. Size + Tol :
         /\ order' = [order EXCEPT ![t][s].did = f, ![t][s].cost = c]
         /\ books' = Settled(books, route[t][s], PayAccount(t, s), GetAccount(t, s),
                             s = "buy", f, c, FALSE)
    BY <1>5, CostsType DEF VenueExecutes
  <2>1. f \in Nat /\ f \in NotYet .. Size /\ c \in 0 .. Size + Tol /\ c \in Nat
    BY CostsType DEF NotYet
  <2>2. [order[t][s] EXCEPT !.did = f, !.cost = c] \in Orders
    BY <2>1, OrderFacts DEF Orders
  <2>3. order' \in [Trades -> [Sides -> Orders]]
    BY <2>2 DEF TypeOK
  <2>4. books' \in [Accounts -> [free : Int, used : Nat]]
    BY <2>1, SettledType, RouteFacts, BooksType DEF Ledgers
  <2> QED BY <1>5, <2>3, <2>4 DEF VenueExecutes, TypeOK
<1>6. ASSUME NEW t \in Trades, NEW s \in Sides, VenueAnswers(t, s) PROVE TypeOK'
  <2>1. order[t][s].did \in 0 .. Size
    BY <1>6, OrderFacts DEF VenueAnswers, NotYet
  <2>2. [order[t][s] EXCEPT !.answered = TRUE, !.filled = order[t][s].did] \in Orders
    BY <2>1, OrderFacts DEF Orders
  <2>3. order' \in [Trades -> [Sides -> Orders]]
    BY <1>6, <2>2 DEF VenueAnswers, TypeOK
  <2> QED BY <1>6, <2>3 DEF VenueAnswers, TypeOK
<1>7. ASSUME NEW t \in Trades, NEW s \in Sides, LegTimesOut(t, s) PROVE TypeOK'
  <2>1. [order[t][s] EXCEPT !.answered = TRUE] \in Orders
    BY OrderFacts DEF Orders
  <2>2. order' \in [Trades -> [Sides -> Orders]]
    BY <1>7, <2>1 DEF LegTimesOut, TypeOK
  <2> QED BY <1>7, <2>2 DEF LegTimesOut, TypeOK
<1>8. ASSUME NEW t \in Trades, LegsDone(t) PROVE TypeOK'
  <2> PICK failed \in SUBSET DexUnfilled(t) :
         /\ dexFails' = [v \in Dex |-> Smaller(2, dexFails[v] + FailedOn(t, v, failed))]
         /\ Outcome(t, DexTrips(t, failed))
    BY <1>8 DEF LegsDone
  <2>1. books' \in [Accounts -> [free : Int, used : Nat]]
    BY <1>8, UnreservedType DEF LegsDone, TypeOK, Ledgers
  <2>2. dexFails' \in [Dex -> 0 .. 2]
    BY CounterFacts, DexTripsType
  <2>3. pc' \in [Trades -> PCs] /\ status' \in [Trades -> Statuses] /\ unhedged' \in BOOLEAN
    BY DEF Outcome, TypeOK, PCs, Statuses
  <2>4. failures' \in 0 .. MaxFailures /\ failedHour' \in 0 .. MaxFailures
    BY CounterFacts DEF Outcome, CountFailure, TypeOK
  <2>5. breakers' \subseteq ({"global"} \cup Dex) \X Reasons
    BY CounterFacts, DexTripsType DEF Outcome, TypeOK
  <2> QED BY <1>8, <2>1, <2>2, <2>3, <2>4, <2>5 DEF LegsDone, TypeOK
<1>9. ASSUME NEW t \in Trades, FindHedge(t) PROVE TypeOK'
  <2> PICK vs \in SUBSET Venues : hedge' = [hedge EXCEPT ![t].left = vs]
    BY <1>9 DEF FindHedge, HedgeVenues
  <2>1. [hedge[t] EXCEPT !.left = vs] \in Hedges
    BY HedgeFacts DEF Hedges
  <2>2. hedge' \in [Trades -> Hedges]
    BY <2>1 DEF TypeOK
  <2> QED BY <1>9, <2>2 DEF FindHedge, TypeOK, PCs
<1>10. ASSUME NEW t \in Trades, NEW v \in Venues,
              HedgeSkips(t, v) \/ HedgeReserves(t, v) \/ PaperHedgeRaises(t, v)
       PROVE  TypeOK'
  <2>1. /\ [hedge[t] EXCEPT !.left = hedge[t].left \ {v}] \in Hedges
        /\ [hedge[t] EXCEPT !.left = hedge[t].left \ {v}, !.at = {v}] \in Hedges
        /\ [hedge[t] EXCEPT !.at = {}] \in Hedges
    BY HedgeFacts DEF Hedges
  <2>2. hedge' \in [Trades -> Hedges]
    BY <1>10, <2>1 DEF HedgeSkips, HedgeReserves, PaperHedgeRaises, TypeOK
  <2>3. Reserve(books, HedgePay(t, v), HedgeNeeded(t)) \in Ledgers(Accounts)
    BY ReserveType, BooksType, HedgeFacts, OrderFacts
  <2>4. books' \in [Accounts -> [free : Int, used : Nat]]
    BY <1>10, <2>3 DEF HedgeSkips, HedgeReserves, PaperHedgeRaises, TypeOK, Ledgers
  <2> QED BY <1>10, <2>2, <2>4 DEF HedgeSkips, HedgeReserves, PaperHedgeRaises, TypeOK
<1>11. ASSUME NEW t \in Trades, NEW v \in Venues, PaperHedge(t, v) PROVE TypeOK'
  <2> PICK f \in 0 .. Amount(t), c \in 0 .. Size + Tol :
        /\ books' = HedgeSettled(t, v, f, c)
        /\ hedge' = [hedge EXCEPT ![t] = Attempt(hedge[t], v, f, f, c)]
    <3>1. 0 .. Amount(t) \subseteq 0 .. Size
      BY OrderFacts
    <3>2. (~Long(t)) \in BOOLEAN
      BY DEF Long
    <3> QED BY <1>11, <3>1, <3>2, CostsType DEF PaperHedge
  <2>1. f \in 0 .. Size /\ f \in Nat /\ c \in Nat /\ GasOf(v, f) \in Nat
    BY OrderFacts, CostsType DEF GasOf, Long
  <2>2. hedge' \in [Trades -> Hedges]
    BY <2>1, AttemptType DEF TypeOK
  <2>3. books' \in [Accounts -> [free : Int, used : Nat]]
    BY <2>1, HedgeSettledType DEF Ledgers
  <2> QED BY <1>11, <2>2, <2>3 DEF PaperHedge, TypeOK
<1>12. ASSUME NEW t \in Trades, NEW v \in Venues, VenueHedge(t, v) PROVE TypeOK'
  <2> PICK f \in 0 .. Amount(t) : \E c \in Costs(~Long(t), f) : \E told \in Told(f) :
        /\ books' = Settled(books, v, HedgePay(t, v), HedgeGet(t, v), ~Long(t), f, c, FALSE)
        /\ hedge' = [hedge EXCEPT ![t] = Attempt(hedge[t], v, told, f, c)]
    BY <1>12 DEF VenueHedge
  <2> PICK c \in Costs(~Long(t), f), told \in Told(f) :
        /\ books' = Settled(books, v, HedgePay(t, v), HedgeGet(t, v), ~Long(t), f, c, FALSE)
        /\ hedge' = [hedge EXCEPT ![t] = Attempt(hedge[t], v, told, f, c)]
    OBVIOUS
  <2>0. f \in 0 .. Size
    BY OrderFacts
  <2>5. (~Long(t)) \in BOOLEAN
    BY DEF Long
  <2>6. c \in 0 .. Size + Tol
    BY <2>0, <2>5, CostsType
  <2>1. f \in 0 .. Size /\ f \in Nat /\ c \in Nat /\ GasOf(v, f) \in Nat
    BY <2>0, <2>6 DEF GasOf
  <2>3. hedge' \in [Trades -> Hedges]
    <3>1. told \in 0 .. Size
      BY <2>1 DEF Told
    <3> QED BY <2>1, <3>1, AttemptType DEF TypeOK
  <2>4. books' \in [Accounts -> [free : Int, used : Nat]]
    BY <2>1, SettledType, BooksType, HedgeFacts DEF Ledgers, Long
  <2> QED BY <1>12, <2>3, <2>4 DEF VenueHedge, TypeOK
<1>13. ASSUME NEW t \in Trades, Verdict(t) PROVE TypeOK'
  <2>1. failures' \in 0 .. MaxFailures /\ failedHour' \in 0 .. MaxFailures
    BY <1>13, CounterFacts DEF Verdict, CountFailure
  <2>2. breakers' \subseteq ({"global"} \cup Dex) \X Reasons
    BY <1>13, CounterFacts, TripType DEF Verdict, TypeOK, Reasons
  <2> QED BY <1>13, <2>1, <2>2 DEF Verdict, TypeOK, PCs, Statuses
<1>14. ASSUME NEW t \in Trades, Finish(t) PROVE TypeOK'
  BY <1>14, TripType DEF Finish, Ended, TypeOK, PCs, Reasons
<1>15. ASSUME NEW t \in Trades, ExecutionError(t) PROVE TypeOK'
  BY <1>15, TripType DEF ExecutionError, Ended, TypeOK, PCs, Statuses, Reasons
<1>16. CASE Refresh
  BY <1>16 DEF Refresh, TypeOK, Total, Accounts
<1>17. CASE ReconcilePaper
  <2>1. \A a \in Accounts : Release(books, a, books[a].used)[a] \in [free : Int, used : Nat]
    BY ReleaseType, BooksType DEF Ledgers
  <2>2. books' \in [Accounts -> [free : Int, used : Nat]]
    BY <1>17, <2>1 DEF ReconcilePaper, TypeOK
  <2> QED BY <1>17, <2>2, TripType DEF ReconcilePaper, TypeOK, Reasons
<1>18. CASE ReconcileVenues
  BY <1>18, TripType DEF ReconcileVenues, TypeOK, Total, Reasons
<1>19. CASE Stop \/ ReleaseStop \/ ResetBreakers
  BY <1>19, TripType DEF Stop, ReleaseStop, ResetBreakers, TypeOK, Reasons
<1>20. CASE WindowPasses
  BY <1>20 DEF WindowPasses, TypeOK
<1>21. CASE ResetPaper
  <2>1. NoOrder \in Orders /\ NoHedge \in Hedges
    BY DEF NoOrder, NoHedge, Orders, Hedges, NotYet
  <2>2. order' \in [Trades -> [Sides -> Orders]] /\ hedge' \in [Trades -> Hedges]
    BY <1>21, <2>1 DEF ResetPaper, TypeOK
  <2>3. books' \in [Accounts -> [free : Int, used : Nat]]
    BY <1>21 DEF ResetPaper, Seed, Balance
  <2> QED BY <1>21, <2>2, <2>3 DEF ResetPaper, TypeOK
<1>22. CASE UNCHANGED vars
  BY <1>22 DEF vars, TypeOK
<1> QED
  BY <1>1, <1>2, <1>3, <1>4, <1>5, <1>6, <1>7, <1>8, <1>9, <1>10, <1>11, <1>12, <1>13, <1>14,
     <1>15, <1>16, <1>17, <1>18, <1>19, <1>20, <1>21, <1>22
     DEF Next, Task, Leg, Hedge, Loops, Operator

\* Whatever the constants, every variable keeps its shape: no pool of the
\* ledger becomes negative and no leg fills more than its size.
THEOREM TypeCorrect == Spec => []TypeOK
<1>1. Init => TypeOK
  <2> SUFFICES ASSUME Init PROVE TypeOK
    OBVIOUS
  <2>1. NotYet \in NotYet .. Size /\ 0 \in 0 .. Size /\ 0 \in 0 .. Size + Tol
    BY DEF NotYet
  <2>2. NoOrder \in Orders /\ NoHedge \in Hedges
    BY <2>1 DEF NoOrder, NoHedge, Orders, Hedges
  <2>3. order \in [Trades -> [Sides -> Orders]] /\ hedge \in [Trades -> Hedges]
    BY <2>2 DEF Init
  <2>4. books \in [Accounts -> [free : Int, used : Nat]]
    BY DEF Init, Seed, Balance
  <2>5. unhedged \in BOOLEAN /\ estop \in BOOLEAN
    BY DEF Init
  <2>6. dexFails \in [Dex -> 0 .. 2]
    BY DEF Init
  <2>7. seen \in [Accounts -> Int] /\ expected \in [Accounts -> Int]
    BY DEF Init
  <2>8. pc \in [Trades -> PCs] /\ status \in [Trades -> Statuses]
    BY DEF Init, PCs, Statuses
  <2> QED BY <2>3, <2>4, <2>5, <2>6, <2>7, <2>8 DEF Init, TypeOK
<1>2. TypeOK /\ [Next]_vars => TypeOK'
  BY TypeStep
<1> QED BY <1>1, <1>2, PTL DEF Spec

--------------------------------------------------------------------------------
(* Exposure: what the engine recorded, and what the venues did.            *)

\* A pause that releasing the emergency stop does not lift.
Paused == \E b \in breakers : b[1] = "global" /\ b[2] # "MANUAL"

\* The exposure left by what the engine was told.
Reported(t)     == Exposure(t) + (IF Long(t) THEN -hedge[t].filled ELSE hedge[t].filled)
ReportedFlat(t) == 50 * Larger(Reported(t), -Reported(t)) <= Amount(t)

\* An order that was never submitted reports nothing.
LEMMA NoOrderFacts == ~NoOrder.sent /\ ~NoOrder.answered /\ NoOrder.filled = 0
  BY DEF NoOrder

\* A leg that was not answered reports nothing, and after the legs none is
\* left unanswered.
LegSound(t, s) ==
    /\ ~order[t][s].answered => order[t][s].filled = 0
    /\ pc[t] \in {"idle", "quoting"} => order[t][s] = NoOrder
    /\ pc[t] \notin {"idle", "quoting", "legs"} => order[t][s].answered \/ order[t][s] = NoOrder

HedgeSound(t) ==
    /\ pc[t] = "hedge" => hedge[t].filled <= Amount(t)
    /\ pc[t] \notin {"hedge", "post", "done"} \/ hedge[t].at # {} => hedge[t].filled = 0

\* A trade that has ended is flat, or the pause it caused is still there.
EndSound(t) ==
    pc[t] \in {"post", "done"} =>
      /\ status[t] \in {"FILLED", "HEDGED"} => ReportedFlat(t)
      /\ ~ReportedFlat(t) /\ t \notin reviewed => Paused

Sound(t) == (\A s \in Sides : LegSound(t, s)) /\ HedgeSound(t) /\ EndSound(t)

AllSound == \A t \in Trades : Sound(t)

\* A pause is a tripped global breaker.
LEMMA PausedIsTripped == Paused => GlobalTripped
  BY DEF Paused, GlobalTripped

\* When no answer was lost, the recorded exposure is the venues'.
LEMMA RecordedIsReal ==
    ASSUME TypeOK, AllSound, NEW t \in Trades, pc[t] \in {"post", "done"}, ~Lost(t)
    PROVE  ReportedFlat(t) <=> Flat(t)
<1>1. \A s \in Sides : order[t][s].filled = Executed(t, s)
  <2> SUFFICES ASSUME NEW s \in Sides PROVE order[t][s].filled = Executed(t, s)
    OBVIOUS
  <2>1. CASE order[t][s].answered
    BY <2>1 DEF Lost
  <2>2. CASE order[t][s] = NoOrder
    BY <2>2 DEF Executed, NoOrder, NotYet, Larger
  <2> QED BY <2>1, <2>2 DEF AllSound, Sound, LegSound
<1>2. hedge[t].did = hedge[t].filled
  BY DEF Lost
<1>3. Reported(t) = RealNet(t)
  BY <1>1, <1>2, OrderFacts, HedgeFacts DEF Reported, RealNet, Exposure, Sides
<1> QED BY <1>3 DEF ReportedFlat, Flat

\* The facts kept about every trade imply the two properties of its end.
LEMMA SoundMeaning == TypeOK /\ AllSound => CompletedIsFlat /\ ExposurePauses
  BY PausedIsTripped, RecordedIsReal DEF AllSound, Sound, EndSound, CompletedIsFlat, ExposurePauses

\* What the facts about a trade read of its orders and its hedge.
SameReport(t) ==
    /\ \A s \in Sides : /\ order'[t][s].filled = order[t][s].filled
                        /\ order'[t][s].answered = order[t][s].answered
                        /\ (order'[t][s] = NoOrder) = (order[t][s] = NoOrder)
    /\ hedge'[t].filled = hedge[t].filled

\* The exposure a trade reports depends on what its legs report as filled.
LEMMA ReportKept ==
    ASSUME NEW t \in Trades,
           \A s \in Sides : order'[t][s].filled = order[t][s].filled
    PROVE  /\ Amount(t)' = Amount(t) /\ Exposure(t)' = Exposure(t)
           /\ hedge'[t].filled = hedge[t].filled => ReportedFlat(t)' = ReportedFlat(t)
  BY DEF Amount, Exposure, ReportedFlat, Reported, Long, Sides

\* A step that leaves what a trade reports alone and keeps the pauses, or
\* reviews the trades that ended, keeps the trade sound.
LEMMA Unaffected ==
    ASSUME NEW t \in Trades, Sound(t), SameReport(t),
           pc'[t] = pc[t], status'[t] = status[t], hedge'[t].at = hedge[t].at \/ hedge[t].filled = 0,
           \/ reviewed' = reviewed /\ (Paused => Paused')
           \/ pc[t] \in {"post", "done"} => t \in reviewed'
    PROVE  Sound(t)'
  BY ReportKept DEF Sound, LegSound, HedgeSound, EndSound, SameReport

\* A step that leaves the orders and the hedge alone leaves the report alone.
LEMMA Same == ASSUME NEW t \in Trades, order'[t] = order[t], hedge'[t] = hedge[t] PROVE SameReport(t)
  BY DEF SameReport

\* The same for a step of one trade, as seen by the others.
LEMMA OthersUnaffected ==
    ASSUME AllSound, NEW t \in Trades,
           \A u \in Trades \ {t} : /\ pc'[u] = pc[u] /\ status'[u] = status[u]
                                   /\ order'[u] = order[u] /\ hedge'[u] = hedge[u],
           reviewed' = reviewed, Paused => Paused',
           Sound(t)'
    PROVE  AllSound'
<1> SUFFICES ASSUME NEW u \in Trades, u # t PROVE Sound(u)'
  BY DEF AllSound
<1> QED BY Unaffected, Same DEF AllSound

\* Breakers that are added to lift no pause.
LEMMA PausesGrow == breakers \subseteq breakers' => (Paused => Paused')
  BY DEF Paused

\* Tripping a breaker for any reason but the operator's own pauses trading.
LEMMA TripPauses ==
    ASSUME NEW reason \in Reasons \ {"MANUAL"}, Trip(reason) \subseteq breakers' PROVE Paused'
  BY DEF Trip, Paused

\* A trade that has submitted nothing is flat.
LEMMA NothingDone ==
    ASSUME TypeOK, NEW t \in Trades, Sound(t), pc[t] \in {"idle", "quoting"}
    PROVE  (\A s \in Sides : order[t][s] = NoOrder) /\ hedge[t].filled = 0 /\ ReportedFlat(t)
<1>1. \A s \in Sides : order[t][s] = NoOrder
  BY DEF Sound, LegSound
<1>2. hedge[t].filled = 0
  BY DEF Sound, HedgeSound
<1> QED BY <1>1, <1>2 DEF ReportedFlat, Reported, Exposure, Amount, Long, NoOrder, Larger, Sides

\* Every step keeps every trade sound, the steps of the other trades included.
LEMMA SoundStep ==
    ASSUME TypeOK, TypeOK', AllSound, [Next]_vars PROVE AllSound'
<1> USE DEF tradeVars, safetyVars
<1>1. ASSUME NEW t \in Trades, Start(t) \/ RejectQuotes(t) \/ ReserveFails(t) PROVE AllSound'
  <2>1. /\ pc[t] \in {"idle", "quoting"} /\ order' = order /\ hedge' = hedge
        /\ breakers' = breakers /\ reviewed' = reviewed
    BY <1>1 DEF Start, RejectQuotes, ReserveFails
  <2>2. /\ \/ pc'[t] = "quoting"
           \/ pc'[t] = "done" /\ status'[t] = "ABORTED"
        /\ \A u \in Trades \ {t} : pc'[u] = pc[u] /\ status'[u] = status[u]
    BY <1>1 DEF Start, RejectQuotes, ReserveFails, Aborted, TypeOK
  <2>3. (\A s \in Sides : order[t][s] = NoOrder) /\ hedge[t].filled = 0 /\ ReportedFlat(t)
    BY <2>1, NothingDone DEF AllSound
  <2>4. ReportedFlat(t)' = ReportedFlat(t)
    BY <2>1, ReportKept
  <2>5. \A x \in Sides : LegSound(t, x)'
    BY <2>1, <2>2, <2>3, NoOrderFacts DEF LegSound
  <2>6. HedgeSound(t)'
    BY <2>1, <2>2, <2>3 DEF HedgeSound
  <2>7. EndSound(t)'
    BY <2>2, <2>3, <2>4 DEF EndSound
  <2>8. Sound(t)'
    BY <2>5, <2>6, <2>7 DEF Sound
  <2> QED BY <2>1, <2>2, <2>8, OthersUnaffected, PausesGrow
<1>2. ASSUME NEW t \in Trades, Submit(t) PROVE AllSound'
  <2>1. /\ pc[t] = "quoting" /\ hedge' = hedge /\ breakers' = breakers /\ reviewed' = reviewed
        /\ pc'[t] = "legs" /\ order'[t] = [s \in Sides |-> [NoOrder EXCEPT !.sent = TRUE]]
        /\ \A u \in Trades \ {t} : pc'[u] = pc[u] /\ status'[u] = status[u] /\ order'[u] = order[u]
    BY <1>2 DEF Submit, TypeOK
  <2>2. Sound(t)'
    BY <2>1 DEF AllSound, Sound, LegSound, HedgeSound, EndSound, NoOrder
  <2> QED BY <2>1, <2>2, OthersUnaffected, PausesGrow
<1>3. ASSUME NEW t \in Trades, NEW s \in Sides,
             PaperLeg(t, s) \/ VenueAnswers(t, s) \/ LegTimesOut(t, s)
      PROVE  AllSound'
  <2> DEFINE Answered ==
        /\ \A u \in Trades \ {t} : order'[u] = order[u]
        /\ \A x \in Sides \ {s} : order'[t][x] = order[t][x]
        /\ order'[t][s].answered
  <2>1. /\ pc[t] = "legs" /\ pc' = pc /\ status' = status /\ hedge' = hedge
        /\ breakers' = breakers /\ reviewed' = reviewed
    BY <1>3 DEF PaperLeg, VenueAnswers, LegTimesOut
  <2>2. Answered
    <3>1. CASE order' = [order EXCEPT ![t][s].answered = TRUE, ![t][s].did = 0]
      BY <3>1, OrderFacts DEF TypeOK, Orders
    <3>2. ASSUME NEW f \in Fillable(t), NEW c \in Costs(s = "buy", f),
                 order' = [order EXCEPT ![t][s] =
                             [order[t][s] EXCEPT !.answered = TRUE, !.filled = f, !.did = f, !.cost = c]]
          PROVE  Answered
      BY <3>2, OrderFacts DEF TypeOK, Orders
    <3>3. CASE VenueAnswers(t, s) \/ LegTimesOut(t, s)
      BY <3>3 DEF VenueAnswers, LegTimesOut, TypeOK, Orders
    <3> QED BY <1>3, <3>1, <3>2, <3>3 DEF PaperLeg
  <2>3. Sound(t)'
    BY <2>1, <2>2 DEF AllSound, Sound, LegSound, HedgeSound, EndSound
  <2> QED BY <2>1, <2>2, <2>3, OthersUnaffected, PausesGrow
<1>4. ASSUME NEW t \in Trades, NEW s \in Sides, VenueExecutes(t, s) PROVE AllSound'
  <2>1. /\ order[t][s].sent /\ order[t][s].did = NotYet
        /\ pc' = pc /\ status' = status /\ hedge' = hedge
        /\ breakers' = breakers /\ reviewed' = reviewed
    BY <1>4 DEF VenueExecutes
  <2>2. /\ \A u \in Trades \ {t} : order'[u] = order[u]
        /\ \A x \in Sides \ {s} : order'[t][x] = order[t][x]
        /\ order'[t][s].answered = order[t][s].answered /\ order'[t][s].sent = order[t][s].sent
        /\ order'[t][s].filled = order[t][s].filled
    <3>1. \E f \in 0 .. Size : \E c \in Costs(s = "buy", f) :
             order' = [order EXCEPT ![t][s].did = f, ![t][s].cost = c]
      BY <1>4 DEF VenueExecutes
    <3>2. PICK f \in 0 .. Size : \E c \in Costs(s = "buy", f) :
             order' = [order EXCEPT ![t][s].did = f, ![t][s].cost = c]
      BY <3>1
    <3>3. PICK c \in Costs(s = "buy", f) : order' = [order EXCEPT ![t][s].did = f, ![t][s].cost = c]
      BY <3>2
    <3> QED BY <3>3 DEF TypeOK, Orders
  <2>3. order[t][s] # NoOrder /\ order'[t][s] # NoOrder
    BY <2>1, <2>2, NoOrderFacts
  <2>4. SameReport(t)
    BY <2>1, <2>2, <2>3 DEF SameReport
  <2>5. Sound(t)'
    BY <2>1, <2>4, Unaffected, PausesGrow DEF AllSound
  <2> QED BY <2>1, <2>2, <2>5, OthersUnaffected, PausesGrow
<1>5. ASSUME NEW t \in Trades, LegsDone(t) PROVE AllSound'
  <2>1. /\ pc[t] = "legs" /\ order' = order /\ hedge' = hedge /\ reviewed' = reviewed
        /\ \A s \in Sides : order[t][s].answered
    BY <1>5 DEF LegsDone
  <2>2. /\ breakers \subseteq breakers'
        /\ \A u \in Trades \ {t} : pc'[u] = pc[u] /\ status'[u] = status[u]
        /\ \/ pc'[t] = "recover"
           \/ pc'[t] = "post" /\ Exposure(t) = 0
    BY <1>5 DEF LegsDone, Outcome, TypeOK
  <2>3. hedge[t].filled = 0
    BY <2>1 DEF AllSound, Sound, HedgeSound
  <2>4. Exposure(t) = 0 => ReportedFlat(t)
    <3>1. Exposure(t) = 0 => ~Long(t)
      BY DEF Long
    <3>2. Exposure(t) = 0 => Reported(t) = 0
      BY <2>3, <3>1 DEF Reported
    <3> QED BY <3>2, OrderFacts DEF ReportedFlat, Larger
  <2>5. ReportedFlat(t)' = ReportedFlat(t)
    BY <2>1, ReportKept
  <2>6. Sound(t)'
    BY <2>1, <2>2, <2>3, <2>4, <2>5 DEF AllSound, Sound, LegSound, HedgeSound, EndSound
  <2> QED BY <2>1, <2>2, <2>6, OthersUnaffected, PausesGrow
<1>6. ASSUME NEW t \in Trades, FindHedge(t) PROVE AllSound'
  <2>1. /\ pc[t] = "recover" /\ order' = order /\ status' = status
        /\ breakers' = breakers /\ reviewed' = reviewed
        /\ pc'[t] = "hedge" /\ \A u \in Trades \ {t} : pc'[u] = pc[u] /\ hedge'[u] = hedge[u]
        /\ hedge'[t].filled = hedge[t].filled
    BY <1>6 DEF FindHedge, TypeOK, Hedges
  <2>2. Amount(t)' = Amount(t)
    BY <2>1, ReportKept
  <2>3. hedge[t].filled = 0 /\ 0 <= Amount(t)
    BY <2>1, OrderFacts DEF AllSound, Sound, HedgeSound
  <2>4. Sound(t)'
    BY <2>1, <2>2, <2>3 DEF AllSound, Sound, LegSound, HedgeSound, EndSound
  <2> QED BY <2>1, <2>4, OthersUnaffected, PausesGrow
<1>7. ASSUME NEW t \in Trades, NEW v \in Venues,
             HedgeSkips(t, v) \/ HedgeReserves(t, v) \/ PaperHedgeRaises(t, v)
      PROVE  AllSound'
  <2>1. /\ pc' = pc /\ order' = order /\ status' = status
        /\ breakers' = breakers /\ reviewed' = reviewed
        /\ \A u \in Trades \ {t} : hedge'[u] = hedge[u]
        /\ hedge'[t].filled = hedge[t].filled
        /\ hedge[t].filled = 0 \/ hedge'[t].at = hedge[t].at
    BY <1>7 DEF HedgeSkips, HedgeReserves, PaperHedgeRaises, Hedging, AllSound, Sound, HedgeSound,
                TypeOK, Hedges
  <2>2. Sound(t)'
    BY <2>1, Unaffected, PausesGrow DEF AllSound, SameReport
  <2> QED BY <2>1, <2>2, OthersUnaffected, PausesGrow
<1>8. ASSUME NEW t \in Trades, NEW v \in Venues, PaperHedge(t, v) \/ VenueHedge(t, v) PROVE AllSound'
  <2>1. /\ pc[t] = "hedge" /\ pc' = pc /\ order' = order /\ status' = status
        /\ breakers' = breakers /\ reviewed' = reviewed
    BY <1>8 DEF PaperHedge, VenueHedge, Hedging
  <2>2. PICK told \in 0 .. Amount(t) :
          \E f, c : hedge' = [hedge EXCEPT ![t] = Attempt(hedge[t], v, told, f, c)]
    <3>1. CASE PaperHedge(t, v)
      BY <3>1 DEF PaperHedge
    <3>2. CASE VenueHedge(t, v)
      <4>1. \A f \in 0 .. Amount(t) : Told(f) \subseteq 0 .. Amount(t)
        BY OrderFacts DEF Told
      <4> QED BY <3>2, <4>1 DEF VenueHedge
    <3> QED BY <1>8, <3>1, <3>2
  <2>3. told \in Nat /\ told <= Amount(t)
    BY OrderFacts
  <2>4. /\ \A u \in Trades \ {t} : hedge'[u] = hedge[u]
        /\ hedge'[t].filled = told /\ hedge'[t].at = {}
    BY <2>2 DEF Attempt, TypeOK
  <2>5. Amount(t)' = Amount(t)
    BY <2>1, ReportKept
  <2>6. Sound(t)'
    BY <2>1, <2>3, <2>4, <2>5 DEF AllSound, Sound, LegSound, HedgeSound, EndSound
  <2> QED BY <2>1, <2>4, <2>6, OthersUnaffected, PausesGrow
<1>9. ASSUME NEW t \in Trades, Verdict(t) PROVE AllSound'
  <2>1. /\ pc[t] = "hedge" /\ order' = order /\ hedge' = hedge /\ reviewed' = reviewed
        /\ pc'[t] = "post" /\ breakers \subseteq breakers'
        /\ \A u \in Trades \ {t} : pc'[u] = pc[u] /\ status'[u] = status[u]
        /\ Neutralised(t) \/ (status'[t] = "RECOVERING" /\ Trip("ONE_LEG_FILL") \subseteq breakers')
    BY <1>9 DEF Verdict, TypeOK
  <2>2. Neutralised(t) => ReportedFlat(t)
    <3>1. hedge[t].filled \in 0 .. Amount(t)
      BY <2>1, HedgeFacts, OrderFacts DEF AllSound, Sound, HedgeSound
    <3>2. Reported(t) = IF Long(t) THEN Amount(t) - hedge[t].filled ELSE hedge[t].filled - Amount(t)
      BY OrderFacts, HedgeFacts DEF Reported, Amount, Exposure, Long, Sides
    <3> QED BY <3>1, <3>2, OrderFacts DEF Neutralised, ReportedFlat, Larger
  <2>3. ReportedFlat(t)' = ReportedFlat(t)
    BY <2>1, ReportKept
  <2>4. Neutralised(t) \/ Paused'
    BY <2>1, TripPauses DEF Reasons
  <2>5. Sound(t)'
    BY <2>1, <2>2, <2>3, <2>4 DEF AllSound, Sound, LegSound, HedgeSound, EndSound
  <2> QED BY <2>1, <2>5, OthersUnaffected, PausesGrow
<1>10. ASSUME NEW t \in Trades, Finish(t) PROVE AllSound'
  <2>1. /\ pc[t] = "post" /\ order' = order /\ hedge' = hedge /\ reviewed' = reviewed
        /\ status' = status /\ pc'[t] = "done" /\ breakers \subseteq breakers'
        /\ \A u \in Trades \ {t} : pc'[u] = pc[u]
    BY <1>10 DEF Finish, Ended, Trip, TypeOK
  <2>2. ReportedFlat(t)' = ReportedFlat(t)
    BY <2>1, ReportKept
  <2>3. Sound(t)'
    BY <2>1, <2>2, PausesGrow DEF AllSound, Sound, LegSound, HedgeSound, EndSound
  <2> QED BY <2>1, <2>3, OthersUnaffected, PausesGrow
<1>11. ASSUME NEW t \in Trades, ExecutionError(t) PROVE AllSound'
  <2>1. /\ pc[t] \in {"recover", "post"} /\ order' = order /\ hedge' = hedge /\ reviewed' = reviewed
        /\ status'[t] = "FAILED" /\ pc'[t] = "done" /\ breakers' = Trip("REPEATED_ORDER_FAILURE")
        /\ \A u \in Trades \ {t} : pc'[u] = pc[u] /\ status'[u] = status[u]
    BY <1>11 DEF ExecutionError, Ended, TypeOK
  <2>2. Paused' /\ breakers \subseteq breakers'
    BY <2>1, TripPauses DEF Reasons, Trip
  <2>3. Sound(t)'
    BY <2>1, <2>2 DEF AllSound, Sound, LegSound, HedgeSound, EndSound
  <2> QED BY <2>1, <2>2, <2>3, OthersUnaffected, PausesGrow
<1>12. CASE Refresh \/ ReconcilePaper \/ ReconcileVenues \/ WindowPasses \/ Stop
  <2>1. UNCHANGED tradeVars /\ reviewed' = reviewed /\ breakers \subseteq breakers'
    BY <1>12 DEF Refresh, ReconcilePaper, ReconcileVenues, WindowPasses, Stop, Trip
  <2> QED BY <2>1, PausesGrow, Unaffected, Same DEF AllSound
<1>13. CASE ReleaseStop
  <2>1. UNCHANGED tradeVars /\ reviewed' = reviewed /\ breakers' = {b \in breakers : b[2] # "MANUAL"}
    BY <1>13 DEF ReleaseStop
  <2>2. Paused => Paused'
    BY <2>1 DEF Paused
  <2> QED BY <2>1, <2>2, Unaffected, Same DEF AllSound
<1>14. CASE ResetBreakers
  <2>1. UNCHANGED tradeVars /\ \A t \in Trades : pc[t] \in {"post", "done"} => t \in reviewed'
    BY <1>14 DEF ResetBreakers
  <2> QED BY <2>1, Unaffected, Same DEF AllSound
<1>15. CASE ResetPaper
  <2>1. pc' = pc /\ status' = status /\ \A t \in Trades : pc[t] \in {"post", "done"} => t \in reviewed'
    BY <1>15 DEF ResetPaper
  <2>2. ASSUME NEW t \in Trades, pc[t] # "done" PROVE Sound(t)'
    <3>1. order'[t] = order[t] /\ hedge'[t] = hedge[t]
      BY <1>15, <2>2 DEF ResetPaper
    <3> QED BY <2>1, <3>1, Unaffected, Same DEF AllSound
  <2>3. ASSUME NEW t \in Trades, pc[t] = "done" PROVE Sound(t)'
    <3>1. order'[t] = [s \in Sides |-> NoOrder] /\ hedge'[t] = NoHedge
      BY <1>15, <2>3 DEF ResetPaper
    <3>2. ReportedFlat(t)'
      BY <3>1 DEF ReportedFlat, Reported, Amount, Exposure, Long, NoOrder, NoHedge, Larger, Sides
    <3> QED BY <2>1, <2>3, <3>1, <3>2 DEF Sound, LegSound, HedgeSound, EndSound, NoOrder, NoHedge
  <2> QED BY <2>2, <2>3 DEF AllSound
<1>16. CASE UNCHANGED vars
  <2>1. UNCHANGED tradeVars /\ reviewed' = reviewed /\ breakers \subseteq breakers'
    BY <1>16 DEF vars
  <2> QED BY <2>1, PausesGrow, Unaffected, Same DEF AllSound
<1> QED
  BY <1>1, <1>2, <1>3, <1>4, <1>5, <1>6, <1>7, <1>8, <1>9, <1>10, <1>11, <1>12, <1>13, <1>14,
     <1>15, <1>16
     DEF Next, Task, Leg, Hedge, Loops, Operator

\* The facts kept about every trade hold in every state of every run.
LEMMA Soundness == Spec => []AllSound
<1>1. Init => AllSound
  <2> SUFFICES ASSUME Init, NEW t \in Trades PROVE Sound(t)
    BY DEF AllSound
  <2>1. pc[t] = "idle" /\ hedge[t] = NoHedge /\ \A s \in Sides : order[t][s] = NoOrder
    BY DEF Init
  <2>2. \A s \in Sides : LegSound(t, s)
    BY <2>1, NoOrderFacts DEF LegSound
  <2>3. HedgeSound(t) /\ EndSound(t)
    BY <2>1 DEF HedgeSound, EndSound, NoHedge
  <2> QED BY <2>2, <2>3 DEF Sound
<1>2. TypeOK /\ TypeOK' /\ AllSound /\ [Next]_vars => AllSound'
  BY SoundStep
<1> QED BY TypeCorrect, <1>1, <1>2, PTL DEF Spec

\* A trade recorded as FILLED or HEDGED has left no exposure at the venues, for
\* any number of trades and venues and any sizes, unless an answer was lost.
THEOREM CompletedTradesAreFlat == Spec => []CompletedIsFlat
  BY Soundness, TypeCorrect, SoundMeaning, PTL

\* A trade that ended with an exposure keeps trading paused until breakers are
\* reset after its end: neither the release of the emergency stop nor a later
\* trade lifts the pause.
THEOREM ExposurePausesTrading == Spec => []ExposurePauses
  BY Soundness, TypeCorrect, SoundMeaning, PTL

--------------------------------------------------------------------------------
(* Commitment.                                                             *)

\* Only the step that takes the reservation opens a trade, and it checks the
\* stop and the global breakers again after the quotes were awaited.
THEOREM CommitsAreClear == Spec => CommitsOnlyWhenClear
<1>1. [Next]_vars => [open' \subseteq open \/ (~estop /\ ~GlobalTripped)]_vars
  <2> SUFFICES ASSUME Next PROVE open' \subseteq open \/ (~estop /\ ~GlobalTripped)
    BY DEF vars
  <2> USE DEF safetyVars
  <2>1. ASSUME NEW t \in Trades, Submit(t) PROVE ~estop /\ ~GlobalTripped
    BY <2>1 DEF Submit, Blocked
  <2>2. ASSUME NEW t \in Trades,
               Start(t) \/ RejectQuotes(t) \/ ReserveFails(t) \/ LegsDone(t) \/ FindHedge(t) \/ Verdict(t)
        PROVE  open' = open
    BY <2>2 DEF Start, RejectQuotes, ReserveFails, LegsDone, FindHedge, Verdict
  <2>3. ASSUME NEW t \in Trades, NEW s \in Sides, Leg(t, s) \/ VenueExecutes(t, s) PROVE open' = open
    BY <2>3 DEF Leg, PaperLeg, VenueAnswers, LegTimesOut, VenueExecutes
  <2>4. ASSUME NEW t \in Trades, NEW v \in Venues, Hedge(t, v) PROVE open' = open
    BY <2>4 DEF Hedge, HedgeSkips, HedgeReserves, PaperHedge, PaperHedgeRaises, VenueHedge
  <2>5. ASSUME NEW t \in Trades, Finish(t) \/ ExecutionError(t) PROVE open' \subseteq open
    BY <2>5 DEF Finish, ExecutionError, Ended
  <2>6. CASE Loops \/ Operator
    BY <2>6 DEF Loops, Operator, Refresh, ReconcilePaper, ReconcileVenues, WindowPasses,
                Stop, ReleaseStop, ResetBreakers, ResetPaper
  <2> QED BY <2>1, <2>2, <2>3, <2>4, <2>5, <2>6 DEF Next, Task
<1> QED BY <1>1, PTL DEF Spec, CommitsOnlyWhenClear

--------------------------------------------------------------------------------
(* The simulated ledger: pools that cover what is reserved from them, and   *)
(* totals that follow the trade records.                                    *)

USE FiniteAssumption

\* A fill on venue v that account a pays from its pool, with its gas.
PaidAt(ledger, v, a, n, b, f) ==
    ChargeGas(PaidFill(ledger, a, n, b, f), <<v, "base">>, GasOf(v, f))

\* It yields a ledger.
LEMMA PaidAtType ==
    ASSUME NEW ledger \in Ledgers(Accounts), NEW v \in Venues, NEW a \in Accounts, NEW b \in Accounts,
           NEW n \in Nat, NEW f \in Nat
    PROVE  PaidAt(ledger, v, a, n, b, f) \in Ledgers(Accounts)
<1>1. GasOf(v, f) \in Nat /\ <<v, "base">> \in Accounts
  BY DEF GasOf, Accounts, Assets
<1>2. PaidFill(ledger, a, n, b, f) \in Ledgers(Accounts)
  BY PaidType
<1> QED BY <1>1, <1>2, GasType DEF PaidAt

\* What it does to every pool.
LEMMA PaidAtPools ==
    ASSUME NEW ledger \in Ledgers(Accounts), NEW v \in Venues, NEW a \in Accounts, NEW b \in Accounts,
           NEW n \in Nat, NEW f \in Nat, NEW x \in Accounts
    PROVE  PaidAt(ledger, v, a, n, b, f)[x].used
             = IF x = a THEN Larger(0, ledger[x].used - n) ELSE ledger[x].used
<1>1. GasOf(v, f) \in Nat /\ <<v, "base">> \in Accounts
  BY DEF GasOf, Accounts, Assets
<1>2. PaidFill(ledger, a, n, b, f) \in Ledgers(Accounts)
  BY PaidType
<1>3. PaidFill(ledger, a, n, b, f)[x].used = IF x = a THEN Larger(0, ledger[x].used - n) ELSE ledger[x].used
  BY PaidPools
<1>4. PaidAt(ledger, v, a, n, b, f)[x].used = PaidFill(ledger, a, n, b, f)[x].used
  BY <1>1, <1>2, FreePools DEF PaidAt
<1> QED BY <1>3, <1>4

\* What it does to the total of every account, if the pool covers its price.
LEMMA PaidAtTotals ==
    ASSUME NEW ledger \in Ledgers(Accounts), NEW v \in Venues, NEW a \in Accounts, NEW b \in Accounts,
           a # b, NEW n \in Nat, NEW f \in Nat, NEW x \in Accounts, n <= ledger[a].used
    PROVE  Total(PaidAt(ledger, v, a, n, b, f)[x])
             = Total(ledger[x]) + (IF x = a THEN -n ELSE 0) + (IF x = b THEN f ELSE 0)
               - (IF x = <<v, "base">> THEN GasOf(v, f) ELSE 0)
<1> DEFINE filled == PaidFill(ledger, a, n, b, f)
<1>1. GasOf(v, f) \in Nat /\ <<v, "base">> \in Accounts
  BY DEF GasOf, Accounts, Assets
<1>2. filled \in Ledgers(Accounts)
  BY PaidType
<1>3. Total(filled[x]) = Total(ledger[x]) + (IF x = a THEN -n ELSE 0) + (IF x = b THEN f ELSE 0)
  BY CoveredFillsAreExact
<1>4. PaidAt(ledger, v, a, n, b, f) = ChargeGas(filled, <<v, "base">>, GasOf(v, f))
  BY DEF PaidAt
<1> HIDE DEF filled
<1>5. Total(ChargeGas(filled, <<v, "base">>, GasOf(v, f))[x])
        = IF x = <<v, "base">> THEN Total(filled[x]) - GasOf(v, f) ELSE Total(filled[x])
  BY <1>1, <1>2, GasTotals
<1>6. Total(filled[x]) \in Int /\ Total(ledger[x]) \in Int
  BY <1>2 DEF Ledgers, Total
<1>7. CASE x = <<v, "base">>
  BY <1>1, <1>3, <1>4, <1>5, <1>6, <1>7
<1>8. CASE x # <<v, "base">>
  BY <1>3, <1>4, <1>5, <1>6, <1>8
<1> QED BY <1>7, <1>8

\* What is known of every simulated trade: it is open while it is in flight, it
\* is hedged on one venue at a time and only by _recover, and an order that was
\* not answered has cost nothing.
PaperSound(t) ==
    /\ pc[t] \in {"legs", "recover", "hedge", "post"} => t \in open
    /\ hedge[t].at # {} => pc[t] = "hedge"
    /\ \A v, w \in hedge[t].at : v = w
    /\ pc[t] \in {"idle", "quoting", "legs", "recover"} => hedge[t] = NoHedge
    /\ \A s \in Sides : ~order[t][s].answered => order[t][s].cost = 0

PaperTrades == simulated => \A t \in Trades : PaperSound(t)

\* The amounts the sums are made of are integers, and claims are not negative.
ClaimsTyped == \A t \in Trades, a \in Accounts :
    /\ LegClaim(t, "buy", a) \in Nat /\ LegClaim(t, "sell", a) \in Nat
    /\ HedgeClaim(t, a) \in Nat /\ Claim(t, a) \in Nat
MovesTyped  == \A t \in Trades, asset \in Assets : Moved(t, asset) \in Int
TotalsTyped == \A v \in Venues, asset \in Assets : Total(books[<<v, asset>>]) \in Int

\* They are in every well-typed state.
LEMMA TypedTerms == TypeOK => ClaimsTyped /\ MovesTyped /\ TotalsTyped
<1> SUFFICES ASSUME TypeOK PROVE ClaimsTyped /\ MovesTyped /\ TotalsTyped
  OBVIOUS
<1>1. ASSUME NEW t \in Trades, NEW a \in Accounts
      PROVE  /\ LegClaim(t, "buy", a) \in Nat /\ LegClaim(t, "sell", a) \in Nat
             /\ HedgeClaim(t, a) \in Nat /\ Claim(t, a) \in Nat
  <2>1. \A s \in Sides : Needed(s) - Spent(t, s) \in Nat
    BY OrderFacts DEF Needed, QuoteNeeded, Spent, Sides
  <2>2. LegClaim(t, "buy", a) \in Nat /\ LegClaim(t, "sell", a) \in Nat
    BY <2>1 DEF LegClaim, Sides
  <2>3. HedgeClaim(t, a) \in Nat
    BY OrderFacts DEF HedgeClaim
  <2> QED BY <2>2, <2>3 DEF Claim
<1>2. ASSUME NEW t \in Trades, NEW asset \in Assets PROVE Moved(t, asset) \in Int
  <2>1. hedge[t].filled \in Int /\ hedge[t].gas \in Int /\ hedge[t].cost \in Int
    BY HedgeFacts DEF Hedges
  <2>2. /\ order[t]["buy"].filled \in Int /\ order[t]["sell"].filled \in Int
        /\ order[t]["buy"].cost \in Int
    BY OrderFacts DEF Sides
  <2>3. \A v, f : GasOf(v, f) \in Int
    BY DEF GasOf
  <2> QED BY <2>1, <2>2, <2>3 DEF Moved
<1>3. ASSUME NEW v \in Venues, NEW asset \in Assets PROVE Total(books[<<v, asset>>]) \in Int
  BY BooksType DEF Ledgers, Accounts, Total
<1> QED BY <1>1, <1>2, <1>3 DEF ClaimsTyped, MovesTyped, TotalsTyped

\* The same, expanded.
LEMMA TermTypes ==
    ASSUME TypeOK
    PROVE  /\ \A t \in Trades, a \in Accounts :
                /\ LegClaim(t, "buy", a) \in Nat /\ LegClaim(t, "sell", a) \in Nat
                /\ HedgeClaim(t, a) \in Nat /\ Claim(t, a) \in Nat
           /\ \A t \in Trades, asset \in Assets : Moved(t, asset) \in Int
           /\ \A v \in Venues, asset \in Assets : Total(books[<<v, asset>>]) \in Int
  BY TypedTerms DEF ClaimsTyped, MovesTyped, TotalsTyped

\* The same of the next state.
LEMMA NextTermTypes ==
    ASSUME TypeOK'
    PROVE  /\ \A t \in Trades, a \in Accounts : Claim(t, a)' \in Nat
           /\ \A t \in Trades, asset \in Assets : Moved(t, asset)' \in Int
           /\ \A v \in Venues, asset \in Assets : Total(books'[<<v, asset>>]) \in Int
<1>1. ClaimsTyped' /\ MovesTyped' /\ TotalsTyped'
  BY TypedTerms, PTL
<1>2. Accounts' = Accounts /\ Assets' = Assets
  BY DEF Accounts, Assets
<1>3. \A t \in Trades, a \in Accounts : Claim(t, a)' \in Nat
  BY <1>1, <1>2 DEF ClaimsTyped
<1>4. \A t \in Trades, asset \in Assets : Moved(t, asset)' \in Int
  BY <1>1, <1>2 DEF MovesTyped
<1>5. \A v \in Venues, asset \in Assets : Total(books'[<<v, asset>>]) \in Int
  BY <1>1, <1>2 DEF TotalsTyped, Total
<1> QED BY <1>3, <1>4, <1>5

\* The sums are integers, and a claim is part of what is outstanding.
LEMMA SumTypes ==
    ASSUME TypeOK
    PROVE  /\ \A a \in Accounts : /\ Outstanding(a) \in Nat
                                  /\ \A t \in Trades : Claim(t, a) <= Outstanding(a)
           /\ \A asset \in Assets : AllMoved(asset) \in Int /\ Worth(asset) \in Int
<1>1. ASSUME NEW a \in Accounts
      PROVE  Outstanding(a) \in Nat /\ \A t \in Trades : Claim(t, a) <= Outstanding(a)
  <2> DEFINE f == [t \in Trades |-> Claim(t, a)]
  <2>1. f \in [Trades -> Int] /\ \A t \in Trades : f[t] = Claim(t, a) /\ f[t] >= 0
    BY TermTypes
  <2>2. Outstanding(a) = SumFunctionOnSet(f, Trades)
    BY DEF Outstanding
  <2>3. Trades \in SUBSET Trades
    OBVIOUS
  <2> HIDE DEF f
  <2> QED BY <2>1, <2>2, <2>3, SumBounds
<1>2. ASSUME NEW asset \in Assets PROVE AllMoved(asset) \in Int
  <2> DEFINE f == [t \in Trades |-> Moved(t, asset)]
  <2>1. f \in [Trades -> Int]
    BY TermTypes
  <2>2. AllMoved(asset) = SumFunctionOnSet(f, Trades)
    BY DEF AllMoved
  <2>3. Trades \in SUBSET Trades
    OBVIOUS
  <2> HIDE DEF f
  <2> QED BY <2>1, <2>2, <2>3, SumTaken
<1>3. ASSUME NEW asset \in Assets PROVE Worth(asset) \in Int
  <2> DEFINE f == [v \in Venues |-> Total(books[<<v, asset>>])]
  <2>1. f \in [Venues -> Int]
    BY TermTypes
  <2>2. Worth(asset) = SumFunctionOnSet(f, Venues)
    BY DEF Worth
  <2>3. Venues \in SUBSET Venues
    OBVIOUS
  <2> HIDE DEF f
  <2> QED BY <2>1, <2>2, <2>3, SumTaken
<1> QED BY <1>1, <1>2, <1>3

\* A step that changes the claims of one trade changes what is outstanding by
\* as much.
LEMMA OutstandingChanges ==
    ASSUME TypeOK, TypeOK', NEW a \in Accounts, NEW t \in Trades,
           \A u \in Trades \ {t} : Claim(u, a)' = Claim(u, a)
    PROVE  Outstanding(a)' = Outstanding(a) + (Claim(t, a)' - Claim(t, a))
<1> DEFINE f == [u \in Trades |-> Claim(u, a)]
           g == [u \in Trades |-> Claim(u, a)']
<1>1. f \in [Trades -> Int]
  BY TermTypes
<1>2. \A u \in Trades : Claim(u, a)' \in Nat
  BY NextTermTypes
<1>3. g \in [Trades -> Int]
  BY <1>2
<1>4. \A u \in Trades \ {t} : f[u] = g[u]
  OBVIOUS
<1>5. Outstanding(a) = SumFunctionOnSet(f, Trades) /\ Outstanding(a)' = SumFunctionOnSet(g, Trades)
  BY DEF Outstanding
<1>6. g[t] = Claim(t, a)' /\ f[t] = Claim(t, a) /\ Trades \in SUBSET Trades
  OBVIOUS
<1> HIDE DEF f, g
<1> QED BY <1>1, <1>3, <1>4, <1>5, <1>6, SumChanges

\* The same for what the trades moved.
LEMMA AllMovedChanges ==
    ASSUME TypeOK, TypeOK', NEW asset \in Assets, NEW t \in Trades,
           \A u \in Trades \ {t} : Moved(u, asset)' = Moved(u, asset)
    PROVE  AllMoved(asset)' = AllMoved(asset) + (Moved(t, asset)' - Moved(t, asset))
<1> DEFINE f == [u \in Trades |-> Moved(u, asset)]
           g == [u \in Trades |-> Moved(u, asset)']
<1>1. f \in [Trades -> Int]
  BY TermTypes
<1>2. \A u \in Trades : Moved(u, asset)' \in Int
  BY NextTermTypes
<1>3. g \in [Trades -> Int]
  BY <1>2
<1>4. \A u \in Trades \ {t} : f[u] = g[u]
  OBVIOUS
<1>5. AllMoved(asset) = SumFunctionOnSet(f, Trades) /\ AllMoved(asset)' = SumFunctionOnSet(g, Trades)
  BY DEF AllMoved
<1>6. g[t] = Moved(t, asset)' /\ f[t] = Moved(t, asset) /\ Trades \in SUBSET Trades
  OBVIOUS
<1> HIDE DEF f, g
<1> QED BY <1>1, <1>3, <1>4, <1>5, <1>6, SumChanges

\* A step that changes the totals of one venue changes the worth of the ledger
\* by as much.
LEMMA WorthChanges ==
    ASSUME TypeOK, TypeOK', NEW asset \in Assets, NEW v \in Venues,
           \A w \in Venues \ {v} : Total(books'[<<w, asset>>]) = Total(books[<<w, asset>>])
    PROVE  Worth(asset)' = Worth(asset)
                           + (Total(books'[<<v, asset>>]) - Total(books[<<v, asset>>]))
<1> DEFINE f == [w \in Venues |-> Total(books[<<w, asset>>])]
           g == [w \in Venues |-> Total(books'[<<w, asset>>])]
<1>1. f \in [Venues -> Int]
  BY TermTypes
<1>2. \A w \in Venues : Total(books'[<<w, asset>>]) \in Int
  BY NextTermTypes
<1>3. g \in [Venues -> Int]
  BY <1>2
<1>4. \A w \in Venues \ {v} : f[w] = g[w]
  OBVIOUS
<1>5. Worth(asset) = SumFunctionOnSet(f, Venues) /\ Worth(asset)' = SumFunctionOnSet(g, Venues)
  BY DEF Worth, Total
<1>6. /\ g[v] = Total(books'[<<v, asset>>]) /\ f[v] = Total(books[<<v, asset>>])
      /\ Venues \in SUBSET Venues
  OBVIOUS
<1> HIDE DEF f, g
<1> QED BY <1>1, <1>3, <1>4, <1>5, <1>6, SumChanges

\* Sums whose terms are all kept are kept.
LEMMA OutstandingKept ==
    ASSUME NEW a \in Accounts, \A t \in Trades : Claim(t, a)' = Claim(t, a)
    PROVE  Outstanding(a)' = Outstanding(a)
<1>1. [t \in Trades |-> Claim(t, a)'] = [t \in Trades |-> Claim(t, a)]
  OBVIOUS
<1> QED BY <1>1 DEF Outstanding

\* The same for what the trades moved.
LEMMA AllMovedKept ==
    ASSUME NEW asset \in Assets, \A t \in Trades : Moved(t, asset)' = Moved(t, asset)
    PROVE  AllMoved(asset)' = AllMoved(asset)
<1>1. [t \in Trades |-> Moved(t, asset)'] = [t \in Trades |-> Moved(t, asset)]
  OBVIOUS
<1> QED BY <1>1 DEF AllMoved

\* The same for what the ledger holds.
LEMMA WorthKept ==
    ASSUME NEW asset \in Assets,
           \A v \in Venues : Total(books'[<<v, asset>>]) = Total(books[<<v, asset>>])
    PROVE  Worth(asset)' = Worth(asset)
<1>1. [v \in Venues |-> Total(books'[<<v, asset>>])] = [v \in Venues |-> Total(books[<<v, asset>>])]
  OBVIOUS
<1> QED BY <1>1 DEF Worth, Total

\* What a trade claims and moved depends on its own records only.
LEMMA OwnRecords ==
    ASSUME NEW u \in Trades, route' = route, order'[u] = order[u], hedge'[u] = hedge[u]
    PROVE  /\ \A asset \in Assets : Moved(u, asset)' = Moved(u, asset)
           /\ \A a \in Accounts : HedgeClaim(u, a)' = HedgeClaim(u, a)
           /\ pc'[u] = pc[u] => \A a \in Accounts : Claim(u, a)' = Claim(u, a)
  BY DEF Moved, Claim, LegClaim, HedgeClaim, PayAccount, Spent, HedgePay, HedgeNeeded, Long,
         Amount, Exposure, Needed

\* What the facts about a simulated trade, the pools and the totals come to.
PaperInv == PaperTrades /\ PoolCovers /\ LedgerMatchesTrades

\* A step of one trade that takes from the pools no more than its own claims,
\* and moves at one venue what its records say, keeps both balances.
LEMMA OneTradeStep ==
    ASSUME TypeOK, TypeOK', simulated, simulated', PoolCovers, LedgerMatchesTrades,
           route' = route, NEW t \in Trades, NEW v \in Venues,
           \A u \in Trades \ {t} : pc'[u] = pc[u] /\ order'[u] = order[u] /\ hedge'[u] = hedge[u],
           \A a \in Accounts : books'[a].used >= books[a].used + (Claim(t, a)' - Claim(t, a)),
           \A w \in Venues \ {v}, asset \in Assets :
                Total(books'[<<w, asset>>]) = Total(books[<<w, asset>>]),
           \A asset \in Assets :
                Total(books'[<<v, asset>>]) - Total(books[<<v, asset>>])
                    = Moved(t, asset)' - Moved(t, asset)
    PROVE  PoolCovers' /\ LedgerMatchesTrades'
<1>1. PoolCovers'
  <2> SUFFICES ASSUME NEW a \in Accounts PROVE books'[a].used >= Outstanding(a)'
    BY DEF PoolCovers, Accounts
  <2>1. \A u \in Trades \ {t} : Claim(u, a)' = Claim(u, a)
    BY OwnRecords
  <2>2. Outstanding(a)' = Outstanding(a) + (Claim(t, a)' - Claim(t, a))
    BY <2>1, OutstandingChanges
  <2>3. books[a].used >= Outstanding(a)
    BY DEF PoolCovers
  <2>4. Outstanding(a) \in Nat /\ Claim(t, a) \in Nat
    BY SumTypes, TermTypes
  <2>5. Claim(t, a)' \in Nat
    BY NextTermTypes
  <2>6. books[a].used \in Nat /\ books'[a].used \in Nat
    BY DEF TypeOK, Accounts
  <2>7. books'[a].used >= books[a].used + (Claim(t, a)' - Claim(t, a))
    OBVIOUS
  <2> QED BY <2>2, <2>3, <2>4, <2>5, <2>6, <2>7
<1>2. LedgerMatchesTrades'
  <2> SUFFICES ASSUME NEW asset \in Assets
               PROVE  Worth(asset)' = Funds * Cardinality(Venues) + AllMoved(asset)'
    BY DEF LedgerMatchesTrades, Assets
  <2>1. \A u \in Trades \ {t} : Moved(u, asset)' = Moved(u, asset)
    BY OwnRecords
  <2>2. AllMoved(asset)' = AllMoved(asset) + (Moved(t, asset)' - Moved(t, asset))
    BY <2>1, AllMovedChanges
  <2>3. Worth(asset)' = Worth(asset)
                        + (Total(books'[<<v, asset>>]) - Total(books[<<v, asset>>]))
    BY WorthChanges
  <2>4. Worth(asset) = Funds * Cardinality(Venues) + AllMoved(asset)
    BY DEF LedgerMatchesTrades
  <2>5. Total(books'[<<v, asset>>]) - Total(books[<<v, asset>>])
          = Moved(t, asset)' - Moved(t, asset)
    OBVIOUS
  <2>6. Funds * Cardinality(Venues) \in Int
    BY FS_CardinalityType
  <2>7. AllMoved(asset) \in Int /\ Moved(t, asset) \in Int
    BY SumTypes, TermTypes
  <2>8. Moved(t, asset)' \in Int
    BY NextTermTypes
  <2> QED BY <2>2, <2>3, <2>4, <2>5, <2>6, <2>7, <2>8
<1> QED BY <1>1, <1>2

\* The same for a step that leaves the books alone and claims no more.
LEMMA QuietStep ==
    ASSUME TypeOK, TypeOK', simulated, simulated', PoolCovers, LedgerMatchesTrades,
           route' = route, books' = books, NEW t \in Trades,
           \A u \in Trades \ {t} : pc'[u] = pc[u] /\ order'[u] = order[u] /\ hedge'[u] = hedge[u],
           \A a \in Accounts : Claim(t, a)' <= Claim(t, a),
           \A asset \in Assets : Moved(t, asset)' = Moved(t, asset)
    PROVE  PoolCovers' /\ LedgerMatchesTrades'
<1>1. route[t]["buy"] \in Venues
  BY RouteFacts DEF Sides
<1>2. \A a \in Accounts : books'[a].used >= books[a].used + (Claim(t, a)' - Claim(t, a))
  <2> SUFFICES ASSUME NEW a \in Accounts
               PROVE  books'[a].used >= books[a].used + (Claim(t, a)' - Claim(t, a))
    OBVIOUS
  <2>1. books[a].used \in Nat /\ Claim(t, a) \in Nat
    BY TermTypes DEF TypeOK
  <2>2. Claim(t, a)' \in Nat
    BY NextTermTypes
  <2> QED BY <2>1, <2>2
<1>3. \A w \in Venues, asset \in Assets : Total(books[<<w, asset>>]) \in Int
  BY TermTypes
<1>4. \A asset \in Assets : Moved(t, asset) \in Int
  BY TermTypes
<1> QED BY <1>1, <1>2, <1>3, <1>4, OneTradeStep

\* A trade keeps its facts through the steps of the others.
LEMMA PaperOthers ==
    ASSUME \A u \in Trades : PaperSound(u), NEW t \in Trades,
           \A u \in Trades \ {t} : pc'[u] = pc[u] /\ order'[u] = order[u] /\ hedge'[u] = hedge[u],
           open \subseteq open' \cup {t},
           PaperSound(t)'
    PROVE  PaperTrades'
  BY DEF PaperSound, PaperTrades

\* A trade whose legs are not out claims nothing for them.
LEMMA NoLegs ==
    ASSUME NEW t \in Trades, pc[t] # "legs"
    PROVE  \A a \in Accounts, s \in Sides : LegClaim(t, s, a) = 0
  BY DEF LegClaim

\* A trade that does not start, whose quotes are rejected or whose reservation
\* the ledger refuses has claimed and moved nothing.
LEMMA BeforeLegs ==
    ASSUME TypeOK, TypeOK', simulated, PaperInv, NEW t \in Trades,
           Start(t) \/ RejectQuotes(t) \/ ReserveFails(t)
    PROVE  PaperInv'
<1>1. /\ simulated' = simulated /\ route' = route /\ books' = books /\ open' = open
      /\ order' = order /\ hedge' = hedge
      /\ pc[t] \in {"idle", "quoting"} /\ pc'[t] \in {"quoting", "done"}
      /\ \A u \in Trades \ {t} : pc'[u] = pc[u]
  BY DEF Start, RejectQuotes, ReserveFails, Aborted, TypeOK
<1>2. PaperSound(t)'
  <2>1. PaperSound(t)
    BY DEF PaperInv, PaperTrades
  <2>2. hedge[t].at = {}
    BY <1>1, <2>1 DEF PaperSound
  <2> QED BY <1>1, <2>1, <2>2 DEF PaperSound
<1>3. PaperTrades'
  BY <1>1, <1>2, PaperOthers DEF PaperInv, PaperTrades
<1>4. \A a \in Accounts : Claim(t, a)' <= Claim(t, a)
  <2>1. \A a \in Accounts : HedgeClaim(t, a)' = HedgeClaim(t, a)
    BY <1>1, OwnRecords
  <2>2. pc[t] # "legs" /\ pc'[t] # "legs"
    BY <1>1
  <2>3. \A a \in Accounts, s \in Sides : LegClaim(t, s, a)' = LegClaim(t, s, a)
    BY <2>2 DEF LegClaim
  <2>4. \A a \in Accounts : Claim(t, a)' = Claim(t, a)
    BY <2>1, <2>3 DEF Claim, Sides
  <2> QED BY <2>4, TermTypes
<1>5. \A asset \in Assets : Moved(t, asset)' = Moved(t, asset)
  BY <1>1, OwnRecords
<1>6. PoolCovers' /\ LedgerMatchesTrades'
  BY <1>1, <1>4, <1>5, QuietStep DEF PaperInv
<1> QED BY <1>3, <1>6 DEF PaperInv

\* Between the legs and the end, a step that leaves the orders, the hedge's
\* attempt and its fills alone claims and moves what was claimed and moved.
LEMMA AfterLegs ==
    ASSUME TypeOK, TypeOK', simulated, PaperInv, NEW t \in Trades,
           FindHedge(t) \/ Verdict(t) \/ Finish(t) \/ ExecutionError(t)
    PROVE  PaperInv'
<1>1. /\ simulated' = simulated /\ route' = route /\ books' = books
      /\ open \subseteq open' \cup {t}
      /\ pc[t] \in {"recover", "hedge", "post"} /\ pc'[t] \in {"hedge", "post", "done"}
      /\ pc'[t] = "done" \/ open' = open
      /\ order' = order
      /\ \A u \in Trades \ {t} : pc'[u] = pc[u] /\ hedge'[u] = hedge[u]
  BY DEF FindHedge, Verdict, Finish, ExecutionError, Ended, TypeOK
<1>2. /\ hedge[t].at = {}
      /\ hedge'[t].at = {} /\ hedge'[t].filled = hedge[t].filled
      /\ hedge'[t].cost = hedge[t].cost /\ hedge'[t].gas = hedge[t].gas
  <2>1. PaperSound(t)
    BY DEF PaperInv, PaperTrades
  <2>2. hedge[t].at = {}
    BY <2>1 DEF PaperSound, FindHedge, Verdict, Finish, ExecutionError
  <2>3. CASE FindHedge(t)
    <3>1. PICK vs : hedge' = [hedge EXCEPT ![t].left = vs]
      BY <2>3 DEF FindHedge
    <3>2. hedge[t] \in Hedges
      BY HedgeFacts
    <3> QED BY <2>2, <3>1, <3>2 DEF TypeOK, Hedges
  <2>4. CASE hedge' = hedge
    BY <2>2, <2>4
  <2> QED BY <2>3, <2>4 DEF Verdict, Finish, ExecutionError
<1>3. PaperSound(t)'
  <2>1. PaperSound(t)
    BY DEF PaperInv, PaperTrades
  <2> QED BY <1>1, <1>2, <2>1 DEF PaperSound
<1>4. PaperTrades'
  BY <1>1, <1>3, PaperOthers DEF PaperInv, PaperTrades
<1>5. \A a \in Accounts : Claim(t, a)' <= Claim(t, a)
  <2>1. \A a \in Accounts : HedgeClaim(t, a)' = 0 /\ HedgeClaim(t, a) = 0
    BY <1>2 DEF HedgeClaim
  <2>2. pc[t] # "legs" /\ pc'[t] # "legs"
    BY <1>1
  <2>3. \A a \in Accounts, s \in Sides : LegClaim(t, s, a)' = 0 /\ LegClaim(t, s, a) = 0
    BY <2>2 DEF LegClaim
  <2> QED BY <2>1, <2>3 DEF Claim, Sides
<1>6. \A asset \in Assets : Moved(t, asset)' = Moved(t, asset)
  BY <1>1, <1>2 DEF Moved, Long, Exposure
<1>7. PoolCovers' /\ LedgerMatchesTrades'
  BY <1>1, <1>5, <1>6, QuietStep DEF PaperInv
<1> QED BY <1>4, <1>7 DEF PaperInv

\* The accounts that a trade's two legs pay from are not the same.
LEMMA PayAccounts ==
    ASSUME NEW t \in Trades PROVE PayAccount(t, "buy") # PayAccount(t, "sell")
  BY DEF PayAccount

\* What reserving for both legs does to the pools and to the totals.
LEMMA ReservedEffects ==
    ASSUME TypeOK, NEW t \in Trades, NEW a \in Accounts
    PROVE  /\ Reserved(t)[a].used = books[a].used
                 + (IF a = PayAccount(t, "buy") THEN QuoteNeeded ELSE 0)
                 + (IF a = PayAccount(t, "sell") THEN Size ELSE 0)
           /\ Total(Reserved(t)[a]) = Total(books[a])
<1> DEFINE one == Reserve(books, PayAccount(t, "buy"), QuoteNeeded)
<1>1. QuoteNeeded \in Nat /\ Size \in Nat
  BY DEF QuoteNeeded
<1>2. PayAccount(t, "buy") \in Accounts /\ PayAccount(t, "sell") \in Accounts
  BY RouteFacts DEF Sides
<1>3. books \in Ledgers(Accounts) /\ one \in Ledgers(Accounts)
  BY <1>1, <1>2, BooksType, ReserveType
<1>4. /\ one[a].used = IF a = PayAccount(t, "buy") THEN books[a].used + QuoteNeeded ELSE books[a].used
      /\ Total(one[a]) = Total(books[a])
  BY <1>1, <1>2, <1>3, ReservePools, ReservingKeepsTotals
<1>5. Reserved(t) = Reserve(one, PayAccount(t, "sell"), Size)
  BY DEF Reserved
<1> HIDE DEF one
<1>6. /\ Reserved(t)[a].used = IF a = PayAccount(t, "sell") THEN one[a].used + Size ELSE one[a].used
      /\ Total(Reserved(t)[a]) = Total(one[a])
  BY <1>1, <1>2, <1>3, <1>5, ReservePools, ReservingKeepsTotals
<1>7. books[a].used \in Nat /\ one[a].used \in Nat
  BY <1>3 DEF Ledgers
<1> QED BY <1>1, <1>4, <1>6, <1>7

\* The step that commits reserves what it claims, and moves nothing.
LEMMA SubmitKeeps ==
    ASSUME TypeOK, TypeOK', AllSound, simulated, PaperInv, NEW t \in Trades, Submit(t)
    PROVE  PaperInv'
<1>1. /\ simulated' = simulated /\ route' = route /\ books' = Reserved(t) /\ hedge' = hedge
      /\ open \subseteq open' /\ t \in open' /\ pc[t] = "quoting" /\ pc'[t] = "legs"
      /\ order'[t] = [s \in Sides |-> [NoOrder EXCEPT !.sent = TRUE]]
      /\ \A u \in Trades \ {t} : pc'[u] = pc[u] /\ order'[u] = order[u]
  BY DEF Submit, TypeOK
<1>2. /\ hedge[t] = NoHedge /\ \A s \in Sides : order[t][s] = NoOrder
      /\ \A s \in Sides : order'[t][s] = [NoOrder EXCEPT !.sent = TRUE]
  BY <1>1 DEF PaperInv, PaperTrades, PaperSound, AllSound, Sound, LegSound
<1>3. /\ \A s \in Sides : /\ order[t][s].filled = 0 /\ order[t][s].cost = 0
                          /\ order'[t][s].filled = 0 /\ order'[t][s].cost = 0
                          /\ ~order'[t][s].answered
      /\ hedge[t].at = {}
  BY <1>2 DEF NoOrder, NoHedge
<1>4. PaperSound(t)'
  BY <1>1, <1>2, <1>3 DEF PaperSound
<1>5. PaperTrades'
  BY <1>1, <1>4, PaperOthers DEF PaperInv, PaperTrades
<1>6. \A a \in Accounts : /\ Claim(t, a) = 0
                          /\ Claim(t, a)' = (IF a = PayAccount(t, "buy") THEN QuoteNeeded ELSE 0)
                                            + (IF a = PayAccount(t, "sell") THEN Size ELSE 0)
  <2> SUFFICES ASSUME NEW a \in Accounts
               PROVE  /\ Claim(t, a) = 0
                      /\ Claim(t, a)' = (IF a = PayAccount(t, "buy") THEN QuoteNeeded ELSE 0)
                                        + (IF a = PayAccount(t, "sell") THEN Size ELSE 0)
    OBVIOUS
  <2>1. HedgeClaim(t, a) = 0 /\ HedgeClaim(t, a)' = 0
    BY <1>1, <1>3 DEF HedgeClaim
  <2>2. LegClaim(t, "buy", a) = 0 /\ LegClaim(t, "sell", a) = 0
    BY <1>1, NoLegs DEF Sides
  <2>3. Spent(t, "buy")' = 0 /\ Spent(t, "sell")' = 0
    BY <1>3 DEF Spent, Sides
  <2>4. /\ LegClaim(t, "buy", a)' = IF a = PayAccount(t, "buy") THEN QuoteNeeded ELSE 0
        /\ LegClaim(t, "sell", a)' = IF a = PayAccount(t, "sell") THEN Size ELSE 0
    BY <1>1, <2>3 DEF LegClaim, Needed, PayAccount, QuoteNeeded
  <2> QED BY <2>1, <2>2, <2>4 DEF Claim, QuoteNeeded
<1>7. \A asset \in Assets : Moved(t, asset)' = Moved(t, asset)
  <2>1. /\ order'[t]["buy"].filled = order[t]["buy"].filled
        /\ order'[t]["sell"].filled = order[t]["sell"].filled
        /\ order'[t]["buy"].cost = order[t]["buy"].cost
    BY <1>3 DEF Sides
  <2> QED BY <1>1, <2>1 DEF Moved, Long, Exposure
<1>8. \A a \in Accounts : books'[a].used >= books[a].used + (Claim(t, a)' - Claim(t, a))
  <2> SUFFICES ASSUME NEW a \in Accounts
               PROVE  books'[a].used >= books[a].used + (Claim(t, a)' - Claim(t, a))
    OBVIOUS
  <2>1. books[a].used \in Nat /\ QuoteNeeded \in Nat /\ Size \in Nat
    BY DEF TypeOK, QuoteNeeded
  <2> QED BY <1>1, <1>6, <2>1, ReservedEffects
<1>9. \A w \in Venues, asset \in Assets : /\ Total(books'[<<w, asset>>]) = Total(books[<<w, asset>>])
                                          /\ Total(books[<<w, asset>>]) \in Int
  BY <1>1, ReservedEffects, TermTypes DEF Accounts
<1>10. route[t]["buy"] \in Venues /\ \A asset \in Assets : Moved(t, asset) \in Int
  BY RouteFacts, TermTypes DEF Sides
<1>11. \A asset \in Assets : Total(books'[<<route[t]["buy"], asset>>]) - Total(books[<<route[t]["buy"], asset>>])
                               = Moved(t, asset)' - Moved(t, asset)
  BY <1>7, <1>9, <1>10
<1>12. PoolCovers' /\ LedgerMatchesTrades'
  BY <1>1, <1>8, <1>9, <1>10, <1>11, OneTradeStep DEF PaperInv
<1> QED BY <1>5, <1>12 DEF PaperInv

\* What is known of a trade before one of its legs fills.
LEMMA BeforeFill ==
    ASSUME TypeOK, AllSound, simulated, PaperInv, NEW t \in Trades, NEW s \in Sides,
           pc[t] = "legs", ~order[t][s].answered
    PROVE  /\ order[t][s].filled = 0 /\ order[t][s].cost = 0
           /\ hedge[t].at = {} /\ hedge[t].filled = 0 /\ hedge[t].cost = 0 /\ hedge[t].gas = 0
           /\ books[PayAccount(t, s)].used >= Needed(s)
<1>1. order[t][s].filled = 0
  BY DEF AllSound, Sound, LegSound
<1>2. PaperSound(t)
  BY DEF PaperInv, PaperTrades
<1>3. order[t][s].cost = 0 /\ hedge[t] = NoHedge
  BY <1>2 DEF PaperSound
<1>4. hedge[t].at = {} /\ hedge[t].filled = 0 /\ hedge[t].cost = 0 /\ hedge[t].gas = 0
  BY <1>3 DEF NoHedge
<1> DEFINE a == PayAccount(t, s)
<1>5. a \in Accounts
  BY RouteFacts
<1>6. Needed(s) \in Nat /\ LegClaim(t, s, a) = Needed(s)
  BY <1>1, <1>3 DEF LegClaim, Needed, QuoteNeeded, Spent
<1>7. Claim(t, a) >= LegClaim(t, s, a)
  BY <1>5, TermTypes DEF Claim, Sides
<1>8. books[a].used >= Outstanding(a) /\ Outstanding(a) >= Claim(t, a)
  BY <1>5, SumTypes DEF PaperInv, PoolCovers
<1>9. books[a].used \in Nat /\ Outstanding(a) \in Nat /\ Claim(t, a) \in Nat
  BY <1>5, SumTypes, TermTypes DEF TypeOK
<1> HIDE DEF a
<1>10. books[a].used >= Needed(s)
  BY <1>6, <1>7, <1>8, <1>9
<1> QED BY <1>1, <1>3, <1>4, <1>10 DEF a

\* A leg was answered, with f filled for c; no other order changed.
LegBooked(t, s, f, c) ==
    /\ \A u \in Trades \ {t} : order'[u] = order[u]
    /\ \A x \in Sides \ {s} : order'[t][x] = order[t][x]
    /\ order'[t][s].answered /\ order'[t][s].filled = f /\ order'[t][s].cost = c

\* A leg that is rejected or times out claims and moves what it did.
LEMMA UnfilledLegKeeps ==
    ASSUME TypeOK, TypeOK', AllSound, simulated, PaperInv, NEW t \in Trades, NEW s \in Sides,
           pc[t] = "legs", ~order[t][s].answered,
           UNCHANGED <<pc, simulated, route, hedge, open, books>>, LegBooked(t, s, 0, 0)
    PROVE  PaperInv'
<1>1. /\ \A u \in Trades \ {t} : order'[u] = order[u]
      /\ \A x \in Sides : order'[t][x].filled = order[t][x].filled /\ order'[t][x].cost = order[t][x].cost
      /\ \A x \in Sides : order[t][x].answered => order'[t][x].answered
  BY BeforeFill DEF LegBooked
<1>2. PaperSound(t)'
  BY <1>1 DEF PaperInv, PaperTrades, PaperSound
<1>3. PaperTrades'
  BY <1>1, <1>2, PaperOthers DEF PaperInv, PaperTrades
<1>4. /\ order'[t]["buy"].filled = order[t]["buy"].filled
      /\ order'[t]["sell"].filled = order[t]["sell"].filled
      /\ order'[t]["buy"].cost = order[t]["buy"].cost
  BY <1>1 DEF Sides
<1>5. \A asset \in Assets : Moved(t, asset)' = Moved(t, asset)
  BY <1>4 DEF Moved, Long, Exposure
<1>6. \A a \in Accounts : Claim(t, a)' <= Claim(t, a)
  <2>1. \A a \in Accounts : Claim(t, a)' = Claim(t, a)
    BY <1>4 DEF Claim, LegClaim, HedgeClaim, PayAccount, Spent, HedgePay, HedgeNeeded, Long,
                Amount, Exposure, Needed
  <2> QED BY <2>1, TermTypes
<1>7. PoolCovers' /\ LedgerMatchesTrades'
  BY <1>1, <1>5, <1>6, QuietStep DEF PaperInv
<1> QED BY <1>3, <1>7 DEF PaperInv

\* How a fill of a leg changes the claims and the records of its trade.
LEMMA FillRecords ==
    ASSUME TypeOK, TypeOK', AllSound, simulated, PaperInv, NEW t \in Trades, NEW s \in Sides,
           pc[t] = "legs", ~order[t][s].answered,
           UNCHANGED <<pc, simulated, route, hedge, open>>,
           NEW f \in Nat, NEW c \in Nat, LegBooked(t, s, f, c)
    PROVE  /\ \A u \in Trades \ {t} : order'[u] = order[u]
           /\ \A a \in Accounts :
                Claim(t, a)' - Claim(t, a)
                  = IF a = PayAccount(t, s) THEN -(IF s = "buy" THEN c ELSE f) ELSE 0
           /\ Moved(t, "base")' - Moved(t, "base")
                = (IF s = "buy" THEN f ELSE -f) - GasOf(route[t][s], f)
           /\ Moved(t, "quote")' - Moved(t, "quote") = IF s = "buy" THEN -c ELSE f
           /\ PaperTrades'
<1>1. /\ \A u \in Trades \ {t} : order'[u] = order[u]
      /\ \A x \in Sides \ {s} : order'[t][x] = order[t][x]
      /\ order'[t][s].answered /\ order'[t][s].filled = f /\ order'[t][s].cost = c
  BY DEF LegBooked
<1>2. /\ order[t][s].filled = 0 /\ order[t][s].cost = 0
      /\ hedge[t].at = {} /\ hedge[t].filled = 0 /\ hedge[t].cost = 0
  BY BeforeFill
<1>3. PaperTrades'
  <2>1. PaperSound(t)'
    BY <1>1 DEF PaperInv, PaperTrades, PaperSound
  <2> QED BY <1>1, <2>1, PaperOthers DEF PaperInv, PaperTrades
<1>4. ASSUME NEW a \in Accounts
      PROVE  Claim(t, a)' - Claim(t, a)
               = IF a = PayAccount(t, s) THEN -(IF s = "buy" THEN c ELSE f) ELSE 0
  <2>1. HedgeClaim(t, a)' = 0 /\ HedgeClaim(t, a) = 0
    BY <1>2 DEF HedgeClaim
  <2>2. ASSUME NEW x \in Sides \ {s} PROVE LegClaim(t, x, a)' = LegClaim(t, x, a)
    BY <1>1, <2>2 DEF LegClaim, PayAccount, Spent, Needed
  <2>3. Spent(t, s)' = (IF s = "buy" THEN c ELSE f) /\ Spent(t, s) = 0
    BY <1>1, <1>2 DEF Spent
  <2>4. Needed(s) \in Nat /\ Needed(s)' = Needed(s) /\ PayAccount(t, s)' = PayAccount(t, s)
    BY DEF Needed, QuoteNeeded, PayAccount
  <2>5. LegClaim(t, s, a)' - LegClaim(t, s, a)
          = IF a = PayAccount(t, s) THEN -(IF s = "buy" THEN c ELSE f) ELSE 0
    BY <2>3, <2>4 DEF LegClaim
  <2>6. LegClaim(t, "buy", a) \in Nat /\ LegClaim(t, "sell", a) \in Nat
    BY TermTypes
  <2>7. LegClaim(t, s, a)' \in Int
    BY <2>3, <2>4 DEF LegClaim
  <2>8. CASE s = "buy"
    <3>1. LegClaim(t, "sell", a)' = LegClaim(t, "sell", a)
      BY <2>2, <2>8 DEF Sides
    <3> QED BY <2>1, <2>5, <2>6, <2>7, <2>8, <3>1 DEF Claim
  <2>9. CASE s = "sell"
    <3>1. LegClaim(t, "buy", a)' = LegClaim(t, "buy", a)
      BY <2>2, <2>9 DEF Sides
    <3> QED BY <2>1, <2>5, <2>6, <2>7, <2>9, <3>1 DEF Claim
  <2> QED BY <2>8, <2>9 DEF Sides
<1>5. \A v, n : GasOf(v, n) \in Int /\ GasOf(v, 0) = 0
  BY DEF GasOf
<1>6. hedge[t].gas \in Int
  BY HedgeFacts DEF Hedges
<1>7. /\ order[t]["buy"].filled \in Int /\ order[t]["sell"].filled \in Int
      /\ order[t]["buy"].cost \in Int
  BY OrderFacts DEF Sides
<1>8. CASE s = "buy"
  <2>1. /\ order'[t]["sell"] = order[t]["sell"] /\ order'[t]["buy"].filled = f
        /\ order'[t]["buy"].cost = c /\ order[t]["buy"].filled = 0 /\ order[t]["buy"].cost = 0
    BY <1>1, <1>2, <1>8 DEF Sides
  <2>2. Moved(t, "base")' - Moved(t, "base") = f - GasOf(route[t]["buy"], f)
    BY <1>2, <1>5, <1>6, <1>7, <2>1 DEF Moved
  <2>3. Moved(t, "quote")' - Moved(t, "quote") = -c
    BY <1>2, <1>7, <2>1 DEF Moved
  <2> QED BY <1>1, <1>3, <1>4, <1>8, <2>2, <2>3
<1>9. CASE s = "sell"
  <2>1. /\ order'[t]["buy"] = order[t]["buy"] /\ order'[t]["sell"].filled = f
        /\ order[t]["sell"].filled = 0
    BY <1>1, <1>2, <1>9 DEF Sides
  <2>2. Moved(t, "base")' - Moved(t, "base") = -f - GasOf(route[t]["sell"], f)
    BY <1>2, <1>5, <1>6, <1>7, <2>1 DEF Moved
  <2>3. Moved(t, "quote")' - Moved(t, "quote") = f
    BY <1>2, <1>7, <2>1 DEF Moved
  <2> QED BY <1>1, <1>3, <1>4, <1>9, <2>2, <2>3
<1> QED BY <1>8, <1>9 DEF Sides

\* The accounts of a leg are both on the venue of the leg.
LEMMA LegAccounts ==
    ASSUME NEW t \in Trades, NEW s \in Sides
    PROVE  /\ PayAccount(t, s) = <<route[t][s], IF s = "buy" THEN "quote" ELSE "base">>
           /\ GetAccount(t, s) = <<route[t][s], IF s = "buy" THEN "base" ELSE "quote">>
  BY DEF PayAccount, GetAccount, Sides

\* A leg that fills is paid from what was reserved for it, and moves what its
\* order records.
LEMMA FilledLegKeeps ==
    ASSUME TypeOK, TypeOK', AllSound, simulated, PaperInv, NEW t \in Trades, NEW s \in Sides,
           pc[t] = "legs", ~order[t][s].answered,
           UNCHANGED <<pc, simulated, route, hedge, open>>,
           NEW f \in 0 .. Size, NEW c \in Nat, s = "buy" => c <= f + Tol, LegBooked(t, s, f, c),
           books' = PaidAt(books, route[t][s], PayAccount(t, s), IF s = "buy" THEN c ELSE f,
                           GetAccount(t, s), f)
    PROVE  PaperInv'
<1> DEFINE v == route[t][s]
           a == PayAccount(t, s)
           b == GetAccount(t, s)
           spent == IF s = "buy" THEN c ELSE f
<1>1. f \in Nat /\ c \in Nat /\ spent \in Nat /\ spent <= Needed(s)
  BY DEF Needed, QuoteNeeded, Sides
<1>2. v \in Venues /\ a \in Accounts /\ b \in Accounts /\ a # b
  BY RouteFacts DEF PayAccount, GetAccount
<1>3. a = <<v, IF s = "buy" THEN "quote" ELSE "base">> /\ b = <<v, IF s = "buy" THEN "base" ELSE "quote">>
  BY LegAccounts
<1>4. books[a].used >= Needed(s) /\ books[a].used \in Nat /\ Needed(s) \in Nat
  BY <1>2, BeforeFill DEF TypeOK, Needed, QuoteNeeded
<1>5. /\ \A u \in Trades \ {t} : order'[u] = order[u]
      /\ \A x \in Accounts : Claim(t, x)' - Claim(t, x) = IF x = a THEN -spent ELSE 0
      /\ Moved(t, "base")' - Moved(t, "base") = (IF s = "buy" THEN f ELSE -f) - GasOf(v, f)
      /\ Moved(t, "quote")' - Moved(t, "quote") = IF s = "buy" THEN -c ELSE f
      /\ PaperTrades'
  BY <1>1, FillRecords
<1>6. books \in Ledgers(Accounts)
  BY BooksType
<1>7. books' = PaidAt(books, v, a, spent, b, f)
  OBVIOUS
<1>8. spent <= books[a].used
  BY <1>1, <1>4
<1> HIDE DEF v, a, b, spent
<1>9. \A x \in Accounts : books'[x].used = IF x = a THEN Larger(0, books[x].used - spent) ELSE books[x].used
  BY <1>1, <1>2, <1>6, <1>7, PaidAtPools
<1>10. \A x \in Accounts :
          Total(books'[x]) = Total(books[x]) + (IF x = a THEN -spent ELSE 0)
               + (IF x = b THEN f ELSE 0) - (IF x = <<v, "base">> THEN GasOf(v, f) ELSE 0)
  BY <1>1, <1>2, <1>6, <1>7, <1>8, PaidAtTotals
<1>11. \A x \in Accounts : books[x].used \in Nat /\ Total(books[x]) \in Int
  BY <1>6 DEF Ledgers, Total
<1>12. \A x \in Accounts : books'[x].used >= books[x].used + (Claim(t, x)' - Claim(t, x))
  <2> SUFFICES ASSUME NEW x \in Accounts
               PROVE  books'[x].used >= books[x].used + (Claim(t, x)' - Claim(t, x))
    OBVIOUS
  <2>1. CASE x = a
    BY <1>1, <1>4, <1>5, <1>9, <2>1 DEF Larger
  <2>2. CASE x # a
    BY <1>5, <1>9, <1>11, <2>2
  <2> QED BY <2>1, <2>2
<1>13. \A w \in Venues \ {v}, asset \in Assets :
          Total(books'[<<w, asset>>]) = Total(books[<<w, asset>>])
  <2> SUFFICES ASSUME NEW w \in Venues \ {v}, NEW asset \in Assets
               PROVE  Total(books'[<<w, asset>>]) = Total(books[<<w, asset>>])
    OBVIOUS
  <2>1. <<w, asset>> \in Accounts /\ <<w, asset>> # a /\ <<w, asset>> # b /\ <<w, asset>> # <<v, "base">>
    BY <1>3 DEF Accounts
  <2> QED BY <1>10, <1>11, <2>1
<1>14. GasOf(v, f) \in Int
  BY DEF GasOf
<1>15. \A asset \in Assets :
          Total(books'[<<v, asset>>]) - Total(books[<<v, asset>>]) = Moved(t, asset)' - Moved(t, asset)
  <2>1. <<v, "base">> \in Accounts /\ <<v, "quote">> \in Accounts
    BY <1>2 DEF Accounts, Assets
  <2>2. Total(books'[<<v, "base">>]) - Total(books[<<v, "base">>])
          = (IF s = "buy" THEN f ELSE -f) - GasOf(v, f)
    BY <1>1, <1>3, <1>10, <1>11, <1>14, <2>1 DEF spent
  <2>3. Total(books'[<<v, "quote">>]) - Total(books[<<v, "quote">>]) = IF s = "buy" THEN -c ELSE f
    BY <1>1, <1>3, <1>10, <1>11, <1>14, <2>1 DEF spent
  <2> QED BY <1>5, <2>2, <2>3 DEF Assets
<1>16. PoolCovers' /\ LedgerMatchesTrades'
  BY <1>2, <1>5, <1>12, <1>13, <1>15, OneTradeStep DEF PaperInv
<1> QED BY <1>5, <1>16 DEF PaperInv

\* A leg of the paper executor, filled or not.
LEMMA PaperLegKeeps ==
    ASSUME TypeOK, TypeOK', AllSound, simulated, PaperInv, NEW t \in Trades, NEW s \in Sides, PaperLeg(t, s)
    PROVE  PaperInv'
<1>1. /\ UNCHANGED <<pc, simulated, route, hedge, open>>
      /\ pc[t] = "legs" /\ ~order[t][s].answered
  BY DEF PaperLeg
<1>2. order[t][s].filled = 0 /\ order[t][s].cost = 0
  BY <1>1, BeforeFill
<1>3. ASSUME order' = [order EXCEPT ![t][s].answered = TRUE, ![t][s].did = 0] PROVE LegBooked(t, s, 0, 0)
  BY <1>2, <1>3, OrderFacts DEF TypeOK, Orders, LegBooked
<1>4. ASSUME NEW f \in Fillable(t), NEW c \in Costs(s = "buy", f),
             order' = [order EXCEPT ![t][s] =
                         [order[t][s] EXCEPT !.answered = TRUE, !.filled = f, !.did = f, !.cost = c]]
      PROVE  LegBooked(t, s, f, c)
  BY <1>4, OrderFacts DEF TypeOK, Orders, LegBooked
<1>5. \/ books' = books /\ LegBooked(t, s, 0, 0)
      \/ \E f \in Fillable(t) : \E c \in Costs(s = "buy", f) :
            /\ LegBooked(t, s, f, c)
            /\ books' = PaidAt(books, route[t][s], PayAccount(t, s), IF s = "buy" THEN c ELSE f,
                               GetAccount(t, s), f)
  BY <1>3, <1>4, OrderFacts DEF PaperLeg, Settled, SettleFill, Consume, PaidFill, PaidAt, TypeOK
<1>6. CASE books' = books /\ LegBooked(t, s, 0, 0)
  BY <1>1, <1>6, UnfilledLegKeeps
<1>7. ASSUME NEW f \in Fillable(t), NEW c \in Costs(s = "buy", f), LegBooked(t, s, f, c),
             books' = PaidAt(books, route[t][s], PayAccount(t, s), IF s = "buy" THEN c ELSE f,
                             GetAccount(t, s), f)
      PROVE  PaperInv'
  <2>1. f \in 0 .. Size /\ c \in Nat /\ (s = "buy" => c <= f + Tol)
    BY DEF Fillable, Costs
  <2> QED BY <1>1, <1>7, <2>1, FilledLegKeeps
<1> QED BY <1>5, <1>6, <1>7

\* What giving back what the legs did not spend does to the pools and totals.
LEMMA UnreservedEffects ==
    ASSUME TypeOK, NEW t \in Trades, NEW a \in Accounts
    PROVE  /\ Unreserved(t)[a].used >= books[a].used
                 - (IF a = PayAccount(t, "buy") THEN Larger(0, QuoteNeeded - Spent(t, "buy")) ELSE 0)
                 - (IF a = PayAccount(t, "sell") THEN Larger(0, Size - Spent(t, "sell")) ELSE 0)
           /\ Total(Unreserved(t)[a]) = Total(books[a])
<1> DEFINE m == Larger(0, QuoteNeeded - Spent(t, "buy"))
           n == Larger(0, Size - Spent(t, "sell"))
           one == Release(books, PayAccount(t, "buy"), m)
<1>1. m \in Nat /\ n \in Nat
  BY OrderFacts DEF Larger, QuoteNeeded, Sides
<1>2. PayAccount(t, "buy") \in Accounts /\ PayAccount(t, "sell") \in Accounts
  BY RouteFacts DEF Sides
<1>3. Unreserved(t) = Release(one, PayAccount(t, "sell"), n)
  BY DEF Unreserved
<1> HIDE DEF m, n
<1>4. books \in Ledgers(Accounts) /\ one \in Ledgers(Accounts)
  BY <1>1, <1>2, BooksType, ReleaseType
<1>5. /\ one[a].used = IF a = PayAccount(t, "buy") THEN Larger(0, books[a].used - m) ELSE books[a].used
      /\ Total(one[a]) = Total(books[a])
  BY <1>1, <1>2, <1>4, ReleasePools, ReservingKeepsTotals
<1> HIDE DEF one
<1>6. /\ Unreserved(t)[a].used = IF a = PayAccount(t, "sell") THEN Larger(0, one[a].used - n) ELSE one[a].used
      /\ Total(Unreserved(t)[a]) = Total(one[a])
  BY <1>1, <1>2, <1>3, <1>4, ReleasePools, ReservingKeepsTotals
<1>7. books[a].used \in Nat /\ one[a].used \in Nat
  BY <1>4 DEF Ledgers
<1>8. /\ one[a].used >= books[a].used - (IF a = PayAccount(t, "buy") THEN m ELSE 0)
      /\ Unreserved(t)[a].used >= one[a].used - (IF a = PayAccount(t, "sell") THEN n ELSE 0)
  BY <1>1, <1>5, <1>6, <1>7 DEF Larger
<1>9. Unreserved(t)[a].used \in Int
  BY <1>1, <1>6, <1>7 DEF Larger
<1>10. Unreserved(t)[a].used >= books[a].used - (IF a = PayAccount(t, "buy") THEN m ELSE 0)
                                - (IF a = PayAccount(t, "sell") THEN n ELSE 0)
  BY <1>1, <1>7, <1>8, <1>9
<1> QED BY <1>5, <1>6, <1>10 DEF m, n

\* When the legs are done, exactly what they no longer claim is given back.
LEMMA LegsDoneKeeps ==
    ASSUME TypeOK, TypeOK', simulated, PaperInv, NEW t \in Trades, LegsDone(t)
    PROVE  PaperInv'
<1>1. /\ simulated' = simulated /\ route' = route /\ books' = Unreserved(t)
      /\ order' = order /\ hedge' = hedge /\ open' = open
      /\ pc[t] = "legs" /\ pc'[t] \in {"recover", "post"}
      /\ \A u \in Trades \ {t} : pc'[u] = pc[u]
  BY DEF LegsDone, Outcome, TypeOK
<1>2. PaperSound(t)
  BY DEF PaperInv, PaperTrades
<1>3. hedge[t] = NoHedge /\ hedge[t].at = {}
  BY <1>1, <1>2 DEF PaperSound, NoHedge
<1>4. PaperSound(t)'
  BY <1>1, <1>2, <1>3 DEF PaperSound
<1>5. PaperTrades'
  BY <1>1, <1>4, PaperOthers DEF PaperInv, PaperTrades
<1>6. \A asset \in Assets : Moved(t, asset)' = Moved(t, asset)
  BY <1>1, OwnRecords
<1> DEFINE m == Larger(0, QuoteNeeded - Spent(t, "buy"))
           n == Larger(0, Size - Spent(t, "sell"))
<1>7. m = QuoteNeeded - Spent(t, "buy") /\ n = Size - Spent(t, "sell") /\ m \in Nat /\ n \in Nat
  <2>1. /\ Spent(t, "buy") \in Nat /\ Spent(t, "buy") <= QuoteNeeded
        /\ Spent(t, "sell") \in Nat /\ Spent(t, "sell") <= Size /\ QuoteNeeded \in Nat
    BY OrderFacts DEF Spent, QuoteNeeded, Sides
  <2> QED BY <2>1 DEF Larger
<1>8. \A a \in Accounts :
         /\ books'[a].used >= books[a].used - (IF a = PayAccount(t, "buy") THEN m ELSE 0)
                                            - (IF a = PayAccount(t, "sell") THEN n ELSE 0)
         /\ Total(books'[a]) = Total(books[a])
  BY <1>1, UnreservedEffects
<1> HIDE DEF m, n
<1>9. \A a \in Accounts : books'[a].used >= books[a].used + (Claim(t, a)' - Claim(t, a))
  <2> SUFFICES ASSUME NEW a \in Accounts
               PROVE  books'[a].used >= books[a].used + (Claim(t, a)' - Claim(t, a))
    OBVIOUS
  <2>1. HedgeClaim(t, a) = 0 /\ HedgeClaim(t, a)' = 0
    BY <1>1, <1>3 DEF HedgeClaim
  <2>2. LegClaim(t, "buy", a)' = 0 /\ LegClaim(t, "sell", a)' = 0
    BY <1>1 DEF LegClaim
  <2>3. /\ LegClaim(t, "buy", a) = IF a = PayAccount(t, "buy") THEN m ELSE 0
        /\ LegClaim(t, "sell", a) = IF a = PayAccount(t, "sell") THEN n ELSE 0
    BY <1>1, <1>7 DEF LegClaim, Needed
  <2>4. /\ Claim(t, a)' = 0
        /\ Claim(t, a) = (IF a = PayAccount(t, "buy") THEN m ELSE 0)
                         + (IF a = PayAccount(t, "sell") THEN n ELSE 0)
    BY <1>7, <2>1, <2>2, <2>3 DEF Claim
  <2>5. books[a].used \in Nat /\ books'[a].used \in Nat
    BY DEF TypeOK, Accounts
  <2> QED BY <1>7, <1>8, <2>4, <2>5
<1>10. \A w \in Venues, asset \in Assets : /\ Total(books'[<<w, asset>>]) = Total(books[<<w, asset>>])
                                           /\ Total(books[<<w, asset>>]) \in Int
  BY <1>8, TermTypes DEF Accounts
<1>11. route[t]["buy"] \in Venues /\ \A asset \in Assets : Moved(t, asset) \in Int
  BY RouteFacts, TermTypes DEF Sides
<1>12. \A asset \in Assets : Total(books'[<<route[t]["buy"], asset>>]) - Total(books[<<route[t]["buy"], asset>>])
                               = Moved(t, asset)' - Moved(t, asset)
  BY <1>6, <1>10, <1>11
<1>13. PoolCovers' /\ LedgerMatchesTrades'
  BY <1>1, <1>9, <1>10, <1>11, <1>12, OneTradeStep DEF PaperInv
<1> QED BY <1>5, <1>13 DEF PaperInv

\* A step of a trade that is being hedged changes neither its orders nor what
\* is known of the others.
LEMMA HedgeFrame ==
    ASSUME TypeOK, simulated, PaperInv, NEW t \in Trades, pc[t] = "hedge",
           UNCHANGED <<pc, simulated, order, open>>,
           \A u \in Trades \ {t} : hedge'[u] = hedge[u],
           \A v, w \in hedge'[t].at : v = w
    PROVE  PaperTrades'
<1>1. PaperSound(t)
  BY DEF PaperInv, PaperTrades
<1>2. PaperSound(t)'
  BY <1>1 DEF PaperSound
<1> QED BY <1>2, PaperOthers DEF PaperInv, PaperTrades

\* A venue that is skipped, or an attempt that raises, claims and moves nothing.
LEMMA QuietHedgeKeeps ==
    ASSUME TypeOK, TypeOK', simulated, PaperInv, NEW t \in Trades, NEW v \in Venues,
           HedgeSkips(t, v) \/ PaperHedgeRaises(t, v)
    PROVE  PaperInv'
<1>1. /\ simulated' = simulated /\ route' = route /\ books' = books /\ open' = open
      /\ order' = order /\ pc' = pc /\ pc[t] = "hedge"
      /\ \A u \in Trades \ {t} : hedge'[u] = hedge[u]
  BY DEF HedgeSkips, PaperHedgeRaises, Hedging, TypeOK
<1>2. /\ hedge'[t].at = {} /\ hedge'[t].filled = hedge[t].filled
      /\ hedge'[t].cost = hedge[t].cost /\ hedge'[t].gas = hedge[t].gas
  <2>1. hedge \in [Trades -> Hedges] /\ hedge[t] \in Hedges
    BY HedgeFacts DEF TypeOK
  <2>2. CASE hedge[t].at = {} /\ hedge' = [hedge EXCEPT ![t].left = hedge[t].left \ {v}]
    BY <2>1, <2>2 DEF Hedges
  <2>3. CASE hedge' = [hedge EXCEPT ![t].at = {}]
    BY <2>1, <2>3 DEF Hedges
  <2> QED BY <2>1, <2>2, <2>3 DEF HedgeSkips, PaperHedgeRaises, Hedging
<1>3. PaperTrades'
  BY <1>1, <1>2, HedgeFrame
<1>4. \A asset \in Assets : Moved(t, asset)' = Moved(t, asset)
  BY <1>1, <1>2 DEF Moved, Long, Exposure
<1>5. \A a \in Accounts : Claim(t, a)' <= Claim(t, a)
  <2> SUFFICES ASSUME NEW a \in Accounts PROVE Claim(t, a)' <= Claim(t, a)
    OBVIOUS
  <2>1. HedgeClaim(t, a)' = 0
    BY <1>2 DEF HedgeClaim
  <2>2. LegClaim(t, "buy", a)' = 0 /\ LegClaim(t, "sell", a)' = 0
    BY <1>1 DEF LegClaim
  <2>3. Claim(t, a)' = 0
    BY <2>1, <2>2 DEF Claim
  <2> QED BY <2>3, TermTypes
<1>6. PoolCovers' /\ LedgerMatchesTrades'
  BY <1>1, <1>4, <1>5, QuietStep DEF PaperInv
<1> QED BY <1>3, <1>6 DEF PaperInv

\* A trade that is being hedged claims what its attempt needs, at most.
LEMMA HedgeClaims ==
    ASSUME TypeOK, NEW t \in Trades, pc[t] = "hedge", NEW a \in Accounts
    PROVE  /\ hedge[t].at = {} => Claim(t, a) = 0
           /\ \A v \in Venues : hedge[t].at = {v} =>
                Claim(t, a) = IF a = HedgePay(t, v) THEN HedgeNeeded(t) ELSE 0
<1>1. LegClaim(t, "buy", a) = 0 /\ LegClaim(t, "sell", a) = 0
  BY DEF LegClaim
<1>2. hedge[t].at = {} => HedgeClaim(t, a) = 0
  BY DEF HedgeClaim
<1>3. \A v \in Venues : hedge[t].at = {v} =>
         HedgeClaim(t, a) = IF a = HedgePay(t, v) THEN HedgeNeeded(t) ELSE 0
  BY DEF HedgeClaim
<1>4. HedgeNeeded(t) \in Nat
  BY OrderFacts
<1>5. Claim(t, a) = HedgeClaim(t, a)
  BY <1>1, TermTypes DEF Claim
<1> QED BY <1>2, <1>3, <1>5

\* The ledger reserves exactly what the attempt will claim.
LEMMA HedgeReservesKeeps ==
    ASSUME TypeOK, TypeOK', simulated, PaperInv, NEW t \in Trades, NEW v \in Venues,
           HedgeReserves(t, v)
    PROVE  PaperInv'
<1> DEFINE b == HedgePay(t, v)
           n == HedgeNeeded(t)
<1>1. /\ simulated' = simulated /\ route' = route /\ open' = open
      /\ books' = Reserve(books, b, n)
      /\ order' = order /\ pc' = pc /\ pc[t] = "hedge" /\ hedge[t].at = {}
      /\ \A u \in Trades \ {t} : hedge'[u] = hedge[u]
  BY DEF HedgeReserves, Hedging, TypeOK
<1>2. /\ hedge'[t].at = {v} /\ hedge'[t].filled = hedge[t].filled
      /\ hedge'[t].cost = hedge[t].cost /\ hedge'[t].gas = hedge[t].gas
  BY HedgeFacts DEF HedgeReserves, Hedging, TypeOK, Hedges
<1>3. PaperTrades'
  BY <1>1, <1>2, HedgeFrame
<1>4. \A asset \in Assets : Moved(t, asset)' = Moved(t, asset)
  BY <1>1, <1>2 DEF Moved, Long, Exposure
<1>5. b \in Accounts /\ n \in Nat /\ books \in Ledgers(Accounts)
  BY HedgeFacts, OrderFacts, BooksType
<1>6. \A a \in Accounts : Claim(t, a) = 0 /\ Claim(t, a)' = IF a = b THEN n ELSE 0
  <2> SUFFICES ASSUME NEW a \in Accounts
               PROVE  Claim(t, a) = 0 /\ Claim(t, a)' = IF a = b THEN n ELSE 0
    OBVIOUS
  <2>1. Claim(t, a) = 0
    BY <1>1, HedgeClaims
  <2>2. LegClaim(t, "buy", a)' = 0 /\ LegClaim(t, "sell", a)' = 0
    BY <1>1 DEF LegClaim
  <2>3. HedgePay(t, v)' = b /\ HedgeNeeded(t)' = n
    BY <1>1 DEF HedgePay, HedgeNeeded, Long, Amount, Exposure
  <2>4. HedgeClaim(t, a)' = IF a = b THEN n ELSE 0
    BY <1>2, <2>3 DEF HedgeClaim
  <2> QED BY <1>5, <2>1, <2>2, <2>4 DEF Claim
<1> HIDE DEF b, n
<1>7. \A a \in Accounts : /\ books'[a].used = IF a = b THEN books[a].used + n ELSE books[a].used
                          /\ Total(books'[a]) = Total(books[a])
  BY <1>1, <1>5, ReservePools, ReservingKeepsTotals
<1>8. \A a \in Accounts : books'[a].used >= books[a].used + (Claim(t, a)' - Claim(t, a))
  BY <1>5, <1>6, <1>7 DEF Ledgers
<1>9. \A w \in Venues, asset \in Assets : /\ Total(books'[<<w, asset>>]) = Total(books[<<w, asset>>])
                                          /\ Total(books[<<w, asset>>]) \in Int
  BY <1>7, TermTypes DEF Accounts
<1>10. \A asset \in Assets : Total(books'[<<v, asset>>]) - Total(books[<<v, asset>>])
                               = Moved(t, asset)' - Moved(t, asset)
  BY <1>4, <1>9, TermTypes
<1>11. PoolCovers' /\ LedgerMatchesTrades'
  BY <1>1, <1>8, <1>9, <1>10, OneTradeStep DEF PaperInv
<1> QED BY <1>3, <1>11 DEF PaperInv

\* How an attempt that fills changes the records of its trade.
LEMMA AttemptRecords ==
    ASSUME TypeOK, NEW t \in Trades, NEW v \in Venues, hedge[t].filled = 0,
           UNCHANGED <<route, order>>, NEW f \in Nat, NEW c \in Nat,
           hedge'[t] = Attempt(hedge[t], v, f, f, c)
    PROVE  /\ Moved(t, "base")' - Moved(t, "base") = (IF Long(t) THEN -f ELSE f) - GasOf(v, f)
           /\ Moved(t, "quote")' - Moved(t, "quote") = IF Long(t) THEN f ELSE -c
<1>1. /\ hedge'[t].filled = f /\ hedge'[t].cost = hedge[t].cost + c
      /\ hedge'[t].gas = hedge[t].gas + GasOf(v, f)
  BY DEF Attempt
<1>2. Long(t)' = Long(t)
  BY DEF Long, Exposure
<1>3. /\ hedge[t].cost \in Int /\ hedge[t].gas \in Int /\ GasOf(v, f) \in Int
      /\ order[t]["buy"].filled \in Int /\ order[t]["sell"].filled \in Int
      /\ order[t]["buy"].cost \in Int
  BY HedgeFacts, OrderFacts DEF Hedges, GasOf, Sides
<1>4. \A w, n : GasOf(w, n) \in Int
  BY DEF GasOf
<1>5. CASE Long(t)
  BY <1>1, <1>2, <1>3, <1>4, <1>5 DEF Moved
<1>6. CASE ~Long(t)
  BY <1>1, <1>2, <1>3, <1>4, <1>6 DEF Moved
<1> QED BY <1>5, <1>6

\* What a hedge attempt does to the pools and to the totals, if the pool it pays
\* from covers what it needs: at most that is taken.
LEMMA HedgeEffects ==
    ASSUME TypeOK, NEW t \in Trades, NEW v \in Venues, NEW f \in 0 .. Amount(t), NEW c \in Nat,
           ~Long(t) => c <= f + Tol,
           books[HedgePay(t, v)].used >= HedgeNeeded(t), NEW x \in Accounts
    PROVE  /\ HedgeSettled(t, v, f, c)[x].used
                >= books[x].used - (IF x = HedgePay(t, v) THEN HedgeNeeded(t) ELSE 0)
           /\ Total(HedgeSettled(t, v, f, c)[x])
                = Total(books[x])
                  + (IF x = HedgePay(t, v) THEN -(IF Long(t) THEN f ELSE c) ELSE 0)
                  + (IF x = HedgeGet(t, v) THEN f ELSE 0)
                  - (IF x = <<v, "base">> THEN GasOf(v, f) ELSE 0)
<1> DEFINE a == HedgePay(t, v)
           b == HedgeGet(t, v)
           spent == IF Long(t) THEN f ELSE c
           paid == PaidAt(books, v, a, spent, b, f)
           rest == Amount(t) - f
<1>1. /\ Amount(t) \in Nat /\ f \in Nat /\ rest \in Nat /\ spent \in Nat
      /\ spent + rest <= HedgeNeeded(t) /\ HedgeNeeded(t) \in Nat
  BY OrderFacts DEF HedgeNeeded
<1>2. a \in Accounts /\ b \in Accounts /\ a # b
  BY HedgeFacts DEF HedgePay, HedgeGet
<1>3. books \in Ledgers(Accounts) /\ spent <= books[a].used /\ books[a].used >= spent + rest
  <2>1. books[a].used \in Nat
    BY <1>2 DEF TypeOK
  <2> QED BY <1>1, <2>1, BooksType
<1>4. HedgeSettled(t, v, f, c) = Release(paid, a, rest)
  <2>1. Settled(books, v, a, b, ~Long(t), f, c, TRUE) = paid
    BY DEF Settled, SettleFill, Consume, PaidFill, PaidAt
  <2> HIDE DEF paid
  <2> QED BY <2>1, Zenon DEF HedgeSettled
<1> HIDE DEF a, b, spent, rest
<1>5. paid \in Ledgers(Accounts)
  BY <1>1, <1>2, <1>3, PaidAtType
<1>6. paid[x].used = IF x = a THEN Larger(0, books[x].used - spent) ELSE books[x].used
  BY <1>1, <1>2, <1>3, PaidAtPools
<1>7. Total(paid[x]) = Total(books[x]) + (IF x = a THEN -spent ELSE 0) + (IF x = b THEN f ELSE 0)
                       - (IF x = <<v, "base">> THEN GasOf(v, f) ELSE 0)
  BY <1>1, <1>2, <1>3, PaidAtTotals
<1> HIDE DEF paid
<1>8. /\ Release(paid, a, rest)[x].used = IF x = a THEN Larger(0, paid[x].used - rest) ELSE paid[x].used
      /\ Total(Release(paid, a, rest)[x]) = Total(paid[x])
  BY <1>1, <1>2, <1>5, ReleasePools, ReservingKeepsTotals
<1>9. books[x].used \in Nat
  BY DEF TypeOK
<1>10. Release(paid, a, rest)[x].used >= books[x].used - (IF x = a THEN HedgeNeeded(t) ELSE 0)
  BY <1>1, <1>3, <1>6, <1>8, <1>9 DEF Larger
<1> QED BY <1>4, <1>7, <1>8, <1>10 DEF a, b, spent

\* An attempt that fills, in part or whole or not at all, is paid from what was
\* reserved for it, and what it leaves in the pool is given back.
LEMMA AttemptKeeps ==
    ASSUME TypeOK, TypeOK', simulated, PaperInv, NEW t \in Trades, NEW v \in Venues,
           pc[t] = "hedge", hedge[t].at = {v}, hedge[t].filled = 0,
           UNCHANGED <<pc, simulated, route, order, open>>,
           NEW f \in 0 .. Amount(t), NEW c \in Nat, ~Long(t) => c <= f + Tol,
           \A u \in Trades \ {t} : hedge'[u] = hedge[u],
           hedge'[t] = Attempt(hedge[t], v, f, f, c),
           books' = HedgeSettled(t, v, f, c)
    PROVE  PaperInv'
<1> DEFINE a == HedgePay(t, v)
           b == HedgeGet(t, v)
<1>1. hedge'[t].at = {}
  BY DEF Attempt
<1>2. PaperTrades'
  BY <1>1, HedgeFrame
<1>3. /\ a \in Accounts /\ b \in Accounts /\ HedgeNeeded(t) \in Nat /\ f \in Nat /\ Amount(t) \in Nat
      /\ a = <<v, IF Long(t) THEN "base" ELSE "quote">> /\ b = <<v, IF Long(t) THEN "quote" ELSE "base">>
  BY HedgeFacts, OrderFacts DEF HedgePay, HedgeGet
<1>4. \A x \in Accounts : /\ Claim(t, x) = IF x = a THEN HedgeNeeded(t) ELSE 0
                          /\ Claim(t, x)' = 0
  <2> SUFFICES ASSUME NEW x \in Accounts
               PROVE  /\ Claim(t, x) = IF x = a THEN HedgeNeeded(t) ELSE 0
                      /\ Claim(t, x)' = 0
    OBVIOUS
  <2>1. Claim(t, x) = IF x = a THEN HedgeNeeded(t) ELSE 0
    BY HedgeClaims
  <2>2. HedgeClaim(t, x)' = 0
    BY <1>1 DEF HedgeClaim
  <2>3. LegClaim(t, "buy", x)' = 0 /\ LegClaim(t, "sell", x)' = 0
    BY DEF LegClaim
  <2> QED BY <2>1, <2>2, <2>3 DEF Claim
<1>5. books[a].used >= HedgeNeeded(t)
  <2>1. books[a].used >= Outstanding(a) /\ Outstanding(a) >= Claim(t, a)
    BY <1>3, SumTypes DEF PaperInv, PoolCovers
  <2>2. books[a].used \in Nat /\ Outstanding(a) \in Nat /\ Claim(t, a) = HedgeNeeded(t)
    BY <1>3, <1>4, SumTypes DEF TypeOK
  <2> HIDE DEF a
  <2> QED BY <1>3, <2>1, <2>2
<1>6. \A x \in Accounts :
        /\ books'[x].used >= books[x].used - (IF x = a THEN HedgeNeeded(t) ELSE 0)
        /\ Total(books'[x]) = Total(books[x]) + (IF x = a THEN -(IF Long(t) THEN f ELSE c) ELSE 0)
                              + (IF x = b THEN f ELSE 0) - (IF x = <<v, "base">> THEN GasOf(v, f) ELSE 0)
  BY <1>5, HedgeEffects
<1>7. /\ Moved(t, "base")' - Moved(t, "base") = (IF Long(t) THEN -f ELSE f) - GasOf(v, f)
      /\ Moved(t, "quote")' - Moved(t, "quote") = IF Long(t) THEN f ELSE -c
  BY <1>3, AttemptRecords
<1> HIDE DEF a, b
<1>8. \A x \in Accounts : books[x].used \in Nat /\ books'[x].used \in Nat /\ Total(books[x]) \in Int
  BY BooksType DEF TypeOK, Accounts, Ledgers, Total
<1>9. \A x \in Accounts : books'[x].used >= books[x].used + (Claim(t, x)' - Claim(t, x))
  <2> SUFFICES ASSUME NEW x \in Accounts
               PROVE  books'[x].used >= books[x].used + (Claim(t, x)' - Claim(t, x))
    OBVIOUS
  <2>1. CASE x = a
    BY <1>3, <1>4, <1>6, <1>8, <2>1
  <2>2. CASE x # a
    BY <1>4, <1>6, <1>8, <2>2
  <2> QED BY <2>1, <2>2
<1>10. \A w \in Venues \ {v}, asset \in Assets :
          Total(books'[<<w, asset>>]) = Total(books[<<w, asset>>])
  <2> SUFFICES ASSUME NEW w \in Venues \ {v}, NEW asset \in Assets
               PROVE  Total(books'[<<w, asset>>]) = Total(books[<<w, asset>>])
    OBVIOUS
  <2>1. <<w, asset>> \in Accounts /\ <<w, asset>> # a /\ <<w, asset>> # b /\ <<w, asset>> # <<v, "base">>
    BY <1>3 DEF Accounts
  <2> QED BY <1>6, <1>8, <2>1
<1>11. GasOf(v, f) \in Int
  BY DEF GasOf
<1>12. \A asset \in Assets :
          Total(books'[<<v, asset>>]) - Total(books[<<v, asset>>]) = Moved(t, asset)' - Moved(t, asset)
  <2>1. <<v, "base">> \in Accounts /\ <<v, "quote">> \in Accounts /\ "base" # "quote"
    BY DEF Accounts, Assets
  <2>2. CASE Long(t)
    <3>1. a = <<v, "base">> /\ b = <<v, "quote">> /\ <<v, "base">> # <<v, "quote">>
      BY <1>3, <2>2
    <3>2. Total(books'[<<v, "base">>]) - Total(books[<<v, "base">>]) = -f - GasOf(v, f)
      BY <1>3, <1>6, <1>8, <1>11, <2>1, <2>2, <3>1
    <3>3. Total(books'[<<v, "quote">>]) - Total(books[<<v, "quote">>]) = f
      BY <1>3, <1>6, <1>8, <1>11, <2>1, <2>2, <3>1
    <3> QED BY <1>7, <2>2, <3>2, <3>3 DEF Assets
  <2>3. CASE ~Long(t)
    <3>1. a = <<v, "quote">> /\ b = <<v, "base">> /\ <<v, "base">> # <<v, "quote">>
      BY <1>3, <2>3
    <3>2. Total(books'[<<v, "base">>]) - Total(books[<<v, "base">>]) = f - GasOf(v, f)
      BY <1>3, <1>6, <1>8, <1>11, <2>1, <2>3, <3>1
    <3>3. Total(books'[<<v, "quote">>]) - Total(books[<<v, "quote">>]) = -c
      BY <1>3, <1>6, <1>8, <1>11, <2>1, <2>3, <3>1
    <3> QED BY <1>7, <2>3, <3>2, <3>3 DEF Assets
  <2> QED BY <2>2, <2>3
<1>13. PoolCovers' /\ LedgerMatchesTrades'
  BY <1>9, <1>10, <1>12, OneTradeStep DEF PaperInv
<1> QED BY <1>2, <1>13 DEF PaperInv

\* A hedge attempt of the paper executor.
LEMMA PaperHedgeKeeps ==
    ASSUME TypeOK, TypeOK', AllSound, simulated, PaperInv, NEW t \in Trades, NEW v \in Venues,
           PaperHedge(t, v)
    PROVE  PaperInv'
<1>1. /\ UNCHANGED <<pc, simulated, route, order, open>>
      /\ pc[t] = "hedge" /\ v \in hedge[t].at
      /\ \A u \in Trades \ {t} : hedge'[u] = hedge[u]
  BY DEF PaperHedge, TypeOK
<1>2. hedge[t].at = {v} /\ hedge[t].filled = 0
  BY <1>1 DEF PaperInv, PaperTrades, PaperSound, AllSound, Sound, HedgeSound
<1>3. PICK f \in 0 .. Amount(t) : \E c \in Costs(~Long(t), f) :
         /\ books' = HedgeSettled(t, v, f, c)
         /\ hedge' = [hedge EXCEPT ![t] = Attempt(hedge[t], v, f, f, c)]
  BY Zenon DEF PaperHedge
<1>4. PICK c \in Costs(~Long(t), f) :
         /\ books' = HedgeSettled(t, v, f, c)
         /\ hedge' = [hedge EXCEPT ![t] = Attempt(hedge[t], v, f, f, c)]
  BY <1>3
<1>5. c \in Nat /\ (~Long(t) => c <= f + Tol)
  BY OrderFacts DEF Costs
<1>6. hedge'[t] = Attempt(hedge[t], v, f, f, c)
  BY <1>4 DEF TypeOK
<1> QED BY <1>1, <1>2, <1>4, <1>5, <1>6, AttemptKeeps

\* Nothing is outstanding if no trade claims anything.
LEMMA NothingOutstanding ==
    ASSUME TypeOK, NEW a \in Accounts, \A t \in Trades : Claim(t, a) = 0 PROVE Outstanding(a) = 0
<1> DEFINE f == [t \in Trades |-> Claim(t, a)]
<1>1. f \in [Trades -> Int] /\ \A t \in Trades : f[t] = 0
  BY TermTypes
<1>2. Outstanding(a) = SumFunctionOnSet(f, Trades) /\ Trades \in SUBSET Trades
  BY DEF Outstanding
<1> HIDE DEF f
<1> QED BY <1>1, <1>2, SumBounds

\* A step of a loop or of the operator, which leaves the trades alone.
LEMMA LoopStep ==
    ASSUME simulated, PaperInv, UNCHANGED <<pc, order, hedge, simulated, route, open>>,
           \A a \in Accounts : books'[a].used >= Outstanding(a),
           \A a \in Accounts : Total(books'[a]) = Total(books[a])
    PROVE  PaperInv'
<1>1. PaperTrades'
  BY DEF PaperInv, PaperTrades, PaperSound
<1>2. PoolCovers'
  <2> SUFFICES ASSUME NEW a \in Accounts PROVE books'[a].used >= Outstanding(a)'
    BY DEF PoolCovers, Accounts
  <2>1. \A t \in Trades : Claim(t, a)' = Claim(t, a)
    BY OwnRecords
  <2> QED BY <2>1, OutstandingKept
<1>3. LedgerMatchesTrades'
  <2> SUFFICES ASSUME NEW asset \in Assets
               PROVE  Worth(asset)' = Funds * Cardinality(Venues) + AllMoved(asset)'
    BY DEF LedgerMatchesTrades, Assets
  <2>1. AllMoved(asset)' = AllMoved(asset)
    BY OwnRecords, AllMovedKept
  <2>2. Worth(asset)' = Worth(asset)
    BY WorthKept DEF Accounts
  <2> QED BY <2>1, <2>2 DEF PaperInv, LedgerMatchesTrades
<1> QED BY <1>1, <1>2, <1>3 DEF PaperInv

\* The reconciler frees reservations only when no trade claims any.
LEMMA ReconcileKeeps ==
    ASSUME TypeOK, simulated, PaperInv, ReconcilePaper
    PROVE  PaperInv'
<1>1. UNCHANGED <<pc, order, hedge, simulated, route, open>>
  BY DEF ReconcilePaper, tradeVars
<1>2. \A a \in Accounts : books[a].used >= Outstanding(a)
  BY DEF PaperInv, PoolCovers
<1>3. CASE books' = books
  BY <1>1, <1>2, <1>3, LoopStep
<1>4. CASE open = {} /\ books' = [a \in Accounts |-> Release(books, a, books[a].used)[a]]
  <2>1. \A a \in Accounts : Outstanding(a) = 0
    <3> SUFFICES ASSUME NEW a \in Accounts PROVE Outstanding(a) = 0
      OBVIOUS
    <3> SUFFICES ASSUME NEW t \in Trades PROVE Claim(t, a) = 0
      BY NothingOutstanding
    <3>1. pc[t] \notin {"legs", "hedge"} /\ hedge[t].at = {}
      BY <1>4 DEF PaperInv, PaperTrades, PaperSound
    <3>2. LegClaim(t, "buy", a) = 0 /\ LegClaim(t, "sell", a) = 0 /\ HedgeClaim(t, a) = 0
      BY <3>1 DEF LegClaim, HedgeClaim
    <3> QED BY <3>2 DEF Claim
  <2>2. ASSUME NEW a \in Accounts
        PROVE  books'[a].used \in Nat /\ Total(books'[a]) = Total(books[a])
    <3> DEFINE n == books[a].used
    <3>1. books \in Ledgers(Accounts) /\ n \in Nat
      BY BooksType DEF TypeOK
    <3>2. books'[a] = Release(books, a, n)[a]
      BY <1>4
    <3> HIDE DEF n
    <3>3. Release(books, a, n) \in Ledgers(Accounts) /\ Total(Release(books, a, n)[a]) = Total(books[a])
      BY <3>1, ReleaseType, ReservingKeepsTotals
    <3> QED BY <3>2, <3>3 DEF Ledgers
  <2>3. \A a \in Accounts : books'[a].used >= Outstanding(a)
    BY <2>1, <2>2
  <2> QED BY <1>1, <2>2, <2>3, LoopStep
<1> QED BY <1>3, <1>4 DEF ReconcilePaper, ReservationsStale

\* The steps of the loops and of the operator, but for a reset of the ledger.
LEMMA LoopsKeep ==
    ASSUME TypeOK, simulated, PaperInv, Loops \/ Operator, "reset_paper" \notin Events
    PROVE  PaperInv'
<1>1. \A a \in Accounts : books[a].used >= Outstanding(a)
  BY DEF PaperInv, PoolCovers
<1>2. CASE Refresh \/ WindowPasses \/ Stop \/ ReleaseStop \/ ResetBreakers
  <2>1. UNCHANGED <<pc, order, hedge, simulated, route, open, books>>
    BY <1>2 DEF Refresh, WindowPasses, Stop, ReleaseStop, ResetBreakers, tradeVars
  <2> QED BY <1>1, <2>1, LoopStep
<1>3. CASE ReconcilePaper
  BY <1>3, ReconcileKeeps
<1>4. ~ReconcileVenues /\ ~ResetPaper
  BY DEF ReconcileVenues, ResetPaper
<1> QED BY <1>2, <1>3, <1>4 DEF Loops, Operator

\* The steps of a trade.
LEMMA TradesKeep ==
    ASSUME TypeOK, TypeOK', AllSound, simulated, PaperInv, NEW t \in Trades,
           Start(t) \/ Task(t) \/ \E s \in Sides : VenueExecutes(t, s)
    PROVE  PaperInv'
<1>1. CASE Start(t) \/ RejectQuotes(t) \/ ReserveFails(t)
  BY <1>1, BeforeLegs
<1>2. CASE Submit(t)
  BY <1>2, SubmitKeeps
<1>3. ASSUME NEW s \in Sides, Leg(t, s) \/ VenueExecutes(t, s) PROVE PaperInv'
  <2>1. PaperLeg(t, s)
    BY <1>3 DEF Leg, VenueAnswers, LegTimesOut, VenueExecutes
  <2> QED BY <2>1, PaperLegKeeps
<1>4. CASE LegsDone(t)
  BY <1>4, LegsDoneKeeps
<1>5. CASE FindHedge(t) \/ Verdict(t) \/ Finish(t) \/ ExecutionError(t)
  BY <1>5, AfterLegs
<1>6. ASSUME NEW v \in Venues, Hedge(t, v) PROVE PaperInv'
  <2>1. HedgeSkips(t, v) \/ HedgeReserves(t, v) \/ PaperHedge(t, v) \/ PaperHedgeRaises(t, v)
    BY <1>6 DEF Hedge, VenueHedge
  <2> QED BY <2>1, QuietHedgeKeeps, HedgeReservesKeeps, PaperHedgeKeeps
<1> QED BY <1>1, <1>2, <1>3, <1>4, <1>5, <1>6 DEF Task

\* Whether execution is simulated does not change.
LEMMA ModeKept == [Next]_vars => simulated' = simulated
<1> SUFFICES ASSUME [Next]_vars PROVE simulated' = simulated
  OBVIOUS
<1>1. ASSUME NEW t \in Trades,
             Start(t) \/ RejectQuotes(t) \/ ReserveFails(t) \/ Submit(t) \/ LegsDone(t) \/ FindHedge(t)
               \/ Verdict(t) \/ Finish(t) \/ ExecutionError(t)
      PROVE  simulated' = simulated
  BY <1>1 DEF Start, RejectQuotes, ReserveFails, Submit, LegsDone, FindHedge, Verdict, Finish, ExecutionError
<1>2. ASSUME NEW t \in Trades, NEW s \in Sides, Leg(t, s) \/ VenueExecutes(t, s)
      PROVE  simulated' = simulated
  BY <1>2 DEF Leg, PaperLeg, VenueAnswers, LegTimesOut, VenueExecutes
<1>3. ASSUME NEW t \in Trades, NEW v \in Venues, Hedge(t, v) PROVE simulated' = simulated
  BY <1>3 DEF Hedge, HedgeSkips, HedgeReserves, PaperHedge, PaperHedgeRaises, VenueHedge
<1>4. CASE Loops \/ Operator
  BY <1>4 DEF Loops, Operator, Refresh, ReconcilePaper, ReconcileVenues, WindowPasses,
              Stop, ReleaseStop, ResetBreakers, ResetPaper
<1>5. CASE UNCHANGED vars
  BY <1>5 DEF vars
<1> QED BY <1>1, <1>2, <1>3, <1>4, <1>5 DEF Next, Task

\* Every step keeps the simulated ledger right.
LEMMA PaperStep ==
    ASSUME "reset_paper" \notin Events
    PROVE  TypeOK /\ TypeOK' /\ AllSound /\ PaperInv /\ [Next]_vars => PaperInv'
<1> SUFFICES ASSUME TypeOK, TypeOK', AllSound, PaperInv, [Next]_vars PROVE PaperInv'
  OBVIOUS
<1>1. simulated' = simulated
  BY ModeKept
<1>2. CASE ~simulated
  BY <1>1, <1>2 DEF PaperInv, PaperTrades, PoolCovers, LedgerMatchesTrades
<1>3. CASE simulated
  <2>1. CASE UNCHANGED vars
    <3>1. UNCHANGED <<pc, order, hedge, simulated, route, open, books>>
      BY <2>1 DEF vars, tradeVars
    <3>2. \A a \in Accounts : books[a].used >= Outstanding(a)
      BY <1>3 DEF PaperInv, PoolCovers
    <3> QED BY <1>3, <3>1, <3>2, LoopStep
  <2>2. CASE Loops \/ Operator
    BY <1>3, <2>2, LoopsKeep
  <2>3. ASSUME NEW t \in Trades, Start(t) \/ Task(t) \/ \E s \in Sides : VenueExecutes(t, s)
        PROVE  PaperInv'
    BY <1>3, <2>3, TradesKeep
  <2> QED BY <2>1, <2>2, <2>3 DEF Next
<1> QED BY <1>2, <1>3

\* The ledger starts right: nothing is claimed and nothing has moved.
LEMMA PaperStart == Init /\ TypeOK => PaperInv
<1> SUFFICES ASSUME Init, TypeOK PROVE PaperInv
  OBVIOUS
<1>1. \A t \in Trades : /\ pc[t] = "idle" /\ hedge[t] = NoHedge
                        /\ \A s \in Sides : order[t][s] = NoOrder
  BY DEF Init
<1>2. \A t \in Trades : /\ pc[t] = "idle" /\ hedge[t] = NoHedge /\ hedge[t].at = {} /\ hedge[t].gas = 0
                        /\ hedge[t].filled = 0 /\ hedge[t].cost = 0
                        /\ \A s \in Sides : order[t][s].filled = 0 /\ order[t][s].cost = 0
  BY <1>1 DEF NoHedge, NoOrder
<1>3. PaperTrades
  BY <1>2 DEF PaperTrades, PaperSound
<1>4. PoolCovers
  <2> SUFFICES ASSUME NEW a \in Accounts PROVE books[a].used >= Outstanding(a)
    BY DEF PoolCovers
  <2>1. \A t \in Trades : Claim(t, a) = 0
    BY <1>2 DEF Claim, LegClaim, HedgeClaim
  <2>2. Outstanding(a) = 0 /\ books[a].used \in Nat
    BY <2>1, NothingOutstanding DEF TypeOK
  <2> QED BY <2>2
<1>5. LedgerMatchesTrades
  <2> SUFFICES ASSUME NEW asset \in Assets
               PROVE  Worth(asset) = Funds * Cardinality(Venues) + AllMoved(asset)
    BY DEF LedgerMatchesTrades
  <2>1. AllMoved(asset) = 0
    <3> DEFINE f == [t \in Trades |-> Moved(t, asset)]
    <3>1. \A t \in Trades : Moved(t, asset) = 0
      <4>1. \A v : GasOf(v, 0) = 0
        BY DEF GasOf
      <4>2. \A t \in Trades : /\ order[t]["buy"].filled = 0 /\ order[t]["sell"].filled = 0
                              /\ order[t]["buy"].cost = 0
        BY <1>2 DEF Sides
      <4> QED BY <1>2, <4>1, <4>2 DEF Moved
    <3>2. f \in [Trades -> Int] /\ \A t \in Trades : f[t] = 0
      BY <3>1
    <3>3. AllMoved(asset) = SumFunctionOnSet(f, Trades) /\ Trades \in SUBSET Trades
      BY DEF AllMoved
    <3> HIDE DEF f
    <3> QED BY <3>2, <3>3, SumBounds
  <2>2. Worth(asset) = Funds * Cardinality(Venues)
    <3> DEFINE f == [v \in Venues |-> Total(books[<<v, asset>>])]
    <3>1. \A v \in Venues : Total(books[<<v, asset>>]) = Funds
      BY DEF Init, Seed, Balance, Total, Accounts
    <3>2. f \in [Venues -> Int] /\ (\A v \in Venues : f[v] = Funds) /\ Funds \in Int
      BY <3>1
    <3>3. Worth(asset) = SumFunctionOnSet(f, Venues) /\ Venues \in SUBSET Venues
      BY DEF Worth
    <3> HIDE DEF f
    <3> QED BY <3>2, <3>3, SumConstant
  <2>3. Funds * Cardinality(Venues) \in Int
    BY FS_CardinalityType
  <2> QED BY <2>1, <2>2, <2>3
<1> QED BY <1>3, <1>4, <1>5 DEF PaperInv

\* The simulated ledger is right as long as the operator does not seed it again
\* while trades are in flight (reset_paper does not wait for them).
LEMMA PaperHolds == ASSUME "reset_paper" \notin Events PROVE Spec => []PaperInv
<1>1. Init /\ TypeOK => PaperInv
  BY PaperStart
<1>2. TypeOK /\ TypeOK' /\ AllSound /\ PaperInv /\ [Next]_vars => PaperInv'
  BY PaperStep
<1> QED BY <1>1, <1>2, TypeCorrect, Soundness, PTL DEF Spec

\* Whatever trades, venues and interleavings: the pool of every account covers
\* what the legs and hedges in flight still have to find in it, so that none is
\* paid from another's reservation (reserve, settle_fill, _release_unused, the
\* hedger and _reconcile_paper together).  reset_paper is excluded: it seeds the
\* ledger again under the trades in flight.
THEOREM PoolsCoverClaims == ASSUME "reset_paper" \notin Events PROVE Spec => []PoolCovers
<1>1. PaperInv => PoolCovers
  BY DEF PaperInv
<1> QED BY <1>1, PaperHolds, PTL

\* Under the same condition the ledger holds, by asset, what it was seeded with
\* plus what the trade records say was bought, sold, paid and burnt as gas.
THEOREM LedgerFollowsTrades == ASSUME "reset_paper" \notin Events PROVE Spec => []LedgerMatchesTrades
<1>1. PaperInv => LedgerMatchesTrades
  BY DEF PaperInv
<1> QED BY <1>1, PaperHolds, PTL
================================================================================
