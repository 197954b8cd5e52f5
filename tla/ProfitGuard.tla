------------------------------ MODULE ProfitGuard ------------------------------
(***************************************************************************)
(* The profit guard: what a pair of quotes costs and whether it may be     *)
(* traded (engine/profit_guard.py), with the gas guard it consults         *)
(* (engine/gas_guard.py) and the per-leg guards the decision adds to it    *)
(* (engine/slippage_guard.py, engine/latency_guard.py).                    *)
(*                                                                         *)
(* Money is an integer number of small units and a percentage or           *)
(* multiplier an integer number of thousandths; the code computes with     *)
(* decimals, so an instance chooses amounts that these divisions leave     *)
(* exact. A value the code may not know is a set: {} or {value}. Reasons   *)
(* to refuse are names; every quote asset is a stablecoin, worth one       *)
(* dollar (marketdata/hub.py).                                             *)
(***************************************************************************)
EXTENDS Integers

Of(amount, rate) == (amount * rate) \div 1000

Larger(a, b)  == IF a < b THEN b ELSE a
Smaller(a, b) == IF a < b THEN a ELSE b

Known(value) == value # {}
The(value)   == CHOOSE x \in value : TRUE

When(condition, reason) == IF condition THEN {reason} ELSE {}

(***************************************************************************)
(* Gas. A snapshot is [solana, price, priority, l1, age]; its price is     *)
(* already in dollars per unit of gas. The baseline is the exponential     *)
(* average of past prices, {} before the first.                            *)
(***************************************************************************)
MaxSnapshotAge == 60

NextBaseline(baseline, price) ==
  IF Known(baseline) THEN (19 * The(baseline) + price) \div 20 ELSE price

\* A transaction's cost now: gas limit times price, plus what the chain adds.
GasCost(snap, limit) ==
  (IF snap.solana THEN snap.priority ELSE snap.price) * limit + snap.l1

Regime(baseline, price, g) ==
  IF ~Known(baseline) \/ (Known(baseline) /\ The(baseline) <= 0) THEN "normal"
  ELSE LET AtLeast(multiple) == price * 1000 >= multiple * The(baseline)
       IN  CASE AtLeast(g.extreme)  -> "extreme"
             [] AtLeast(g.high)     -> "high"
             [] AtLeast(g.elevated) -> "elevated"
             [] OTHER               -> "normal"

UnknownGas == [regime |-> "normal", expected |-> 0, stress |-> 0, priority |-> 0,
               reasons |-> {"gas_unknown"}]

GasAssess(snap, baseline, limit, gross, maxGas, g) ==
  IF ~Known(snap) THEN UnknownGas
  ELSE LET s        == The(snap)
           cost     == GasCost(s, limit)
           regime   == Regime(baseline, s.price, g)
       IN [regime   |-> regime,
           expected |-> cost,
           stress   |-> Of(cost, g.stress),
           priority |-> s.priority * limit,
           reasons  |-> When(s.age > MaxSnapshotAge, "gas_stale")
                 \cup When(s.priority * (IF s.solana THEN limit ELSE 1) > g.maxPriority,
                           "priority_fee")
                 \cup When(~s.solana /\ s.price > g.maxPrice, "gas_price")
                 \cup When(cost > maxGas, "gas_cost")
                 \cup When(Of(cost, g.stress) > Of(maxGas, g.stress), "gas_stress")
                 \cup When(gross > 0 /\ cost * 1000 > g.maxShare * gross, "gas_share")
                 \cup When(regime = "extreme", "gas_extreme")]

RegimeRank(regime) ==
  CASE regime = "normal" -> 0 [] regime = "elevated" -> 1
    [] regime = "high" -> 2   [] OTHER -> 3

\* Both legs on chain: the costs add up and the worse regime counts.
MergeGas(a, b) ==
  [regime   |-> IF RegimeRank(a.regime) < RegimeRank(b.regime) THEN b.regime ELSE a.regime,
   expected |-> a.expected + b.expected,
   stress   |-> a.stress + b.stress,
   priority |-> a.priority + b.priority,
   reasons  |-> a.reasons \cup b.reasons]

(***************************************************************************)
(* The cost of one leg. `dev' is how much worse than its reference price   *)
(* the leg executes. A router's output already holds the pool's fee and    *)
(* the price impact, so on a DEX the deviation is split, not added to.     *)
(***************************************************************************)
DexLeg(leg, ref, dev) ==
  LET swap   == IF Known(leg.feePct) THEN Smaller(dev, Of(ref, The(leg.feePct))) ELSE 0
      impact == IF leg.impact > 0 THEN Smaller(dev - swap, Of(ref, leg.impact)) ELSE 0
  IN  [fee |-> 0, maker |-> 0, swap |-> swap, impact |-> impact,
       slip |-> Larger(0, dev - swap - impact)]

LegFee(leg, ref, dev, isBuy, t) ==
  CASE Known(leg.fee)         -> The(leg.fee)
    [] ~Known(leg.fee) /\ Known(leg.feePct) ->
         Of(IF isBuy THEN ref + dev ELSE ref - dev, The(leg.feePct))
    [] ~Known(leg.fee) /\ ~Known(leg.feePct) /\ Known(t.feeFallback) ->
         Of(ref, The(t.feeFallback))
    [] OTHER                  -> 0

\* A maker order that has to take pays the difference between the fees.
MakerCost(leg, ref) ==
  IF leg.maker /\ Known(leg.feePct)
  THEN Of(ref, Larger(0, leg.takerPct - The(leg.feePct))) ELSE 0

BookLeg(leg, ref, dev, isBuy, t) ==
  [fee |-> LegFee(leg, ref, dev, isBuy, t), maker |-> MakerCost(leg, ref),
   swap |-> 0, impact |-> 0, slip |-> dev]

LegCost(leg, ref, dev, isBuy, t) ==
  IF leg.kind = "dex" THEN DexLeg(leg, ref, dev) ELSE BookLeg(leg, ref, dev, isBuy, t)

\* A fee nobody knows blocks the trade; it is never taken for zero.
FeeUnknown(leg, dev, t) ==
  IF leg.kind = "dex" THEN ~Known(leg.feePct) /\ dev = 0 /\ ~Known(leg.fee)
                      ELSE ~Known(leg.fee) /\ ~Known(leg.feePct) /\ ~Known(t.feeFallback)

(***************************************************************************)
(* The assessment. inp is [buy, sell, gas, extra, loan, funding, trips]:   *)
(* the two quotes, the gas assessment if a leg is on chain, the buffer     *)
(* learned for this route, the terms of the flash loan, the funding (an    *)
(* income is negative) and 2 for a position that must also be unwound.     *)
(* s has the settings' sections t(rading), g(as), f(lash loan) and r(isk). *)
(***************************************************************************)
SizeOf(inp) == Smaller(inp.buy.base, inp.sell.base)

IsOnChain(inp) == inp.buy.kind = "dex" \/ inp.sell.kind = "dex" \/ Known(inp.loan)

BuyRef(inp)   == SizeOf(inp) * inp.buy.ref
SellRef(inp)  == SizeOf(inp) * inp.sell.ref
BuyExec(inp)  == SizeOf(inp) * inp.buy.avg
SellExec(inp) == SizeOf(inp) * inp.sell.avg
BuyDev(inp)   == Larger(0, BuyExec(inp) - BuyRef(inp))
SellDev(inp)  == Larger(0, SellRef(inp) - SellExec(inp))

Gross(inp) == SellRef(inp) - BuyRef(inp)

BuyCost(inp, s)  == LegCost(inp.buy, BuyRef(inp), BuyDev(inp), TRUE, s.t)
SellCost(inp, s) == LegCost(inp.sell, SellRef(inp), SellDev(inp), FALSE, s.t)

\* What trading both legs costs, once per trip; the worst case stresses each part.
Trading(inp, s) ==
  LET b == BuyCost(inp, s)
      c == SellCost(inp, s)
  IN  inp.trips * (b.fee + c.fee + b.swap + c.swap + b.slip + c.slip + b.impact + c.impact)
        + b.maker + c.maker

WorstTrading(inp, s) ==
  LET b == BuyCost(inp, s)
      c == SellCost(inp, s)
  IN  inp.trips * (  Of(b.fee + c.fee + b.swap + c.swap, s.t.feeMult)
                   + Of(b.slip + c.slip + b.impact + c.impact, s.t.slipMult))
        + b.maker + c.maker

\* Gas nobody could estimate is unknown, or the fallback the user configured.
GasOf(inp, s) ==
  CASE ~IsOnChain(inp)                        -> 0
    [] IsOnChain(inp) /\ Known(inp.gas)       -> The(inp.gas).expected
    [] IsOnChain(inp) /\ ~Known(inp.gas) /\ Known(s.g.fallback) -> The(s.g.fallback)
    [] OTHER                                  -> 0

WorstGas(inp, s) ==
  IF IsOnChain(inp) /\ Known(inp.gas) THEN The(inp.gas).stress ELSE Of(GasOf(inp, s), s.g.stress)

Priority(inp) == IF IsOnChain(inp) /\ Known(inp.gas) THEN The(inp.gas).priority ELSE 0

WorstPriority(inp, s) == Of(Priority(inp), s.g.stress)

\* Half of a funding income is all the worst case counts on.
WorstFundingReal(inp, s) ==
  IF inp.funding > 0 THEN Of(inp.funding, s.t.feeMult) ELSE -((-inp.funding) \div 2)

WorstFundingDoubled(inp, s) == Of(inp.funding, s.t.feeMult)

WorstFunding(inp, s) == WorstFundingReal(inp, s)

\* An atomic trade risks a revert and its tolerance; two legs risk everything else.
Allowances(inp, s) ==
  IF Known(inp.loan) THEN WorstGas(inp, s) \div 2
  ELSE Of(BuyRef(inp), s.t.rebalance + s.t.latency + s.t.partial + s.t.failure)

WorstAllowances(inp, s) ==
  IF Known(inp.loan) THEN WorstGas(inp, s) + Of(BuyRef(inp), s.f.maxSlip)
  ELSE Of(BuyRef(inp), s.t.rebalance + 2 * (s.t.latency + s.t.partial + s.t.failure))
         + (IF IsOnChain(inp) THEN WorstGas(inp, s) ELSE 0)

Buffer(inp, s) == Of(BuyRef(inp), s.t.buffer + Larger(0, inp.extra))

LoanFee(inp, s) ==
  IF Known(inp.loan) THEN Of(The(inp.loan).amount, The(inp.loan).feePct) ELSE 0

MevReserve(inp, s) == IF Known(inp.loan) THEN Of(BuyRef(inp), s.f.mev) ELSE 0

Costs(inp, s) ==
  Trading(inp, s) + GasOf(inp, s) + Priority(inp) + inp.funding + Allowances(inp, s)
    + Buffer(inp, s) + LoanFee(inp, s) + MevReserve(inp, s)

WorstCosts(inp, s) ==
  WorstTrading(inp, s) + WorstGas(inp, s) + WorstPriority(inp, s) + WorstFunding(inp, s)
    + WorstAllowances(inp, s) + Buffer(inp, s) + LoanFee(inp, s) + 2 * MevReserve(inp, s)

\* A loan's principal is repaid in the same transaction and takes no capital.
CapitalRequired(inp, s) ==
  GasOf(inp, s) + Priority(inp)
    + (IF Known(inp.loan) THEN LoanFee(inp, s)
       ELSE BuyExec(inp) + inp.trips * BuyCost(inp, s).fee)

\* The thresholds, raised when gas is dear.
Raised(amount, inp, s) ==
  LET regime == IF Known(inp.gas) THEN The(inp.gas).regime ELSE "normal"
  IN  CASE regime = "elevated"                 -> Of(amount, s.g.elevatedProfit)
        [] regime = "high" /\ IsOnChain(inp)   -> 2 * amount
        [] OTHER                               -> amount

MinProfit(inp, s) ==
  Raised(IF Known(inp.loan) THEN Larger(s.t.minProfit, s.f.minNet) ELSE s.t.minProfit, inp, s)

MinWorst(inp, s) == Raised(s.t.minWorst, inp, s)

Unknown(inp, s) ==
       FeeUnknown(inp.buy, BuyDev(inp), s.t)
    \/ FeeUnknown(inp.sell, SellDev(inp), s.t)
    \/ (IsOnChain(inp) /\ ~Known(inp.gas) /\ ~Known(s.g.fallback))

QuoteReasons(inp, s) ==
       When(inp.buy.base # inp.sell.base, "sizes_differ")
  \cup When(~inp.buy.fillable \/ ~inp.sell.fillable, "depth")
  \cup When(Larger(inp.buy.age, inp.sell.age) > s.t.maxAge, "stale")

LoanReasons(inp, s, gas, net) ==
  IF ~Known(inp.loan) THEN {}
  ELSE When(s.f.requireSimulation /\ ~The(inp.loan).simulated, "not_simulated")
  \cup When(s.f.requireAtomic /\ ~The(inp.loan).atomic, "not_atomic")
  \cup When(The(inp.loan).amount > Smaller(s.f.maxLoan, s.r.maxLoan), "loan_size")
  \cup When(gas > 0 /\ net < s.f.gasRatio * gas, "gas_ratio")

GasReasons(inp, s, gas, gross, net) ==
  IF ~IsOnChain(inp) THEN {}
  ELSE IF ~Known(inp.gas) THEN When(Known(s.g.fallback), "gas_fallback")
  ELSE The(inp.gas).reasons
  \cup When(The(inp.gas).regime = "extreme", "gas_extreme")
  \cup When(gross > 0 /\ gas * 1000 > s.g.maxShare * gross, "gas_share")
  \cup When(gross > 0 /\ net < s.g.minAfterGas, "after_gas")

ProfitReasons(inp, s, net, worst) ==
  LET capital == CapitalRequired(inp, s)
  IN   When(net < MinProfit(inp, s), "profit")
  \cup When(worst < MinWorst(inp, s), "worst_case")
  \cup When(IF capital > 0 THEN net * 1000 < s.t.minRoi * capital ELSE 0 < s.t.minRoi, "roi")

Rejected(reason) == [gross |-> 0, net |-> 0, worst |-> 0, capital |-> 0, reasons |-> {reason}]

Assess(inp, s) ==
  IF SizeOf(inp) <= 0 THEN Rejected("no_size")
  ELSE LET gross == Gross(inp)
           net   == gross - Costs(inp, s)
           worst == gross - WorstCosts(inp, s)
           gas   == GasOf(inp, s) + Priority(inp)
       IN  [gross |-> gross, net |-> net, worst |-> worst,
            capital |-> CapitalRequired(inp, s),
            reasons |-> QuoteReasons(inp, s)
                   \cup GasReasons(inp, s, gas, gross, net)
                   \cup LoanReasons(inp, s, gas, net)
                   \cup When(Unknown(inp, s), "unknown_cost")
                   \cup ProfitReasons(inp, s, net, worst)]

(***************************************************************************)
(* The slippage limit of a leg is the tightest of those that apply to its  *)
(* asset, venue, route and size; tiers are <<threshold, limit>> pairs.     *)
(***************************************************************************)
Least(S) == CHOOSE x \in S : \A y \in S : x <= y

TierLimit(tiers, notional) ==
  LET wide == {tier \in tiers : notional <= tier[1]}
  IN  IF wide = {} THEN {tier[2] : tier \in tiers}
      ELSE {tier[2] : tier \in {w \in wide : \A other \in wide : w[1] <= other[1]}}

SlippageLimit(limits, venue, notional) ==
  Least({limits.default} \cup limits.asset \cup limits.venue[venue] \cup limits.route
          \cup TierLimit(limits.tiers, notional))

SlippageReasons(leg, limits, notional) ==
  When(leg.slippage + leg.impact > SlippageLimit(limits, leg.venue, notional), "slippage")

\* Each leg's age is taken at the decision, from the older of its two stamps.
LatencyReasons(buy, sell, maxAge) ==
  When(buy.age > maxAge \/ sell.age > maxAge, "stale")
================================================================================
