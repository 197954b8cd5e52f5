------------------------------- MODULE RiskEngine -------------------------------
(***************************************************************************)
(* The risk engine (engine/risk_engine.py): the hard limits a decision is  *)
(* held to and the risk score it adds up. Both are functions of a trade,   *)
(* the settings and a snapshot of the portfolio that the caller took when  *)
(* it began to evaluate the route.                                         *)
(*                                                                         *)
(* A trade x is [strategy, buy, sell, notional, capital, gas, loan]; a     *)
(* portfolio p is [total, exposure, open, pnl, failed, healthy, degraded,  *)
(* quote, base, unhedged, reserve]: exposures by venue and chain (by) and  *)
(* of the base asset (asset), the free amounts by venue (a venue the       *)
(* inventory does not know is outside the function's domain), and the      *)
(* chains whose gas reserve is short.                                      *)
(***************************************************************************)
EXTENDS ProfitGuard

\* SMALL_LIVE_TEST_MAX_NOTIONAL_USD, given by the instance in its own money unit.
CONSTANT SmallTestNotional

CarryStrategies == {"spot_perp", "funding", "basis"}

ExposureOf(exposure, key) == IF key \in DOMAIN exposure THEN exposure[key] ELSE 0

\* Live trading before its full stage: one strategy, one route, a tiny size.
SmallTestReasons(x, s) ==
  IF ~s.live.smallTest THEN {}
  ELSE When(Known(x.loan) \/ x.strategy = "flash_loan", "small_test_flash")
  \cup When(x.strategy # s.live.strategy, "small_test_strategy")
  \cup When(<<x.buy.venue, x.sell.venue>> \notin s.live.route, "small_test_route")
  \cup When(x.notional > SmallTestNotional, "small_test_size")

LimitReasons(x, p, s) ==
       When(~Known(x.loan) /\ x.notional > s.t.maxSize, "too_large")
  \cup When(x.notional < s.t.minSize, "too_small")
  \cup When(p.open >= s.r.maxConcurrent, "concurrency")
  \cup When(p.pnl <= -s.r.maxDailyLoss, "daily_loss")
  \cup When(p.failed >= s.r.maxFailed, "failed_trades")
  \cup When(p.unhedged, "unhedged")
  \cup When(x.gas > s.r.maxGas, "risk_gas")
  \cup When(~s.r.listed, "allowlist")      \* both assets of the pair, as a yes or no
  \cup When(Known(x.loan) /\ (The(x.loan).amount > s.r.maxLoan \/ x.gas > s.r.maxLoanGas),
            "risk_loan")

\* part / whole above a limit in thousandths
Exceeds(part, whole, limit) == part * 1000 > limit * whole

ExposureReasons(x, p, s) ==
  IF p.total <= 0 THEN When(x.capital > 0 /\ ~Known(x.loan), "no_capital")
  ELSE When(Exceeds(x.capital, p.total, s.r.maxUsage), "capital_usage")
  \cup When(\E leg \in {x.buy, x.sell} :
              \/ Exceeds(ExposureOf(p.exposure.by, leg.venue) + x.notional,
                         p.total, s.r.maxVenue)
              \/ /\ Known(leg.chain)
                 /\ Exceeds(ExposureOf(p.exposure.by, The(leg.chain)) + x.notional,
                            p.total, s.r.maxChain),
            "exposure")
  \cup When(Exceeds(p.exposure.asset + (IF x.strategy \in CarryStrategies THEN x.notional ELSE 0),
                    p.total, s.r.maxAsset),
            "asset_exposure")

\* The buyer pays quote and its fee; the seller has the base, or the margin of a short.
BalanceReasons(x, p, s) ==
  LET fee    == IF Known(x.buy.feePct) THEN The(x.buy.feePct) ELSE 0
      paid   == x.buy.base * x.buy.avg
      margin == IF s.r.leverage THEN (x.sell.base * x.sell.avg) \div 2
                ELSE x.sell.base * x.sell.avg
      Lacks(held, venue, need) == venue \notin DOMAIN held \/ held[venue] < need
  IN  (IF Known(x.loan) THEN {}
       ELSE When(Lacks(p.quote, x.buy.venue, paid + Of(paid, fee)), "quote_balance")
       \cup IF x.sell.kind = "perp" THEN When(Lacks(p.quote, x.sell.venue, margin), "margin")
            ELSE When(Lacks(p.base, x.sell.venue, x.sell.base), "base_balance"))
  \cup When(\E leg \in {x.buy, x.sell} :
              leg.kind = "dex" /\ Known(leg.chain) /\ The(leg.chain) \in p.reserve,
            "gas_reserve")

HealthReasons(x, p, s) ==
  When(\E leg \in {x.buy, x.sell} :
         /\ leg.venue \notin p.healthy
         /\ ~(leg.venue \in p.degraded /\ s.r.allowDegraded),
       "venue_health")

Slippage(x) == x.buy.slippage + x.sell.slippage + x.buy.impact + x.sell.impact

\* int(min(cap, part / whole * cap)); an unlimited resource scores nothing
Share(part, whole, cap) == IF whole > 0 THEN Smaller(cap, (part * cap) \div whole) ELSE 0

Score(x, p, s) ==
  LET usage  == IF p.total > 0 THEN (x.capital * 1000) \div p.total ELSE 0
      health == 15 * (IF s.r.allowDegraded
                      THEN (IF x.buy.venue \in p.degraded THEN 1 ELSE 0)
                         + (IF x.sell.venue \in p.degraded THEN 1 ELSE 0)
                      ELSE 0)
      kind   == CASE x.strategy \in {"dex_dex", "flash_loan"} -> 15
                  [] x.strategy \in CarryStrategies \cup {"cex_dex"} -> 8
                  [] OTHER -> 0
  IN  Larger(0, Smaller(100,
        Share(usage, s.r.maxUsage, 30) + health + kind
      + Share(Slippage(x), Larger(1, s.r.maxSlippage), 25)
      + Share(Larger(x.buy.age, x.sell.age), Larger(1, s.r.maxAge), 15)
      + (IF x.buy.fillable /\ x.sell.fillable THEN 0 ELSE 15)))

RiskReasons(x, p, s) ==
       SmallTestReasons(x, s) \cup LimitReasons(x, p, s) \cup ExposureReasons(x, p, s)
  \cup BalanceReasons(x, p, s) \cup HealthReasons(x, p, s)
  \cup When(Slippage(x) > s.r.maxSlippage, "combined_slippage")
  \cup When(Score(x, p, s) > s.t.maxScore, "risk_score")

(***************************************************************************)
(* What of the capital may be used: all of it less the emergency reserve,  *)
(* the share kept as inventory and the gas reserve.                        *)
(***************************************************************************)
Usable(total, gasReserve, r) ==
  LET emergency == Smaller(total, r.emergency)
  IN  Larger(0, total - emergency - Of(total - emergency, r.inventory) - gasReserve)
================================================================================
