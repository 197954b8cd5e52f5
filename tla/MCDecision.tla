------------------------------- MODULE MCDecision -------------------------------
(* Instances of Decision for TLC: money in thousandths of a cent or so, one *)
(* unit of the base asset worth 100000.                                     *)
EXTENDS Decision, TLC

CONSTANTS k1, k2, k3, pp, dA, dB, chX

MCVenues == {k1, k2, k3, pp, dA, dB}
MCKindOf == (k1 :> "cex") @@ (k2 :> "cex") @@ (k3 :> "cex") @@
            (pp :> "perp") @@ (dA :> "dex") @@ (dB :> "dex")
MCChainOf == [v \in MCVenues |-> IF KindOf[v] = "dex" THEN {chX} ELSE {}]
MCStrategies == {"cex_cex", "cex_dex", "dex_dex", "spot_perp", "funding", "flash_loan"}
MCLadder == <<1000, 500>>
MCFunding == {-12000, 2000}

MCStart == {<<"normal", "clear">>, <<"normal", "dear">>}

MCListings ==
  {[enabled |-> {"dex_dex", "flash_loan"}, connected |-> {dA, dB}],
   [enabled |-> {"cex_cex"}, connected |-> {k1, k2}],
   [enabled |-> {"cex_dex"}, connected |-> {k1, dB}],
   [enabled |-> {"cex_dex"}, connected |-> {k2, dB}],
   [enabled |-> {"funding"}, connected |-> {k1, pp}],
   [enabled |-> {"funding", "spot_perp"}, connected |-> {k3, pp}]}

Answer(ref, avg, feePct) ==
  [ref |-> ref, avg |-> avg, feePct |-> feePct, fee |-> {}, impact |-> 0, slippage |-> 1,
   short |-> FALSE, age |-> 0, maker |-> FALSE, takerPct |-> 0]

BuyAsks ==
  {Answer(100000, 100000, {1}),
   Answer(100000, 101000, {1}),
   Answer(100000,  99000, {1}),
   Answer(100000, 100000, {}),
   [Answer(100000, 101000, {}) EXCEPT !.fee = {3000}],
   [Answer(100000, 100000, {1}) EXCEPT !.maker = TRUE, !.takerPct = 3],
   [Answer(100000, 100000, {1}) EXCEPT !.short = TRUE]}

SellBids ==
  {Answer(120000, 120000, {1}),
   Answer(120000, 118000, {1}),
   Answer(120000, 122000, {2}),
   [Answer(120000, 120000, {1}) EXCEPT !.age = 2]}

DexBuys ==
  {[Answer(100000, 102000, {1}) EXCEPT !.impact = 1],
   Answer(100000, 100000, {})}

DexSells ==
  {[Answer(120000, 117000, {1}) EXCEPT !.impact = 1],
   Answer(114000, 112000, {2})}

MCAnswers ==
  (k1 :> [buy |-> BuyAsks, sell |-> {}]) @@
  (k2 :> [buy |-> {}, sell |-> SellBids]) @@
  (k3 :> [buy |-> {Answer(100000, 101000, {1})}, sell |-> {}]) @@
  (pp :> [buy |-> {}, sell |-> {Answer(120000, 120000, {1}), Answer(120000, 118000, {1})}]) @@
  (dA :> [buy |-> {Answer(100000, 101000, {2})}, sell |-> {}]) @@
  (dB :> [buy |-> DexBuys, sell |-> DexSells])

Settings ==
  [t |-> [maxSize |-> 200000, minSize |-> 100000, minProfit |-> 1000, minWorst |-> 500,
          minRoi |-> 1, maxAge |-> 1, maxScore |-> 60, buffer |-> 1, latency |-> 1,
          partial |-> 1, failure |-> 1, rebalance |-> 1, slipMult |-> 2000,
          feeMult |-> 1250, feeFallback |-> {}],
   r |-> [maxUsage |-> 500, maxVenue |-> 900, maxChain |-> 900, maxAsset |-> 900,
          maxDailyLoss |-> 50000, maxConcurrent |-> 1, maxGas |-> 2000, maxFailed |-> 3,
          maxSlippage |-> 10, maxAge |-> 1, maxLoan |-> 420000, maxLoanGas |-> 2000,
          listed |-> TRUE, allowDegraded |-> FALSE, leverage |-> FALSE, emergency |-> 20000,
          inventory |-> 100],
   g |-> [stress |-> 1500, elevated |-> 1500, high |-> 2500, extreme |-> 4000,
          elevatedProfit |-> 1500, maxShare |-> 200, minAfterGas |-> 1000, fallback |-> {},
          maxPriority |-> 300, maxPrice |-> 600, maxGas |-> 2000],
   f |-> [maxLoan |-> 420000, minNet |-> 5000, maxGas |-> 2000, maxSlip |-> 3, gasRatio |-> 5,
          requireSimulation |-> TRUE, requireAtomic |-> TRUE, mev |-> 1, feePct |-> 1],
   limits |-> [default |-> 4, asset |-> {5}, venue |-> [v \in MCVenues |-> {}], route |-> {},
               tiers |-> {<<100000, 5>>, <<1000000, 4>>}],
   live |-> [smallTest |-> FALSE, strategy |-> "cex_cex", route |-> {}],
   paused |-> FALSE, auto |-> TRUE, shadow |-> FALSE]

MCSettings ==
  [normal |-> Settings, paused |-> [Settings EXCEPT !.paused = TRUE, !.t.feeFallback = {2}]]

Portfolio ==
  [total |-> 900000, gasReserve |-> 10000, open |-> 0, pnl |-> 0, failed |-> 0,
   unhedged |-> FALSE, reserve |-> {}, healthy |-> MCVenues, degraded |-> {},
   depth |-> (k1 :> 4) @@ (k2 :> 4),
   exposure |-> [by |-> (k1 :> 100000), asset |-> 200000],
   quote |-> [v \in MCVenues |-> 300000], base |-> [v \in MCVenues \ {pp} |-> 3]]

Snapshot == [solana |-> FALSE, price |-> 200, priority |-> 20, l1 |-> 20, age |-> 0]

World ==
  [p |-> Portfolio, stopped |-> FALSE, breakers |-> {}, gas |-> (chX :> {Snapshot}),
   baseline |-> (chX :> {200})]

MCWorlds ==
  [clear   |-> World,
   stopped |-> [World EXCEPT !.stopped = TRUE],
   tripped |-> [World EXCEPT !.breakers = {<<"venue", dB>>, <<"venue", k2>>}, !.p.open = 1],
   dear    |-> [World EXCEPT !.gas[chX] = {[Snapshot EXCEPT !.price = 500]},
                             !.baseline[chX] = {NextBaseline({200}, 500)},
                             !.p.healthy = MCVenues \ {pp}]]

\* The rates of the instance are those HonestProfit is proved for.
ASSUME RatesAssumption == OrdinaryRates
================================================================================
