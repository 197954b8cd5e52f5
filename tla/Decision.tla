-------------------------------- MODULE Decision --------------------------------
(***************************************************************************)
(* The opportunity engine (engine/opportunity.py): a scan evaluates every  *)
(* candidate route concurrently, holds each against the guards and the     *)
(* risk engine, keeps one choice per route, ranks what is live and hands   *)
(* the first to be executed (app.py, _scan_loop).                          *)
(*                                                                         *)
(* An evaluation reads the portfolio before it asks for quotes and the     *)
(* controls after they came; the simulation of a flash loan is one more    *)
(* await between its settings and its decision. Operators, breakers, the   *)
(* portfolio, gas and the settings change at any of these points.          *)
(*                                                                         *)
(* One pair is modelled. Quotes are what a venue may answer (Answers), a   *)
(* price in the pair's quote for each leg; Px is the index price, which    *)
(* once known stays known (marketdata/hub.py, PriceIndex.get).             *)
(***************************************************************************)
EXTENDS RiskEngine, FiniteSets, Sequences

CONSTANTS
  Venues,
  KindOf,         \* [Venues -> {"cex", "dex", "perp"}]
  ChainOf,        \* [Venues -> {} or {chain}], the chain of a DEX
  Strategies,     \* the strategies of the catalog an instance looks at
  Listings,       \* the [enabled, connected] a run may start with
  Answers,        \* [Venues -> what the venue may answer about the pair]
  SettingsOf,     \* the settings documents, by name
  WorldOf,        \* portfolios with the breakers, the stop and the gas around them, by name
  Funding,        \* the funding a carry position may be quoted; negative is income
  Extra,          \* the buffer learned for a route
  Ladder,         \* the loan sizes tried, in thousandths of the largest
  Px, TxGas, FlashGas,
  Start,          \* the <<document, place>> a run may start with
  MaxEvaluations, \* candidates evaluated by all scans of a run
  MaxChanges

VARIABLES
  routes,         \* the candidates: of the strategies enabled, on the venues connected
  document,       \* the name of the settings in force
  place,          \* the name of what an evaluation reads: portfolio, breakers, stop, gas
  phase,          \* "idle", "scanning" or "saving": the scan loop
  work,           \* the evaluations of this scan
  latest,         \* OpportunityEngine.latest, by candidate: {} or {opportunity}
  handed,         \* what this scan handed to an executor: {} or {opportunity}
  scans,          \* scans begun
  changes         \* what operators and markets did so far, bounded

vars == <<routes, document, place, phase, work, latest, handed, scans, changes>>

settings == SettingsOf[document]
world    == WorldOf[place]

ASSUME BoundsAssumption == MaxEvaluations \in Nat /\ MaxChanges \in Nat

ASSUME FiniteAssumption == IsFiniteSet(Venues) /\ IsFiniteSet(Strategies)

ASSUME AmountsAssumption ==
  /\ Px \in Nat \ {0} /\ TxGas \in Nat /\ FlashGas \in Nat
  /\ Funding \subseteq Int /\ Extra \in Int

\* FLASH_LOAN_SIZE_LADDER: the largest loan first
ASSUME LadderAssumption ==
  /\ Ladder \in Seq(Nat)
  /\ \A i \in 1..Len(Ladder), j \in 1..Len(Ladder) : i <= j => Ladder[i] >= Ladder[j]

\* Prices, fees (those of a taker) and impacts are never negative.
ASSUME AnswersAssumption ==
  \A v \in Venues : \A a \in Answers[v].buy \cup Answers[v].sell :
    /\ {a.ref, a.avg, a.impact} \cup a.feePct \cup a.fee \subseteq Nat
    /\ {a.takerPct, a.slippage, a.age} \subseteq Int

\* What the numbers of an opportunity are made of, in a settings document ...
ASSUME SettingsAssumption ==
  \A d \in DOMAIN SettingsOf :
    LET s == SettingsOf[d]
    IN  /\ {s.t.maxSize, s.t.minSize, s.t.buffer, s.t.latency, s.t.partial, s.t.failure,
            s.t.rebalance, s.t.slipMult, s.t.feeMult} \cup s.t.feeFallback \subseteq Nat
        /\ {s.r.maxUsage, s.r.maxSlippage, s.r.maxAge, s.r.maxLoan, s.r.emergency,
            s.r.inventory} \subseteq Nat
        /\ {s.f.maxLoan, s.f.maxSlip, s.f.mev, s.f.feePct, s.g.stress} \cup s.g.fallback
              \subseteq Nat

\* ... and in a portfolio; every DEX is on a chain, whose gas is priced or not.
ASSUME WorldAssumption ==
  /\ \A v \in Venues : KindOf[v] = "dex" => ChainOf[v] # {}
  /\ \A n \in DOMAIN WorldOf :
       LET w == WorldOf[n]
       IN  /\ {w.p.total, w.p.gasReserve} \subseteq Int
           /\ \A held \in {w.p.depth, w.p.quote, w.p.base} : \A v \in DOMAIN held : held[v] \in Int
           /\ \A v \in Venues : ChainOf[v] # {} =>
                \A snap \in w.gas[The(ChainOf[v])] :
                  {snap.price, snap.priority, snap.l1} \subseteq Nat

ASSUME StartAssumption == Start \subseteq (DOMAIN SettingsOf) \X (DOMAIN WorldOf)

(***************************************************************************)
(* Candidates (engine/strategies/catalog.py, candidate_pairs)              *)
(***************************************************************************)
Kinds(strategy) ==
  CASE strategy = "cex_cex" -> <<"cex", "cex">>
    [] strategy = "cex_dex" -> <<"cex", "dex">>
    [] strategy \in {"dex_dex", "flash_loan"} -> <<"dex", "dex">>
    [] OTHER -> <<"cex", "perp">>

SameChain(b, v) == ChainOf[b] # {} /\ ChainOf[b] = ChainOf[v]

\* A spot strategy trades both ways, a carry only buys spot and sells the perpetual.
Fits(strategy, b, v) ==
  /\ b # v
  /\ \/ <<KindOf[b], KindOf[v]>> = Kinds(strategy)
     \/ strategy \notin CarryStrategies /\ <<KindOf[v], KindOf[b]>> = Kinds(strategy)
  /\ strategy = "flash_loan" => SameChain(b, v)

AllCandidates ==
  {c \in [strategy : Strategies, buy : Venues, sell : Venues] : Fits(c.strategy, c.buy, c.sell)}

CandidatesOf(listing) ==
  {c \in AllCandidates : /\ c.strategy \in listing.enabled
                         /\ {c.buy, c.sell} \subseteq listing.connected}

IsFlash(c) == c.strategy = "flash_loan"
IsCarry(c) == c.strategy \in CarryStrategies

SameRoute(c, d) == c.buy = d.buy /\ c.sell = d.sell

(***************************************************************************)
(* Sizing (pick_size): the target of the settings, capped by the cached    *)
(* books and by the inventory. A size that was capped is noted, and a note *)
(* is a reason to refuse a trade that uses the inventory.                  *)
(***************************************************************************)
Held(held, venue) == IF venue \in DOMAIN held THEN held[venue] ELSE 0

Target(c, p, s) ==
  IF IsFlash(c) THEN Smaller(s.f.maxLoan, s.r.maxLoan)
  ELSE Smaller(s.t.maxSize, Of(Usable(p.total, p.gasReserve, s.r), s.r.maxUsage))

DepthCaps(c, p) ==
  {p.depth[v] * Px : v \in {w \in {c.buy, c.sell} : KindOf[w] # "dex" /\ w \in DOMAIN p.depth}}

InventoryCaps(c, p) ==
  IF IsFlash(c) THEN {}
  ELSE {Of(Held(p.quote, c.buy), 980),
        IF KindOf[c.sell] = "perp" THEN Of(Held(p.quote, c.sell), 980)
                                   ELSE Held(p.base, c.sell) * Px}

PickSize(c, p, s) ==
  LET target == Target(c, p, s)
      worth  == Least({target} \cup DepthCaps(c, p) \cup InventoryCaps(c, p))
  IN  IF target <= 0 THEN [size |-> 0, notes |-> {"no_usable_capital"}]
      ELSE [size |-> Larger(0, worth) \div Px, notes |-> When(worth < target, "size_capped")]

TooSmall(size, s) == size <= 0 \/ size * Px < s.t.minSize

\* The sizes a candidate is evaluated at, one after the other; the rungs of a ladder that are
\* too small are the last.
Sizes(c, p, s) ==
  LET picked == PickSize(c, p, s)
      rungs  == [i \in 1..Len(Ladder) |-> Of(Of(picked.size, Ladder[i]), 980)]
  IN  IF IsFlash(c)
      THEN SubSeq(rungs, 1, Cardinality({i \in 1..Len(Ladder) : ~TooSmall(rungs[i], s)}))
      ELSE <<IF TooSmall(picked.size, s) THEN Larger(picked.size, s.t.minSize \div Px)
             ELSE picked.size>>

SizeReasons(c, p, s) ==
  LET picked == PickSize(c, p, s)
  IN  IF IsFlash(c) THEN {}
      ELSE picked.notes \cup When(TooSmall(picked.size, s), "below_minimum")

(***************************************************************************)
(* Quotes, and the parts of an assessment (_assess)                        *)
(***************************************************************************)
\* A venue's answer for a size; a short one fills less than it was asked for.
Leg(venue, answer, size) ==
  [venue |-> venue, kind |-> KindOf[venue], chain |-> ChainOf[venue],
   base |-> IF answer.short THEN size - 1 ELSE size, fillable |-> ~answer.short,
   ref |-> answer.ref, avg |-> answer.avg, feePct |-> answer.feePct, fee |-> answer.fee,
   impact |-> answer.impact, slippage |-> answer.slippage, age |-> answer.age,
   maker |-> answer.maker, takerPct |-> answer.takerPct]

Older(leg, late) == [leg EXCEPT !.age = @ + late]

LegGas(leg, gross, w, s) ==
  GasAssess(w.gas[The(leg.chain)], w.baseline[The(leg.chain)], TxGas, gross, s.g.maxGas, s.g)

\* One loan transaction, or one transaction for each leg on chain.
GasOfTrade(c, buy, sell, size, w, s) ==
  LET gross == (sell.ref - buy.ref) * size
  IN  CASE IsFlash(c) ->
             {GasAssess(w.gas[The(buy.chain)], w.baseline[The(buy.chain)], FlashGas, gross,
                        s.f.maxGas, s.g)}
        [] ~IsFlash(c) /\ buy.kind = "dex" /\ sell.kind = "dex" ->
             {MergeGas(LegGas(buy, gross, w, s), LegGas(sell, gross, w, s))}
        [] ~IsFlash(c) /\ buy.kind = "dex" /\ sell.kind # "dex" -> {LegGas(buy, gross, w, s)}
        [] ~IsFlash(c) /\ buy.kind # "dex" /\ sell.kind = "dex" -> {LegGas(sell, gross, w, s)}
        [] OTHER -> {}

LoanOf(c, buy, sell, simulated, s) ==
  IF IsFlash(c)
  THEN {[amount |-> buy.base * buy.avg, feePct |-> s.f.feePct, simulated |-> simulated,
         atomic |-> SameChain(buy.venue, sell.venue)]}
  ELSE {}

\* Of the two legs' chains the first that is one: the other leg's is not asked about.
ChainAsked(buy, sell) == IF Known(buy.chain) THEN buy.chain ELSE sell.chain

ScopesReal(c, buy, sell) ==
  {<<"global">>, <<"symbol">>, <<"strategy", c.strategy>>,
   <<"venue", buy.venue>>, <<"venue", sell.venue>>}
  \cup {<<"chain", chain>> : chain \in ChainAsked(buy, sell)}

ScopesOfBuyer(c, buy, sell) ==
  {<<"global">>, <<"symbol">>, <<"strategy", c.strategy>>, <<"venue", buy.venue>>}
  \cup {<<"chain", chain>> : chain \in ChainAsked(buy, sell)}

Scopes(c, buy, sell) == ScopesReal(c, buy, sell)

(***************************************************************************)
(* The opportunity. read names the portfolio and the settings that the     *)
(* evaluation read earlier; the guards that are made when they are used    *)
(* (engine/context.py) take the settings of this moment.                   *)
(***************************************************************************)
ControlReasons(c, x, p, s) ==
       SlippageReasons(x.buy, settings.limits, x.notional)
  \cup SlippageReasons(x.sell, settings.limits, x.notional)
  \cup LatencyReasons(x.buy, x.sell, settings.t.maxAge)
  \cup When(world.breakers \cap Scopes(c, x.buy, x.sell) # {}, "breaker")
  \cup When(world.stopped, "emergency_stop")
  \cup When(s.paused, "paused")
  \cup RiskReasons(x, p, settings)

Opportunity(c, buy, sell, gas, funding, simulated, size, read, notes) ==
  LET p      == WorldOf[read.p].p
      s      == SettingsOf[read.s]
      loan   == LoanOf(c, buy, sell, simulated, s)
      inp    == [buy |-> buy, sell |-> sell, gas |-> gas, extra |-> Extra, loan |-> loan,
                 funding |-> funding, trips |-> IF IsCarry(c) THEN 2 ELSE 1]
      profit == Assess(inp, s)
      gasUsd == IF Known(gas) THEN The(gas).expected + The(gas).priority ELSE 0
      x      == [strategy |-> c.strategy, buy |-> buy, sell |-> sell, notional |-> size * Px,
                 capital |-> profit.capital, gas |-> gasUsd, loan |-> loan]
      reasons ==
              notes \cup profit.reasons \cup ControlReasons(c, x, p, s)
         \cup When(Known(gas) /\ The(gas).regime = "extreme" /\ "dex" \in {buy.kind, sell.kind},
                   "gas_extreme")
  IN  [cand |-> c, buy |-> buy, sell |-> sell, gas |-> gasUsd, funding |-> funding,
       loanFee |-> LoanFee(inp, s), net |-> profit.net, worst |-> profit.worst,
       score |-> Score(x, p, settings), sized |-> SizeOf(inp) > 0, read |-> read.s,
       safe |-> reasons = {}, live |-> TRUE, scan |-> scans]

(***************************************************************************)
(* A scan. The evaluations of all candidates start together; each reads    *)
(* the portfolio as it begins, and a flash loan again for every size.      *)
(***************************************************************************)
Quoting(sizes, notes, best) ==
  [at |-> "quoting", sizes |-> sizes, notes |-> notes, best |-> best,
   p |-> place, s |-> document]

Answered(best) == [at |-> "answered", best |-> best]

Started(c) ==
  LET sizes == Sizes(c, world.p, settings)
  IN  IF sizes = <<>> THEN Answered({}) ELSE Quoting(sizes, SizeReasons(c, world.p, settings), {})

Init ==
  /\ routes \in {CandidatesOf(l) : l \in Listings}
  /\ \E from \in Start : document = from[1] /\ place = from[2]
  /\ phase = "idle"
  /\ work = <<>>
  /\ latest = [c \in routes |-> {}]
  /\ handed = {}
  /\ scans = 0
  /\ changes = 0

ScanBegins ==
  /\ phase = "idle" /\ (scans + 1) * Cardinality(routes) <= MaxEvaluations
  /\ phase' = "scanning"
  /\ scans' = scans + 1
  /\ work' = [c \in routes |-> Started(c)]
  /\ handed' = {}
  /\ UNCHANGED <<routes, document, place, latest, changes>>

\* (o.decision, o.worst_case_profit) of one size of a loan against another
Beats(o, b) == IF o.safe # b.safe THEN o.safe ELSE o.worst > b.worst

\* An evaluation has its result; a ladder goes on to its next size.
Finished(c, result) ==
  LET k    == work[c]
      best == IF k.best = {} \/ (Known(result) /\ Beats(The(result), The(k.best)))
              THEN result ELSE k.best
  IN  work' = [work EXCEPT ![c] = IF Len(k.sizes) > 1 THEN Quoting(Tail(k.sizes), {}, best)
                                                      ELSE Answered(best)]

\* Both quotes are in. Only a flash loan waits again, for its simulation.
TakesQuotes(c, buy, sell, gas, funding) ==
  LET k == work[c]
  IN  IF IsFlash(c)
      THEN work' = [work EXCEPT ![c] =
             [at |-> "simulating", sizes |-> k.sizes, notes |-> k.notes, best |-> k.best,
              p |-> k.p, s |-> document, buy |-> buy, sell |-> sell, gas |-> gas]]
      ELSE Finished(c, {Opportunity(c, buy, sell, gas, funding, FALSE, Head(k.sizes),
                                    [p |-> k.p, s |-> document], k.notes)})

QuotesArrive(c) ==
  /\ work[c].at = "quoting"
  /\ \E b \in Answers[c.buy].buy, v \in Answers[c.sell].sell,
        funding \in (IF IsCarry(c) THEN Funding ELSE {0}) :
       LET size == Head(work[c].sizes)
           buy  == Leg(c.buy, b, size)
           sell == Leg(c.sell, v, size)
       IN  TakesQuotes(c, buy, sell, GasOfTrade(c, buy, sell, size, world, settings), funding)
  /\ UNCHANGED <<routes, document, place, phase, latest, handed, scans, changes>>

\* A venue does not answer: the candidate has no result at this size.
QuoteFails(c) ==
  /\ work[c].at = "quoting"
  /\ Finished(c, {})
  /\ UNCHANGED <<routes, document, place, phase, latest, handed, scans, changes>>

\* The simulation passes or not, in time or when the quotes have aged.
Simulated(c) ==
  /\ work[c].at = "simulating"
  /\ \E passed \in BOOLEAN, late \in {0, 1} :
       LET k == work[c]
       IN  Finished(c, {Opportunity(c, Older(k.buy, late), Older(k.sell, late), k.gas, 0,
                                    passed, Head(k.sizes), [p |-> k.p, s |-> k.s], k.notes)})
  /\ UNCHANGED <<routes, document, place, phase, latest, handed, scans, changes>>

(***************************************************************************)
(* The scan's results replace those of earlier scans; of the variants of   *)
(* one route only the strongest stays executable (_annotate_alternatives). *)
(***************************************************************************)
Result(c) == work[c].best

Stronger(a, b) ==
  CASE a.safe # b.safe   -> a.safe
    [] a.safe = b.safe /\ a.worst # b.worst -> a.worst > b.worst
    [] OTHER             -> a.net > b.net

Variants(c) == {d \in routes : SameRoute(c, d) /\ Known(Result(d))}

ChosenReal(G) == CHOOSE c \in G : \A d \in G : ~Stronger(The(Result(d)), The(Result(c)))

Annotated(c) ==
  [The(Result(c)) EXCEPT !.safe = @ /\ ChosenReal(Variants(c)) = c]

AnnotatedNone(c) == The(Result(c))

Kept(c) == Annotated(c)

ScanEnds ==
  /\ phase = "scanning"
  /\ \A c \in routes : work[c].at = "answered"
  /\ latest' = [c \in routes |-> IF Known(Result(c)) THEN {Kept(c)} ELSE latest[c]]
  /\ work' = <<>>
  /\ phase' = "saving"
  /\ UNCHANGED <<routes, document, place, handed, scans, changes>>

Expires(c) ==
  /\ \E o \in latest[c] : o.live /\ latest' = [latest EXCEPT ![c] = {[o EXCEPT !.live = FALSE]}]
  /\ UNCHANGED <<routes, document, place, phase, work, handed, scans, changes>>

(***************************************************************************)
(* The results are saved, ranked, and the first is executed if the         *)
(* controls allow it (ranked; app.py, _scan_loop).                         *)
(***************************************************************************)
Live == {o \in UNION {latest[c] : c \in routes} : o.live}

PrecedesReal(a, b) ==
  CASE a.safe # b.safe -> a.safe
    [] a.safe = b.safe /\ a.worst # b.worst -> a.worst > b.worst
    [] a.safe = b.safe /\ a.worst = b.worst /\ a.net # b.net -> a.net > b.net
    [] OTHER -> a.score < b.score

PrecedesByNet(a, b) ==
  CASE a.safe # b.safe -> a.safe
    [] a.safe = b.safe /\ a.net # b.net -> a.net > b.net
    [] OTHER -> a.score < b.score

Precedes(a, b) == PrecedesReal(a, b)

First(S) == CHOOSE o \in S : \A other \in S : ~Precedes(other, o)

MayExecute == ~settings.paused /\ settings.auto /\ ~settings.shadow /\ ~world.stopped

HandsOver ==
  /\ phase = "saving"
  /\ phase' = "idle"
  /\ handed' = IF MayExecute /\ Live # {} /\ First(Live).safe
                    /\ world.p.open < settings.r.maxConcurrent
               THEN {First(Live)} ELSE {}
  /\ UNCHANGED <<routes, document, place, work, latest, scans, changes>>

\* Trades, operators, breakers and gas move on, whatever the scan is doing.
WorldChanges ==
  /\ changes < MaxChanges
  /\ changes' = changes + 1
  /\ place' \in DOMAIN WorldOf \ {place}
  /\ UNCHANGED <<routes, document, phase, work, latest, handed, scans>>

SettingsChange ==
  /\ changes < MaxChanges
  /\ changes' = changes + 1
  /\ document' \in DOMAIN SettingsOf \ {document}
  /\ UNCHANGED <<routes, place, phase, work, latest, handed, scans>>

Next ==
  \/ ScanBegins \/ ScanEnds \/ HandsOver
  \/ \E c \in DOMAIN work : QuotesArrive(c) \/ QuoteFails(c) \/ Simulated(c)
  \/ \E c \in routes : Expires(c)
  \/ WorldChanges \/ SettingsChange

Spec == Init /\ [][Next]_vars

(***************************************************************************)
(* Properties                                                              *)
(***************************************************************************)
\* A reference for what the quotes return in cash, without attribution: what the sale brings
\* less what the purchase takes, each with the venue's own fee on the executed amount. A carry
\* is also unwound, which costs the same fees and deviations once more.
FeeOf(leg, size, s) ==
  CASE leg.kind = "dex"   -> 0
    [] leg.kind # "dex" /\ Known(leg.fee) -> The(leg.fee)
    [] leg.kind # "dex" /\ ~Known(leg.fee) /\ Known(leg.feePct) ->
         Of(size * leg.avg, The(leg.feePct))
    [] OTHER -> IF Known(s.t.feeFallback) THEN Of(size * leg.ref, The(s.t.feeFallback)) ELSE 0

Cash(o) ==
  LET size   == Smaller(o.buy.base, o.sell.base)
      fees   == FeeOf(o.buy, size, SettingsOf[o.read]) + FeeOf(o.sell, size, SettingsOf[o.read])
      unwind == fees + size * Larger(0, o.buy.avg - o.buy.ref)
                     + size * Larger(0, o.sell.ref - o.sell.avg)
  IN  size * (o.sell.avg - o.buy.avg) - fees - o.gas - o.loanFee - o.funding
        - (IF IsCarry(o.cand) THEN unwind ELSE 0)

\* Rates of everyday markets and settings: the worst case relieves nothing, no fee exceeds the
\* amount it is taken from, and a short is sold down the book, never above its top
\* (marketdata/orderbook.py, walk). The settings' schema enforces none of it for the
\* multipliers (config/schema.py); its defaults and presets are all above one.
OrdinaryRates ==
  /\ \A d \in DOMAIN SettingsOf :
       LET s == SettingsOf[d]
       IN  s.t.feeMult >= 1000 /\ s.t.slipMult >= 1000 /\ s.g.stress >= 1000
  /\ \A v \in Venues : \A a \in Answers[v].buy \cup Answers[v].sell :
       \A rate \in a.feePct : rate <= 1000
  /\ \A v \in Venues : KindOf[v] = "perp" => \A a \in Answers[v].sell : a.avg <= a.ref

\* The profit shown for an opportunity is never more than its quotes return in cash, and the
\* worst case never better than the expected one, whatever mix of fees, impact, gas, loan and
\* funding it has (profit_guard.py, assess): no cost is lost in the attribution, a price
\* better than the reference is not counted as income, and stress never helps.
HonestProfit ==
  \A c \in routes : \A o \in latest[c] : o.sized => o.worst <= o.net /\ o.net <= Cash(o)

\* One scan leaves at most one executable variant of a route (opportunity.py,
\* _annotate_alternatives): a prefunded trade and a flash loan never both stand.
OneSafePerRoute ==
  \A c, d \in routes :
    \A o \in latest[c], q \in latest[d] :
      SameRoute(c, d) /\ o.safe /\ q.safe /\ o.scan = q.scan => c = d

Chains(o) == o.buy.chain \cup o.sell.chain

BlockingScopes(o) ==
  {<<"global">>, <<"symbol">>, <<"strategy", o.cand.strategy>>,
   <<"venue", o.cand.buy>>, <<"venue", o.cand.sell>>}
  \cup {<<"chain", x>> : x \in {y \in Chains(o) : Chains(o) = {y}}}

\* An opportunity is found executable only while no stop and no breaker on it is in force and
\* no venue it uses was unhealthy when it was begun, although all of these change while its
\* quotes are awaited (opportunity.py, _assess). Of legs on two chains only the first chain's
\* breaker is asked for.
ControlsHold ==
  [][\A c \in DOMAIN work \cap DOMAIN work' :
       \A o \in work'[c].best \ work[c].best :
         o.safe => /\ ~world.stopped
                   /\ ~SettingsOf[o.read].paused
                   /\ world.breakers \cap BlockingScopes(o) = {}
                   /\ \A v \in {c.buy, c.sell} :
                        v \in WorldOf[work[c].p].p.healthy
                        \/ (v \in WorldOf[work[c].p].p.degraded /\ settings.r.allowDegraded)]_vars

\* What a scan hands to an executor is executable, has not expired, and no live executable
\* opportunity has a better worst case, those of earlier scans included; and the controls of
\* that very moment allow it (opportunity.py, ranked; app.py, _scan_loop).
HandedIsStrongest ==
  [][\A o \in handed' \ handed :
       /\ o.safe /\ o.live
       /\ \A other \in Live : other.safe => other.worst <= o.worst
       /\ ~world.stopped /\ ~settings.paused]_vars
================================================================================
