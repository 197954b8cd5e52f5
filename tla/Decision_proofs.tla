----------------------------- MODULE Decision_proofs -----------------------------
(***************************************************************************)
(* What holds of a decision for every market, setting and portfolio: the   *)
(* attribution of a leg's deviation, one executable variant per route, the *)
(* controls an executable opportunity was found under, the honesty of the  *)
(* profit shown, and that the strongest of what is live is handed over.    *)
(***************************************************************************)
EXTENDS Decision, FiniteSetTheorems, FunctionTheorems, SequenceTheorems,
        WellFoundedInduction, TLAPS

(***************************************************************************)
(* Shares: amounts at rates in thousandths                                 *)
(***************************************************************************)
\* A product with a natural factor is monotone.
LEMMA Products ==
  ASSUME NEW a \in Int, NEW b \in Int, NEW r \in Nat, a <= b
  PROVE  a * r \in Int /\ b * r \in Int /\ a * r <= b * r
  <1> DEFINE d == b - a
             e == d * r
             f == a * r
  <1>1. d \in Nat /\ b = a + d  OBVIOUS
  <1>2. b * r = f + e
    <2> HIDE DEF d
    <2>1. (a + d) * r = a * r + d * r  BY <1>1
    <2> QED  BY <1>1, <2>1
  <1>3. e \in Nat
    <2> HIDE DEF d
    <2> QED  BY <1>1
  <1>4. f \in Int  OBVIOUS
  <1> HIDE DEF d, e, f
  <1>5. f <= f + e /\ f + e \in Int  BY <1>3, <1>4
  <1> QED  BY <1>2, <1>4, <1>5 DEF f

\* A share is a number, and more of an amount is a larger share.
LEMMA Shares ==
  ASSUME NEW a \in Int, NEW b \in Int, NEW r \in Nat, a <= b
  PROVE  Of(a, r) \in Int /\ Of(b, r) \in Int /\ Of(a, r) <= Of(b, r)
  <1> DEFINE f == a * r
             g == b * r
  <1>1. f \in Int /\ g \in Int /\ f <= g  BY Products
  <1> HIDE DEF f, g
  <1>2. f \div 1000 \in Int /\ g \div 1000 \in Int /\ f \div 1000 <= g \div 1000  BY <1>1
  <1> QED  BY <1>2 DEF Of, f, g

\* At no more than the whole, a share grows no faster than its amount.
LEMMA SharesBelow ==
  ASSUME NEW a \in Int, NEW b \in Int, NEW r \in Nat, a <= b, r <= 1000
  PROVE  Of(b, r) - Of(a, r) <= b - a
  <1> DEFINE d == b - a
             q == 1000 - r
             f == a * r
             g == b * r
             h == d * r
             k == d * q
  <1>1. d \in Nat /\ b = a + d /\ q \in Nat /\ r + q = 1000  OBVIOUS
  <1>2. g = f + h
    <2> HIDE DEF d, q
    <2>1. (a + d) * r = a * r + d * r  BY <1>1
    <2> QED  BY <1>1, <2>1
  <1>3. h + k = d * 1000 /\ h \in Nat /\ k \in Nat
    <2> HIDE DEF d, q
    <2>1. d * (r + q) = d * r + d * q  BY <1>1
    <2> QED  BY <1>1, <2>1
  <1>4. f \in Int  OBVIOUS
  <1> HIDE DEF d, q, f, g, h, k
  <1>5. g <= f + d * 1000  BY <1>1, <1>2, <1>3, <1>4
  <1>6. (f + d * 1000) \div 1000 = (f \div 1000) + d  BY <1>1, <1>4
  <1>7. g \div 1000 <= (f \div 1000) + d  BY <1>1, <1>2, <1>3, <1>4, <1>5, <1>6
  <1>8. f \div 1000 \in Int /\ g \div 1000 \in Int  BY <1>2, <1>3, <1>4
  <1>9. (g \div 1000) - (f \div 1000) <= d  BY <1>1, <1>7, <1>8
  <1> QED  BY <1>9 DEF Of, d, f, g

\* At the whole or more, a share of a natural amount is the amount at least.
LEMMA SharesAbove ==
  ASSUME NEW a \in Nat, NEW r \in Nat, r >= 1000
  PROVE  Of(a, r) \in Nat /\ a <= Of(a, r)
  <1> DEFINE q == r - 1000
             f == a * r
             g == a * q
  <1>1. q \in Nat /\ r = 1000 + q  OBVIOUS
  <1>2. f = a * 1000 + g /\ g \in Nat
    <2> HIDE DEF q
    <2>1. a * (1000 + q) = a * 1000 + a * q  BY <1>1
    <2> QED  BY <1>1, <2>1
  <1> HIDE DEF q, f, g
  <1>3. f \in Nat /\ a * 1000 <= f  BY <1>2
  <1>4. f \div 1000 \in Nat /\ a <= f \div 1000  BY <1>3
  <1> QED  BY <1>4 DEF Of, f

\* A higher rate is a larger share of a natural amount.
LEMMA SharesByRate ==
  ASSUME NEW a \in Nat, NEW r \in Nat, NEW q \in Nat, r <= q
  PROVE  Of(a, r) \in Nat /\ Of(a, q) \in Nat /\ Of(a, r) <= Of(a, q)
  <1> DEFINE f == r * a
             g == q * a
  <1>1. f \in Int /\ g \in Int /\ f <= g  BY Products
  <1>2. a * r = f /\ a * q = g  OBVIOUS
  <1>3. a * r \in Nat /\ a * q \in Nat  OBVIOUS
  <1>4. f \in Nat /\ g \in Nat  BY <1>2, <1>3
  <1> HIDE DEF f, g
  <1>5. f \div 1000 \in Nat /\ g \div 1000 \in Nat /\ f \div 1000 <= g \div 1000  BY <1>1, <1>4
  <1> QED  BY <1>2, <1>5 DEF Of

\* A share of a natural amount at a natural rate is a natural number.
LEMMA OfNat == ASSUME NEW a \in Nat, NEW r \in Nat PROVE Of(a, r) \in Nat
  <1>1. a * r \in Nat  OBVIOUS
  <1> DEFINE n == a * r
  <1>2. n \in Nat  BY <1>1
  <1> HIDE DEF n
  <1>3. (n \div 1000) \in Nat  BY <1>2
  <1> QED  BY <1>3 DEF Of, n

(***************************************************************************)
(* Attribution. The rates are opaque here: what matters is that each part  *)
(* is cut to what is left of the deviation.                                *)
(***************************************************************************)
\* profit_guard.py's docstring: what a router's quote loses against the reference price is
\* split into swap fee, impact and slippage with nothing lost and nothing counted twice.
THEOREM AttributionIsExact ==
  ASSUME NEW leg, NEW ref \in Nat, NEW dev \in Nat,
         leg.impact \in Int,
         Known(leg.feePct) => The(leg.feePct) \in Nat
  PROVE  LET cost == DexLeg(leg, ref, dev)
         IN  /\ cost.swap + cost.impact + cost.slip = dev
             /\ cost.swap \in Nat /\ cost.impact \in Nat /\ cost.slip \in Nat
  <1> DEFINE fee   == Of(ref, The(leg.feePct))
             share == Of(ref, leg.impact)
             swap  == IF Known(leg.feePct) THEN Smaller(dev, fee) ELSE 0
             part  == IF leg.impact > 0 THEN Smaller(dev - swap, share) ELSE 0
  <1>1. Known(leg.feePct) => fee \in Nat  BY OfNat
  <1>2. leg.impact > 0 => share \in Nat
    <2>1. ASSUME leg.impact > 0 PROVE leg.impact \in Nat  BY <2>1
    <2> QED  BY <2>1, OfNat
  <1>3. DexLeg(leg, ref, dev) =
          [fee |-> 0, maker |-> 0, swap |-> swap, impact |-> part,
           slip |-> Larger(0, dev - swap - part)]
    BY DEF DexLeg
  <1> HIDE DEF fee, share
  <1>4. swap \in Int /\ 0 <= swap /\ swap <= dev
    <2>1. CASE leg.feePct = {}  BY <2>1 DEF Known
    <2>2. CASE leg.feePct # {}  BY <1>1, <2>2 DEF Known, Smaller
    <2> QED  BY <2>1, <2>2
  <1> HIDE DEF swap
  <1>5. part \in Int /\ 0 <= part /\ part <= dev - swap
    <2>1. CASE leg.impact > 0
      <3>1. share \in Nat  BY <1>2, <2>1
      <3>2. part = Smaller(dev - swap, share)  BY <2>1
      <3>3. \/ dev - swap < share /\ part = dev - swap
            \/ ~(dev - swap < share) /\ part = share
        BY <3>2 DEF Smaller
      <3> HIDE DEF part
      <3>4. dev - swap \in Nat  BY <1>4
      <3> QED  BY <1>4, <3>1, <3>3, <3>4
    <2>2. CASE ~(leg.impact > 0)  BY <1>4, <2>2
    <2> QED  BY <2>1, <2>2
  <1> HIDE DEF part
  <1> DEFINE rest == dev - swap - part
  <1>6. Larger(0, rest) = rest /\ rest \in Int /\ 0 <= rest /\ swap + part + rest = dev
    BY <1>4, <1>5 DEF Larger
  <1> HIDE DEF rest
  <1>7. DexLeg(leg, ref, dev) =
          [fee |-> 0, maker |-> 0, swap |-> swap, impact |-> part, slip |-> rest]
    BY <1>3, <1>6 DEF rest
  <1> QED  BY <1>4, <1>5, <1>6, <1>7

(***************************************************************************)
(* Sizes                                                                   *)
(***************************************************************************)
\* A share of a number is a number.
LEMMA ShareNumber == ASSUME NEW a \in Int, NEW r \in Nat PROVE Of(a, r) \in Int
  <1>1. a <= a  OBVIOUS
  <1> QED  BY <1>1, Shares

\* In a finite set somebody has nobody before him.
LEMMA NobodyBefore ==
  ASSUME NEW S, IsFiniteSet(S), S # {}, NEW R,
         \A x \in S : <<x, x>> \notin R,
         \A x, y, z \in S : <<x, y>> \in R /\ <<y, z>> \in R => <<x, z>> \in R
  PROVE  \E x \in S : \A y \in S : <<y, x>> \notin R
  <1> DEFINE Before(x) == {y \in S : <<y, x>> \in R}
             B == {Before(x) : x \in S}
  <1>1. IsWellFoundedOn(StrictSubsetOrdering(S), SUBSET S)
    BY FS_StrictSubsetOrderingWellFounded, FS_FiniteSubsetsOfFinite
  <1>2. B \subseteq SUBSET S /\ B # {}
    <2>1. \A x \in S : Before(x) \in SUBSET S  OBVIOUS
    <2> HIDE DEF Before
    <2> QED  BY <2>1
  <1>3. \E T \in B : \A U \in B : ~(<<U, T>> \in StrictSubsetOrdering(S))
    <2> HIDE DEF B
    <2> QED  BY <1>1, <1>2, WFMin
  <1>4. PICK T \in B : \A U \in B : ~(U \subseteq T /\ U # T)
    BY <1>2, <1>3 DEF StrictSubsetOrdering
  <1>5. PICK x \in S : T = Before(x)  OBVIOUS
  <1>6. SUFFICES ASSUME NEW y \in S, <<y, x>> \in R PROVE FALSE  OBVIOUS
  <1>7. Before(y) \subseteq Before(x) /\ y \in Before(x) /\ y \notin Before(y)
    BY <1>6
  <1>8. Before(y) \in B  OBVIOUS
  <1> QED  BY <1>4, <1>5, <1>7, <1>8

\* A finite set of numbers has a least one, and it is what Least names.
LEMMA LeastIsOne ==
  ASSUME NEW S, IsFiniteSet(S), S # {}, S \subseteq Int
  PROVE  Least(S) \in S
  <1> DEFINE R == {p \in S \X S : p[1] < p[2]}
  <1>1. \E x \in S : \A y \in S : <<y, x>> \notin R
    <2>1. \A x \in S : <<x, x>> \notin R  OBVIOUS
    <2>2. \A x, y, z \in S : <<x, y>> \in R /\ <<y, z>> \in R => <<x, z>> \in R  OBVIOUS
    <2> HIDE DEF R
    <2> QED  BY <2>1, <2>2, NobodyBefore
  <1>2. PICK x \in S : \A y \in S : <<y, x>> \notin R  BY <1>1
  <1>3. ASSUME NEW y \in S PROVE x <= y
    <2>1. ~(y < x)  BY <1>2
    <2> QED  BY <2>1
  <1> HIDE DEF R
  <1>4. \E z \in S : \A y \in S : z <= y  BY <1>3
  <1> QED  BY <1>4 DEF Least

\* Five values at most are finitely many.
LEMMA FiveAtMost ==
  ASSUME NEW a, NEW b, NEW c, NEW d, NEW e, NEW S, S \subseteq {a, b, c, d, e}
  PROVE  IsFiniteSet(S)
  <1>1. IsFiniteSet({a})  BY FS_Singleton
  <1>2. IsFiniteSet({a} \cup {b})  BY <1>1, FS_AddElement
  <1>3. IsFiniteSet({a} \cup {b} \cup {c})  BY <1>2, FS_AddElement
  <1>4. IsFiniteSet({a} \cup {b} \cup {c} \cup {d})  BY <1>3, FS_AddElement
  <1>5. IsFiniteSet({a} \cup {b} \cup {c} \cup {d} \cup {e})  BY <1>4, FS_AddElement
  <1>6. S \in SUBSET ({a} \cup {b} \cup {c} \cup {d} \cup {e})  OBVIOUS
  <1> QED  BY <1>5, <1>6, FS_Subset

\* The numbers of a settings document.
Document(s) ==
  /\ s.t.maxSize \in Nat /\ s.t.minSize \in Nat /\ s.t.buffer \in Nat
  /\ s.t.latency \in Nat /\ s.t.partial \in Nat /\ s.t.failure \in Nat
  /\ s.t.rebalance \in Nat /\ s.t.slipMult \in Nat /\ s.t.feeMult \in Nat
  /\ s.t.feeFallback \subseteq Nat
  /\ s.r.maxUsage \in Nat /\ s.r.maxSlippage \in Nat /\ s.r.maxAge \in Nat
  /\ s.r.maxLoan \in Nat /\ s.r.emergency \in Nat /\ s.r.inventory \in Nat
  /\ s.f.maxLoan \in Nat /\ s.f.maxSlip \in Nat /\ s.f.mev \in Nat
  /\ s.f.feePct \in Nat /\ s.g.stress \in Nat /\ s.g.fallback \subseteq Nat

\* Every document's numbers are numbers (config/schema.py).
LEMMA SettingsNumbers == ASSUME NEW d \in DOMAIN SettingsOf PROVE Document(SettingsOf[d])
  BY SettingsAssumption DEF Document

\* The capital that may be used is a number.
LEMMA UsableNumber ==
  ASSUME NEW total \in Int, NEW reserve \in Int, NEW r,
         r.emergency \in Nat, r.inventory \in Nat
  PROVE  Usable(total, reserve, r) \in Int
  <1> DEFINE em  == Smaller(total, r.emergency)
             inv == Of(total - em, r.inventory)
  <1>1. em \in Int  BY DEF Smaller
  <1>2. inv \in Int
    <2> HIDE DEF em
    <2>1. total - em \in Int  BY <1>1
    <2> QED  BY <2>1, ShareNumber
  <1>3. Usable(total, reserve, r) = Larger(0, total - em - inv - reserve)  BY DEF Usable
  <1> HIDE DEF em, inv
  <1> QED  BY <1>1, <1>2, <1>3 DEF Larger

\* What is held at a venue is a number.
LEMMA HeldNumber ==
  ASSUME NEW held, \A v \in DOMAIN held : held[v] \in Int, NEW v
  PROVE  Held(held, v) \in Int
  BY DEF Held

\* The numbers of a portfolio are numbers.
LEMMA Portfolios ==
  ASSUME NEW n \in DOMAIN WorldOf
  PROVE  LET p == WorldOf[n].p
         IN  /\ p.total \in Int /\ p.gasReserve \in Int
             /\ \A v \in DOMAIN p.depth : p.depth[v] \in Int
             /\ \A v \in DOMAIN p.quote : p.quote[v] \in Int
             /\ \A v \in DOMAIN p.base : p.base[v] \in Int
  BY WorldAssumption

\* The size picked for a candidate is a number (opportunity.py, pick_size).
LEMMA PickedNumber ==
  ASSUME NEW c, NEW n \in DOMAIN WorldOf, NEW d \in DOMAIN SettingsOf
  PROVE  PickSize(c, WorldOf[n].p, SettingsOf[d]).size \in Int
  <1> DEFINE p == WorldOf[n].p
             s == SettingsOf[d]
             target == Target(c, p, s)
             caps == {target} \cup DepthCaps(c, p) \cup InventoryCaps(c, p)
             worth == Least(caps)
  <1>1. /\ p.total \in Int /\ p.gasReserve \in Int
        /\ \A v \in DOMAIN p.depth : p.depth[v] \in Int
        /\ \A v \in DOMAIN p.quote : p.quote[v] \in Int
        /\ \A v \in DOMAIN p.base : p.base[v] \in Int
    BY Portfolios
  <1>2. /\ s.t.maxSize \in Nat /\ s.r.maxUsage \in Nat /\ s.r.maxLoan \in Nat
        /\ s.r.emergency \in Nat /\ s.r.inventory \in Nat /\ s.f.maxLoan \in Nat
    BY SettingsNumbers DEF Document
  <1> HIDE DEF p, s
  <1>3. target \in Int
    <2> DEFINE usable == Usable(p.total, p.gasReserve, s.r)
               share  == Of(usable, s.r.maxUsage)
    <2>1. usable \in Int  BY <1>1, <1>2, UsableNumber
    <2>2. share \in Int
      <3> HIDE DEF usable
      <3> QED  BY <1>2, <2>1, ShareNumber
    <2>3. target = IF IsFlash(c) THEN Smaller(s.f.maxLoan, s.r.maxLoan)
                                 ELSE Smaller(s.t.maxSize, share)
      BY DEF Target
    <2> HIDE DEF target, share
    <2> QED  BY <1>2, <2>2, <2>3 DEF Smaller
  <1> HIDE DEF target
  <1>4. Px \in Nat /\ Px > 0  BY AmountsAssumption
  <1>5. InventoryCaps(c, p) = {}
        \/ \E x, y \in Int : InventoryCaps(c, p) = {x, y}
    <2> DEFINE x == Of(Held(p.quote, c.buy), 980)
               y == IF KindOf[c.sell] = "perp" THEN Of(Held(p.quote, c.sell), 980)
                                               ELSE Held(p.base, c.sell) * Px
               q == Held(p.quote, c.sell)
               b == Held(p.base, c.sell)
               u == Held(p.quote, c.buy)
    <2>1. u \in Int /\ q \in Int /\ b \in Int  BY <1>1, HeldNumber
    <2> HIDE DEF u, q, b
    <2>2. Of(u, 980) \in Int /\ Of(q, 980) \in Int /\ b * Px \in Int  BY <1>4, <2>1, ShareNumber
    <2>3. x \in Int /\ y \in Int  BY <2>2 DEF u, q, b
    <2>4. InventoryCaps(c, p) = {} \/ InventoryCaps(c, p) = {x, y}  BY DEF InventoryCaps
    <2> HIDE DEF x, y
    <2> QED  BY <2>3, <2>4
  <1>6. \E x, y \in Int : DepthCaps(c, p) \subseteq {x, y}
    <2> DEFINE x == IF c.buy \in DOMAIN p.depth THEN p.depth[c.buy] * Px ELSE 0
               y == IF c.sell \in DOMAIN p.depth THEN p.depth[c.sell] * Px ELSE 0
    <2>1. x \in Int /\ y \in Int  BY <1>1, <1>4
    <2>2. DepthCaps(c, p) \subseteq {x, y}  BY DEF DepthCaps
    <2> HIDE DEF x, y
    <2> QED  BY <2>1, <2>2
  <1>7. worth \in Int
    <2>1. PICK x \in Int, y \in Int : DepthCaps(c, p) \subseteq {x, y}  BY <1>6
    <2>2. PICK u \in Int, v \in Int : InventoryCaps(c, p) \subseteq {u, v}  BY <1>5
    <2>3. caps \subseteq {target, x, y, u, v} /\ caps # {} /\ caps \subseteq Int
      BY <1>3, <2>1, <2>2
    <2> HIDE DEF caps
    <2>4. IsFiniteSet(caps)  BY <2>3, FiveAtMost
    <2> QED  BY <2>3, <2>4, LeastIsOne
  <1>8. PickSize(c, p, s) =
          IF target <= 0 THEN [size |-> 0, notes |-> {"no_usable_capital"}]
          ELSE [size |-> Larger(0, worth) \div Px, notes |-> When(worth < target, "size_capped")]
    BY DEF PickSize, target
  <1> HIDE DEF worth
  <1>9. Larger(0, worth) \in Int  BY <1>7 DEF Larger
  <1>10. Larger(0, worth) \div Px \in Int  BY <1>4, <1>9
  <1>11. PickSize(c, p, s).size \in Int  BY <1>8, <1>10
  <1> QED  BY <1>11 DEF p, s

\* Every size a candidate is evaluated at is a number (opportunity.py, evaluate).
LEMMA SizesAreNumbers ==
  ASSUME NEW c, NEW n \in DOMAIN WorldOf, NEW d \in DOMAIN SettingsOf
  PROVE  Sizes(c, WorldOf[n].p, SettingsOf[d]) \in Seq(Int)
  <1> DEFINE p == WorldOf[n].p
             s == SettingsOf[d]
             size == PickSize(c, p, s).size
             rungs == [i \in 1..Len(Ladder) |-> Of(Of(size, Ladder[i]), 980)]
             usable == {i \in 1..Len(Ladder) : ~TooSmall(rungs[i], s)}
             k == Cardinality(usable)
             one == IF TooSmall(size, s) THEN Larger(size, s.t.minSize \div Px) ELSE size
  <1>1. size \in Int  BY PickedNumber
  <1>2. s.t.minSize \in Nat /\ Px \in Nat /\ Px > 0
    BY SettingsNumbers, AmountsAssumption DEF Document
  <1> HIDE DEF p, s
  <1>3. Sizes(c, p, s) = IF IsFlash(c) THEN SubSeq(rungs, 1, k) ELSE <<one>>
    BY DEF Sizes
  <1> HIDE DEF size
  <1>4. <<one>> \in Seq(Int)
    <2>1. s.t.minSize \div Px \in Int  BY <1>2
    <2>2. one \in Int  BY <1>1, <2>1 DEF Larger
    <2> HIDE DEF one
    <2> QED  BY <2>2
  <1>5. Len(Ladder) \in Nat /\ \A i \in 1..Len(Ladder) : Ladder[i] \in Nat
    BY LadderAssumption
  <1>6. \A i \in 1..Len(Ladder) : rungs[i] \in Int
    <2> SUFFICES ASSUME NEW i \in 1..Len(Ladder) PROVE rungs[i] \in Int  OBVIOUS
    <2> DEFINE part == Of(size, Ladder[i])
    <2>1. part \in Int  BY <1>1, <1>5, ShareNumber
    <2>2. rungs[i] = Of(part, 980)  OBVIOUS
    <2> HIDE DEF part, rungs
    <2> QED  BY <2>1, <2>2, ShareNumber
  <1>7. k \in Nat /\ k <= Len(Ladder)
    <2>1. usable \in SUBSET (1..Len(Ladder))  OBVIOUS
    <2> HIDE DEF usable
    <2>2. IsFiniteSet(1..Len(Ladder)) /\ Cardinality(1..Len(Ladder)) = Len(Ladder)
      <3> DEFINE m == Len(Ladder)
      <3>1. m \in Nat  BY <1>5
      <3> HIDE DEF m
      <3>2. IsFiniteSet(1..m) /\ Cardinality(1..m) = IF 1 > m THEN 0 ELSE m - 1 + 1
        BY <3>1, FS_Interval
      <3>3. Cardinality(1..m) = m  BY <3>1, <3>2
      <3> QED  BY <3>2, <3>3 DEF m
    <2>3. IsFiniteSet(usable) /\ k <= Cardinality(1..Len(Ladder))
      BY <2>1, <2>2, FS_Subset
    <2> QED  BY <2>2, <2>3, FS_CardinalityType
  <1>8. SubSeq(rungs, 1, k) \in Seq(Int)
    <2> HIDE DEF rungs, k
    <2>1. \A i \in 1..k : rungs[i] \in Int  BY <1>5, <1>6, <1>7
    <2> QED  BY <1>7, <2>1, SubSeqProperties
  <1> HIDE DEF rungs, k, one
  <1>9. Sizes(c, p, s) \in Seq(Int)  BY <1>3, <1>4, <1>8
  <1> QED  BY <1>9 DEF p, s

(***************************************************************************)
(* Legs, gas and loans as numbers                                          *)
(***************************************************************************)
\* What is known is what it is known as.
LEMMA TheIn == ASSUME NEW S, Known(S) PROVE The(S) \in S
  BY DEF Known, The

LegNumbers(leg) ==
  /\ {"base", "ref", "avg", "impact", "feePct", "fee", "takerPct", "slippage", "age", "kind"}
       \subseteq DOMAIN leg
  /\ leg.base \in Int
  /\ leg.ref \in Nat /\ leg.avg \in Nat /\ leg.impact \in Nat
  /\ leg.feePct \subseteq Nat /\ leg.fee \subseteq Nat
  /\ leg.takerPct \in Int /\ leg.slippage \in Int /\ leg.age \in Int

GasNumbers(gas) ==
  \A g \in gas : g.expected \in Nat /\ g.stress \in Nat /\ g.priority \in Nat

Numbers(inp, s) ==
  /\ LegNumbers(inp.buy) /\ LegNumbers(inp.sell) /\ GasNumbers(inp.gas)
  /\ inp.extra \in Int /\ inp.funding \in Int /\ inp.trips \in {1, 2}
  /\ \A l \in inp.loan : l.amount \in Int /\ l.feePct \in Nat
  /\ Document(s)

\* The amounts of a trade of some size are natural numbers.
LEMMA Amounts ==
  ASSUME NEW inp, LegNumbers(inp.buy), LegNumbers(inp.sell), SizeOf(inp) > 0
  PROVE  /\ SizeOf(inp) \in Nat
         /\ BuyRef(inp) \in Nat /\ SellRef(inp) \in Nat
         /\ BuyExec(inp) \in Nat /\ SellExec(inp) \in Nat
         /\ BuyDev(inp) \in Nat /\ SellDev(inp) \in Nat
         /\ BuyExec(inp) <= BuyRef(inp) + BuyDev(inp)
         /\ SellDev(inp) <= SellRef(inp)
         /\ SellRef(inp) - SellDev(inp) <= SellExec(inp)
         /\ inp.sell.avg <= inp.sell.ref => SellRef(inp) - SellDev(inp) = SellExec(inp)
  <1> DEFINE n == SizeOf(inp)
             br == n * inp.buy.ref
             sr == n * inp.sell.ref
             be == n * inp.buy.avg
             se == n * inp.sell.avg
  <1>1. n \in Nat
    <2>1. n \in Int  BY DEF SizeOf, Smaller, LegNumbers
    <2> QED  BY <2>1
  <1>2. /\ inp.buy.ref \in Nat /\ inp.sell.ref \in Nat
        /\ inp.buy.avg \in Nat /\ inp.sell.avg \in Nat
    BY DEF LegNumbers
  <1>3. /\ BuyRef(inp) = br /\ SellRef(inp) = sr /\ BuyExec(inp) = be /\ SellExec(inp) = se
        /\ BuyDev(inp) = Larger(0, be - br) /\ SellDev(inp) = Larger(0, sr - se)
    BY DEF BuyRef, SellRef, BuyExec, SellExec, BuyDev, SellDev
  <1> HIDE DEF n
  <1>4. br \in Nat /\ sr \in Nat /\ be \in Nat /\ se \in Nat  BY <1>1, <1>2
  <1>5. inp.sell.avg <= inp.sell.ref => se <= sr
    <2>1. SUFFICES ASSUME inp.sell.avg <= inp.sell.ref PROVE se <= sr  OBVIOUS
    <2>2. inp.sell.avg * n <= inp.sell.ref * n  BY <1>1, <1>2, <2>1, Products
    <2> QED  BY <1>1, <1>2, <2>2
  <1> HIDE DEF br, sr, be, se
  <1> QED  BY <1>1, <1>3, <1>4, <1>5 DEF Larger, n

(***************************************************************************)
(* The fee a venue takes of an amount                                      *)
(***************************************************************************)
FeeOn(leg, amount, ref, t) ==
  CASE Known(leg.fee) -> The(leg.fee)
    [] ~Known(leg.fee) /\ Known(leg.feePct) -> Of(amount, The(leg.feePct))
    [] ~Known(leg.fee) /\ ~Known(leg.feePct) /\ Known(t.feeFallback) ->
         Of(ref, The(t.feeFallback))
    [] OTHER -> 0

\* A fee is a natural number; a larger amount has a larger fee, by no more than it is larger.
LEMMA Fees ==
  ASSUME NEW leg, LegNumbers(leg), NEW t, t.feeFallback \subseteq Nat,
         NEW ref \in Nat, NEW a \in Nat, NEW b \in Nat, a <= b
  PROVE  /\ FeeOn(leg, a, ref, t) \in Nat /\ FeeOn(leg, b, ref, t) \in Nat
         /\ FeeOn(leg, a, ref, t) <= FeeOn(leg, b, ref, t)
         /\ (\A rate \in leg.feePct : rate <= 1000) =>
              FeeOn(leg, b, ref, t) - FeeOn(leg, a, ref, t) <= b - a
  <1>1. leg.fee \subseteq Nat /\ leg.feePct \subseteq Nat  BY DEF LegNumbers
  <1>2. CASE Known(leg.fee)
    <2> DEFINE f == The(leg.fee)
    <2>1. f \in Nat  BY <1>1, <1>2, TheIn
    <2>2. FeeOn(leg, a, ref, t) = f /\ FeeOn(leg, b, ref, t) = f  BY <1>2 DEF FeeOn
    <2> HIDE DEF f
    <2> QED  BY <2>1, <2>2
  <1>3. CASE ~Known(leg.fee) /\ Known(leg.feePct)
    <2> DEFINE r == The(leg.feePct)
    <2>1. r \in leg.feePct  BY <1>3, TheIn
    <2>2. r \in Nat  BY <1>1, <2>1
    <2>3. FeeOn(leg, a, ref, t) = Of(a, r) /\ FeeOn(leg, b, ref, t) = Of(b, r)
      BY <1>3 DEF FeeOn
    <2> HIDE DEF r
    <2>4. Of(a, r) \in Nat /\ Of(b, r) \in Nat  BY <2>2, OfNat
    <2>5. Of(a, r) <= Of(b, r)  BY <2>2, Shares
    <2>6. r <= 1000 => Of(b, r) - Of(a, r) <= b - a  BY <2>2, SharesBelow
    <2> QED  BY <2>1, <2>3, <2>4, <2>5, <2>6
  <1>4. CASE ~Known(leg.fee) /\ ~Known(leg.feePct)
    <2> DEFINE f == IF Known(t.feeFallback) THEN Of(ref, The(t.feeFallback)) ELSE 0
    <2>1. f \in Nat
      <3>1. Known(t.feeFallback) => The(t.feeFallback) \in Nat  BY TheIn
      <3> QED  BY <3>1, OfNat
    <2>2. FeeOn(leg, a, ref, t) = f /\ FeeOn(leg, b, ref, t) = f  BY <1>4 DEF FeeOn
    <2> HIDE DEF f
    <2> QED  BY <2>1, <2>2
  <1> QED  BY <1>2, <1>3, <1>4

\* A maker order that has to take costs a natural number more.
LEMMA MakerNat ==
  ASSUME NEW leg, LegNumbers(leg), NEW ref \in Nat PROVE MakerCost(leg, ref) \in Nat
  <1>1. CASE leg.maker /\ Known(leg.feePct)
    <2> DEFINE r == Larger(0, leg.takerPct - The(leg.feePct))
    <2>1. The(leg.feePct) \in Nat /\ leg.takerPct \in Int  BY <1>1, TheIn DEF LegNumbers
    <2>2. r \in Nat  BY <2>1 DEF Larger
    <2>3. MakerCost(leg, ref) = Of(ref, r)  BY <1>1 DEF MakerCost
    <2> HIDE DEF r
    <2> QED  BY <2>2, <2>3, OfNat
  <1>2. CASE ~(leg.maker /\ Known(leg.feePct))  BY <1>2 DEF MakerCost
  <1> QED  BY <1>1, <1>2

CostNumbers(cost) ==
  /\ cost.fee \in Nat /\ cost.maker \in Nat /\ cost.swap \in Nat
  /\ cost.impact \in Nat /\ cost.slip \in Nat

Parts(cost) == cost.fee + cost.swap + cost.slip + cost.impact

\* What a leg on a book costs: its fee and its deviation.
LEMMA BookCost ==
  ASSUME NEW leg, LegNumbers(leg), NEW ref \in Nat, NEW dev \in Nat, NEW fee \in Nat, NEW cost,
         cost = [fee |-> fee, maker |-> MakerCost(leg, ref), swap |-> 0, impact |-> 0,
                 slip |-> dev]
  PROVE  CostNumbers(cost) /\ Parts(cost) = fee + dev
  <1>1. MakerCost(leg, ref) \in Nat  BY MakerNat
  <1> QED  BY <1>1 DEF CostNumbers, Parts

\* What a leg on a DEX costs is its deviation.
LEMMA DexCost ==
  ASSUME NEW leg, LegNumbers(leg), NEW ref \in Nat, NEW dev \in Nat
  PROVE  CostNumbers(DexLeg(leg, ref, dev)) /\ Parts(DexLeg(leg, ref, dev)) = dev
  <1> DEFINE cost == DexLeg(leg, ref, dev)
  <1>1. leg.impact \in Int /\ (Known(leg.feePct) => The(leg.feePct) \in Nat)
    BY TheIn DEF LegNumbers
  <1>2. /\ cost.swap + cost.impact + cost.slip = dev
        /\ cost.swap \in Nat /\ cost.impact \in Nat /\ cost.slip \in Nat
    BY <1>1, AttributionIsExact
  <1>3. cost.fee = 0 /\ cost.maker = 0  BY DEF DexLeg
  <1> HIDE DEF cost
  <1> QED  BY <1>2, <1>3 DEF CostNumbers, Parts, cost

\* Buying costs what the venue takes of the executed amount, and the deviation.
LEMMA Buying ==
  ASSUME NEW inp, NEW s, Numbers(inp, s), SizeOf(inp) > 0
  PROVE  /\ CostNumbers(BuyCost(inp, s))
         /\ FeeOf(inp.buy, SizeOf(inp), s) \in Nat
         /\ FeeOf(inp.buy, SizeOf(inp), s) + BuyDev(inp) <= Parts(BuyCost(inp, s))
  <1> DEFINE ref == BuyRef(inp)
             dev == BuyDev(inp)
             exec == BuyExec(inp)
             leg == inp.buy
             n == SizeOf(inp)
  <1>1. LegNumbers(leg) /\ s.t.feeFallback \subseteq Nat  BY DEF Numbers, Document
  <1>2. /\ ref \in Nat /\ dev \in Nat /\ exec \in Nat /\ exec <= ref + dev /\ n \in Nat
        /\ ref = n * leg.ref /\ exec = n * leg.avg
    BY Amounts DEF Numbers, BuyRef, BuyExec
  <1>3. CASE leg.kind = "dex"
    <2>1. BuyCost(inp, s) = DexLeg(leg, ref, dev)  BY <1>3 DEF BuyCost, LegCost
    <2>2. FeeOf(leg, n, s) = 0  BY <1>3 DEF FeeOf
    <2> HIDE DEF ref, dev, leg, n
    <2>3. CostNumbers(BuyCost(inp, s)) /\ Parts(BuyCost(inp, s)) = dev
      BY <1>1, <1>2, <2>1, DexCost
    <2> QED  BY <1>2, <2>2, <2>3 DEF dev, leg, n
  <1>4. CASE leg.kind # "dex"
    <2> DEFINE fee == FeeOn(leg, ref + dev, ref, s.t)
               real == FeeOn(leg, exec, ref, s.t)
    <2>1. BuyCost(inp, s) = [fee |-> fee, maker |-> MakerCost(leg, ref), swap |-> 0,
                             impact |-> 0, slip |-> dev]
      BY <1>4 DEF BuyCost, LegCost, BookLeg, LegFee, FeeOn
    <2>2. FeeOf(leg, n, s) = real
      <3> HIDE DEF ref, exec, n, leg
      <3> QED  BY <1>2, <1>4 DEF FeeOf, FeeOn
    <2> HIDE DEF ref, dev, exec, leg, n
    <2>3. ref + dev \in Nat  BY <1>2
    <2>4. fee \in Nat /\ real \in Nat /\ real <= fee
      BY <1>1, <1>2, <2>3, Fees
    <2> HIDE DEF fee, real
    <2>5. CostNumbers(BuyCost(inp, s)) /\ Parts(BuyCost(inp, s)) = fee + dev
      BY <1>1, <1>2, <2>1, <2>4, BookCost
    <2> QED  BY <1>2, <2>2, <2>4, <2>5 DEF dev, leg, n
  <1> QED  BY <1>3, <1>4

\* Selling costs the same, less at most what the sale brings above the reference, of which
\* the fee is not counted; sold at the reference or below nothing is missing.
LEMMA Selling ==
  ASSUME NEW inp, NEW s, Numbers(inp, s), SizeOf(inp) > 0
  PROVE  LET over == SellExec(inp) - (SellRef(inp) - SellDev(inp))
         IN  /\ CostNumbers(SellCost(inp, s))
             /\ FeeOf(inp.sell, SizeOf(inp), s) \in Nat
             /\ over \in Nat
             /\ (\A rate \in inp.sell.feePct : rate <= 1000) =>
                  FeeOf(inp.sell, SizeOf(inp), s) + SellDev(inp)
                    <= Parts(SellCost(inp, s)) + over
             /\ inp.sell.avg <= inp.sell.ref => over = 0
  <1> DEFINE ref == SellRef(inp)
             dev == SellDev(inp)
             exec == SellExec(inp)
             over == exec - (ref - dev)
             leg == inp.sell
             n == SizeOf(inp)
             ordinary == \A rate \in leg.feePct : rate <= 1000
  <1>1. LegNumbers(leg) /\ s.t.feeFallback \subseteq Nat  BY DEF Numbers, Document
  <1>2. /\ ref \in Nat /\ dev \in Nat /\ exec \in Nat /\ n \in Nat
        /\ dev <= ref /\ ref - dev <= exec
        /\ ref = n * leg.ref /\ exec = n * leg.avg
        /\ leg.avg <= leg.ref => ref - dev = exec
    BY Amounts DEF Numbers, SellRef, SellExec
  <1>3. over \in Nat /\ (leg.avg <= leg.ref => over = 0)
    <2> HIDE DEF ref, dev, exec, leg
    <2> QED  BY <1>2
  <1>4. CASE leg.kind = "dex"
    <2>1. SellCost(inp, s) = DexLeg(leg, ref, dev)  BY <1>4 DEF SellCost, LegCost
    <2>2. FeeOf(leg, n, s) = 0  BY <1>4 DEF FeeOf
    <2> HIDE DEF ref, dev, leg, n, over
    <2>3. CostNumbers(SellCost(inp, s)) /\ Parts(SellCost(inp, s)) = dev
      BY <1>1, <1>2, <2>1, DexCost
    <2>4. FeeOf(leg, n, s) \in Nat /\ FeeOf(leg, n, s) + dev <= Parts(SellCost(inp, s)) + over
      BY <1>2, <1>3, <2>2, <2>3
    <2> QED  BY <1>3, <2>3, <2>4 DEF dev, exec, leg, n, over, ref
  <1>5. CASE leg.kind # "dex"
    <2> DEFINE low == ref - dev
               fee == FeeOn(leg, low, ref, s.t)
               real == FeeOn(leg, exec, ref, s.t)
    <2>1. SellCost(inp, s) = [fee |-> fee, maker |-> MakerCost(leg, ref), swap |-> 0,
                              impact |-> 0, slip |-> dev]
      BY <1>5 DEF SellCost, LegCost, BookLeg, LegFee, FeeOn
    <2>2. FeeOf(leg, n, s) = real
      <3> HIDE DEF ref, exec, n, leg
      <3> QED  BY <1>2, <1>5 DEF FeeOf, FeeOn
    <2>a. over = exec - low  OBVIOUS
    <2> HIDE DEF ref, dev, exec, leg, n, over
    <2>3. low \in Nat /\ low <= exec  BY <1>2
    <2> HIDE DEF low
    <2>b. /\ fee \in Nat /\ real \in Nat
          /\ ordinary => real - fee <= exec - low
      BY <1>1, <1>2, <2>3, Fees
    <2> HIDE DEF fee, real, ordinary
    <2>5. CostNumbers(SellCost(inp, s)) /\ Parts(SellCost(inp, s)) = fee + dev
      BY <1>1, <1>2, <2>1, <2>b, BookCost
    <2>6. /\ FeeOf(leg, n, s) \in Nat
          /\ ordinary => FeeOf(leg, n, s) + dev <= Parts(SellCost(inp, s)) + over
      BY <1>2, <1>3, <2>a, <2>2, <2>3, <2>b, <2>5
    <2> QED  BY <1>3, <2>5, <2>6 DEF dev, exec, leg, n, over, ref, ordinary
  <1> QED  BY <1>4, <1>5

\* Where the worst case relieves nothing.
Stressed(inp, s) ==
  /\ s.t.feeMult >= 1000 /\ s.t.slipMult >= 1000 /\ s.g.stress >= 1000
  /\ \A g \in inp.gas : g.expected <= g.stress

\* The gas an assessment counts (profit_guard.py, assess).
LEMMA GasParts ==
  ASSUME NEW inp, NEW s, Numbers(inp, s)
  PROVE  /\ GasOf(inp, s) \in Nat /\ WorstGas(inp, s) \in Nat
         /\ Priority(inp) \in Nat /\ WorstPriority(inp, s) \in Nat
         /\ Stressed(inp, s) => /\ GasOf(inp, s) <= WorstGas(inp, s)
                                /\ Priority(inp) <= WorstPriority(inp, s)
  <1> DEFINE chain == IsOnChain(inp)
             known == Known(inp.gas)
             g == The(inp.gas)
             back == The(s.g.fallback)
             gas == GasOf(inp, s)
             pri == Priority(inp)
  <1>1. s.g.stress \in Nat /\ s.g.fallback \subseteq Nat  BY DEF Numbers, Document
  <1>2. known => /\ g.expected \in Nat /\ g.stress \in Nat /\ g.priority \in Nat
                 /\ Stressed(inp, s) => g.expected <= g.stress
    BY TheIn DEF Numbers, GasNumbers, Stressed
  <1>3. Known(s.g.fallback) => back \in Nat  BY <1>1, TheIn
  <1>4. /\ ~chain => gas = 0
        /\ chain /\ known => gas = g.expected
        /\ chain /\ ~known /\ Known(s.g.fallback) => gas = back
        /\ chain /\ ~known /\ ~Known(s.g.fallback) => gas = 0
    BY DEF GasOf
  <1>5. pri = IF chain /\ known THEN g.priority ELSE 0  BY DEF Priority
  <1>6. WorstGas(inp, s) = IF chain /\ known THEN g.stress ELSE Of(gas, s.g.stress)
    BY DEF WorstGas
  <1>7. WorstPriority(inp, s) = Of(pri, s.g.stress)  BY DEF WorstPriority
  <1>8. Stressed(inp, s) => s.g.stress >= 1000  BY DEF Stressed
  <1> HIDE DEF chain, known, g, back, gas, pri
  <1>9. gas \in Nat /\ pri \in Nat  BY <1>2, <1>3, <1>4, <1>5
  <1>10. /\ Of(gas, s.g.stress) \in Nat /\ Of(pri, s.g.stress) \in Nat
         /\ s.g.stress >= 1000 => gas <= Of(gas, s.g.stress) /\ pri <= Of(pri, s.g.stress)
    BY <1>1, <1>9, OfNat, SharesAbove
  <1>11. WorstGas(inp, s) \in Nat /\ (Stressed(inp, s) => gas <= WorstGas(inp, s))
    <2>1. CASE chain /\ known  BY <1>2, <1>4, <1>6, <2>1
    <2>2. CASE ~(chain /\ known)  BY <1>6, <1>8, <1>10, <2>2
    <2> QED  BY <2>1, <2>2
  <1> QED  BY <1>7, <1>8, <1>9, <1>10, <1>11 DEF gas, pri

\* What is set aside (profit_guard.py, assess).
LEMMA ReserveParts ==
  ASSUME NEW inp, NEW s, Numbers(inp, s), SizeOf(inp) > 0
  PROVE  /\ Allowances(inp, s) \in Nat /\ WorstAllowances(inp, s) \in Nat
         /\ Allowances(inp, s) <= WorstAllowances(inp, s)
         /\ Buffer(inp, s) \in Nat /\ MevReserve(inp, s) \in Nat
  <1> DEFINE ref == BuyRef(inp)
             gas == WorstGas(inp, s)
             once == s.t.rebalance + s.t.latency + s.t.partial + s.t.failure
             twice == s.t.rebalance + 2 * (s.t.latency + s.t.partial + s.t.failure)
             extra == s.t.buffer + Larger(0, inp.extra)
  <1>1. ref \in Nat /\ gas \in Nat  BY Amounts, GasParts DEF Numbers
  <1>2. /\ once \in Nat /\ twice \in Nat /\ once <= twice
        /\ s.f.maxSlip \in Nat /\ s.f.mev \in Nat
    BY DEF Numbers, Document
  <1>3. extra \in Nat
    <2>1. s.t.buffer \in Nat /\ inp.extra \in Int  BY DEF Numbers, Document
    <2> QED  BY <2>1 DEF Larger
  <1>4. Buffer(inp, s) = Of(ref, extra)  BY DEF Buffer
  <1>5. MevReserve(inp, s) = IF Known(inp.loan) THEN Of(ref, s.f.mev) ELSE 0  BY DEF MevReserve
  <1>6. Allowances(inp, s) = IF Known(inp.loan) THEN gas \div 2 ELSE Of(ref, once)
    BY DEF Allowances
  <1>7. WorstAllowances(inp, s) =
          IF Known(inp.loan) THEN gas + Of(ref, s.f.maxSlip)
          ELSE Of(ref, twice) + (IF IsOnChain(inp) THEN gas ELSE 0)
    BY DEF WorstAllowances
  <1> HIDE DEF ref, gas, once, twice, extra
  <1>8. Of(ref, extra) \in Nat /\ Of(ref, s.f.mev) \in Nat /\ Of(ref, s.f.maxSlip) \in Nat
    BY <1>1, <1>2, <1>3, OfNat
  <1>9. Of(ref, once) \in Nat /\ Of(ref, twice) \in Nat /\ Of(ref, once) <= Of(ref, twice)
    BY <1>1, <1>2, SharesByRate
  <1>10. gas \div 2 \in Nat /\ gas \div 2 <= gas  BY <1>1
  <1> QED  BY <1>1, <1>4, <1>5, <1>6, <1>7, <1>8, <1>9, <1>10

\* Funding and the loan's fee are numbers; the worst case counts on half of an income.
LEMMA FundingParts ==
  ASSUME NEW inp, NEW s, Numbers(inp, s)
  PROVE  /\ LoanFee(inp, s) \in Int /\ inp.funding \in Int /\ WorstFunding(inp, s) \in Int
         /\ Stressed(inp, s) => inp.funding <= WorstFunding(inp, s)
  <1> DEFINE f == inp.funding
             half == (-f) \div 2
  <1>1. f \in Int /\ s.t.feeMult \in Nat  BY DEF Numbers, Document
  <1>2. Stressed(inp, s) => s.t.feeMult >= 1000  BY DEF Stressed
  <1>3. WorstFunding(inp, s) = IF f > 0 THEN Of(f, s.t.feeMult) ELSE -half
    BY DEF WorstFunding, WorstFundingReal
  <1>4. LoanFee(inp, s) \in Int
    <2>1. CASE Known(inp.loan)
      <3> DEFINE l == The(inp.loan)
      <3>1. l \in inp.loan  BY <2>1, TheIn
      <3>2. l.amount \in Int /\ l.feePct \in Nat  BY <3>1 DEF Numbers
      <3>3. LoanFee(inp, s) = Of(l.amount, l.feePct)  BY <2>1 DEF LoanFee
      <3> HIDE DEF l
      <3> QED  BY <3>2, <3>3, ShareNumber
    <2>2. CASE ~Known(inp.loan)  BY <2>2 DEF LoanFee
    <2> QED  BY <2>1, <2>2
  <1>5. CASE f > 0
    <2>1. f \in Nat  BY <1>1, <1>5
    <2> HIDE DEF f
    <2>2. Of(f, s.t.feeMult) \in Nat /\ (s.t.feeMult >= 1000 => f <= Of(f, s.t.feeMult))
      BY <1>1, <2>1, OfNat, SharesAbove
    <2>3. WorstFunding(inp, s) = Of(f, s.t.feeMult)  BY <1>3, <1>5
    <2> QED  BY <1>1, <1>2, <1>4, <2>1, <2>2, <2>3 DEF f
  <1>6. CASE ~(f > 0)
    <2>1. half \in Int /\ f <= -half
      <3> HIDE DEF f
      <3> QED  BY <1>1, <1>6
    <2>2. WorstFunding(inp, s) = -half  BY <1>3, <1>6
    <2> HIDE DEF half
    <2> QED  BY <1>1, <1>4, <2>1, <2>2
  <1> QED  BY <1>5, <1>6

\* Trading costs its parts, once per trip.
LEMMA TradingParts ==
  ASSUME NEW inp, NEW s, Numbers(inp, s), SizeOf(inp) > 0,
         CostNumbers(BuyCost(inp, s)), CostNumbers(SellCost(inp, s))
  PROVE  LET parts  == Parts(BuyCost(inp, s)) + Parts(SellCost(inp, s))
             makers == BuyCost(inp, s).maker + SellCost(inp, s).maker
         IN  /\ Trading(inp, s) = inp.trips * parts + makers
             /\ Trading(inp, s) \in Nat /\ WorstTrading(inp, s) \in Nat
             /\ Stressed(inp, s) => Trading(inp, s) <= WorstTrading(inp, s)
  <1> DEFINE b == BuyCost(inp, s)
             c == SellCost(inp, s)
             fees == b.fee + c.fee + b.swap + c.swap
             devs == b.slip + c.slip + b.impact + c.impact
             wf == Of(fees, s.t.feeMult)
             wd == Of(devs, s.t.slipMult)
             k == inp.trips
             makers == b.maker + c.maker
  <1>1. /\ Trading(inp, s) =
             k * (b.fee + c.fee + b.swap + c.swap + b.slip + c.slip + b.impact + c.impact)
               + b.maker + c.maker
        /\ WorstTrading(inp, s) = k * (wf + wd) + b.maker + c.maker
    BY DEF Trading, WorstTrading
  <1>2. CostNumbers(b) /\ CostNumbers(c)  OBVIOUS
  <1>3. k \in {1, 2} /\ s.t.feeMult \in Nat /\ s.t.slipMult \in Nat
    BY DEF Numbers, Document
  <1>4. Stressed(inp, s) => s.t.feeMult >= 1000 /\ s.t.slipMult >= 1000  BY DEF Stressed
  <1> HIDE DEF b, c, k
  <1>5. fees \in Nat /\ devs \in Nat /\ makers \in Nat /\ Parts(b) + Parts(c) = fees + devs
    BY <1>2 DEF CostNumbers, Parts
  <1>6. Trading(inp, s) = k * (fees + devs) + makers
    BY <1>1, <1>2 , <1>3 DEF CostNumbers
  <1> HIDE DEF fees, devs
  <1>7. /\ wf \in Nat /\ wd \in Nat
        /\ Stressed(inp, s) => fees <= wf /\ devs <= wd
    BY <1>3, <1>4, <1>5, OfNat, SharesAbove
  <1> HIDE DEF wf, wd
  <1>8. WorstTrading(inp, s) = k * (wf + wd) + makers
    BY <1>1, <1>2, <1>3, <1>7 DEF CostNumbers
  <1> HIDE DEF makers
  <1>9. /\ k * (fees + devs) + makers \in Nat /\ k * (wf + wd) + makers \in Nat
        /\ fees <= wf /\ devs <= wd => k * (fees + devs) + makers <= k * (wf + wd) + makers
    <2>1. CASE k = 1  BY <1>5, <1>7, <2>1
    <2>2. CASE k = 2  BY <1>5, <1>7, <2>2
    <2> QED  BY <1>3, <2>1, <2>2
  <1> QED  BY <1>5, <1>6, <1>7, <1>8, <1>9 DEF b, c, k, makers

\* An assessment's numbers are numbers, and where stress relieves nothing its worst case is
\* never better than what is expected (profit_guard.py, assess).
LEMMA Assessed ==
  ASSUME NEW inp, NEW s, Numbers(inp, s)
  PROVE  LET a == Assess(inp, s)
         IN  /\ a.net \in Int /\ a.worst \in Int /\ a.capital \in Int
             /\ Stressed(inp, s) => a.worst <= a.net
             /\ SizeOf(inp) > 0 => a.net = Gross(inp) - Costs(inp, s)
  <1> DEFINE a == Assess(inp, s)
  <1>1. CASE SizeOf(inp) <= 0
    <2>1. a = Rejected("no_size")  BY <1>1 DEF Assess
    <2>2. a.net = 0 /\ a.worst = 0 /\ a.capital = 0  BY <2>1 DEF Rejected
    <2>3. SizeOf(inp) \in Int  BY DEF Numbers, LegNumbers, SizeOf, Smaller
    <2> HIDE DEF a
    <2>4. ~(SizeOf(inp) > 0)  BY <1>1, <2>3
    <2> QED  BY <2>2, <2>4 DEF a
  <1>2. CASE ~(SizeOf(inp) <= 0)
    <2>1. SizeOf(inp) > 0
      <3>1. SizeOf(inp) \in Int  BY DEF Numbers, LegNumbers, SizeOf, Smaller
      <3> QED  BY <1>2, <3>1
    <2> DEFINE net == Gross(inp) - Costs(inp, s)
               worst == Gross(inp) - WorstCosts(inp, s)
    <2>2. a.net = net /\ a.worst = worst /\ a.capital = CapitalRequired(inp, s)
      BY <1>2 DEF Assess
    <2>3. CostNumbers(BuyCost(inp, s)) /\ CostNumbers(SellCost(inp, s))
      BY <2>1, Buying, Selling
    <2>4. /\ Trading(inp, s) \in Nat /\ WorstTrading(inp, s) \in Nat
          /\ Stressed(inp, s) => Trading(inp, s) <= WorstTrading(inp, s)
      BY <2>1, <2>3, TradingParts
    <2>5. /\ GasOf(inp, s) \in Nat /\ WorstGas(inp, s) \in Nat
          /\ Priority(inp) \in Nat /\ WorstPriority(inp, s) \in Nat
          /\ Stressed(inp, s) => /\ GasOf(inp, s) <= WorstGas(inp, s)
                                 /\ Priority(inp) <= WorstPriority(inp, s)
      BY GasParts
    <2>6. /\ Allowances(inp, s) \in Nat /\ WorstAllowances(inp, s) \in Nat
          /\ Allowances(inp, s) <= WorstAllowances(inp, s)
          /\ Buffer(inp, s) \in Nat /\ MevReserve(inp, s) \in Nat
      BY <2>1, ReserveParts
    <2>7. /\ LoanFee(inp, s) \in Int /\ inp.funding \in Int /\ WorstFunding(inp, s) \in Int
          /\ Stressed(inp, s) => inp.funding <= WorstFunding(inp, s)
      BY FundingParts
    <2>8. Costs(inp, s) \in Int /\ WorstCosts(inp, s) \in Int
          /\ (Stressed(inp, s) => Costs(inp, s) <= WorstCosts(inp, s))
      BY <2>4, <2>5, <2>6, <2>7 DEF Costs, WorstCosts
    <2>9. Gross(inp) \in Int
      <3>1. BuyRef(inp) \in Nat /\ SellRef(inp) \in Nat  BY <2>1, Amounts DEF Numbers
      <3> QED  BY <3>1 DEF Gross
    <2>10. CapitalRequired(inp, s) \in Int
      <3> DEFINE fee == BuyCost(inp, s).fee
      <3>1. BuyExec(inp) \in Nat  BY <2>1, Amounts DEF Numbers
      <3>2. fee \in Nat  BY <2>3 DEF CostNumbers
      <3>3. inp.trips \in Nat  BY DEF Numbers
      <3>4. CapitalRequired(inp, s) =
              GasOf(inp, s) + Priority(inp)
                + (IF Known(inp.loan) THEN LoanFee(inp, s) ELSE BuyExec(inp) + inp.trips * fee)
        BY DEF CapitalRequired
      <3> HIDE DEF fee
      <3>5. inp.trips * fee \in Int  BY <3>2, <3>3
      <3> QED  BY <2>5, <2>7, <3>1, <3>4, <3>5
    <2> HIDE DEF a
    <2>11. net \in Int /\ worst \in Int /\ (Stressed(inp, s) => worst <= net)
      BY <2>8, <2>9
    <2> QED  BY <2>2, <2>10, <2>11 DEF a
  <1> QED  BY <1>1, <1>2

\* What is expected is no more than what the quotes return, with what the venues take, once
\* more for a position that must be unwound (profit_guard.py, assess).
LEMMA ExpectedIsCash ==
  ASSUME NEW inp, NEW s, Numbers(inp, s), SizeOf(inp) > 0,
         \A rate \in inp.sell.feePct : rate <= 1000,
         inp.trips = 2 => inp.sell.avg <= inp.sell.ref
  PROVE  LET fees == FeeOf(inp.buy, SizeOf(inp), s) + FeeOf(inp.sell, SizeOf(inp), s)
         IN  Gross(inp) - Costs(inp, s)
               <= SellExec(inp) - BuyExec(inp) - fees - (GasOf(inp, s) + Priority(inp))
                    - LoanFee(inp, s) - inp.funding
                    - (IF inp.trips = 2 THEN fees + BuyDev(inp) + SellDev(inp) ELSE 0)
  <1> DEFINE b == BuyCost(inp, s)
             c == SellCost(inp, s)
             fb == FeeOf(inp.buy, SizeOf(inp), s)
             fc == FeeOf(inp.sell, SizeOf(inp), s)
             over == SellExec(inp) - (SellRef(inp) - SellDev(inp))
             pb == Parts(b)
             pc == Parts(c)
             rest == Allowances(inp, s) + Buffer(inp, s) + MevReserve(inp, s)
             makers == b.maker + c.maker
  <1>1. CostNumbers(b) /\ fb \in Nat /\ fb + BuyDev(inp) <= pb  BY Buying
  <1>2. /\ CostNumbers(c) /\ fc \in Nat /\ over \in Nat
        /\ fc + SellDev(inp) <= pc + over
        /\ inp.sell.avg <= inp.sell.ref => over = 0
    BY Selling
  <1>3. pb \in Nat /\ pc \in Nat /\ makers \in Nat
    <2> HIDE DEF b, c
    <2> QED  BY <1>1, <1>2 DEF CostNumbers, Parts
  <1>4. Trading(inp, s) = inp.trips * (pb + pc) + makers  BY <1>1, <1>2, TradingParts
  <1>5. rest \in Nat
    <2>1. Allowances(inp, s) \in Nat /\ Buffer(inp, s) \in Nat /\ MevReserve(inp, s) \in Nat
      BY ReserveParts
    <2> QED  BY <2>1
  <1>6. GasOf(inp, s) \in Nat /\ Priority(inp) \in Nat  BY GasParts
  <1>7. LoanFee(inp, s) \in Int /\ inp.funding \in Int  BY FundingParts
  <1>8. /\ BuyRef(inp) \in Nat /\ SellRef(inp) \in Nat
        /\ BuyExec(inp) \in Nat /\ SellExec(inp) \in Nat
        /\ BuyDev(inp) \in Nat /\ SellDev(inp) \in Nat
        /\ BuyExec(inp) <= BuyRef(inp) + BuyDev(inp)
    BY Amounts DEF Numbers
  <1>9. Costs(inp, s) = inp.trips * (pb + pc) + makers + GasOf(inp, s) + Priority(inp)
                          + inp.funding + rest + LoanFee(inp, s)
    <2>1. /\ Allowances(inp, s) \in Nat /\ Buffer(inp, s) \in Nat
          /\ MevReserve(inp, s) \in Nat
      BY ReserveParts
    <2>2. inp.trips * (pb + pc) \in Nat
      <3>1. inp.trips \in Nat  BY DEF Numbers
      <3> HIDE DEF pb, pc
      <3> QED  BY <1>3, <3>1
    <2> HIDE DEF pb, pc, makers
    <2> QED  BY <1>3, <1>4, <1>6, <1>7, <2>1, <2>2 DEF Costs
  <1>10. SellExec(inp) = SellRef(inp) - SellDev(inp) + over  BY <1>8
  <1>11. inp.trips \in {1, 2}  BY DEF Numbers
  <1> HIDE DEF b, c, fb, fc, over, pb, pc, rest, makers
  <1>12. CASE inp.trips = 1
    <2>1. inp.trips * (pb + pc) = pb + pc /\ inp.trips # 2  BY <1>3, <1>12
    <2>2. SellRef(inp) - BuyRef(inp) - pb - pc <= SellExec(inp) - BuyExec(inp) - fb - fc
      BY <1>1, <1>2, <1>3, <1>8, <1>10
    <2> QED  BY <1>3, <1>5, <1>6, <1>7, <1>1, <1>2, <1>8, <1>9, <2>1, <2>2 DEF Gross, fb, fc
  <1>13. CASE inp.trips = 2
    <2>1. inp.trips * (pb + pc) = pb + pc + pb + pc  BY <1>3, <1>13
    <2>2. over = 0  BY <1>2, <1>13
    <2>3. SellRef(inp) - BuyRef(inp) - pb - pc - pb - pc
            <= SellExec(inp) - BuyExec(inp) - fb - fc - (fb + fc + BuyDev(inp) + SellDev(inp))
      BY <1>1, <1>2, <1>3, <1>8, <1>10, <2>2
    <2> QED  BY <1>3, <1>5, <1>6, <1>7, <1>1, <1>2, <1>8, <1>9, <1>13, <2>1, <2>3
             DEF Gross, fb, fc
  <1> QED  BY <1>11, <1>12, <1>13

(***************************************************************************)
(* The score                                                               *)
(***************************************************************************)
\* A score's share of its cap is a number.
LEMMA PartNumber ==
  ASSUME NEW part \in Int, NEW whole \in Int, NEW cap \in Int
  PROVE  Share(part, whole, cap) \in Int
  <1> DEFINE n == part * cap
  <1>1. n \in Int  OBVIOUS
  <1> HIDE DEF n
  <1>2. whole > 0 => n \div whole \in Int  BY <1>1
  <1> DEFINE q == n \div whole
  <1>3. Share(part, whole, cap) = IF whole > 0 THEN Smaller(cap, q) ELSE 0  BY DEF Share, n
  <1>4. whole > 0 => q \in Int  BY <1>2
  <1> HIDE DEF q
  <1> QED  BY <1>3, <1>4 DEF Smaller

\* The risk score is a number (risk_engine.py, risk_score).
LEMMA ScoreNumber ==
  ASSUME NEW x, NEW p, NEW s, LegNumbers(x.buy), LegNumbers(x.sell), x.capital \in Int,
         p.total \in Int, Document(s)
  PROVE  Score(x, p, s) \in Int
  <1> DEFINE usage  == IF p.total > 0 THEN (x.capital * 1000) \div p.total ELSE 0
             health == 15 * (IF s.r.allowDegraded
                             THEN (IF x.buy.venue \in p.degraded THEN 1 ELSE 0)
                                + (IF x.sell.venue \in p.degraded THEN 1 ELSE 0)
                             ELSE 0)
             kind   == CASE x.strategy \in {"dex_dex", "flash_loan"} -> 15
                         [] x.strategy \in CarryStrategies \cup {"cex_dex"} -> 8
                         [] OTHER -> 0
             slip   == Slippage(x)
             age    == Larger(x.buy.age, x.sell.age)
             most   == Larger(1, s.r.maxSlippage)
             oldest == Larger(1, s.r.maxAge)
             filled == IF x.buy.fillable /\ x.sell.fillable THEN 0 ELSE 15
             a == Share(usage, s.r.maxUsage, 30)
             b == Share(slip, most, 25)
             d == Share(age, oldest, 15)
  <1>1. usage \in Int
    <2>1. CASE p.total > 0
      <3> DEFINE n == x.capital * 1000
      <3>1. n \in Int  OBVIOUS
      <3> HIDE DEF n
      <3>2. n \div p.total \in Int  BY <2>1, <3>1
      <3> QED  BY <2>1, <3>2 DEF n
    <2>2. CASE ~(p.total > 0)  BY <2>2
    <2> QED  BY <2>1, <2>2
  <1>2. health \in Int  OBVIOUS
  <1>3. kind \in Int
    <2>1. \/ x.strategy \in {"dex_dex", "flash_loan"}
          \/ /\ x.strategy \notin {"dex_dex", "flash_loan"}
             /\ x.strategy \in CarryStrategies \cup {"cex_dex"}
          \/ /\ x.strategy \notin {"dex_dex", "flash_loan"}
             /\ x.strategy \notin CarryStrategies \cup {"cex_dex"}
      OBVIOUS
    <2> QED  BY <2>1 DEF CarryStrategies
  <1>4. slip \in Int  BY DEF Slippage, LegNumbers
  <1>5. age \in Int  BY DEF LegNumbers, Larger
  <1>6. s.r.maxUsage \in Nat /\ most \in Nat /\ oldest \in Nat  BY DEF Document, Larger
  <1>7. filled \in Int  OBVIOUS
  <1>8. Score(x, p, s) = Larger(0, Smaller(100, a + health + kind + b + d + filled))  BY DEF Score
  <1> HIDE DEF usage, health, kind, slip, age, most, oldest, filled
  <1>9. s.r.maxUsage \in Int /\ most \in Int /\ oldest \in Int  BY <1>6
  <1>0. 30 \in Int /\ 25 \in Int /\ 15 \in Int  OBVIOUS
  <1>10. a \in Int  BY <1>0, <1>1, <1>9, PartNumber, Zenon
  <1>11. b \in Int  BY <1>0, <1>4, <1>9, PartNumber, Zenon
  <1>12. d \in Int  BY <1>0, <1>5, <1>9, PartNumber, Zenon
  <1> HIDE DEF a, b, d
  <1> QED  BY <1>2, <1>3, <1>7, <1>8, <1>10, <1>11, <1>12 DEF Smaller, Larger

(***************************************************************************)
(* An opportunity's numbers                                                *)
(***************************************************************************)
\* What an opportunity's numbers promise.
Priced(o) ==
  /\ o.net \in Int /\ o.worst \in Int /\ o.score \in Int /\ o.safe \in BOOLEAN
  /\ OrdinaryRates /\ o.sized => o.worst <= o.net /\ o.net <= Cash(o)

\* What is known of the quotes of a candidate when they are assessed.
Quoted(c, buy, sell, gas) ==
  /\ LegNumbers(buy) /\ LegNumbers(sell) /\ GasNumbers(gas)
  /\ Known(gas) => IsFlash(c) \/ buy.kind = "dex" \/ sell.kind = "dex"
  /\ OrdinaryRates => /\ \A rate \in sell.feePct : rate <= 1000
                      /\ IsCarry(c) => sell.avg <= sell.ref
                      /\ \A g \in gas : g.expected <= g.stress

\* Amounts and their differences scale with the size.
LEMMA Scaled ==
  ASSUME NEW n \in Nat, n > 0, NEW a \in Nat, NEW b \in Nat
  PROVE  n * (a - b) = n * a - n * b /\ n * Larger(0, a - b) = Larger(0, n * a - n * b)
  <1>1. n * a \in Nat /\ n * b \in Nat  OBVIOUS
  <1>2. n * (a - b) = n * a - n * b  OBVIOUS
  <1>3. CASE a <= b
    <2>1. a * n <= b * n  BY <1>3, Products
    <2>2. n * a <= n * b  BY <2>1
    <2>3. Larger(0, a - b) = 0  BY <1>3 DEF Larger
    <2>4. Larger(0, n * a - n * b) = 0
      <3> DEFINE x == n * a
                 y == n * b
      <3>1. x \in Nat /\ y \in Nat /\ x <= y  BY <1>1, <2>2
      <3> HIDE DEF x, y
      <3>2. Larger(0, x - y) = 0  BY <3>1 DEF Larger
      <3> QED  BY <3>2 DEF x, y
    <2> QED  BY <1>2, <2>3, <2>4
  <1>4. CASE ~(a <= b)
    <2> DEFINE d == a - b
               m == n * d
    <2>1. d \in Nat /\ Larger(0, d) = d  BY <1>4 DEF Larger
    <2>2. m \in Nat
      <3> HIDE DEF d
      <3> QED  BY <2>1
    <2>3. n * a - n * b = m  BY <1>2
    <2> HIDE DEF m
    <2>4. Larger(0, m) = m  BY <2>2 DEF Larger
    <2>5. n * Larger(0, d) = m  BY <2>1 DEF m
    <2> HIDE DEF d
    <2> QED  BY <1>2, <2>3, <2>4, <2>5 DEF d
  <1> QED  BY <1>3, <1>4

\* The cash of an opportunity is at least what its assessment expects.
LEMMA CashCovers ==
  ASSUME NEW o, NEW inp, NEW s, Numbers(inp, s), SizeOf(inp) > 0,
         \A rate \in inp.sell.feePct : rate <= 1000,
         inp.trips = 2 => inp.sell.avg <= inp.sell.ref,
         o.buy = inp.buy, o.sell = inp.sell, SettingsOf[o.read] = s, o.funding = inp.funding,
         o.loanFee = LoanFee(inp, s), o.gas \in Int, o.gas <= GasOf(inp, s) + Priority(inp),
         IsCarry(o.cand) <=> inp.trips = 2
  PROVE  Gross(inp) - Costs(inp, s) <= Cash(o)
  <1> DEFINE n == SizeOf(inp)
             fees == FeeOf(inp.buy, n, s) + FeeOf(inp.sell, n, s)
             more == IF inp.trips = 2 THEN fees + BuyDev(inp) + SellDev(inp) ELSE 0
             unwind == fees + n * Larger(0, inp.buy.avg - inp.buy.ref)
                            + n * Larger(0, inp.sell.ref - inp.sell.avg)
             gas == GasOf(inp, s) + Priority(inp)
  <1>1. /\ n \in Nat /\ BuyExec(inp) \in Nat /\ SellExec(inp) \in Nat
        /\ BuyDev(inp) \in Nat /\ SellDev(inp) \in Nat
    BY Amounts DEF Numbers
  <1>2. /\ inp.buy.ref \in Nat /\ inp.sell.ref \in Nat
        /\ inp.buy.avg \in Nat /\ inp.sell.avg \in Nat
    BY DEF Numbers, LegNumbers
  <1>3. /\ n * (inp.sell.avg - inp.buy.avg) = SellExec(inp) - BuyExec(inp)
        /\ n * Larger(0, inp.buy.avg - inp.buy.ref) = BuyDev(inp)
        /\ n * Larger(0, inp.sell.ref - inp.sell.avg) = SellDev(inp)
    <2>1. /\ SellExec(inp) = n * inp.sell.avg /\ BuyExec(inp) = n * inp.buy.avg
          /\ BuyDev(inp) = Larger(0, n * inp.buy.avg - n * inp.buy.ref)
          /\ SellDev(inp) = Larger(0, n * inp.sell.ref - n * inp.sell.avg)
      BY DEF SellExec, BuyExec, BuyDev, SellDev, SellRef, BuyRef
    <2> HIDE DEF n
    <2>2. n > 0  BY DEF n
    <2>3. n \in Nat  BY <1>1
    <2>4. \A a \in Nat, b \in Nat :
            n * (a - b) = n * a - n * b /\ n * Larger(0, a - b) = Larger(0, n * a - n * b)
      BY <2>2, <2>3, Scaled
    <2>5. inp.buy.ref \in Nat /\ inp.sell.ref \in Nat /\ inp.buy.avg \in Nat
          /\ inp.sell.avg \in Nat
      BY <1>2
    <2>6. n * (inp.sell.avg - inp.buy.avg) = n * inp.sell.avg - n * inp.buy.avg
      BY <2>4, <2>5, Zenon
    <2>7. n * Larger(0, inp.buy.avg - inp.buy.ref)
            = Larger(0, n * inp.buy.avg - n * inp.buy.ref)
      BY <2>4, <2>5, Zenon
    <2>8. n * Larger(0, inp.sell.ref - inp.sell.avg)
            = Larger(0, n * inp.sell.ref - n * inp.sell.avg)
      BY <2>4, <2>5, Zenon
    <2> QED  BY <2>1, <2>6, <2>7, <2>8
  <1>4. fees \in Nat
    <2>1. FeeOf(inp.buy, n, s) \in Nat  BY Buying
    <2>2. FeeOf(inp.sell, n, s) \in Nat  BY Selling
    <2> QED  BY <2>1, <2>2
  <1>5. Gross(inp) - Costs(inp, s)
          <= SellExec(inp) - BuyExec(inp) - fees - gas - LoanFee(inp, s) - inp.funding - more
    BY ExpectedIsCash
  <1>6. Cash(o) = n * (inp.sell.avg - inp.buy.avg) - fees - o.gas - LoanFee(inp, s)
                    - inp.funding - (IF IsCarry(o.cand) THEN unwind ELSE 0)
    BY DEF Cash, SizeOf
  <1>7. (IF IsCarry(o.cand) THEN unwind ELSE 0) = more  BY <1>3, <1>4
  <1>8. GasOf(inp, s) \in Nat /\ Priority(inp) \in Nat  BY GasParts
  <1>9. LoanFee(inp, s) \in Int /\ inp.funding \in Int  BY FundingParts
  <1>10. Gross(inp) - Costs(inp, s) \in Int
    <2>1. Assess(inp, s).net \in Int /\ Assess(inp, s).net = Gross(inp) - Costs(inp, s)
      BY Assessed
    <2> QED  BY <2>1
  <1>11. more \in Nat  BY <1>1, <1>4
  <1>12. gas \in Nat /\ o.gas <= gas  BY <1>8
  <1> DEFINE net == Gross(inp) - Costs(inp, s)
             sold == SellExec(inp) - BuyExec(inp)
  <1>13. sold \in Int  BY <1>1
  <1>14. Cash(o) = sold - fees - o.gas - LoanFee(inp, s) - inp.funding - more
    BY <1>3, <1>6, <1>7
  <1> HIDE DEF fees, more, gas, unwind, net, sold
  <1>15. net <= sold - fees - gas - LoanFee(inp, s) - inp.funding - more  BY <1>5 DEF net, sold
  <1>16. net \in Int  BY <1>10 DEF net
  <1>17. net <= Cash(o)  BY <1>4, <1>9, <1>11, <1>12, <1>13, <1>14, <1>15, <1>16
  <1> QED  BY <1>17 DEF net

\* What an evaluation makes of quotes has numbers that keep their promise.
LEMMA OpportunityPriced ==
  ASSUME NEW c, NEW buy, NEW sell, NEW gas, NEW funding \in Int, NEW simulated, NEW size,
         NEW read, NEW notes, Quoted(c, buy, sell, gas),
         read.p \in DOMAIN WorldOf, read.s \in DOMAIN SettingsOf, document \in DOMAIN SettingsOf
  PROVE  Priced(Opportunity(c, buy, sell, gas, funding, simulated, size, read, notes))
  <1> DEFINE o      == Opportunity(c, buy, sell, gas, funding, simulated, size, read, notes)
             p      == WorldOf[read.p].p
             s      == SettingsOf[read.s]
             loan   == LoanOf(c, buy, sell, simulated, s)
             inp    == [buy |-> buy, sell |-> sell, gas |-> gas, extra |-> Extra,
                        loan |-> loan, funding |-> funding,
                        trips |-> IF IsCarry(c) THEN 2 ELSE 1]
             a      == Assess(inp, s)
             gasUsd == IF Known(gas) THEN The(gas).expected + The(gas).priority ELSE 0
             x      == [strategy |-> c.strategy, buy |-> buy, sell |-> sell,
                        notional |-> size * Px, capital |-> a.capital,
                        gas |-> gasUsd, loan |-> loan]
             reasons == notes \cup a.reasons \cup ControlReasons(c, x, p, s)
                          \cup When(Known(gas) /\ The(gas).regime = "extreme"
                                      /\ "dex" \in {buy.kind, sell.kind}, "gas_extreme")
             score  == Score(x, p, settings)
             safe   == reasons = {}
  <1>1. /\ o.cand = c /\ o.buy = buy /\ o.sell = sell /\ o.read = read.s /\ o.gas = gasUsd
        /\ o.funding = funding /\ o.loanFee = LoanFee(inp, s) /\ o.net = a.net
        /\ o.worst = a.worst /\ o.score = score
    BY DEF Opportunity
  <1>2. o.safe = safe  BY DEF Opportunity
  <1>3. o.sized = (SizeOf(inp) > 0)  BY DEF Opportunity
  <1>4. o.safe \in BOOLEAN
    <2> HIDE DEF o, reasons
    <2>1. safe \in BOOLEAN  OBVIOUS
    <2> HIDE DEF safe
    <2> QED  BY <1>2, <2>1
  <1>5. Document(s) /\ Document(settings) /\ p.total \in Int
    BY SettingsNumbers, WorldAssumption DEF settings
  <1>6. \A l \in loan : l.amount \in Int /\ l.feePct \in Nat
    <2> DEFINE l == [amount |-> buy.base * buy.avg, feePct |-> s.f.feePct,
                     simulated |-> simulated, atomic |-> SameChain(buy.venue, sell.venue)]
    <2>1. loan \subseteq {l}  BY DEF LoanOf
    <2>2. l.amount = buy.base * buy.avg /\ l.feePct = s.f.feePct  OBVIOUS
    <2>3. buy.base \in Int /\ buy.avg \in Int  BY DEF Quoted, LegNumbers
    <2>4. s.f.feePct \in Nat  BY <1>5 DEF Document
    <2> HIDE DEF l, loan, s
    <2>5. l.amount \in Int  BY <2>2, <2>3
    <2> QED  BY <2>1, <2>2, <2>4, <2>5
  <1>7. /\ inp.buy = buy /\ inp.sell = sell /\ inp.gas = gas /\ inp.extra = Extra
        /\ inp.loan = loan /\ inp.funding = funding
        /\ inp.trips = IF IsCarry(c) THEN 2 ELSE 1
    OBVIOUS
  <1>8. x.buy = buy /\ x.sell = sell /\ x.capital = a.capital  OBVIOUS
  <1>9. Known(loan) <=> IsFlash(c)  BY DEF LoanOf, Known
  <1> HIDE DEF o, s, p, loan, inp, x, reasons
  <1>10. Numbers(inp, s)
    <2>1. LegNumbers(buy) /\ LegNumbers(sell) /\ GasNumbers(gas)  BY DEF Quoted
    <2>2. Extra \in Int  BY AmountsAssumption
    <2>3. inp.trips \in {1, 2}  BY <1>7
    <2> QED  BY <1>5, <1>6, <1>7, <2>1, <2>2, <2>3 DEF Numbers
  <1>11. a.net \in Int /\ a.worst \in Int /\ a.capital \in Int  BY <1>10, Assessed
  <1> HIDE DEF a, safe
  <1>12. score \in Int
    <2>1. LegNumbers(x.buy) /\ LegNumbers(x.sell)  BY <1>8 DEF Quoted
    <2> QED  BY <1>5, <1>8, <1>11, <2>1, ScoreNumber
  <1>13. ASSUME OrdinaryRates, o.sized PROVE o.worst <= o.net /\ o.net <= Cash(o)
    <2>1. SizeOf(inp) > 0  BY <1>3, <1>13
    <2>2. /\ \A rate \in sell.feePct : rate <= 1000
          /\ IsCarry(c) => sell.avg <= sell.ref
          /\ \A g \in gas : g.expected <= g.stress
      BY <1>13 DEF Quoted
    <2>3. Stressed(inp, s)
      <3>1. s.t.feeMult >= 1000 /\ s.t.slipMult >= 1000 /\ s.g.stress >= 1000
        BY <1>13 DEF OrdinaryRates, s
      <3> QED  BY <1>7, <2>2, <3>1 DEF Stressed
    <2>4. a.worst <= a.net /\ a.net = Gross(inp) - Costs(inp, s)
      BY <1>10, <2>1, <2>3, Assessed DEF a
    <2>5. gasUsd \in Int /\ gasUsd <= GasOf(inp, s) + Priority(inp)
      <3>1. GasOf(inp, s) \in Nat /\ Priority(inp) \in Nat  BY <1>10, GasParts
      <3>2. CASE Known(gas)
        <4>1. IsOnChain(inp)  BY <1>7, <1>9, <3>2 DEF Quoted, IsOnChain
        <4>2. GasOf(inp, s) = The(gas).expected /\ Priority(inp) = The(gas).priority
          BY <1>7, <3>2, <4>1 DEF GasOf, Priority
        <4> QED  BY <3>1, <3>2, <4>2
      <3>3. CASE ~Known(gas)  BY <3>1, <3>3
      <3> QED  BY <3>2, <3>3
    <2>6. inp.trips = 2 <=> IsCarry(c)  BY <1>7
    <2>7. SettingsOf[o.read] = s  BY <1>1 DEF s
    <2> HIDE DEF gasUsd
    <2>8. Gross(inp) - Costs(inp, s) <= Cash(o)
      BY <1>1, <1>7, <1>10, <2>1, <2>2, <2>5, <2>6, <2>7, CashCovers
    <2> QED  BY <1>1, <2>4, <2>8
  <1>14. Priced(o)  BY <1>1, <1>4, <1>11, <1>12, <1>13 DEF Priced
  <1> QED  BY <1>14 DEF o

(***************************************************************************)
(* The invariant: results are opportunities of the scan they were found    *)
(* in, and while a scan is under way everything kept is of earlier scans.  *)
(***************************************************************************)
IsOpportunity(o) ==
  o = [cand |-> o.cand, buy |-> o.buy, sell |-> o.sell, gas |-> o.gas, funding |-> o.funding,
       loanFee |-> o.loanFee, net |-> o.net, worst |-> o.worst, score |-> o.score,
       sized |-> o.sized, read |-> o.read, safe |-> o.safe, live |-> o.live, scan |-> o.scan]

OfScan(S, n) == \A o \in S : IsOpportunity(o) /\ o.scan = n

WorkOf(W, R, n) ==
  /\ W = [c \in R |-> W[c]]
  /\ \A c \in R : OfScan(W[c].best, n)

KeptInv ==
  /\ scans \in Nat
  /\ latest = [c \in routes |-> latest[c]]
  /\ \A c \in routes : \A o \in latest[c] :
       /\ IsOpportunity(o)
       /\ o.scan \in Nat /\ o.scan <= scans
       /\ phase = "scanning" => o.scan < scans
  /\ phase = "scanning" => WorkOf(work, routes, scans)
  /\ phase # "scanning" => work = <<>>

IInv == KeptInv /\ OneSafePerRoute

\* An evaluation makes an opportunity of the scan it belongs to (opportunity.py, _assess).
LEMMA OpportunityShape ==
  ASSUME NEW c, NEW buy, NEW sell, NEW gas, NEW funding, NEW simulated, NEW size, NEW read,
         NEW notes
  PROVE  OfScan({Opportunity(c, buy, sell, gas, funding, simulated, size, read, notes)}, scans)
  BY DEF Opportunity, OfScan, IsOpportunity

\* Ending one size of an evaluation keeps the best of its results (opportunity.py, evaluate).
LEMMA FinishedKeeps ==
  ASSUME WorkOf(work, routes, scans), NEW c \in routes, NEW result, OfScan(result, scans),
         Finished(c, result)
  PROVE  WorkOf(work', routes, scans)
  <1> DEFINE best == IF work[c].best = {} \/ (Known(result) /\ Beats(The(result), The(work[c].best)))
                     THEN result ELSE work[c].best
             next == IF Len(work[c].sizes) > 1 THEN Quoting(Tail(work[c].sizes), {}, best)
                                               ELSE Answered(best)
  <1>1. work' = [work EXCEPT ![c] = next]  BY DEF Finished
  <1>2. OfScan(best, scans)
    <2>1. OfScan(work[c].best, scans)  BY DEF WorkOf
    <2> QED  BY <2>1
  <1>3. next.best = best
    <2> HIDE DEF best
    <2> QED  BY DEF Quoting, Answered
  <1> HIDE DEF best, next
  <1>4. work'[c].best = best  BY <1>1, <1>3 DEF WorkOf
  <1>5. \A d \in routes : d # c => work'[d] = work[d]  BY <1>1 DEF WorkOf
  <1>6. work' = [d \in routes |-> work'[d]]  BY <1>1 DEF WorkOf
  <1>7. ASSUME NEW d \in routes PROVE OfScan(work'[d].best, scans)
    <2>1. CASE d = c  BY <2>1, <1>2, <1>4
    <2>2. CASE d # c  BY <2>2, <1>5 DEF WorkOf
    <2> QED  BY <2>1, <2>2
  <1> QED  BY <1>6, <1>7 DEF WorkOf

\* Everything but the work of one candidate stays: the step of an evaluation.
Evaluating ==
  /\ UNCHANGED <<routes, document, place, phase, latest, handed, scans, changes>>
  /\ WorkOf(work', routes, scans)

\* Quotes lead to a result or, for a flash loan, to the simulation (opportunity.py, evaluate).
LEMMA TakesQuotesKeeps ==
  ASSUME WorkOf(work, routes, scans), NEW c \in routes,
         NEW buy, NEW sell, NEW gas, NEW funding, TakesQuotes(c, buy, sell, gas, funding)
  PROVE  WorkOf(work', routes, scans)
  <1> DEFINE k    == work[c]
             next == [at |-> "simulating", sizes |-> k.sizes, notes |-> k.notes,
                      best |-> k.best, p |-> k.p, s |-> document, buy |-> buy,
                      sell |-> sell, gas |-> gas]
             made == {Opportunity(c, buy, sell, gas, funding, FALSE, Head(k.sizes),
                                  [p |-> k.p, s |-> document], k.notes)}
  <1>1. CASE IsFlash(c)
    <2>1. work' = [work EXCEPT ![c] = next]  BY <1>1 DEF TakesQuotes
    <2>2. next.best = work[c].best  OBVIOUS
    <2> HIDE DEF next
    <2>3. ASSUME NEW d \in routes PROVE work'[d].best = work[d].best
      BY <2>1, <2>2 DEF WorkOf
    <2>4. work' = [d \in routes |-> work'[d]]  BY <2>1 DEF WorkOf
    <2> QED  BY <2>3, <2>4 DEF WorkOf
  <1>2. CASE ~IsFlash(c)
    <2>1. Finished(c, made)  BY <1>2 DEF TakesQuotes
    <2>2. OfScan(made, scans)  BY OpportunityShape
    <2> QED  BY <2>1, <2>2, FinishedKeeps
  <1> QED  BY <1>1, <1>2

\* The three steps of an evaluation only touch the work (opportunity.py, evaluate).
LEMMA EvaluationSteps ==
  ASSUME KeptInv, NEW c \in DOMAIN work, QuotesArrive(c) \/ QuoteFails(c) \/ Simulated(c)
  PROVE  phase = "scanning" /\ c \in routes /\ Evaluating
  <1>1. phase = "scanning"
    <2>1. DOMAIN <<>> = {}  OBVIOUS
    <2> QED  BY <2>1 DEF KeptInv
  <1>2. WorkOf(work, routes, scans)  BY <1>1 DEF KeptInv
  <1>3. c \in routes  BY <1>2 DEF WorkOf
  <1>4. CASE QuoteFails(c)
    <2>1. OfScan({}, scans)  BY DEF OfScan
    <2>2. Finished(c, {})  BY <1>4 DEF QuoteFails
    <2>3. WorkOf(work', routes, scans)  BY <1>2, <1>3, <2>1, <2>2, FinishedKeeps
    <2> QED  BY <1>1, <1>3, <1>4, <2>3 DEF QuoteFails, Evaluating
  <1>5. CASE Simulated(c)
    <2>1. PICK passed \in BOOLEAN, late \in {0, 1} :
            Finished(c, {Opportunity(c, Older(work[c].buy, late), Older(work[c].sell, late),
                                     work[c].gas, 0, passed, Head(work[c].sizes),
                                     [p |-> work[c].p, s |-> work[c].s], work[c].notes)})
      BY <1>5 DEF Simulated
    <2>2. WorkOf(work', routes, scans)
      BY <1>2, <1>3, <2>1, OpportunityShape, FinishedKeeps
    <2> QED  BY <1>1, <1>3, <1>5, <2>2 DEF Simulated, Evaluating
  <1>6. CASE QuotesArrive(c)
    <2>1. \E buy, sell, gas, funding : TakesQuotes(c, buy, sell, gas, funding)
      BY <1>6 DEF QuotesArrive
    <2>2. WorkOf(work', routes, scans)  BY <1>2, <1>3, <2>1, TakesQuotesKeeps
    <2> QED  BY <1>1, <1>3, <1>6, <2>2 DEF QuotesArrive, Evaluating
  <1> QED  BY <1>4, <1>5, <1>6

(***************************************************************************)
(* One executable variant per route                                        *)
(***************************************************************************)
\* The variants of a route are the same set for each of its members, so at most one of them
\* is the one chosen (opportunity.py, _annotate_alternatives).
LEMMA OneChosen ==
  ASSUME NEW c \in routes, NEW d \in routes, SameRoute(c, d),
         ChosenReal(Variants(c)) = c, ChosenReal(Variants(d)) = d
  PROVE  c = d
  <1>1. Variants(c) = Variants(d)  BY DEF Variants, SameRoute
  <1> QED  BY <1>1

\* What the end of a scan keeps of a candidate: this scan's result, or what was there.
LEMMA KeptOne ==
  ASSUME KeptInv, phase = "scanning", NEW c \in routes, Known(Result(c))
  PROVE  /\ IsOpportunity(Kept(c)) /\ Kept(c).scan = scans
         /\ Kept(c).safe => ChosenReal(Variants(c)) = c
  <1> DEFINE o == The(Result(c))
  <1>1. o \in work[c].best  BY DEF Known, The, Result
  <1>2. IsOpportunity(o) /\ o.scan = scans  BY <1>1 DEF KeptInv, WorkOf, OfScan
  <1> DEFINE chosen == ChosenReal(Variants(c)) = c
  <1>3. Kept(c) = [o EXCEPT !.safe = o.safe /\ chosen]  BY DEF Kept, Annotated
  <1> HIDE DEF o, chosen
  <1>4. /\ Kept(c).scan = o.scan /\ Kept(c).safe = (o.safe /\ chosen)
        /\ IsOpportunity(Kept(c))
    BY <1>2, <1>3 DEF IsOpportunity
  <1>5. Kept(c).safe => chosen
    <2>1. SUFFICES ASSUME Kept(c).safe PROVE chosen  OBVIOUS
    <2>2. o.safe /\ chosen  BY <1>4, <2>1
    <2> QED  BY <2>2
  <1> QED  BY <1>2, <1>4, <1>5 DEF chosen

\* The end of a scan.
LEMMA ScanEndsKeeps == IInv /\ ScanEnds => IInv'
  <1> SUFFICES ASSUME IInv, ScanEnds PROVE IInv'  OBVIOUS
  <1>1. phase = "scanning" /\ phase' = "saving" /\ work' = <<>>
        /\ routes' = routes /\ scans' = scans /\ KeptInv
    BY DEF ScanEnds, IInv
  <1>2. latest' = [c \in routes |-> IF Known(Result(c)) THEN {Kept(c)} ELSE latest[c]]
    BY DEF ScanEnds
  <1>3. ASSUME NEW c \in routes, NEW o \in latest'[c]
        PROVE  \/ /\ IsOpportunity(o) /\ o.scan = scans
                  /\ o.safe => ChosenReal(Variants(c)) = c
               \/ o \in latest[c] /\ o.scan < scans /\ IsOpportunity(o) /\ o.scan \in Nat
    <2>1. CASE Known(Result(c))
      <3>1. o = Kept(c)  BY <1>2, <2>1
      <3> QED  BY <1>1, <2>1, <3>1, KeptOne
    <2>2. CASE ~Known(Result(c))
      <3>1. o \in latest[c]  BY <1>2, <2>2
      <3> QED  BY <1>1, <3>1 DEF KeptInv
    <2> QED  BY <2>1, <2>2
  <1>4. KeptInv'
    <2>1. scans \in Nat  BY <1>1 DEF KeptInv
    <2>2. \A c \in routes : \A o \in latest'[c] :
            IsOpportunity(o) /\ o.scan \in Nat /\ o.scan <= scans
      BY <1>3, <2>1
    <2>3. latest' = [c \in routes |-> latest'[c]]  BY <1>2
    <2> QED  BY <1>1, <2>1, <2>2, <2>3 DEF KeptInv
  <1>5. OneSafePerRoute'
    <2> SUFFICES ASSUME NEW c \in routes, NEW d \in routes,
                        NEW o \in latest'[c], NEW q \in latest'[d],
                        SameRoute(c, d), o.safe, q.safe, o.scan = q.scan
                 PROVE  c = d
      BY <1>1 DEF OneSafePerRoute
    <2>1. scans \in Nat  BY <1>1 DEF KeptInv
    <2>2. CASE o.scan = scans
      <3>1. ~(o.scan < scans) /\ ~(q.scan < scans)  BY <2>1, <2>2
      <3>2. ChosenReal(Variants(c)) = c  BY <1>3, <3>1
      <3>3. ChosenReal(Variants(d)) = d  BY <1>3, <3>1
      <3> QED  BY <3>2, <3>3, OneChosen
    <2>3. CASE o.scan # scans
      <3>1. o \in latest[c]  BY <1>3, <2>3
      <3>2. q \in latest[d]  BY <1>3, <2>3
      <3> QED  BY <3>1, <3>2 DEF IInv, OneSafePerRoute
    <2> QED  BY <2>2, <2>3
  <1> QED  BY <1>4, <1>5 DEF IInv

\* The beginning of a scan: all that is kept is of an earlier one from now on.
LEMMA ScanBeginsKeeps == IInv /\ ScanBegins => IInv'
  <1> SUFFICES ASSUME IInv, ScanBegins PROVE IInv'  OBVIOUS
  <1>1. /\ phase' = "scanning" /\ scans' = scans + 1 /\ routes' = routes /\ latest' = latest
        /\ work' = [c \in routes |-> Started(c)] /\ KeptInv /\ scans \in Nat
    BY DEF ScanBegins, IInv, KeptInv
  <1>2. ASSUME NEW c PROVE Started(c).best = {}
    BY DEF Started, Quoting, Answered
  <1>3. WorkOf(work', routes, scans')  BY <1>1, <1>2 DEF WorkOf, OfScan
  <1>4. KeptInv'  BY <1>1, <1>3 DEF KeptInv
  <1>5. OneSafePerRoute'  BY <1>1 DEF IInv, OneSafePerRoute
  <1> QED  BY <1>4, <1>5 DEF IInv

\* Expiry is a change of one field.
LEMMA Dimmed ==
  ASSUME NEW o, IsOpportunity(o)
  PROVE  LET e == [o EXCEPT !.live = FALSE]
         IN  e.scan = o.scan /\ e.safe = o.safe /\ IsOpportunity(e)
  <1> DEFINE e == [o EXCEPT !.live = FALSE]
  <1>1. DOMAIN o = {"cand", "buy", "sell", "gas", "funding", "loanFee", "net", "worst",
                    "score", "sized", "read", "safe", "live", "scan"}
    BY DEF IsOpportunity
  <1>2. e = [f \in DOMAIN o |-> IF f = "live" THEN FALSE ELSE o[f]]
    OBVIOUS
  <1> HIDE DEF e
  <1>3. e.scan = o.scan /\ e.safe = o.safe  BY <1>1, <1>2
  <1>4. IsOpportunity(e)  BY <1>1, <1>2 DEF IsOpportunity
  <1> QED  BY <1>3, <1>4 DEF e

\* Expiry ends an opportunity's life and changes nothing else of it.
LEMMA ExpiresKeeps == ASSUME NEW c \in routes PROVE IInv /\ Expires(c) => IInv'
  <1> SUFFICES ASSUME IInv, Expires(c) PROVE IInv'  OBVIOUS
  <1>1. UNCHANGED <<routes, phase, work, scans>> /\ KeptInv  BY DEF Expires, IInv
  <1>2. PICK o \in latest[c] : latest' = [latest EXCEPT ![c] = {[o EXCEPT !.live = FALSE]}]
    BY DEF Expires
  <1>3. IsOpportunity(o) /\ o.scan \in Nat /\ o.scan <= scans
        /\ (phase = "scanning" => o.scan < scans)
    BY <1>1 DEF KeptInv
  <1> DEFINE e == [o EXCEPT !.live = FALSE]
  <1>4. e.scan = o.scan /\ e.safe = o.safe /\ IsOpportunity(e)  BY <1>3, Dimmed
  <1> HIDE DEF e
  <1>5. latest' = [d \in routes |-> IF d = c THEN {e} ELSE latest[d]]
    BY <1>1, <1>2 DEF KeptInv, e
  <1>6. KeptInv'
    <2>1. \A d \in routes : \A x \in latest'[d] :
            /\ IsOpportunity(x) /\ x.scan \in Nat /\ x.scan <= scans
            /\ phase = "scanning" => x.scan < scans
      BY <1>1, <1>3, <1>4, <1>5 DEF KeptInv
    <2>2. latest' = [d \in routes |-> latest'[d]]  BY <1>5
    <2> QED  BY <1>1, <2>1, <2>2 DEF KeptInv
  <1>7. OneSafePerRoute'
    <2>1. \A d \in routes : \A x \in latest'[d] :
            \E y \in latest[d] : y.scan = x.scan /\ y.safe = x.safe
      BY <1>4, <1>5
    <2> QED  BY <1>1, <2>1 DEF IInv, OneSafePerRoute
  <1> QED  BY <1>6, <1>7 DEF IInv

\* The invariant holds at first and every step keeps it.
LEMMA IInvAlways == Spec => []IInv
  <1>1. Init => IInv  BY DEF Init, IInv, KeptInv, OneSafePerRoute
  <1>2. IInv /\ [Next]_vars => IInv'
    <2> SUFFICES ASSUME IInv, [Next]_vars PROVE IInv'  OBVIOUS
    <2>1. CASE ScanBegins  BY <2>1, ScanBeginsKeeps
    <2>2. CASE ScanEnds  BY <2>2, ScanEndsKeeps
    <2>3. CASE HandsOver  BY <2>3 DEF HandsOver, IInv, KeptInv, OneSafePerRoute
    <2>4. ASSUME NEW c \in DOMAIN work, QuotesArrive(c) \/ QuoteFails(c) \/ Simulated(c)
          PROVE  IInv'
      <3>1. phase = "scanning" /\ Evaluating  BY <2>4, EvaluationSteps DEF IInv
      <3> QED  BY <3>1 DEF Evaluating, IInv, KeptInv, OneSafePerRoute
    <2>5. ASSUME NEW c \in routes, Expires(c) PROVE IInv'  BY <2>5, ExpiresKeeps
    <2>6. CASE WorldChanges  BY <2>6 DEF WorldChanges, IInv, KeptInv, OneSafePerRoute
    <2>7. CASE SettingsChange  BY <2>7 DEF SettingsChange, IInv, KeptInv, OneSafePerRoute
    <2>8. CASE UNCHANGED vars  BY <2>8 DEF vars, IInv, KeptInv, OneSafePerRoute
    <2> QED  BY <2>1, <2>2, <2>3, <2>4, <2>5, <2>6, <2>7, <2>8 DEF Next
  <1> QED  BY <1>1, <1>2, PTL DEF Spec

\* One scan leaves at most one executable variant of a route, whatever the markets answer
\* (opportunity.py, _annotate_alternatives).
THEOREM OneVariant == Spec => []OneSafePerRoute
  <1>1. IInv => OneSafePerRoute  BY DEF IInv
  <1> QED  BY <1>1, IInvAlways, PTL

(***************************************************************************)
(* The quotes of a candidate                                               *)
(***************************************************************************)
\* A venue's answer is a leg whose numbers are numbers.
LEMMA LegIsNumbers ==
  ASSUME NEW v \in Venues, NEW a \in Answers[v].buy \cup Answers[v].sell, NEW size \in Int
  PROVE  LET leg == Leg(v, a, size)
         IN  /\ LegNumbers(leg)
             /\ leg.kind = KindOf[v] /\ leg.chain = ChainOf[v]
             /\ leg.ref = a.ref /\ leg.avg = a.avg /\ leg.feePct = a.feePct
  <1> DEFINE leg == Leg(v, a, size)
  <1>1. /\ a.ref \in Nat /\ a.avg \in Nat /\ a.impact \in Nat
        /\ a.feePct \subseteq Nat /\ a.fee \subseteq Nat
        /\ a.takerPct \in Int /\ a.slippage \in Int /\ a.age \in Int
    BY AnswersAssumption
  <1>2. /\ leg.base = (IF a.short THEN size - 1 ELSE size)
        /\ leg.ref = a.ref /\ leg.avg = a.avg /\ leg.impact = a.impact
        /\ leg.feePct = a.feePct /\ leg.fee = a.fee /\ leg.takerPct = a.takerPct
        /\ leg.slippage = a.slippage /\ leg.age = a.age
        /\ leg.kind = KindOf[v] /\ leg.chain = ChainOf[v]
        /\ {"base", "ref", "avg", "impact", "feePct", "fee", "takerPct", "slippage", "age",
            "kind"} \subseteq DOMAIN leg
    BY DEF Leg
  <1> HIDE DEF leg
  <1>3. leg.base \in Int  BY <1>2
  <1>4. LegNumbers(leg)  BY <1>1, <1>2, <1>3 DEF LegNumbers
  <1> QED  BY <1>2, <1>4 DEF leg

\* Quotes that have aged differ in nothing else.
LEMMA OlderNumbers ==
  ASSUME NEW leg, NEW late \in {0, 1}, LegNumbers(leg)
  PROVE  LET q == Older(leg, late)
         IN  /\ LegNumbers(q)
             /\ q.kind = leg.kind /\ q.ref = leg.ref /\ q.avg = leg.avg /\ q.feePct = leg.feePct
  <1> DEFINE q == Older(leg, late)
  <1>1. q = [f \in DOMAIN leg |-> IF f = "age" THEN leg.age + late ELSE leg[f]]
    BY DEF Older, LegNumbers
  <1> HIDE DEF q
  <1>2. DOMAIN q = DOMAIN leg  BY <1>1
  <1>3. /\ q.base = leg.base /\ q.ref = leg.ref /\ q.avg = leg.avg /\ q.impact = leg.impact
        /\ q.feePct = leg.feePct /\ q.fee = leg.fee /\ q.takerPct = leg.takerPct
        /\ q.slippage = leg.slippage /\ q.kind = leg.kind /\ q.age = leg.age + late
    BY <1>1 DEF LegNumbers
  <1>4. q.age \in Int  BY <1>3 DEF LegNumbers
  <1>5. LegNumbers(q)  BY <1>2, <1>3, <1>4 DEF LegNumbers
  <1> QED  BY <1>3, <1>5 DEF q

\* A carry sells the perpetual, a loan is taken on a chain, and candidates are of venues.
LEMMA CandidateKinds ==
  ASSUME NEW c \in AllCandidates
  PROVE  /\ c.buy \in Venues /\ c.sell \in Venues
         /\ IsCarry(c) => KindOf[c.sell] = "perp"
         /\ IsFlash(c) => ChainOf[c.buy] # {}
  <1>1. c \in [strategy : Strategies, buy : Venues, sell : Venues] /\ Fits(c.strategy, c.buy, c.sell)
    BY DEF AllCandidates
  <1>2. ASSUME IsCarry(c) PROVE KindOf[c.sell] = "perp"
    <2>1. c.strategy \in {"spot_perp", "funding", "basis"}  BY <1>2 DEF IsCarry, CarryStrategies
    <2>2. Kinds(c.strategy) = <<"cex", "perp">>  BY <2>1 DEF Kinds
    <2>3. <<KindOf[c.buy], KindOf[c.sell]>> = Kinds(c.strategy)
      BY <1>1, <1>2 DEF Fits, IsCarry
    <2> QED  BY <2>2, <2>3
  <1>3. IsFlash(c) => ChainOf[c.buy] # {}  BY <1>1 DEF Fits, SameChain, IsFlash
  <1> QED  BY <1>1, <1>2, <1>3

\* An assessment of gas (gas_guard.py, assess).
LEMMA GasAssessed ==
  ASSUME NEW snap, \A x \in snap : x.price \in Nat /\ x.priority \in Nat /\ x.l1 \in Nat,
         NEW baseline, NEW limit \in Nat, NEW gross, NEW maxGas, NEW g, g.stress \in Nat
  PROVE  LET r == GasAssess(snap, baseline, limit, gross, maxGas, g)
         IN  /\ r.expected \in Nat /\ r.stress \in Nat /\ r.priority \in Nat
             /\ g.stress >= 1000 => r.expected <= r.stress
  <1> DEFINE r == GasAssess(snap, baseline, limit, gross, maxGas, g)
             x == The(snap)
             cost == GasCost(x, limit)
  <1>1. CASE ~Known(snap)
    <2>1. r.expected = 0 /\ r.stress = 0 /\ r.priority = 0  BY <1>1 DEF GasAssess, UnknownGas
    <2> HIDE DEF r
    <2> QED  BY <2>1 DEF r
  <1>2. CASE Known(snap)
    <2>1. x.price \in Nat /\ x.priority \in Nat /\ x.l1 \in Nat  BY <1>2, TheIn
    <2>2. r.expected = cost /\ r.stress = Of(cost, g.stress) /\ r.priority = x.priority * limit
      BY <1>2 DEF GasAssess
    <2>3. cost = (IF x.solana THEN x.priority ELSE x.price) * limit + x.l1  BY DEF GasCost
    <2> HIDE DEF r, cost, x
    <2>4. x.priority * limit \in Nat /\ x.price * limit \in Nat  BY <2>1
    <2>5. cost \in Nat
      <3>1. CASE x.solana  BY <2>1, <2>3, <2>4, <3>1
      <3>2. CASE ~x.solana  BY <2>1, <2>3, <2>4, <3>2
      <3> QED  BY <3>1, <3>2
    <2>6. Of(cost, g.stress) \in Nat /\ (g.stress >= 1000 => cost <= Of(cost, g.stress))
      BY <2>5, OfNat, SharesAbove
    <2> QED  BY <2>2, <2>4, <2>5, <2>6 DEF r
  <1> QED  BY <1>1, <1>2

\* The gas of a candidate, when its quotes are in (opportunity.py, _assess).
LEMMA GasOfCandidate ==
  ASSUME NEW c \in AllCandidates, NEW buy, NEW sell, NEW size,
         buy.kind = KindOf[c.buy], buy.chain = ChainOf[c.buy],
         sell.kind = KindOf[c.sell], sell.chain = ChainOf[c.sell],
         NEW n \in DOMAIN WorldOf, NEW d \in DOMAIN SettingsOf
  PROVE  LET gas == GasOfTrade(c, buy, sell, size, WorldOf[n], SettingsOf[d])
         IN  /\ GasNumbers(gas)
             /\ Known(gas) => IsFlash(c) \/ buy.kind = "dex" \/ sell.kind = "dex"
             /\ OrdinaryRates => \A g \in gas : g.expected <= g.stress
  <1> DEFINE w == WorldOf[n]
             s == SettingsOf[d]
             gross == (sell.ref - buy.ref) * size
             gas == GasOfTrade(c, buy, sell, size, w, s)
             Sound(r) == /\ r.expected \in Nat /\ r.stress \in Nat /\ r.priority \in Nat
                         /\ OrdinaryRates => r.expected <= r.stress
             loan == GasAssess(w.gas[The(buy.chain)], w.baseline[The(buy.chain)], FlashGas, gross,
                               s.f.maxGas, s.g)
             b == LegGas(buy, gross, w, s)
             v == LegGas(sell, gross, w, s)
  <1>1. s.g.stress \in Nat /\ (OrdinaryRates => s.g.stress >= 1000)
    BY SettingsNumbers DEF Document, OrdinaryRates
  <1>2. TxGas \in Nat /\ FlashGas \in Nat  BY AmountsAssumption
  <1>3. /\ c.buy \in Venues /\ c.sell \in Venues
        /\ IsFlash(c) => ChainOf[c.buy] # {}
        /\ KindOf[c.buy] = "dex" => ChainOf[c.buy] # {}
        /\ KindOf[c.sell] = "dex" => ChainOf[c.sell] # {}
    BY CandidateKinds, WorldAssumption
  <1>4. ASSUME NEW u \in Venues, ChainOf[u] # {}
        PROVE  \A x \in w.gas[The(ChainOf[u])] :
                 x.price \in Nat /\ x.priority \in Nat /\ x.l1 \in Nat
    BY <1>4, WorldAssumption
  <1> HIDE DEF w, s, gross
  <1>5. IsFlash(c) => Sound(loan)
    <2> SUFFICES ASSUME IsFlash(c) PROVE Sound(loan)  OBVIOUS
    <2>1. \A x \in w.gas[The(buy.chain)] : x.price \in Nat /\ x.priority \in Nat /\ x.l1 \in Nat
      BY <1>3, <1>4
    <2> QED  BY <1>1, <1>2, <2>1, GasAssessed
  <1>6. buy.kind = "dex" => Sound(b)
    <2> SUFFICES ASSUME buy.kind = "dex" PROVE Sound(b)  OBVIOUS
    <2>1. \A x \in w.gas[The(buy.chain)] : x.price \in Nat /\ x.priority \in Nat /\ x.l1 \in Nat
      BY <1>3, <1>4
    <2> QED  BY <1>1, <1>2, <2>1, GasAssessed DEF LegGas
  <1>7. sell.kind = "dex" => Sound(v)
    <2> SUFFICES ASSUME sell.kind = "dex" PROVE Sound(v)  OBVIOUS
    <2>1. \A x \in w.gas[The(sell.chain)] : x.price \in Nat /\ x.priority \in Nat /\ x.l1 \in Nat
      BY <1>3, <1>4
    <2> QED  BY <1>1, <1>2, <2>1, GasAssessed DEF LegGas
  <1> DEFINE both == MergeGas(b, v)
  <1>8. gas = CASE IsFlash(c) -> {loan}
                [] ~IsFlash(c) /\ buy.kind = "dex" /\ sell.kind = "dex" -> {both}
                [] ~IsFlash(c) /\ buy.kind = "dex" /\ sell.kind # "dex" -> {b}
                [] ~IsFlash(c) /\ buy.kind # "dex" /\ sell.kind = "dex" -> {v}
                [] OTHER -> {}
    BY DEF GasOfTrade, gross
  <1> HIDE DEF gas, loan, b, v
  <1>9. Sound(b) /\ Sound(v) => Sound(both)
    <2>1. /\ both.expected = b.expected + v.expected /\ both.stress = b.stress + v.stress
          /\ both.priority = b.priority + v.priority
      BY DEF MergeGas
    <2> HIDE DEF both
    <2> QED  BY <2>1
  <1> HIDE DEF both, Sound
  <1>10. \A g \in gas : Sound(g)
    <2>1. CASE IsFlash(c)  BY <1>5, <1>8, <2>1
    <2>2. CASE ~IsFlash(c) /\ buy.kind = "dex" /\ sell.kind = "dex"
      BY <1>6, <1>7, <1>8, <1>9, <2>2
    <2>3. CASE ~IsFlash(c) /\ buy.kind = "dex" /\ sell.kind # "dex"  BY <1>6, <1>8, <2>3
    <2>4. CASE ~IsFlash(c) /\ buy.kind # "dex" /\ sell.kind = "dex"  BY <1>7, <1>8, <2>4
    <2>5. CASE ~IsFlash(c) /\ buy.kind # "dex" /\ sell.kind # "dex"  BY <1>8, <2>5
    <2> QED  BY <2>1, <2>2, <2>3, <2>4, <2>5
  <1>11. Known(gas) => IsFlash(c) \/ buy.kind = "dex" \/ sell.kind = "dex"
    BY <1>8 DEF Known
  <1>12. GasNumbers(gas) /\ (OrdinaryRates => \A g \in gas : g.expected <= g.stress)
    BY <1>10 DEF GasNumbers, Sound
  <1> QED  BY <1>11, <1>12 DEF gas, w, s

\* Two answers make the quotes of a candidate.
LEMMA AnswersQuote ==
  ASSUME NEW c \in AllCandidates, NEW b \in Answers[c.buy].buy, NEW v \in Answers[c.sell].sell,
         NEW size \in Int, place \in DOMAIN WorldOf, document \in DOMAIN SettingsOf
  PROVE  LET buy  == Leg(c.buy, b, size)
             sell == Leg(c.sell, v, size)
         IN  Quoted(c, buy, sell, GasOfTrade(c, buy, sell, size, world, settings))
  <1> DEFINE buy  == Leg(c.buy, b, size)
             sell == Leg(c.sell, v, size)
             gas  == GasOfTrade(c, buy, sell, size, world, settings)
  <1>1. c.buy \in Venues /\ c.sell \in Venues /\ (IsCarry(c) => KindOf[c.sell] = "perp")
    BY CandidateKinds
  <1>2. LegNumbers(buy) /\ buy.kind = KindOf[c.buy] /\ buy.chain = ChainOf[c.buy]
    BY <1>1, LegIsNumbers
  <1>3. /\ LegNumbers(sell) /\ sell.kind = KindOf[c.sell] /\ sell.chain = ChainOf[c.sell]
        /\ sell.ref = v.ref /\ sell.avg = v.avg /\ sell.feePct = v.feePct
    BY <1>1, LegIsNumbers
  <1> HIDE DEF buy, sell
  <1>4. /\ GasNumbers(gas)
        /\ Known(gas) => IsFlash(c) \/ buy.kind = "dex" \/ sell.kind = "dex"
        /\ OrdinaryRates => \A g \in gas : g.expected <= g.stress
    BY <1>2, <1>3, GasOfCandidate DEF world, settings
  <1> HIDE DEF gas
  <1>5. OrdinaryRates => /\ \A rate \in sell.feePct : rate <= 1000
                         /\ IsCarry(c) => sell.avg <= sell.ref
    BY <1>1, <1>3 DEF OrdinaryRates
  <1>6. Quoted(c, buy, sell, gas)  BY <1>2, <1>3, <1>4, <1>5 DEF Quoted
  <1> QED  BY <1>6 DEF buy, sell, gas

\* Quotes that have aged are still the candidate's.
LEMMA OlderQuotes ==
  ASSUME NEW c, NEW buy, NEW sell, NEW gas, Quoted(c, buy, sell, gas), NEW late \in {0, 1}
  PROVE  Quoted(c, Older(buy, late), Older(sell, late), gas)
  <1> DEFINE b == Older(buy, late)
             v == Older(sell, late)
  <1>1. LegNumbers(b) /\ b.kind = buy.kind  BY OlderNumbers DEF Quoted
  <1>2. LegNumbers(v) /\ v.kind = sell.kind /\ v.ref = sell.ref /\ v.avg = sell.avg
        /\ v.feePct = sell.feePct
    BY OlderNumbers DEF Quoted
  <1> HIDE DEF b, v
  <1>3. Quoted(c, b, v, gas)  BY <1>1, <1>2 DEF Quoted
  <1> QED  BY <1>3 DEF b, v

(***************************************************************************)
(* The numbers of everything kept                                          *)
(***************************************************************************)
\* What is known of an evaluation under way.
Evaluated(c, k) ==
  /\ \A o \in k.best : Priced(o)
  /\ k.at # "answered" => /\ k.sizes \in Seq(Int) /\ k.sizes # <<>>
                          /\ k.p \in DOMAIN WorldOf /\ k.s \in DOMAIN SettingsOf
  /\ k.at = "simulating" => Quoted(c, k.buy, k.sell, k.gas)

InForce == place \in DOMAIN WorldOf /\ document \in DOMAIN SettingsOf

KeptPriced ==
  /\ routes \subseteq AllCandidates
  /\ \A c \in routes : IsFiniteSet(latest[c]) /\ \A o \in latest[c] : Priced(o)

WorkPriced == \A c \in DOMAIN work : Evaluated(c, work[c])

PricedInv == InForce /\ KeptPriced /\ WorkPriced

\* An evaluation starts at sizes that are numbers, or has no result (opportunity.py, evaluate).
LEMMA StartedPriced ==
  ASSUME NEW c, InForce
  PROVE  Evaluated(c, Started(c))
  <1> DEFINE sizes == Sizes(c, world.p, settings)
             notes == SizeReasons(c, world.p, settings)
  <1>1. sizes \in Seq(Int)  BY SizesAreNumbers DEF InForce, world, settings
  <1>2. Started(c) = IF sizes = <<>> THEN Answered({}) ELSE Quoting(sizes, notes, {})
    BY DEF Started
  <1> HIDE DEF sizes, notes
  <1>3. CASE sizes = <<>>
    <2>1. Started(c) = [at |-> "answered", best |-> {}]  BY <1>2, <1>3 DEF Answered
    <2> QED  BY <2>1 DEF Evaluated
  <1>4. CASE sizes # <<>>
    <2>1. Started(c) = [at |-> "quoting", sizes |-> sizes, notes |-> notes, best |-> {},
                        p |-> place, s |-> document]
      BY <1>2, <1>4 DEF Quoting
    <2> QED  BY <1>1, <1>4, <2>1 DEF Evaluated, InForce
  <1> QED  BY <1>3, <1>4

\* The end of one size leaves the rest of a ladder and the best of the results.
LEMMA FinishedPriced ==
  ASSUME WorkOf(work, routes, scans), InForce, WorkPriced, NEW c \in routes,
         work[c].at # "answered", NEW result, \A o \in result : Priced(o), Finished(c, result)
  PROVE  WorkPriced'
  <1> DEFINE k    == work[c]
             best == IF k.best = {} \/ (Known(result) /\ Beats(The(result), The(k.best)))
                     THEN result ELSE k.best
             next == IF Len(k.sizes) > 1 THEN Quoting(Tail(k.sizes), {}, best)
                                         ELSE Answered(best)
  <1>1. work' = [work EXCEPT ![c] = next]  BY DEF Finished
  <1>2. DOMAIN work = routes  BY DEF WorkOf
  <1>3. Evaluated(c, k)  BY <1>2 DEF WorkPriced
  <1>4. \A o \in best : Priced(o)
    <2>1. \A o \in k.best : Priced(o)  BY <1>3 DEF Evaluated
    <2>2. best = result \/ best = k.best  OBVIOUS
    <2> HIDE DEF best, k
    <2> QED  BY <2>1, <2>2
  <1>5. k.sizes \in Seq(Int) /\ k.sizes # <<>>  BY <1>3 DEF Evaluated
  <1> HIDE DEF best, k
  <1>6. Evaluated(c, next)
    <2>1. CASE Len(k.sizes) > 1
      <3> DEFINE rest == Tail(k.sizes)
      <3>1. rest \in Seq(Int) /\ rest # <<>>
        <4>1. rest \in Seq(Int) /\ Len(rest) = Len(k.sizes) - 1  BY <1>5, HeadTailProperties
        <4>2. Len(k.sizes) \in Nat  BY <1>5, LenProperties
        <4> DEFINE n == Len(k.sizes)
                   m == Len(rest)
        <4>3. n \in Nat /\ n > 1 /\ m = n - 1  BY <2>1, <4>1, <4>2
        <4> HIDE DEF n, m
        <4>4. m # 0  BY <4>3
        <4>5. Len(<<>>) = 0  OBVIOUS
        <4> HIDE DEF rest
        <4> QED  BY <4>1, <4>4, <4>5, Zenon DEF m
      <3>2. next = [at |-> "quoting", sizes |-> rest, notes |-> {}, best |-> best,
                    p |-> place, s |-> document]
        BY <2>1 DEF Quoting
      <3> HIDE DEF rest, next
      <3> QED  BY <1>4, <3>1, <3>2 DEF Evaluated, InForce
    <2>2. CASE ~(Len(k.sizes) > 1)
      <3>1. next = [at |-> "answered", best |-> best]  BY <2>2 DEF Answered
      <3> HIDE DEF next
      <3> QED  BY <1>4, <3>1 DEF Evaluated
    <2> QED  BY <2>1, <2>2
  <1> HIDE DEF next
  <1>7. ASSUME NEW d \in DOMAIN work' PROVE Evaluated(d, work'[d])
    <2>1. d \in DOMAIN work  BY <1>1
    <2>2. CASE d = c  BY <1>1, <1>6, <2>1, <2>2
    <2>3. CASE d # c
      <3>1. work'[d] = work[d]  BY <1>1, <2>1, <2>3
      <3> QED  BY <2>1, <3>1 DEF WorkPriced
    <2> QED  BY <2>2, <2>3
  <1> QED  BY <1>7 DEF WorkPriced

\* Quotes that came are assessed, or a loan on them is simulated (opportunity.py, evaluate).
LEMMA QuotesPriced ==
  ASSUME WorkOf(work, routes, scans), PricedInv, NEW c \in routes, QuotesArrive(c)
  PROVE  WorkPriced'
  <1>1. DOMAIN work = routes /\ c \in AllCandidates
    BY DEF WorkOf, PricedInv, KeptPriced
  <1>2. Evaluated(c, work[c]) /\ InForce  BY <1>1 DEF PricedInv, WorkPriced
  <1>3. work[c].at = "quoting"  BY DEF QuotesArrive
  <1>4. /\ work[c].sizes \in Seq(Int) /\ work[c].sizes # <<>>
        /\ work[c].p \in DOMAIN WorldOf /\ work[c].s \in DOMAIN SettingsOf
    BY <1>2, <1>3 DEF Evaluated
  <1> DEFINE size == Head(work[c].sizes)
  <1>5. size \in Int  BY <1>4, HeadTailProperties
  <1>6. PICK b \in Answers[c.buy].buy, v \in Answers[c.sell].sell,
             funding \in (IF IsCarry(c) THEN Funding ELSE {0}) :
          TakesQuotes(c, Leg(c.buy, b, size), Leg(c.sell, v, size),
                      GasOfTrade(c, Leg(c.buy, b, size), Leg(c.sell, v, size), size, world,
                                 settings), funding)
    BY DEF QuotesArrive
  <1>7. funding \in Int
    <2>1. Funding \subseteq Int  BY AmountsAssumption
    <2>2. CASE IsCarry(c)  BY <2>1, <2>2
    <2>3. CASE ~IsCarry(c)  BY <2>3
    <2> QED  BY <2>2, <2>3
  <1> DEFINE buy  == Leg(c.buy, b, size)
             sell == Leg(c.sell, v, size)
             gas  == GasOfTrade(c, buy, sell, size, world, settings)
  <1>8. Quoted(c, buy, sell, gas)
    <2> HIDE DEF size
    <2> QED  BY <1>1, <1>2, <1>5, AnswersQuote DEF InForce
  <1>9. TakesQuotes(c, buy, sell, gas, funding)  BY <1>6
  <1> HIDE DEF buy, sell, gas
  <1>10. CASE IsFlash(c)
    <2> DEFINE k    == work[c]
               next == [at |-> "simulating", sizes |-> k.sizes, notes |-> k.notes,
                        best |-> k.best, p |-> k.p, s |-> document, buy |-> buy,
                        sell |-> sell, gas |-> gas]
    <2>1. work' = [work EXCEPT ![c] = next]  BY <1>9, <1>10 DEF TakesQuotes
    <2>2. /\ next.at = "simulating" /\ next.sizes = k.sizes /\ next.best = k.best
          /\ next.p = k.p /\ next.s = document /\ next.buy = buy /\ next.sell = sell
          /\ next.gas = gas
      OBVIOUS
    <2> HIDE DEF next
    <2>3. Evaluated(c, next)  BY <1>2, <1>4, <1>8, <2>2 DEF Evaluated, InForce
    <2>4. ASSUME NEW d \in DOMAIN work' PROVE Evaluated(d, work'[d])
      <3>1. d \in DOMAIN work  BY <2>1
      <3>2. CASE d = c  BY <2>1, <2>3, <3>1, <3>2
      <3>3. CASE d # c
        <4>1. work'[d] = work[d]  BY <2>1, <3>1, <3>3
        <4> QED  BY <3>1, <4>1 DEF PricedInv, WorkPriced
      <3> QED  BY <3>2, <3>3
    <2> QED  BY <2>4 DEF WorkPriced
  <1>11. CASE ~IsFlash(c)
    <2> DEFINE read  == [p |-> work[c].p, s |-> document]
               notes == work[c].notes
               o     == Opportunity(c, buy, sell, gas, funding, FALSE, size, read, notes)
    <2>1. Finished(c, {o})  BY <1>9, <1>11 DEF TakesQuotes
    <2>2. read.p \in DOMAIN WorldOf /\ read.s \in DOMAIN SettingsOf
      BY <1>2, <1>4 DEF InForce
    <2> HIDE DEF read, notes, size
    <2>3. Priced(o)  BY <1>2, <1>7, <1>8, <2>2, OpportunityPriced DEF InForce
    <2> HIDE DEF o
    <2>4. \A x \in {o} : Priced(x)  BY <2>3
    <2> QED  BY <1>2, <1>3, <2>1, <2>4, FinishedPriced DEF PricedInv
  <1> QED  BY <1>10, <1>11

\* The simulated loan is assessed on the quotes it was simulated with, however old.
LEMMA SimulatedPriced ==
  ASSUME WorkOf(work, routes, scans), PricedInv, NEW c \in routes, Simulated(c)
  PROVE  WorkPriced'
  <1>1. DOMAIN work = routes  BY DEF WorkOf
  <1>2. Evaluated(c, work[c]) /\ InForce  BY <1>1 DEF PricedInv, WorkPriced
  <1>3. work[c].at = "simulating"  BY DEF Simulated
  <1>4. /\ work[c].p \in DOMAIN WorldOf /\ work[c].s \in DOMAIN SettingsOf
        /\ Quoted(c, work[c].buy, work[c].sell, work[c].gas)
    BY <1>2, <1>3 DEF Evaluated
  <1>5. PICK passed \in BOOLEAN, late \in {0, 1} :
          Finished(c, {Opportunity(c, Older(work[c].buy, late), Older(work[c].sell, late),
                                   work[c].gas, 0, passed, Head(work[c].sizes),
                                   [p |-> work[c].p, s |-> work[c].s], work[c].notes)})
    BY DEF Simulated
  <1> DEFINE buy   == Older(work[c].buy, late)
             sell  == Older(work[c].sell, late)
             gas   == work[c].gas
             read  == [p |-> work[c].p, s |-> work[c].s]
             notes == work[c].notes
             size  == Head(work[c].sizes)
             o     == Opportunity(c, buy, sell, gas, 0, passed, size, read, notes)
  <1>6. Quoted(c, buy, sell, gas)  BY <1>4, OlderQuotes
  <1>7. read.p \in DOMAIN WorldOf /\ read.s \in DOMAIN SettingsOf  BY <1>4
  <1>8. Finished(c, {o})  BY <1>5
  <1>9. 0 \in Int  OBVIOUS
  <1> HIDE DEF buy, sell, gas, read, notes, size
  <1>10. Priced(o)  BY <1>2, <1>6, <1>7, <1>9, OpportunityPriced, Zenon DEF InForce
  <1> HIDE DEF o
  <1>11. \A x \in {o} : Priced(x)  BY <1>10
  <1> QED  BY <1>2, <1>3, <1>8, <1>11, FinishedPriced DEF PricedInv

\* What an opportunity's numbers promise does not depend on its being executable or live.
LEMMA SameNumbers ==
  ASSUME NEW o, NEW e, Priced(o), e.safe \in BOOLEAN,
         e.net = o.net, e.worst = o.worst, e.score = o.score, e.sized = o.sized,
         e.cand = o.cand, e.buy = o.buy, e.sell = o.sell, e.gas = o.gas,
         e.funding = o.funding, e.loanFee = o.loanFee, e.read = o.read
  PROVE  Priced(e)
  <1>1. Cash(e) = Cash(o)  BY DEF Cash
  <1> QED  BY <1>1 DEF Priced

\* The end of a scan keeps results and may clear the flag of some (_annotate_alternatives).
LEMMA KeptNumbers ==
  ASSUME KeptInv, WorkPriced, phase = "scanning", NEW c \in routes, Known(Result(c))
  PROVE  Priced(Kept(c))
  <1> DEFINE o == The(Result(c))
             chosen == ChosenReal(Variants(c)) = c
             e == Kept(c)
  <1>1. o \in work[c].best  BY DEF Known, The, Result
  <1>2. IsOpportunity(o)  BY <1>1 DEF KeptInv, WorkOf, OfScan
  <1>3. Priced(o)
    <2>1. c \in DOMAIN work  BY DEF KeptInv, WorkOf
    <2> QED  BY <1>1, <2>1 DEF WorkPriced, Evaluated
  <1>4. e = [o EXCEPT !.safe = o.safe /\ chosen]  BY DEF Kept, Annotated
  <1> HIDE DEF o, chosen, e
  <1>5. DOMAIN o = {"cand", "buy", "sell", "gas", "funding", "loanFee", "net", "worst",
                    "score", "sized", "read", "safe", "live", "scan"}
    BY <1>2 DEF IsOpportunity
  <1>6. /\ e.net = o.net /\ e.worst = o.worst /\ e.score = o.score /\ e.sized = o.sized
        /\ e.cand = o.cand /\ e.buy = o.buy /\ e.sell = o.sell /\ e.gas = o.gas
        /\ e.funding = o.funding /\ e.loanFee = o.loanFee /\ e.read = o.read
    BY <1>4, <1>5
  <1>7. e.safe \in BOOLEAN
    <2>1. e.safe = (o.safe /\ chosen)  BY <1>4, <1>5
    <2> QED  BY <2>1, Zenon
  <1>8. Priced(e)  BY <1>3, <1>6, <1>7, SameNumbers
  <1> QED  BY <1>8 DEF e

\* The end of a scan keeps what is promised of everything kept.
LEMMA ScanEndsPriced ==
  ASSUME KeptInv, PricedInv, ScanEnds
  PROVE  KeptPriced'
  <1>1. phase = "scanning" /\ routes' = routes  BY DEF ScanEnds
  <1>2. latest' = [c \in routes |-> IF Known(Result(c)) THEN {Kept(c)} ELSE latest[c]]
    BY DEF ScanEnds
  <1>3. KeptPriced /\ WorkPriced  BY DEF PricedInv
  <1>4. ASSUME NEW c \in routes
        PROVE  IsFiniteSet(latest'[c]) /\ \A o \in latest'[c] : Priced(o)
    <2>1. CASE Known(Result(c))
      <3>1. latest'[c] = {Kept(c)}  BY <1>2, <2>1
      <3>2. Priced(Kept(c))  BY <1>1, <1>3, <2>1, KeptNumbers
      <3>3. IsFiniteSet({Kept(c)})  BY FS_Singleton
      <3> QED  BY <3>1, <3>2, <3>3
    <2>2. CASE ~Known(Result(c))
      <3>1. latest'[c] = latest[c]  BY <1>2, <2>2
      <3> QED  BY <1>3, <3>1 DEF KeptPriced
    <2> QED  BY <2>1, <2>2
  <1> QED  BY <1>1, <1>3, <1>4 DEF KeptPriced

\* Expiry keeps it too.
LEMMA ExpiresPriced ==
  ASSUME KeptInv, KeptPriced, NEW c \in routes, Expires(c)
  PROVE  KeptPriced'
  <1>1. routes' = routes  BY DEF Expires
  <1>2. PICK o \in latest[c] : latest' = [latest EXCEPT ![c] = {[o EXCEPT !.live = FALSE]}]
    BY DEF Expires
  <1>3. IsOpportunity(o) /\ Priced(o)  BY DEF KeptInv, KeptPriced
  <1> DEFINE e == [o EXCEPT !.live = FALSE]
  <1>4. DOMAIN o = {"cand", "buy", "sell", "gas", "funding", "loanFee", "net", "worst",
                    "score", "sized", "read", "safe", "live", "scan"}
    BY <1>3 DEF IsOpportunity
  <1>5. e = [f \in DOMAIN o |-> IF f = "live" THEN FALSE ELSE o[f]]  OBVIOUS
  <1> HIDE DEF e
  <1>6. /\ e.net = o.net /\ e.worst = o.worst /\ e.score = o.score /\ e.sized = o.sized
        /\ e.cand = o.cand /\ e.buy = o.buy /\ e.sell = o.sell /\ e.gas = o.gas
        /\ e.funding = o.funding /\ e.loanFee = o.loanFee /\ e.read = o.read
        /\ e.safe = o.safe
    BY <1>4, <1>5
  <1>7. e.safe \in BOOLEAN  BY <1>3, <1>6 DEF Priced
  <1>8. Priced(e)  BY <1>3, <1>6, <1>7, SameNumbers
  <1>9. latest' = [d \in routes |-> IF d = c THEN {e} ELSE latest[d]]
    BY <1>2 DEF KeptInv, e
  <1>10. ASSUME NEW d \in routes
         PROVE  IsFiniteSet(latest'[d]) /\ \A x \in latest'[d] : Priced(x)
    <2>1. CASE d = c
      <3>1. latest'[d] = {e}  BY <1>9, <2>1
      <3>2. IsFiniteSet({e})  BY FS_Singleton
      <3> QED  BY <1>8, <3>1, <3>2
    <2>2. CASE d # c
      <3>1. latest'[d] = latest[d]  BY <1>9, <2>2
      <3> QED  BY <3>1 DEF KeptPriced
    <2> QED  BY <2>1, <2>2
  <1> QED  BY <1>1, <1>10 DEF KeptPriced

\* Nothing is promised of no work at all.
LEMMA IdlePriced == ASSUME work' = <<>> PROVE WorkPriced'
  <1>1. DOMAIN work' = {}  OBVIOUS
  <1> QED  BY <1>1 DEF WorkPriced

\* A run begins with candidates of the catalog, no results and a document and portfolio.
LEMMA InitPriced == Init => PricedInv
  <1> SUFFICES ASSUME Init PROVE PricedInv  OBVIOUS
  <1>1. InForce
    <2>1. PICK from \in Start : document = from[1] /\ place = from[2]  BY DEF Init
    <2>2. from \in (DOMAIN SettingsOf) \X (DOMAIN WorldOf)  BY StartAssumption
    <2> QED  BY <2>1, <2>2 DEF InForce
  <1>2. routes \subseteq AllCandidates
    <2>1. PICK l \in Listings : routes = CandidatesOf(l)  BY DEF Init
    <2> QED  BY <2>1 DEF CandidatesOf
  <1>3. \A c \in routes : latest[c] = {}  BY DEF Init
  <1>4. IsFiniteSet({})  BY FS_EmptySet
  <1>5. KeptPriced  BY <1>2, <1>3, <1>4 DEF KeptPriced
  <1>6. WorkPriced
    <2>1. DOMAIN <<>> = {}  OBVIOUS
    <2> QED  BY <2>1 DEF Init, WorkPriced
  <1> QED  BY <1>1, <1>5, <1>6 DEF PricedInv

\* Every step keeps the promise of all numbers.
LEMMA StepPriced == ASSUME IInv, PricedInv, [Next]_vars PROVE PricedInv'
  <1>1. KeptInv /\ InForce /\ KeptPriced /\ WorkPriced  BY DEF IInv, PricedInv
  <1>2. ASSUME UNCHANGED <<place, document>> PROVE InForce'  BY <1>1, <1>2 DEF InForce
  <1>3. ASSUME UNCHANGED <<routes, latest>> PROVE KeptPriced'  BY <1>1, <1>3 DEF KeptPriced
  <1>4. ASSUME UNCHANGED work PROVE WorkPriced'  BY <1>1, <1>4 DEF WorkPriced
  <1>5. CASE ScanBegins
    <2>1. UNCHANGED <<place, document, routes, latest>>  BY <1>5 DEF ScanBegins
    <2>2. work' = [c \in routes |-> Started(c)]  BY <1>5 DEF ScanBegins
    <2>3. \A c \in routes : Evaluated(c, Started(c))  BY <1>1, StartedPriced
    <2>4. WorkPriced'  BY <2>2, <2>3 DEF WorkPriced
    <2> QED  BY <1>2, <1>3, <2>1, <2>4 DEF PricedInv
  <1>6. CASE ScanEnds
    <2>1. UNCHANGED <<place, document>> /\ work' = <<>>  BY <1>6 DEF ScanEnds
    <2>2. KeptPriced'  BY <1>1, <1>6, ScanEndsPriced
    <2>3. WorkPriced'  BY <2>1, IdlePriced
    <2> QED  BY <1>2, <2>1, <2>2, <2>3 DEF PricedInv
  <1>7. CASE HandsOver
    <2>1. UNCHANGED <<place, document, routes, latest, work>>  BY <1>7 DEF HandsOver
    <2> QED  BY <1>2, <1>3, <1>4, <2>1 DEF PricedInv
  <1>8. ASSUME NEW c \in DOMAIN work, QuotesArrive(c) \/ QuoteFails(c) \/ Simulated(c)
        PROVE  PricedInv'
    <2>1. phase = "scanning" /\ c \in routes /\ Evaluating  BY <1>1, <1>8, EvaluationSteps
    <2>2. WorkOf(work, routes, scans)  BY <1>1, <2>1 DEF KeptInv
    <2>3. UNCHANGED <<place, document, routes, latest>>  BY <2>1 DEF Evaluating
    <2>4. CASE QuotesArrive(c)
      <3>1. WorkPriced'  BY <2>1, <2>2, <2>4, QuotesPriced
      <3> QED  BY <1>2, <1>3, <2>3, <3>1 DEF PricedInv
    <2>5. CASE QuoteFails(c)
      <3>1. Finished(c, {}) /\ work[c].at # "answered"  BY <2>5 DEF QuoteFails
      <3>2. \A o \in {} : Priced(o)  OBVIOUS
      <3>3. WorkPriced'  BY <1>1, <2>1, <2>2, <3>1, <3>2, FinishedPriced
      <3> QED  BY <1>2, <1>3, <2>3, <3>3 DEF PricedInv
    <2>6. CASE Simulated(c)
      <3>1. WorkPriced'  BY <2>1, <2>2, <2>6, SimulatedPriced
      <3> QED  BY <1>2, <1>3, <2>3, <3>1 DEF PricedInv
    <2> QED  BY <1>8, <2>4, <2>5, <2>6
  <1>9. ASSUME NEW c \in routes, Expires(c) PROVE PricedInv'
    <2>1. UNCHANGED <<place, document, work>>  BY <1>9 DEF Expires
    <2>2. KeptPriced'  BY <1>1, <1>9, ExpiresPriced
    <2> QED  BY <1>2, <1>4, <2>1, <2>2 DEF PricedInv
  <1>10. CASE WorldChanges
    <2>1. UNCHANGED <<document, routes, latest, work>> /\ place' \in DOMAIN WorldOf
      BY <1>10 DEF WorldChanges
    <2>2. InForce'  BY <1>1, <2>1 DEF InForce
    <2> QED  BY <1>3, <1>4, <2>1, <2>2 DEF PricedInv
  <1>11. CASE SettingsChange
    <2>1. UNCHANGED <<place, routes, latest, work>> /\ document' \in DOMAIN SettingsOf
      BY <1>11 DEF SettingsChange
    <2>2. InForce'  BY <1>1, <2>1 DEF InForce
    <2> QED  BY <1>3, <1>4, <2>1, <2>2 DEF PricedInv
  <1>12. CASE UNCHANGED vars
    <2>1. UNCHANGED <<place, document, routes, latest, work>>  BY <1>12 DEF vars
    <2> QED  BY <1>2, <1>3, <1>4, <2>1 DEF PricedInv
  <1> QED  BY <1>5, <1>6, <1>7, <1>8, <1>9, <1>10, <1>11, <1>12 DEF Next

\* The invariants together.
LEMMA PricedAlways == Spec => [](IInv /\ PricedInv)
  <1>1. Init => PricedInv  BY InitPriced
  <1>2. IInv /\ PricedInv /\ [Next]_vars => PricedInv'  BY StepPriced
  <1> QED  BY <1>1, <1>2, IInvAlways, PTL DEF Spec

\* At rates of everyday markets and settings, what is shown for an opportunity is at most the
\* cash its quotes return, and the worst case at most what is expected (profit_guard.py,
\* assess), for every answer of the venues and every settings document.
THEOREM HonestNumbers == ASSUME OrdinaryRates PROVE Spec => []HonestProfit
  <1>1. PricedInv => HonestProfit
    BY OrdinaryRates DEF PricedInv, KeptPriced, Priced, HonestProfit
  <1> QED  BY <1>1, PricedAlways, PTL

(***************************************************************************)
(* The strongest of what is live                                           *)
(***************************************************************************)
\* The candidates are of finitely many strategies on finitely many venues.
LEMMA CandidatesFinite == IsFiniteSet(AllCandidates)
  <1> DEFINE T == (Strategies \X Venues) \X Venues
             f == [t \in T |-> [strategy |-> t[1][1], buy |-> t[1][2], sell |-> t[2]]]
             R == [strategy : Strategies, buy : Venues, sell : Venues]
  <1>1. IsFiniteSet(T)
    <2>1. IsFiniteSet(Strategies \X Venues)  BY FiniteAssumption, FS_Product
    <2> QED  BY <2>1, FiniteAssumption, FS_Product
  <1>2. f \in Surjection(T, R)
    <2>1. f \in [T -> R]  OBVIOUS
    <2>2. ASSUME NEW r \in R PROVE \E t \in T : f[t] = r
      <3>1. <<<<r.strategy, r.buy>>, r.sell>> \in T  OBVIOUS
      <3>2. f[<<<<r.strategy, r.buy>>, r.sell>>] = r  BY <3>1
      <3> QED  BY <3>1, <3>2
    <2> HIDE DEF T, f, R
    <2> QED  BY <2>1, <2>2, Fun_IsSurj
  <1>3. IsFiniteSet(R)
    <2> HIDE DEF T, f, R
    <2> QED  BY <1>1, <1>2, FS_Surjection
  <1>4. AllCandidates \in SUBSET R  BY DEF AllCandidates
  <1> HIDE DEF R
  <1> QED  BY <1>3, <1>4, FS_Subset

\* What is live is finitely much.
LEMMA LiveFinite == ASSUME KeptInv, KeptPriced PROVE IsFiniteSet(Live)
  <1> DEFINE L == {latest[c] : c \in routes}
  <1>1. IsFiniteSet(routes)
    <2>1. routes \in SUBSET AllCandidates  BY DEF KeptPriced
    <2> QED  BY <2>1, CandidatesFinite, FS_Subset
  <1>2. latest \in Surjection(routes, L)
    <2>1. latest \in [routes -> L]  BY DEF KeptInv
    <2>2. \A t \in L : \E c \in routes : latest[c] = t  OBVIOUS
    <2> HIDE DEF L
    <2> QED  BY <2>1, <2>2, Fun_IsSurj
  <1>3. IsFiniteSet(L)
    <2> HIDE DEF L
    <2> QED  BY <1>1, <1>2, FS_Surjection
  <1>4. \A t \in L : IsFiniteSet(t)  BY DEF KeptPriced
  <1>5. IsFiniteSet(UNION L)
    <2> HIDE DEF L
    <2> QED  BY <1>3, <1>4, FS_UNION
  <1>6. Live \in SUBSET UNION L  BY DEF Live
  <1> HIDE DEF L
  <1> QED  BY <1>5, <1>6, FS_Subset

\* The numbers an order of opportunities looks at.
Ranked(o) == o.safe \in BOOLEAN /\ o.worst \in Int /\ o.net \in Int /\ o.score \in Int

\* Nothing comes before itself (opportunity.py, ranked).
LEMMA NotBeforeItself == ASSUME NEW o, Ranked(o) PROVE ~Precedes(o, o)
  BY DEF Ranked, Precedes, PrecedesReal

\* What comes before what comes before it comes before it, too (opportunity.py, ranked).
LEMMA BeforeIsTransitive ==
  ASSUME NEW a, NEW b, NEW c, Ranked(a), Ranked(b), Ranked(c), Precedes(a, b), Precedes(b, c)
  PROVE  Precedes(a, c)
  BY DEF Ranked, Precedes, PrecedesReal

\* The first of what is live is live and nothing that is live comes before it.
LEMMA FirstIsFirst ==
  ASSUME KeptInv, KeptPriced, Live # {}
  PROVE  First(Live) \in Live /\ \A other \in Live : ~Precedes(other, First(Live))
  <1> DEFINE R == {pr \in Live \X Live : Precedes(pr[1], pr[2])}
  <1>1. \A o \in Live : Ranked(o)  BY DEF KeptPriced, Live, Priced, Ranked
  <1>2. \A x \in Live, y \in Live : <<x, y>> \in R <=> Precedes(x, y)  OBVIOUS
  <1> HIDE DEF R
  <1>3. \A x \in Live : <<x, x>> \notin R  BY <1>1, <1>2, NotBeforeItself
  <1>4. \A x, y, z \in Live : <<x, y>> \in R /\ <<y, z>> \in R => <<x, z>> \in R
    <2> SUFFICES ASSUME NEW x \in Live, NEW y \in Live, NEW z \in Live,
                        <<x, y>> \in R, <<y, z>> \in R
                 PROVE  <<x, z>> \in R
      OBVIOUS
    <2>1. Precedes(x, y) /\ Precedes(y, z)  BY <1>2
    <2>2. Precedes(x, z)  BY <1>1, <2>1, BeforeIsTransitive
    <2> QED  BY <1>2, <2>2
  <1>5. \E x \in Live : \A y \in Live : <<y, x>> \notin R
    <2>1. IsFiniteSet(Live)  BY LiveFinite
    <2> QED  BY <1>3, <1>4, <2>1, NobodyBefore
  <1>6. \E x \in Live : \A y \in Live : ~Precedes(y, x)  BY <1>2, <1>5
  <1> QED  BY <1>6 DEF First

\* Nothing executable comes before an executable opportunity with a better worst case.
LEMMA WorstDecides ==
  ASSUME NEW a, NEW b, Ranked(a), Ranked(b), a.safe, b.safe, ~Precedes(a, b)
  PROVE  a.worst <= b.worst
  <1>1. a.safe = b.safe  BY DEF Ranked
  <1> QED  BY <1>1 DEF Ranked, Precedes, PrecedesReal

\* What a step hands over is the strongest of what is live.
Hands ==
  \A o \in handed' \ handed :
       /\ o.safe /\ o.live
       /\ \A other \in Live : other.safe => other.worst <= o.worst
       /\ ~world.stopped /\ ~settings.paused

\* Only the end of a pass hands something over.
LEMMA StepHands == ASSUME IInv, PricedInv, [Next]_vars PROVE Hands
  <1>1. KeptInv /\ KeptPriced  BY DEF IInv, PricedInv
  <1>2. ASSUME handed' \subseteq handed PROVE Hands  BY <1>2 DEF Hands
  <1>3. CASE HandsOver
    <2>1. CASE MayExecute /\ Live # {} /\ First(Live).safe
               /\ world.p.open < settings.r.maxConcurrent
      <3>1. handed' = {First(Live)}  BY <1>3, <2>1 DEF HandsOver
      <3>2. First(Live) \in Live /\ \A other \in Live : ~Precedes(other, First(Live))
        BY <1>1, <2>1, FirstIsFirst
      <3> DEFINE o == First(Live)
      <3>3. \A x \in Live : Ranked(x)  BY <1>1 DEF KeptPriced, Live, Priced, Ranked
      <3>4. o.live  BY <3>2 DEF Live
      <3>5. o.safe  BY <2>1
      <3> HIDE DEF o
      <3>6. \A other \in Live : other.safe => other.worst <= o.worst
        BY <3>2, <3>3, <3>5, WorstDecides DEF o
      <3>7. ~world.stopped /\ ~settings.paused  BY <2>1 DEF MayExecute
      <3>8. handed' = {o}  BY <3>1 DEF o
      <3> QED  BY <3>4, <3>5, <3>6, <3>7, <3>8 DEF Hands
    <2>2. CASE ~(MayExecute /\ Live # {} /\ First(Live).safe
                 /\ world.p.open < settings.r.maxConcurrent)
      <3>1. handed' = {}  BY <1>3, <2>2 DEF HandsOver
      <3> QED  BY <1>2, <3>1
    <2> QED  BY <2>1, <2>2
  <1>4. CASE ScanBegins
    <2>1. handed' = {}  BY <1>4 DEF ScanBegins
    <2> QED  BY <1>2, <2>1
  <1>5. CASE ScanEnds  BY <1>2, <1>5 DEF ScanEnds
  <1>6. ASSUME NEW c \in DOMAIN work, QuotesArrive(c) \/ QuoteFails(c) \/ Simulated(c)
        PROVE  Hands
    <2>1. Evaluating  BY <1>1, <1>6, EvaluationSteps
    <2> QED  BY <1>2, <2>1 DEF Evaluating
  <1>7. ASSUME NEW c \in routes, Expires(c) PROVE Hands  BY <1>2, <1>7 DEF Expires
  <1>8. CASE WorldChanges  BY <1>2, <1>8 DEF WorldChanges
  <1>9. CASE SettingsChange  BY <1>2, <1>9 DEF SettingsChange
  <1>10. CASE UNCHANGED vars  BY <1>2, <1>10 DEF vars
  <1> QED  BY <1>3, <1>4, <1>5, <1>6, <1>7, <1>8, <1>9, <1>10 DEF Next

\* What a scan hands to an executor is live, executable and has the best worst case of what is,
\* whatever the number of results kept, and the controls of that moment allow it
\* (opportunity.py, ranked; app.py, _scan_loop).
THEOREM StrongestHanded == Spec => HandedIsStrongest
  <1>1. IInv /\ PricedInv /\ [Next]_vars => Hands  BY StepHands
  <1>2. Hands => \A o \in handed' \ handed :
                      /\ o.safe /\ o.live
                      /\ \A other \in Live : other.safe => other.worst <= o.worst
                      /\ ~world.stopped /\ ~settings.paused
    BY DEF Hands
  <1> QED  BY <1>1, <1>2, PricedAlways, PTL DEF Spec, HandedIsStrongest

(***************************************************************************)
(* The controls                                                            *)
(***************************************************************************)
LegOf(leg, venue) ==
  /\ {"venue", "chain"} \subseteq DOMAIN leg
  /\ leg.venue = venue /\ leg.chain = ChainOf[venue]

\* A loan being simulated was quoted on its candidate's venues.
LegsInv ==
  \A c \in DOMAIN work :
    work[c].at = "simulating" => LegOf(work[c].buy, c.buy) /\ LegOf(work[c].sell, c.sell)

\* What ControlsHold asks of an opportunity found from what was read at p.
Controlled(o, c, p) ==
  o.safe => /\ ~world.stopped
            /\ ~SettingsOf[o.read].paused
            /\ world.breakers \cap BlockingScopes(o) = {}
            /\ \A v \in {c.buy, c.sell} :
                 v \in WorldOf[p].p.healthy
                 \/ (v \in WorldOf[p].p.degraded /\ settings.r.allowDegraded)

\* Quotes that have aged are quotes of the same venue (opportunity.py, _assess).
LEMMA OlderLeg ==
  ASSUME NEW leg, NEW late, NEW venue, LegOf(leg, venue)
  PROVE  LegOf(Older(leg, late), venue)
  BY DEF LegOf, Older

\* A venue's answer is a leg on that venue.
LEMMA LegIsOf == ASSUME NEW venue, NEW answer, NEW size PROVE LegOf(Leg(venue, answer, size), venue)
  BY DEF Leg, LegOf

\* An opportunity without a reason against it was found with the stop, the pause, the
\* breakers and the venues' health all in its favour (opportunity.py, _assess).
LEMMA OpportunityControlled ==
  ASSUME NEW c, NEW buy, NEW sell, NEW gas, NEW funding, NEW simulated, NEW size, NEW read,
         NEW notes, LegOf(buy, c.buy), LegOf(sell, c.sell)
  PROVE  Controlled(Opportunity(c, buy, sell, gas, funding, simulated, size, read, notes),
                    c, read.p)
  <1> DEFINE o == Opportunity(c, buy, sell, gas, funding, simulated, size, read, notes)
             p == WorldOf[read.p].p
  <1>1. /\ o.cand = c /\ o.buy = buy /\ o.sell = sell /\ o.read = read.s
    BY DEF Opportunity
  <1>2. SUFFICES ASSUME o.safe PROVE Controlled(o, c, read.p)  BY DEF Controlled
  <1> DEFINE s      == SettingsOf[read.s]
             loan   == LoanOf(c, buy, sell, simulated, s)
             inp    == [buy |-> buy, sell |-> sell, gas |-> gas, extra |-> Extra,
                        loan |-> loan, funding |-> funding,
                        trips |-> IF IsCarry(c) THEN 2 ELSE 1]
             gasUsd == IF Known(gas) THEN The(gas).expected + The(gas).priority ELSE 0
             x      == [strategy |-> c.strategy, buy |-> buy, sell |-> sell,
                        notional |-> size * Px, capital |-> Assess(inp, s).capital,
                        gas |-> gasUsd, loan |-> loan]
             extreme == When(Known(gas) /\ The(gas).regime = "extreme"
                               /\ "dex" \in {buy.kind, sell.kind}, "gas_extreme")
  <1>a. o.safe = (notes \cup Assess(inp, s).reasons \cup ControlReasons(c, x, p, s)
                    \cup extreme = {})
    BY DEF Opportunity
  <1>b. x.buy = buy /\ x.sell = sell  OBVIOUS
  <1> HIDE DEF x, inp, extreme, o
  <1>c. ControlReasons(c, x, p, s) = {}  BY <1>2, <1>a
  <1>3. /\ x.buy = buy /\ x.sell = sell
        /\ world.breakers \cap Scopes(c, buy, sell) = {}
        /\ ~world.stopped /\ ~SettingsOf[read.s].paused
        /\ RiskReasons(x, p, settings) = {}
    BY <1>b, <1>c DEF ControlReasons, When
  <1>4. BlockingScopes(o) \subseteq Scopes(c, buy, sell)
    <2>1. buy.venue = c.buy /\ sell.venue = c.sell  BY DEF LegOf
    <2>2. ASSUME NEW y, Chains(o) = {y} PROVE y \in ChainAsked(buy, sell)
      BY <1>1, <2>2 DEF Chains, ChainAsked, Known
    <2> QED  BY <1>1, <2>1, <2>2 DEF BlockingScopes, Scopes, ScopesReal
  <1>5. ASSUME NEW v \in {c.buy, c.sell}
        PROVE  v \in p.healthy \/ (v \in p.degraded /\ settings.r.allowDegraded)
    <2>1. HealthReasons(x, p, settings) = {}  BY <1>3 DEF RiskReasons
    <2>2. \E leg \in {x.buy, x.sell} : leg.venue = v  BY <1>3, <1>5 DEF LegOf
    <2> QED  BY <2>1, <2>2 DEF HealthReasons, When
  <1> QED  BY <1>1, <1>3, <1>4, <1>5 DEF Controlled

\* A candidate whose size ended has nothing new but the result of that size.
LEMMA FinishedAdds ==
  ASSUME WorkOf(work, routes, scans), NEW c \in routes, NEW result, Finished(c, result)
  PROVE  /\ \A d \in routes : \A o \in work'[d].best \ work[d].best : d = c /\ o \in result
         /\ \A d \in routes : work'[d].at = "simulating" => d # c /\ work'[d] = work[d]
  <1> DEFINE best == IF work[c].best = {} \/ (Known(result) /\ Beats(The(result), The(work[c].best)))
                     THEN result ELSE work[c].best
             next == IF Len(work[c].sizes) > 1 THEN Quoting(Tail(work[c].sizes), {}, best)
                                               ELSE Answered(best)
  <1>1. work' = [work EXCEPT ![c] = next]  BY DEF Finished
  <1>2. best = result \/ best = work[c].best  OBVIOUS
  <1>3. next.best = best /\ next.at # "simulating"
    <2> HIDE DEF best
    <2> QED  BY DEF Quoting, Answered
  <1> HIDE DEF best, next
  <1>4. work'[c] = next  BY <1>1 DEF WorkOf
  <1>5. \A d \in routes : d # c => work'[d] = work[d]  BY <1>1 DEF WorkOf
  <1> QED  BY <1>2, <1>3, <1>4, <1>5

\* The obligation on a step: every result it adds to an evaluation is controlled.
Adds == \A c \in DOMAIN work \cap DOMAIN work' :
          \A o \in work'[c].best \ work[c].best : Controlled(o, c, work[c].p)

\* The three steps of an evaluation add only what the controls allow (opportunity.py, evaluate).
LEMMA EvaluationControlled ==
  ASSUME KeptInv, LegsInv, NEW c \in DOMAIN work, QuotesArrive(c) \/ QuoteFails(c) \/ Simulated(c)
  PROVE  Adds /\ LegsInv'
  <1>1. phase = "scanning" /\ c \in routes /\ Evaluating  BY EvaluationSteps
  <1>2. WorkOf(work, routes, scans)  BY <1>1 DEF KeptInv
  <1>3. DOMAIN work = routes /\ DOMAIN work' = routes
    BY <1>1, <1>2 DEF WorkOf, Evaluating
  <1>4. ASSUME NEW result, Finished(c, result),
               \A o \in result : Controlled(o, c, work[c].p)
        PROVE  Adds /\ LegsInv'
    BY <1>1, <1>2, <1>3, <1>4, FinishedAdds DEF Adds, LegsInv
  <1>5. CASE QuoteFails(c)
    <2>1. Finished(c, {})  BY <1>5 DEF QuoteFails
    <2> QED  BY <1>4, <2>1
  <1>6. CASE Simulated(c)
    <2>1. PICK passed \in BOOLEAN, late \in {0, 1} :
            Finished(c, {Opportunity(c, Older(work[c].buy, late), Older(work[c].sell, late),
                                     work[c].gas, 0, passed, Head(work[c].sizes),
                                     [p |-> work[c].p, s |-> work[c].s], work[c].notes)})
      BY <1>6 DEF Simulated
    <2>2. LegOf(work[c].buy, c.buy) /\ LegOf(work[c].sell, c.sell)
      BY <1>6 DEF Simulated, LegsInv
    <2>3. LegOf(Older(work[c].buy, late), c.buy) /\ LegOf(Older(work[c].sell, late), c.sell)
      BY <2>2, OlderLeg
    <2> DEFINE read == [p |-> work[c].p, s |-> work[c].s]
               o == Opportunity(c, Older(work[c].buy, late), Older(work[c].sell, late),
                                work[c].gas, 0, passed, Head(work[c].sizes), read, work[c].notes)
    <2>4. Controlled(o, c, read.p)  BY <2>3, OpportunityControlled
    <2>5. Controlled(o, c, work[c].p)  BY <2>4
    <2> HIDE DEF o
    <2>6. Finished(c, {o})  BY <2>1 DEF o
    <2> QED  BY <1>4, <2>5, <2>6
  <1>7. CASE QuotesArrive(c)
    <2>1. PICK buy, sell, gas, funding : /\ TakesQuotes(c, buy, sell, gas, funding)
                                         /\ LegOf(buy, c.buy) /\ LegOf(sell, c.sell)
      BY <1>7, LegIsOf DEF QuotesArrive
    <2>2. CASE IsFlash(c)
      <3> DEFINE k    == work[c]
                 next == [at |-> "simulating", sizes |-> k.sizes, notes |-> k.notes,
                          best |-> k.best, p |-> k.p, s |-> document, buy |-> buy,
                          sell |-> sell, gas |-> gas]
      <3>1. work' = [work EXCEPT ![c] = next]  BY <2>1, <2>2 DEF TakesQuotes
      <3>2. next.best = work[c].best /\ next.buy = buy /\ next.sell = sell  OBVIOUS
      <3> HIDE DEF next
      <3>3. work'[c] = next /\ \A d \in routes : d # c => work'[d] = work[d]
        BY <1>1, <1>2, <3>1 DEF WorkOf
      <3>4. Adds  BY <1>3, <3>2, <3>3 DEF Adds
      <3>5. LegsInv'  BY <1>3, <2>1, <3>2, <3>3 DEF LegsInv
      <3> QED  BY <3>4, <3>5
    <2>3. CASE ~IsFlash(c)
      <3> DEFINE read == [p |-> work[c].p, s |-> document]
                 o == Opportunity(c, buy, sell, gas, funding, FALSE, Head(work[c].sizes),
                                  read, work[c].notes)
      <3>1. Finished(c, {o})  BY <2>1, <2>3 DEF TakesQuotes
      <3>2. Controlled(o, c, read.p)  BY <2>1, OpportunityControlled
      <3>3. Controlled(o, c, work[c].p)  BY <3>2
      <3> HIDE DEF o
      <3> QED  BY <1>4, <3>1, <3>3
    <2> QED  BY <2>2, <2>3
  <1> QED  BY <1>5, <1>6, <1>7

\* While nothing is evaluated there is no leg to speak of.
LEMMA NoWork == ASSUME work' = <<>> PROVE LegsInv' /\ Adds
  <1>1. DOMAIN work' = {}  OBVIOUS
  <1> QED  BY <1>1 DEF LegsInv, Adds

\* Legs stay on their candidate's venues, and what a step adds is controlled.
LEMMA StepsControlled == ASSUME IInv, LegsInv, [Next]_vars PROVE LegsInv' /\ Adds
  <1>1. KeptInv  BY DEF IInv
  <1>2. ASSUME UNCHANGED work PROVE LegsInv' /\ Adds  BY <1>2 DEF LegsInv, Adds
  <1>3. CASE ScanBegins
    <2>1. work = <<>>  BY <1>1, <1>3 DEF ScanBegins, KeptInv
    <2>2. DOMAIN work = {}  BY <2>1
    <2>3. work' = [c \in routes |-> Started(c)]  BY <1>3 DEF ScanBegins
    <2>4. ASSUME NEW c PROVE Started(c).at # "simulating"  BY DEF Started, Quoting, Answered
    <2> QED  BY <2>2, <2>3, <2>4 DEF LegsInv, Adds
  <1>4. CASE ScanEnds  BY <1>4, NoWork DEF ScanEnds
  <1>5. CASE HandsOver  BY <1>2, <1>5 DEF HandsOver
  <1>6. ASSUME NEW c \in DOMAIN work, QuotesArrive(c) \/ QuoteFails(c) \/ Simulated(c)
        PROVE  LegsInv' /\ Adds
    BY <1>1, <1>6, EvaluationControlled
  <1>7. ASSUME NEW c \in routes, Expires(c) PROVE LegsInv' /\ Adds
    BY <1>2, <1>7 DEF Expires
  <1>8. CASE WorldChanges  BY <1>2, <1>8 DEF WorldChanges
  <1>9. CASE SettingsChange  BY <1>2, <1>9 DEF SettingsChange
  <1>10. CASE UNCHANGED vars  BY <1>2, <1>10 DEF vars
  <1> QED  BY <1>3, <1>4, <1>5, <1>6, <1>7, <1>8, <1>9, <1>10 DEF Next

\* Whatever changes while quotes are awaited, an opportunity is found executable only if at
\* that moment no stop and no breaker on it is in force, and the portfolio it was begun with
\* had its venues healthy (opportunity.py, _assess).
THEOREM ControlsObeyed == Spec => ControlsHold
  <1>1. Init => LegsInv
    <2>1. Init => DOMAIN work = {}  BY DEF Init
    <2> QED  BY <2>1 DEF LegsInv
  <1>2. Adds => \A c \in DOMAIN work \cap DOMAIN work' :
       \A o \in work'[c].best \ work[c].best :
         o.safe => /\ ~world.stopped
                   /\ ~SettingsOf[o.read].paused
                   /\ world.breakers \cap BlockingScopes(o) = {}
                   /\ \A v \in {c.buy, c.sell} :
                        v \in WorldOf[work[c].p].p.healthy
                        \/ (v \in WorldOf[work[c].p].p.degraded /\ settings.r.allowDegraded)
    BY DEF Adds, Controlled
  <1>3. IInv /\ LegsInv /\ [Next]_vars => LegsInv' /\ Adds  BY StepsControlled
  <1> QED  BY <1>1, <1>2, <1>3, IInvAlways, PTL DEF Spec, ControlsHold
================================================================================
