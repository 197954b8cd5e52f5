--------------------------- MODULE PaperLedger_proofs ---------------------------
(***************************************************************************)
(* What the operations of the simulated ledger preserve, for any accounts, *)
(* and the arithmetic of sums over finite sets of accounts and trades.     *)
(*                                                                         *)
(* A sum of the community modules is an entry of a recursively defined     *)
(* table over the subsets of a set.  Its laws are proved here by looking   *)
(* at a smallest set for which they would fail.                            *)
(***************************************************************************)
EXTENDS PaperLedger, Functions, FiniteSetTheorems, TLAPS

Ledgers(accounts) == [accounts -> [free : Int, used : Nat]]

--------------------------------------------------------------------------------
(* Balances are integers and pools are never negative.                     *)

\* Reserving from an account yields a ledger.
LEMMA ReserveType ==
    ASSUME NEW accounts, NEW ledger \in Ledgers(accounts), NEW a \in accounts, NEW n \in Nat
    PROVE  Reserve(ledger, a, n) \in Ledgers(accounts)
  BY DEF Reserve, Balance, Ledgers

\* Releasing any amount yields a ledger: no more is released than is reserved.
LEMMA ReleaseType ==
    ASSUME NEW accounts, NEW ledger \in Ledgers(accounts), NEW a \in accounts, NEW n \in Nat
    PROVE  Release(ledger, a, n) \in Ledgers(accounts)
  BY DEF Release, Balance, Ledgers, Smaller

\* Consuming a fill, reserved or not, yields a ledger.
LEMMA ConsumeType ==
    ASSUME NEW accounts, NEW ledger \in Ledgers(accounts), NEW a \in accounts, NEW n \in Nat,
           NEW reserved \in BOOLEAN
    PROVE  Consume(ledger, a, n, reserved) \in Ledgers(accounts)
  BY DEF Consume, Balance, Ledgers, Larger

\* Crediting an account yields a ledger.
LEMMA CreditType ==
    ASSUME NEW accounts, NEW ledger \in Ledgers(accounts), NEW a \in accounts, NEW n \in Int
    PROVE  Credit(ledger, a, n) \in Ledgers(accounts)
  BY DEF Credit, Ledgers

\* Settling a fill, which consumes one asset and credits another, yields a ledger.
LEMMA SettleType ==
    ASSUME NEW accounts, NEW ledger \in Ledgers(accounts), NEW a \in accounts, NEW b \in accounts,
           NEW n \in Nat, NEW m \in Nat, NEW reserved \in BOOLEAN
    PROVE  SettleFill(ledger, a, n, b, m, reserved) \in Ledgers(accounts)
  BY ConsumeType, CreditType DEF SettleFill

\* Charging gas yields a ledger.
LEMMA GasType ==
    ASSUME NEW accounts, NEW ledger \in Ledgers(accounts), NEW a \in accounts, NEW n \in Nat
    PROVE  ChargeGas(ledger, a, n) \in Ledgers(accounts)
  BY DEF ChargeGas, Ledgers

\* Opening and closing a perpetual short yield ledgers.
LEMMA PerpType ==
    ASSUME NEW accounts, NEW ledger \in Ledgers(accounts), NEW a \in accounts, NEW b \in accounts,
           NEW n \in Nat, NEW fee \in Nat
    PROVE  /\ OpenPerp(ledger, a, b, n, fee) \in Ledgers(accounts)
           /\ ClosePerp(ledger, a, b, n, fee) \in Ledgers(accounts)
<1> DEFINE moved == Smaller(ledger[a].used, n)
           paid  == [ledger EXCEPT ![a] =
                        Balance(ledger[a].free - ((n - moved) + fee), ledger[a].used - moved)]
<1>1. moved \in Nat /\ moved <= ledger[a].used
  BY DEF Smaller, Ledgers
<1>2. paid \in Ledgers(accounts)
  BY <1>1 DEF Balance, Ledgers
<1>3. Credit(paid, b, n) \in Ledgers(accounts)
  BY <1>2, CreditType
<1>4. ClosePerp(ledger, a, b, n, fee) \in Ledgers(accounts)
  BY DEF ClosePerp, Ledgers
<1> QED BY <1>3, <1>4 DEF OpenPerp

--------------------------------------------------------------------------------
(* Totals: what each operation moves between accounts.                     *)

\* Reserving and releasing move nothing between accounts.
LEMMA ReservingKeepsTotals ==
    ASSUME NEW accounts, NEW ledger \in Ledgers(accounts), NEW a \in accounts, NEW n \in Nat,
           NEW b \in accounts
    PROVE  /\ Total(Reserve(ledger, a, n)[b]) = Total(ledger[b])
           /\ Total(Release(ledger, a, n)[b]) = Total(ledger[b])
  BY DEF Reserve, Release, Balance, Total, Smaller, Ledgers

\* A fill paid from a reservation pool, down to zero.
PaidFill(ledger, a, n, b, m) ==
    Credit([ledger EXCEPT ![a] = Balance(@.free, Larger(0, @.used - n))], b, m)

\* settle_fill with a reservation is such a fill.
LEMMA ReservedFillsArePaid ==
    ASSUME NEW ledger, NEW a, NEW b, NEW n, NEW m
    PROVE  SettleFill(ledger, a, n, b, m, TRUE) = PaidFill(ledger, a, n, b, m)
  BY DEF SettleFill, Consume, PaidFill

\* It yields a ledger.
LEMMA PaidType ==
    ASSUME NEW accounts, NEW ledger \in Ledgers(accounts), NEW a \in accounts, NEW b \in accounts,
           NEW n \in Nat, NEW m \in Nat
    PROVE  PaidFill(ledger, a, n, b, m) \in Ledgers(accounts)
<1> DEFINE paid == [ledger EXCEPT ![a] = Balance(@.free, Larger(0, @.used - n))]
<1>1. paid \in Ledgers(accounts)
  BY DEF Balance, Ledgers, Larger
<1> HIDE DEF paid
<1>2. Credit(paid, b, m) \in Ledgers(accounts)
  BY <1>1, CreditType
<1> QED BY <1>2 DEF PaidFill, paid

\* A fill that its reservation covers takes exactly its price from one account
\* and brings exactly its proceeds to the other.
LEMMA CoveredFillsAreExact ==
    ASSUME NEW accounts, NEW ledger \in Ledgers(accounts), NEW a \in accounts, NEW b \in accounts,
           a # b, NEW n \in Nat, NEW m \in Nat, n <= ledger[a].used, NEW x \in accounts
    PROVE  Total(PaidFill(ledger, a, n, b, m)[x])
             = Total(ledger[x]) + (IF x = a THEN -n ELSE 0) + (IF x = b THEN m ELSE 0)
<1> DEFINE paid  == [ledger EXCEPT ![a] = Balance(@.free, Larger(0, @.used - n))]
           after == PaidFill(ledger, a, n, b, m)
<1>1. /\ paid \in Ledgers(accounts)
      /\ paid[a].free = ledger[a].free /\ paid[a].used = ledger[a].used - n
      /\ \A c \in accounts \ {a} : paid[c] = ledger[c]
  <2>1. Larger(0, ledger[a].used - n) = ledger[a].used - n
    BY DEF Larger, Ledgers
  <2>2. paid \in Ledgers(accounts)
    BY DEF Balance, Ledgers, Larger
  <2> QED BY <2>1, <2>2 DEF Balance, Ledgers
<1>2. after = Credit(paid, b, m)
  BY DEF PaidFill
<1> HIDE DEF paid, after
<1>3. /\ after[b].free = paid[b].free + m /\ after[b].used = paid[b].used
      /\ \A c \in accounts \ {b} : after[c] = paid[c]
  BY <1>1, <1>2 DEF Credit, Ledgers
<1>4. Total(after[x]) = Total(ledger[x]) + (IF x = a THEN -n ELSE 0) + (IF x = b THEN m ELSE 0)
  BY <1>1, <1>3 DEF Total, Ledgers
<1> QED BY <1>4 DEF after

\* What each operation does to a pool: only the account it names changes, and a
\* release or a reserved fill takes its amount, down to zero.
LEMMA ReservePools ==
    ASSUME NEW accounts, NEW ledger \in Ledgers(accounts), NEW a \in accounts, NEW n \in Nat,
           NEW b \in accounts
    PROVE  Reserve(ledger, a, n)[b].used = IF b = a THEN ledger[b].used + n ELSE ledger[b].used
  BY DEF Reserve, Balance, Ledgers

\* The same for a release.
LEMMA ReleasePools ==
    ASSUME NEW accounts, NEW ledger \in Ledgers(accounts), NEW a \in accounts, NEW n \in Nat,
           NEW b \in accounts
    PROVE  Release(ledger, a, n)[b].used = IF b = a THEN Larger(0, ledger[b].used - n) ELSE ledger[b].used
<1>1. ledger[b].used \in Nat /\ ledger[a].used \in Nat
  BY DEF Ledgers
<1>2. ledger[a].used - Smaller(n, ledger[a].used) = Larger(0, ledger[a].used - n)
  BY <1>1 DEF Smaller, Larger
<1>3. Release(ledger, a, n)[b].used
        = IF b = a THEN ledger[a].used - Smaller(n, ledger[a].used) ELSE ledger[b].used
  BY DEF Release, Balance, Ledgers
<1> QED BY <1>2, <1>3

\* Credits and gas take nothing from a pool.
LEMMA FreePools ==
    ASSUME NEW accounts, NEW ledger \in Ledgers(accounts), NEW a \in accounts, NEW n \in Nat,
           NEW b \in accounts
    PROVE  /\ ChargeGas(ledger, a, n)[b].used = ledger[b].used
           /\ Credit(ledger, a, n)[b].used = ledger[b].used
  BY DEF ChargeGas, Credit, Ledgers

\* A reserved fill takes from the pool of the account that pays, and from no
\* other one.
LEMMA PaidPools ==
    ASSUME NEW accounts, NEW ledger \in Ledgers(accounts), NEW a \in accounts, NEW b \in accounts,
           NEW n \in Nat, NEW m \in Nat, NEW x \in accounts
    PROVE  PaidFill(ledger, a, n, b, m)[x].used
             = IF x = a THEN Larger(0, ledger[x].used - n) ELSE ledger[x].used
<1> DEFINE paid == [ledger EXCEPT ![a] = Balance(@.free, Larger(0, @.used - n))]
<1>1. paid \in Ledgers(accounts)
  BY DEF Balance, Ledgers, Larger
<1>2. paid[x].used = IF x = a THEN Larger(0, ledger[x].used - n) ELSE ledger[x].used
  BY DEF Balance, Ledgers
<1>3. PaidFill(ledger, a, n, b, m) = Credit(paid, b, m)
  BY DEF PaidFill
<1> HIDE DEF paid
<1>4. Credit(paid, b, m)[x].used = paid[x].used
  BY <1>1, FreePools
<1> QED BY <1>2, <1>3, <1>4

\* Gas is taken from the account that is charged, and from no other one.
LEMMA GasTotals ==
    ASSUME NEW accounts, NEW ledger \in Ledgers(accounts), NEW a \in accounts, NEW n \in Nat,
           NEW b \in accounts
    PROVE  Total(ChargeGas(ledger, a, n)[b]) = IF b = a THEN Total(ledger[b]) - n ELSE Total(ledger[b])
  BY DEF ChargeGas, Total, Ledgers

\* Opening a short moves its notional into the collateral bucket and nothing
\* else; closing one empties the bucket and pays back its content once, plus
\* what the content exceeds the closing notional by.
LEMMA PerpTotals ==
    ASSUME NEW accounts, NEW ledger \in Ledgers(accounts), NEW a \in accounts, NEW b \in accounts,
           a # b, NEW n \in Nat, ledger[b].used = 0
    PROVE  LET opened == OpenPerp(ledger, a, b, n, 0)
               closed == ClosePerp(ledger, a, b, n, 0)
           IN  /\ Total(opened[a]) + Total(opened[b]) = Total(ledger[a]) + Total(ledger[b])
               /\ Total(closed[a]) + Total(closed[b])
                    = Total(ledger[a]) + Total(ledger[b]) + (Total(ledger[b]) - n)
<1> DEFINE moved == Smaller(ledger[a].used, n)
<1>1. moved \in Nat
  BY DEF Smaller, Ledgers
<1> HIDE DEF moved
<1>2. OpenPerp(ledger, a, b, n, 0) =
        Credit([ledger EXCEPT ![a] = Balance(ledger[a].free - ((n - moved) + 0), ledger[a].used - moved)],
               b, n)
  BY DEF OpenPerp, moved, Ledgers
<1>3. LET opened == OpenPerp(ledger, a, b, n, 0)
      IN  Total(opened[a]) + Total(opened[b]) = Total(ledger[a]) + Total(ledger[b])
  BY <1>1, <1>2 DEF Credit, Balance, Total, Ledgers
<1>4. LET closed == ClosePerp(ledger, a, b, n, 0)
      IN  Total(closed[a]) + Total(closed[b])
            = Total(ledger[a]) + Total(ledger[b]) + (Total(ledger[b]) - n)
  BY DEF ClosePerp, Total, Ledgers
<1> QED BY <1>3, <1>4

--------------------------------------------------------------------------------
(* Sums over finite sets.                                                  *)

\* The element the fold of a sum takes from a set first.
Taken(s) == CHOOSE x \in s : TRUE

\* The table of the sums of f over every subset of S.
IsTable(f, S, g) ==
    g = [s \in SUBSET S |-> IF s = {} THEN 0 ELSE f[Taken(s)] + g[s \ {Taken(s)}]]
Tables(f, S) == {g \in [SUBSET S -> Int] : IsTable(f, S, g)}

\* A non-empty set of subsets of a finite set has a member none of whose
\* proper subsets is in it.
LEMMA MinimalSubset ==
    ASSUME NEW S, IsFiniteSet(S), NEW B, B \subseteq SUBSET S, B # {}
    PROVE  \E T \in B : \A U \in SUBSET T : U # T => U \notin B
<1>1. IsWellFoundedOn(StrictSubsetOrdering(S), SUBSET S)
  BY FS_StrictSubsetOrderingWellFounded, FS_FiniteSubsetsOfFinite
<1>2. \E T \in B : \A U \in B : ~ (<<U, T>> \in StrictSubsetOrdering(S))
  BY <1>1, WFMin
<1> QED BY <1>2 DEF StrictSubsetOrdering

\* The first element of a non-empty set is one of its elements.
LEMMA TakenIn == ASSUME NEW s, s # {} PROVE Taken(s) \in s
  BY DEF Taken

\* An entry of a table, from the entry of a smaller set.
LEMMA TableEntry ==
    ASSUME NEW f, NEW S, NEW g, IsTable(f, S, g)
    PROVE  /\ g[{}] = 0
           /\ \A s \in SUBSET S : s # {} => g[s] = f[Taken(s)] + g[s \ {Taken(s)}]
<1>1. \A s \in SUBSET S : g[s] = IF s = {} THEN 0 ELSE f[Taken(s)] + g[s \ {Taken(s)}]
  BY Zenon DEF IsTable
<1> QED BY <1>1

\* The same, for one set at a time.
LEMMA OneEntry ==
    ASSUME NEW f, NEW S, NEW g, IsTable(f, S, g), NEW s, s \subseteq S, s # {}
    PROVE  g[s] = f[Taken(s)] + g[s \ {Taken(s)}]
<1>1. s \in SUBSET S
  OBVIOUS
<1> QED BY <1>1, TableEntry

\* The last entry of a table.
LEMMA LastEntry ==
    ASSUME NEW f, NEW S, NEW g, IsTable(f, S, g), S # {}
    PROVE  g[S] = f[Taken(S)] + g[S \ {Taken(S)}]
  BY OneEntry

\* Two tables agree on the sets they have in common.
LEMMA TablesAgree ==
    ASSUME NEW f, NEW S, IsFiniteSet(S), NEW T, NEW U, T \subseteq S, U \subseteq S,
           NEW g, NEW h, IsTable(f, T, g), IsTable(f, U, h)
    PROVE  \A s \in SUBSET (T \cap U) : g[s] = h[s]
<1> DEFINE B == {s \in SUBSET (T \cap U) : g[s] # h[s]}
<1> SUFFICES ASSUME B # {} PROVE FALSE
  OBVIOUS
<1>1. B \subseteq SUBSET S
  OBVIOUS
<1>2. PICK s \in B : \A r \in SUBSET s : r # s => r \notin B
  <2> HIDE DEF B
  <2> QED BY <1>1, MinimalSubset
<1>3. s # {}
  BY TableEntry
<1>4. Taken(s) \in s /\ s \ {Taken(s)} \in SUBSET (T \cap U) /\ s \ {Taken(s)} # s
  BY <1>3, TakenIn
<1>5. g[s \ {Taken(s)}] = h[s \ {Taken(s)}]
  BY <1>2, <1>4
<1>6. s \subseteq T /\ s \subseteq U /\ g[s] # h[s]
  OBVIOUS
<1> HIDE DEF B
<1>7. g[s] = f[Taken(s)] + g[s \ {Taken(s)}]
  BY <1>3, <1>6, OneEntry
<1>8. h[s] = f[Taken(s)] + h[s \ {Taken(s)}]
  BY <1>3, <1>6, OneEntry
<1> QED BY <1>5, <1>6, <1>7, <1>8

\* A function to the integers has a table over every finite subset of its domain.
LEMMA TableExists ==
    ASSUME NEW D, NEW f \in [D -> Int], NEW S \in SUBSET D, IsFiniteSet(S)
    PROVE  Tables(f, S) # {}
<1> DEFINE B == {T \in SUBSET S : Tables(f, T) = {}}
<1> SUFFICES ASSUME B # {} PROVE FALSE
  OBVIOUS
<1>1. PICK T \in B : \A U \in SUBSET T : U # T => U \notin B
  <2>1. B \subseteq SUBSET S
    OBVIOUS
  <2> HIDE DEF B
  <2> QED BY <2>1, MinimalSubset
<1> DEFINE tab == [U \in SUBSET T |-> CHOOSE g \in Tables(f, U) : TRUE]
           Below(s) == tab[s \ {Taken(s)}][s \ {Taken(s)}]
           h == [s \in SUBSET T |-> IF s = {} THEN 0 ELSE f[Taken(s)] + Below(s)]
<1>2. \A U \in SUBSET T : U # T => tab[U] \in Tables(f, U)
  <2> SUFFICES ASSUME NEW U \in SUBSET T, U # T PROVE tab[U] \in Tables(f, U)
    OBVIOUS
  <2>1. Tables(f, U) # {}
    BY <1>1
  <2> QED BY <2>1
<1> HIDE DEF tab
<1>3. \A s \in SUBSET T : s # {} =>
         /\ Taken(s) \in s /\ s \ {Taken(s)} \in SUBSET T /\ s \ {Taken(s)} # T
         /\ Below(s) \in Int /\ f[Taken(s)] \in Int
  <2> SUFFICES ASSUME NEW s \in SUBSET T, s # {}
               PROVE  /\ Taken(s) \in s /\ s \ {Taken(s)} \in SUBSET T /\ s \ {Taken(s)} # T
                      /\ Below(s) \in Int /\ f[Taken(s)] \in Int
    OBVIOUS
  <2>1. Taken(s) \in s /\ s \ {Taken(s)} \in SUBSET T /\ s \ {Taken(s)} # T
    BY TakenIn
  <2>2. tab[s \ {Taken(s)}] \in [SUBSET (s \ {Taken(s)}) -> Int]
    BY <1>2, <2>1 DEF Tables
  <2> QED BY <2>1, <2>2
<1>4. h \in [SUBSET T -> Int]
  <2>1. ASSUME NEW s \in SUBSET T, s # {} PROVE f[Taken(s)] + Below(s) \in Int
    <3>1. f[Taken(s)] \in Int /\ Below(s) \in Int
      BY <1>3, <2>1
    <3> HIDE DEF Below
    <3> QED BY <3>1
  <2> HIDE DEF Below
  <2> QED BY <2>1
<1>5. \A s \in SUBSET T : s # {} => h[s \ {Taken(s)}] = Below(s)
  <2> SUFFICES ASSUME NEW s \in SUBSET T, s # {} PROVE h[s \ {Taken(s)}] = Below(s)
    OBVIOUS
  <2> DEFINE r == s \ {Taken(s)}
  <2>1. r \in SUBSET T /\ r # T
    BY <1>3
  <2>2. IsTable(f, r, tab[r])
    BY <1>2, <2>1 DEF Tables
  <2>3. CASE r = {}
    BY <2>1, <2>2, <2>3, TableEntry
  <2>4. CASE r # {}
    <3> DEFINE q == r \ {Taken(r)}
    <3>1. q \in SUBSET T /\ q # T /\ q \subseteq r
      BY <1>3, <2>1, <2>4
    <3>2. IsTable(f, q, tab[q])
      BY <1>2, <3>1 DEF Tables
    <3>3. tab[r][r] = f[Taken(r)] + tab[r][q]
      <4> DEFINE g == tab[r]
      <4>1. IsTable(f, r, g)
        BY <2>2
      <4> HIDE DEF g, r
      <4>2. g[r] = f[Taken(r)] + g[r \ {Taken(r)}]
        BY <2>4, <4>1, LastEntry
      <4> QED BY <4>2 DEF g
    <3>4. tab[r][q] = tab[q][q]
      <4>1. IsFiniteSet(T)
        BY FS_Subset
      <4>2. q \in SUBSET (r \cap q)
        BY <3>1
      <4> QED BY <2>1, <2>2, <3>1, <3>2, <4>1, <4>2, TablesAgree
    <3> QED BY <2>1, <2>4, <3>3, <3>4
  <2> QED BY <2>3, <2>4
<1>6. IsTable(f, T, h)
  BY <1>5 DEF IsTable
<1>7. h \in Tables(f, T)
  BY <1>4, <1>6 DEF Tables
<1> QED BY <1>1, <1>7

\* The sum of the community modules is an entry of a table.
LEMMA SumIsEntry ==
    ASSUME NEW D, NEW f \in [D -> Int], NEW S \in SUBSET D, IsFiniteSet(S)
    PROVE  \E g \in Tables(f, S) : SumFunctionOnSet(f, S) = g[S]
<1> DEFINE t == CHOOSE g : IsTable(f, S, g)
<1>1. SumFunctionOnSet(f, S) = t[S]
  BY SMT DEF SumFunctionOnSet, FoldFunctionOnSet, MapThenFoldSet, IsTable, Taken
<1>2. PICK h \in Tables(f, S) : TRUE
  BY TableExists
<1>3. IsTable(f, S, t)
  BY <1>2 DEF Tables
<1>4. \A s \in SUBSET S : t[s] = h[s]
  BY <1>2, <1>3, TablesAgree DEF Tables
<1>5. t[S] = h[S]
  BY <1>4
<1> QED BY <1>1, <1>2, <1>5

\* A sum over a finite set is an integer; over no elements it is zero; and the
\* first element is added to the sum of the others.
LEMMA SumTaken ==
    ASSUME NEW D, NEW f \in [D -> Int], NEW S \in SUBSET D, IsFiniteSet(S)
    PROVE  /\ SumFunctionOnSet(f, S) \in Int
           /\ S = {} => SumFunctionOnSet(f, S) = 0
           /\ S # {} => SumFunctionOnSet(f, S)
                          = f[Taken(S)] + SumFunctionOnSet(f, S \ {Taken(S)})
<1>1. PICK g \in Tables(f, S) : SumFunctionOnSet(f, S) = g[S]
  BY SumIsEntry
<1>2. g \in [SUBSET S -> Int] /\ IsTable(f, S, g)
  BY DEF Tables
<1>3. SumFunctionOnSet(f, S) \in Int
  BY <1>1, <1>2
<1>4. S = {} => SumFunctionOnSet(f, S) = 0
  BY <1>1, <1>2, TableEntry
<1>5. ASSUME S # {}
      PROVE SumFunctionOnSet(f, S) = f[Taken(S)] + SumFunctionOnSet(f, S \ {Taken(S)})
  <2> DEFINE R == S \ {Taken(S)}
  <2>1. R \in SUBSET D /\ IsFiniteSet(R) /\ R \subseteq S
    BY FS_RemoveElement
  <2>2. PICK h \in Tables(f, R) : SumFunctionOnSet(f, R) = h[R]
    BY <2>1, SumIsEntry
  <2>3. IsTable(f, R, h)
    BY <2>2 DEF Tables
  <2>4. R \in SUBSET (S \cap R)
    BY <2>1
  <2>5. g[R] = h[R]
    BY <1>2, <2>1, <2>3, <2>4, TablesAgree
  <2>6. g[S] = f[Taken(S)] + g[R]
    BY <1>2, <1>5, LastEntry
  <2> QED BY <1>1, <2>2, <2>5, <2>6
<1> QED BY <1>3, <1>4, <1>5

\* Induction over a finite set: the sets that have a property are given as a
\* set G of sets, not as an operator.
LEMMA SubsetInduction ==
    ASSUME NEW S, IsFiniteSet(S), NEW G, {} \in G,
           \A T \in SUBSET S : \A x \in T : T \ {x} \in G => T \in G
    PROVE  S \in G
<1> SUFFICES ASSUME S \notin G PROVE FALSE
  OBVIOUS
<1> DEFINE B == (SUBSET S) \ G
<1>1. B # {} /\ B \subseteq SUBSET S
  OBVIOUS
<1>2. PICK T \in B : \A U \in SUBSET T : U # T => U \notin B
  <2> HIDE DEF B
  <2> QED BY <1>1, MinimalSubset
<1>3. PICK x \in T : TRUE
  OBVIOUS
<1>4. T \ {x} \in G
  BY <1>2
<1> QED BY <1>4

\* The sum over no elements is zero.
LEMMA SumOfNothing == ASSUME NEW D, NEW f \in [D -> Int] PROVE SumFunctionOnSet(f, {}) = 0
<1>1. {} \in SUBSET D /\ IsFiniteSet({})
  BY FS_EmptySet
<1> QED BY <1>1, SumTaken

\* Any element can be taken out of a sum.
LEMMA SumTakesOut ==
    ASSUME NEW D, NEW f \in [D -> Int], NEW S \in SUBSET D, IsFiniteSet(S), NEW x \in S
    PROVE  SumFunctionOnSet(f, S) = f[x] + SumFunctionOnSet(f, S \ {x})
<1> DEFINE Sum(T) == SumFunctionOnSet(f, T)
           B == {T \in SUBSET S : \E y \in T : Sum(T) # f[y] + Sum(T \ {y})}
<1>0. \A T \in SUBSET S : Sum(T) \in Int /\ (T # {} => Sum(T) = f[Taken(T)] + Sum(T \ {Taken(T)}))
  <2> SUFFICES ASSUME NEW T \in SUBSET S
               PROVE  Sum(T) \in Int /\ (T # {} => Sum(T) = f[Taken(T)] + Sum(T \ {Taken(T)}))
    OBVIOUS
  <2>1. IsFiniteSet(T) /\ T \in SUBSET D
    BY FS_Subset
  <2> QED BY <2>1, SumTaken
<1> HIDE DEF Sum
<1>1. B = {}
  <2> SUFFICES ASSUME B # {} PROVE FALSE
    OBVIOUS
  <2>1. PICK T \in B : \A U \in SUBSET T : U # T => U \notin B
    <3>1. B \subseteq SUBSET S
      OBVIOUS
    <3> HIDE DEF B
    <3> QED BY <3>1, MinimalSubset
  <2>2. PICK y \in T : Sum(T) # f[y] + Sum(T \ {y})
    OBVIOUS
  <2> DEFINE e == Taken(T)
  <2>3. e \in T /\ T # {}
    BY TakenIn
  <2> HIDE DEF e
  <2>4. Sum(T) = f[e] + Sum(T \ {e})
    BY <1>0, <2>3 DEF e
  <2>5. y # e
    BY <2>2, <2>4
  <2>6. T \ {e} \notin B /\ T \ {y} \notin B
    BY <2>1, <2>3
  <2>7. Sum(T \ {e}) = f[y] + Sum((T \ {e}) \ {y})
    BY <2>3, <2>5, <2>6
  <2>8. Sum(T \ {y}) = f[e] + Sum((T \ {y}) \ {e})
    BY <2>3, <2>5, <2>6
  <2>9. (T \ {e}) \ {y} = (T \ {y}) \ {e}
    OBVIOUS
  <2>10. /\ f[e] \in Int /\ f[y] \in Int
         /\ Sum((T \ {y}) \ {e}) \in Int
    BY <1>0, <2>3
  <2> QED BY <2>2, <2>4, <2>7, <2>8, <2>9, <2>10
<1>2. S \in SUBSET S
  OBVIOUS
<1> QED BY <1>1, <1>2 DEF Sum

\* Two functions that agree on a set have the same sum over it.
LEMMA SumAgrees ==
    ASSUME NEW D, NEW f \in [D -> Int], NEW E, NEW g \in [E -> Int], NEW S \in SUBSET (D \cap E),
           IsFiniteSet(S), \A x \in S : f[x] = g[x]
    PROVE  SumFunctionOnSet(f, S) = SumFunctionOnSet(g, S)
<1> DEFINE G == {T \in SUBSET S : SumFunctionOnSet(f, T) = SumFunctionOnSet(g, T)}
<1>1. {} \in G
  BY SumOfNothing
<1>2. ASSUME NEW T \in SUBSET S, NEW x \in T, T \ {x} \in G PROVE T \in G
  <2>1. IsFiniteSet(T)
    BY FS_Subset
  <2>2. SumFunctionOnSet(f, T) = f[x] + SumFunctionOnSet(f, T \ {x})
    BY <2>1, SumTakesOut
  <2>3. SumFunctionOnSet(g, T) = g[x] + SumFunctionOnSet(g, T \ {x})
    BY <2>1, SumTakesOut
  <2> QED BY <1>2, <2>2, <2>3
<1>3. S \in G
  <2> HIDE DEF G
  <2> QED BY <1>1, <1>2, SubsetInduction
<1> QED BY <1>3

\* A change at one element changes the sum by as much.
LEMMA SumChanges ==
    ASSUME NEW D, NEW f \in [D -> Int], NEW g \in [D -> Int], NEW S \in SUBSET D,
           IsFiniteSet(S), NEW x \in S, \A y \in S \ {x} : f[y] = g[y]
    PROVE  /\ SumFunctionOnSet(g, S) = SumFunctionOnSet(f, S) + (g[x] - f[x])
           /\ SumFunctionOnSet(f, S) \in Int
<1>0. IsFiniteSet(S \ {x}) /\ S \ {x} \in SUBSET D
  BY FS_RemoveElement
<1>1. SumFunctionOnSet(f, S \ {x}) = SumFunctionOnSet(g, S \ {x})
  BY <1>0, SumAgrees
<1>2. /\ SumFunctionOnSet(f, S) = f[x] + SumFunctionOnSet(f, S \ {x})
      /\ SumFunctionOnSet(g, S) = g[x] + SumFunctionOnSet(g, S \ {x})
  BY SumTakesOut
<1>3. SumFunctionOnSet(f, S \ {x}) \in Int /\ f[x] \in Int /\ g[x] \in Int
  BY <1>0, SumTaken
<1> QED BY <1>1, <1>2, <1>3

\* Terms that are not negative have a sum that is not, and none exceeds it.
LEMMA SumBounds ==
    ASSUME NEW D, NEW f \in [D -> Int], NEW S \in SUBSET D, IsFiniteSet(S),
           \A x \in S : f[x] >= 0
    PROVE  /\ SumFunctionOnSet(f, S) \in Nat
           /\ \A x \in S : f[x] <= SumFunctionOnSet(f, S)
           /\ (\A x \in S : f[x] = 0) => SumFunctionOnSet(f, S) = 0
<1> DEFINE G == {T \in SUBSET S : /\ SumFunctionOnSet(f, T) >= 0
                                  /\ (\A x \in T : f[x] = 0) => SumFunctionOnSet(f, T) = 0}
<1>1. {} \in G
  BY SumOfNothing
<1>2. ASSUME NEW T \in SUBSET S, NEW x \in T, T \ {x} \in G PROVE T \in G
  <2>1. IsFiniteSet(T) /\ IsFiniteSet(T \ {x})
    BY FS_Subset, FS_RemoveElement
  <2>2. SumFunctionOnSet(f, T) = f[x] + SumFunctionOnSet(f, T \ {x})
    BY <2>1, SumTakesOut
  <2>3. f[x] \in Int /\ f[x] >= 0 /\ SumFunctionOnSet(f, T \ {x}) \in Int
    BY <2>1, SumTaken
  <2> QED BY <1>2, <2>2, <2>3
<1>3. \A T \in SUBSET S : T \in G
  <2> SUFFICES ASSUME NEW T \in SUBSET S PROVE T \in G
    OBVIOUS
  <2>1. IsFiniteSet(T)
    BY FS_Subset
  <2> HIDE DEF G
  <2> QED BY <1>1, <1>2, <2>1, SubsetInduction
<1>4. SumFunctionOnSet(f, S) \in Int
  BY SumTaken
<1>5. ASSUME NEW x \in S PROVE f[x] <= SumFunctionOnSet(f, S)
  <2>1. IsFiniteSet(S \ {x})
    BY FS_RemoveElement
  <2>2. SumFunctionOnSet(f, S) = f[x] + SumFunctionOnSet(f, S \ {x})
    BY SumTakesOut
  <2>3. SumFunctionOnSet(f, S \ {x}) \in Int /\ SumFunctionOnSet(f, S \ {x}) >= 0 /\ f[x] \in Int
    BY <1>3, <2>1, SumTaken
  <2> QED BY <2>2, <2>3
<1>6. S \in SUBSET S
  OBVIOUS
<1> QED BY <1>3, <1>4, <1>5, <1>6

\* The sum of the same term for every element is a product.
LEMMA SumConstant ==
    ASSUME NEW D, NEW f \in [D -> Int], NEW S \in SUBSET D, IsFiniteSet(S),
           NEW c \in Int, \A x \in S : f[x] = c
    PROVE  SumFunctionOnSet(f, S) = c * Cardinality(S)
<1> DEFINE G == {T \in SUBSET S : SumFunctionOnSet(f, T) = c * Cardinality(T)}
<1>1. {} \in G
  <2>1. SumFunctionOnSet(f, {}) = 0
    BY SumOfNothing
  <2>2. Cardinality({}) = 0
    BY FS_EmptySet
  <2>3. c * Cardinality({}) = 0
    BY <2>2
  <2> QED BY <2>1, <2>3
<1>2. ASSUME NEW T \in SUBSET S, NEW x \in T, T \ {x} \in G PROVE T \in G
  <2>1. IsFiniteSet(T) /\ IsFiniteSet(T \ {x})
    BY FS_Subset, FS_RemoveElement
  <2>2. SumFunctionOnSet(f, T) = c + SumFunctionOnSet(f, T \ {x})
    BY <2>1, SumTakesOut
  <2>3. Cardinality(T) \in Nat /\ Cardinality(T \ {x}) = Cardinality(T) - 1
    BY <2>1, FS_RemoveElement, FS_CardinalityType
  <2>4. c * Cardinality(T) = c + c * (Cardinality(T) - 1)
    BY <2>3
  <2> QED BY <1>2, <2>2, <2>3, <2>4
<1>3. S \in G
  <2> HIDE DEF G
  <2> QED BY <1>1, <1>2, SubsetInduction
<1> QED BY <1>3
================================================================================
