------------------------- MODULE CarryPositions_proofs -------------------------
(***************************************************************************)
(* Proofs about CarryPositions, for any positions, closers and sizes.      *)
(***************************************************************************)
EXTENDS CarryPositions, PaperLedger_proofs

USE CloserAssumption, PositionAssumption, AmountAssumption, ModeAssumption

--------------------------------------------------------------------------------
(* Type correctness.                                                       *)

\* A task that is at a close() is at a stage of it, for a known position whose
\* size is a number.
LEMMA TaskFacts ==
    ASSUME TypeOK, NEW c \in Closers
    PROVE  /\ task[c] \in Tasks
           /\ task[c].at \in Stages \cup {"idle"}
           /\ task[c].at # "idle" => /\ task[c] \in [at : Stages, p : Positions, sold : Nat]
                                     /\ task[c].p \in Positions /\ Sizes[task[c].p] \in Nat
                                     /\ task[c].sold \in Nat
<1>1. task[c] \in Tasks
  BY DEF TypeOK
<1> QED BY <1>1 DEF Tasks, Idle, Stages

\* Moving a close() on to another of its stages keeps the tasks well typed.
LEMMA GoesType ==
    ASSUME TypeOK, NEW c \in Closers, NEW stage \in Stages, task[c].at # "idle", Goes(c, stage)
    PROVE  task' \in [Closers -> Tasks]
<1>1. [task[c] EXCEPT !.at = stage] \in Tasks
  BY TaskFacts DEF Tasks
<1>2. task' = [task EXCEPT ![c] = [task[c] EXCEPT !.at = stage]]
  BY DEF Goes
<1> QED BY <1>1, <1>2 DEF TypeOK

\* Ending a close() keeps the tasks well typed.
LEMMA EndsType == ASSUME TypeOK, NEW c \in Closers, Ends(c) PROVE task' \in [Closers -> Tasks]
  BY DEF Ends, TypeOK, Tasks

\* A leg fills between nothing and what was ordered.
LEMMA FillsType == ASSUME NEW n \in Nat PROVE Fills(n) \subseteq 0 .. n
  BY DEF Fills

\* The paper books are a ledger of the named accounts.
LEMMA BooksType == TypeOK => books \in Ledgers(Accounts)
  BY DEF TypeOK, Ledgers

\* The accounts named by the actions.
LEMMA Named == {"base", "quote", "margin", "collateral"} = Accounts
  BY DEF Accounts

\* Every step of open_position() keeps the state well typed.
LEMMA OpeningType ==
    ASSUME TypeOK, NEW p \in Positions, Opening(p)
    PROVE  TypeOK'
<1> USE DEF TypeOK, Statuses
<1>1. Sizes[p] \in Nat
  OBVIOUS
<1>2. CASE Open(p)
  <2>1. Reserve(books, "quote", Sizes[p]) \in Ledgers(Accounts)
    BY <1>1, BooksType, Named, ReserveType
  <2>2. Reserve(Reserve(books, "quote", Sizes[p]), "margin", Sizes[p]) \in Ledgers(Accounts)
    BY <1>1, <2>1, Named, ReserveType
  <2>3. books' \in Ledgers(Accounts)
    BY <1>2, <2>2, BooksType DEF Open
  <2> QED BY <1>2, <2>3 DEF Open, Ledgers, history
<1>3. CASE Fill(p)
  <2>1. Opened(p) \in Ledgers(Accounts)
    <3>1. SettleFill(books, "quote", Sizes[p], "base", Sizes[p], TRUE) \in Ledgers(Accounts)
      BY <1>1, BooksType, Named, SettleType
    <3> QED BY <1>1, <3>1, Named, PerpType DEF Opened
  <2>2. Unopened(p) \in Ledgers(Accounts)
    <3>1. Release(books, "quote", Sizes[p]) \in Ledgers(Accounts)
      BY <1>1, BooksType, Named, ReleaseType
    <3> QED BY <1>1, <3>1, Named, ReleaseType DEF Unopened
  <2>3. books' \in Ledgers(Accounts)
    BY <1>3, <2>1, <2>2, BooksType DEF Fill
  <2>4. spot' \in [Positions -> Int] /\ short' \in [Positions -> Int]
    BY <1>1, <1>3 DEF Fill
  <2> QED BY <1>3, <2>3, <2>4 DEF Fill, Ledgers, history
<1>4. CASE Track(p)
  BY <1>4 DEF Track, history, holdings
<1>5. CASE SaveNew(p)
  BY <1>5 DEF SaveNew, history, holdings
<1> QED BY <1>2, <1>3, <1>4, <1>5 DEF Opening

\* Every step of close() keeps the state well typed.
LEMMA ClosingType ==
    ASSUME TypeOK, NEW c \in Closers, Closing(c)
    PROVE  TypeOK'
<1> USE DEF TypeOK, Statuses
<1> DEFINE p == task[c].p
<1>1. CASE task[c].at = "idle"
  BY <1>1 DEF Closing, SaveClosing, CannotClose, ReserveSpot, NoQuote, SellLeg, BuyLeg, Book,
              SaveFinal, WriteFails, LegRaises
<1> SUFFICES ASSUME task[c].at # "idle" PROVE TypeOK'
  BY <1>1
<1>2. p \in Positions /\ Sizes[p] \in Nat /\ task[c].sold \in Nat
  BY TaskFacts
<1>3. ASSUME NEW stage \in Stages, Goes(c, stage) PROVE task' \in [Closers -> Tasks]
  BY <1>3, GoesType
<1>4. CASE SaveClosing(c)
  BY <1>2, <1>3, <1>4 DEF SaveClosing, Saved, Stages, history, holdings
<1>5. CASE CannotClose(c)
  BY <1>2, <1>3, <1>5 DEF CannotClose, Reopened, Stages, history, holdings
<1>6. CASE ReserveSpot(c)
  <2>1. books' \in Ledgers(Accounts)
    <3> HIDE DEF p
    <3>1. Reserve(books, "base", Sizes[p]) \in Ledgers(Accounts)
      BY <1>2, BooksType, Named, ReserveType
    <3> QED BY <1>6, <3>1, BooksType DEF ReserveSpot, p
  <2> QED BY <1>3, <1>6, <2>1 DEF ReserveSpot, Ledgers, Stages, history
<1>7. CASE NoQuote(c)
  <2>1. books' \in Ledgers(Accounts)
    <3> HIDE DEF p
    <3>1. Release(books, "base", Sizes[p]) \in Ledgers(Accounts)
      BY <1>2, BooksType, Named, ReleaseType
    <3> QED BY <1>7, <3>1, BooksType DEF NoQuote, p
  <2>2. status' \in [Positions -> Statuses]
    BY <1>2, <1>7 DEF NoQuote, Reopened
  <2> QED BY <1>3, <1>7, <2>1, <2>2 DEF NoQuote, Ledgers, Stages, history
<1>8. CASE SellLeg(c)
  <2>1. PICK f \in Fills(Sizes[p]) :
          /\ books' = IF simulated THEN SettleFill(books, "base", f, "quote", f, TRUE) ELSE books
          /\ spot' = [spot EXCEPT ![p] = spot[p] - f]
          /\ task' = [task EXCEPT ![c] = [task[c] EXCEPT !.at = "buy", !.sold = f]]
    BY <1>8 DEF SellLeg
  <2>2. f \in Nat
    BY <1>2, FillsType
  <2>3. books' \in Ledgers(Accounts)
    BY <2>1, <2>2, BooksType, Named, SettleType
  <2>4. [task[c] EXCEPT !.at = "buy", !.sold = f] \in Tasks
    BY <2>2, TaskFacts DEF Tasks, Stages
  <2>5. task' \in [Closers -> Tasks]
    BY <2>1, <2>4
  <2>6. spot' \in [Positions -> Int]
    BY <1>2, <2>1, <2>2
  <2> QED BY <1>8, <2>3, <2>5, <2>6 DEF SellLeg, Ledgers, history
<1>9. CASE BuyLeg(c)
  <2>1. PICK g \in Fills(Sizes[p]) :
          /\ books' = IF ~simulated THEN books
                      ELSE Release(IF g = 0 THEN books ELSE ClosePerp(books, "margin", "collateral", g, 0),
                                   "base", Larger(0, Sizes[p] - task[c].sold))
          /\ short' = [short EXCEPT ![p] = short[p] - g]
          /\ status' = [status EXCEPT ![p] = Verdict(p, task[c].sold, g)]
          /\ breakers' \in {breakers, breakers \cup {"carry"}}
          /\ partly' \in {partly, partly \cup {p}}
          /\ \E stage \in {"book", "final"} : Goes(c, stage)
    BY <1>9 DEF BuyLeg
  <2>2. g \in Nat
    BY <1>2, FillsType
  <2>3. books' \in Ledgers(Accounts)
    <3>1. ClosePerp(books, "margin", "collateral", g, 0) \in Ledgers(Accounts)
      BY <2>2, BooksType, Named, PerpType
    <3>2. Larger(0, Sizes[p] - task[c].sold) \in Nat
      BY <1>2 DEF Larger
    <3> QED BY <2>1, <3>1, <3>2, BooksType, Named, ReleaseType
  <2>4. task' \in [Closers -> Tasks]
    BY <1>3, <2>1 DEF Stages
  <2>5. status' \in [Positions -> Statuses]
    BY <1>2, <2>1 DEF Verdict
  <2>6. short' \in [Positions -> Int]
    BY <1>2, <2>1, <2>2
  <2> QED BY <1>2, <1>9, <2>1, <2>3, <2>4, <2>5, <2>6 DEF BuyLeg, Ledgers, history
<1>10. CASE Book(c)
  BY <1>2, <1>3, <1>10 DEF Book, Stages, holdings
<1>11. CASE SaveFinal(c)
  BY <1>2, <1>11, EndsType DEF SaveFinal, history, holdings
<1>12. CASE WriteFails(c)
  BY <1>12, EndsType DEF WriteFails, history, holdings
<1>13. CASE LegRaises(c)
  <2>1. spot' \in [Positions -> Int] /\ short' \in [Positions -> Int]
    BY <1>2, <1>13 DEF LegRaises
  <2> QED BY <1>13, <2>1, EndsType DEF LegRaises, history
<1> QED BY <1>4, <1>5, <1>6, <1>7, <1>8, <1>9, <1>10, <1>11, <1>12, <1>13 DEF Closing

\* Starting a close, the sweeps, a reset and a restart keep the state well typed.
LEMMA OtherType ==
    ASSUME TypeOK,
           \/ \E p \in Positions : \E c \in Closers : StartClose(c, p)
           \/ SweepPaper \/ ReconcileShorts \/ ResetBreakers \/ Restart
    PROVE  TypeOK'
<1> USE DEF TypeOK, Statuses
<1>1. ASSUME NEW p \in Positions, NEW c \in Closers, StartClose(c, p) PROVE TypeOK'
  <2>1. [at |-> "save", p |-> p, sold |-> 0] \in Tasks
    BY DEF Tasks, Stages
  <2>2. task' \in [Closers -> Tasks]
    BY <1>1, <2>1 DEF StartClose
  <2> QED BY <1>1, <2>2 DEF StartClose, history, holdings
<1>2. CASE SweepPaper
  <2>1. \A a \in Accounts : books[a].used \in Nat
    OBVIOUS
  <2>2. \A a \in Accounts : Release(books, a, books[a].used) \in Ledgers(Accounts)
    BY <2>1, BooksType, ReleaseType
  <2>3. books' \in Ledgers(Accounts)
    BY <1>2, <2>2 DEF SweepPaper, Ledgers
  <2> QED BY <1>2, <2>3 DEF SweepPaper, Ledgers
<1>3. CASE ReconcileShorts
  BY <1>3 DEF ReconcileShorts, history, holdings
<1>4. CASE ResetBreakers
  BY <1>4 DEF ResetBreakers, history, holdings
<1>5. CASE Restart
  <2>1. \A p \in Positions : Reloaded(p) \in Statuses
    BY DEF Reloaded
  <2> QED BY <1>5, <2>1 DEF Restart, history, holdings, Tasks
<1> QED BY <1>1, <1>2, <1>3, <1>4, <1>5

\* The initial state is well typed.
LEMMA InitType == Init => TypeOK
<1> SUFFICES ASSUME Init PROVE TypeOK
  OBVIOUS
<1>1. books \in [Accounts -> [free : Int, used : Nat]]
  <2>1. \A a \in Accounts : (IF a = "collateral" THEN 0 ELSE Funds) \in Nat
    OBVIOUS
  <2> QED BY <2>1 DEF Init, Seed, Balance
<1>2. task \in [Closers -> Tasks]
  BY DEF Init, Tasks
<1>3. simulated \in BOOLEAN
  BY DEF Init
<1>4. /\ status \in [Positions -> Statuses] /\ stored \in [Positions -> Statuses]
      /\ spot \in [Positions -> Int] /\ short \in [Positions -> Int]
      /\ booked \in [Positions -> Nat]
  BY DEF Init, Statuses
<1> QED BY <1>1, <1>2, <1>3, <1>4 DEF Init, TypeOK

--------------------------------------------------------------------------------
(* The inductive invariant.  What a position holds follows its status and  *)
(* its row (Holds), what it still holds during close() the stage (Does).   *)

Intact(p) ==
    /\ booked[p] = 0
    /\ p \notin partly => spot[p] = Sizes[p] /\ short[p] = Sizes[p]

Holds(p) ==
    /\ spot[p] <= Sizes[p] /\ short[p] <= Sizes[p]
    /\ p \notin partly => spot[p] >= 0 /\ short[p] >= 0
    /\ booked[p] \in {0, 1}
    /\ booked[p] = 1 => /\ spot[p] <= 0 /\ short[p] <= 0
                        /\ status[p] \in {"closing", "closed", "unknown"}
                        /\ stored[p] \in {"closing", "closed"}
    /\ status[p] \in {"filled", "open"} => Intact(p)
    /\ stored[p] \in {"none", "open", "closing", "closed"}
    /\ stored[p] = "open" => Intact(p) /\ status[p] \in {"open", "closing"}
    /\ status[p] \in {"none", "opening"} => spot[p] = 0 /\ short[p] = 0 /\ booked[p] = 0
    /\ status[p] \in {"none", "opening", "filled"} => stored[p] = "none"
    /\ p \in unsaved => status[p] \in {"open", "closing", "closed"}

Does(c) ==
    LET at == task[c].at
        p  == task[c].p
    IN  /\ at # "idle" => status[p] \in {"open", "closing", "closed"}
        /\ at \in {"save", "reserve", "sell"} => status[p] = "closing" /\ Intact(p)
        /\ at \in {"reserve", "sell", "buy", "book"} => stored[p] \in {"closing", "closed"}
        /\ at = "buy" => /\ status[p] = "closing" /\ booked[p] = 0
                         /\ task[c].sold \in 0 .. Sizes[p]
                         /\ spot[p] <= Sizes[p] - task[c].sold
                         /\ p \notin partly => /\ spot[p] = Sizes[p] - task[c].sold
                                                /\ short[p] = Sizes[p]
        /\ at = "book" => /\ status[p] = "closed" /\ booked[p] = 0
                          /\ spot[p] <= 0 /\ short[p] <= 0

IInv ==
    /\ TypeOK /\ OneCloseAtATime
    /\ \A p \in Positions : Holds(p)
    /\ \A c \in Closers : Does(c)

\* What a step leaves alone of a position.
Untouched(p) ==
    /\ status'[p] = status[p] /\ stored'[p] = stored[p]
    /\ spot'[p] = spot[p] /\ short'[p] = short[p]
    /\ booked'[p] = booked[p]
    /\ (p \in partly') = (p \in partly)
    /\ (p \in unsaved') = (p \in unsaved)

Busy(c) == task[c].at \notin {"idle", "final"}

\* What a position holds is unchanged by a step that leaves it alone.
LEMMA UntouchedHolds ==
    ASSUME NEW p \in Positions, Holds(p), Untouched(p)
    PROVE  Holds(p)'
  BY DEF Holds, Untouched, Intact

\* What a closer may assume is unchanged by a step that leaves it and its
\* position alone.
LEMMA UntouchedDoes ==
    ASSUME NEW c \in Closers, Does(c), task'[c] = task[c], Untouched(task[c].p)
    PROVE  Does(c)'
  BY DEF Does, Untouched, Intact

\* A step on behalf of one position that starts no close: what remains is that
\* position, and the closers that are at it.
LEMMA PositionStep ==
    ASSUME IInv, TypeOK', NEW p \in Positions, task' = task,
           \A q \in Positions \ {p} : Untouched(q),
           Holds(p)',
           \A c \in Closers : task[c].p = p /\ task[c].at # "idle" => Does(c)'
    PROVE  IInv'
<1>1. OneCloseAtATime'
  BY DEF IInv, OneCloseAtATime
<1>2. \A q \in Positions : Holds(q)'
  BY UntouchedHolds DEF IInv
<1>3. ASSUME NEW c \in Closers PROVE Does(c)'
  <2>1. CASE task[c].at = "idle"
    BY <2>1 DEF Does
  <2>2. CASE task[c].at # "idle" /\ task[c].p # p
    BY <2>2, TaskFacts, UntouchedDoes DEF IInv
  <2> QED BY <2>1, <2>2
<1> QED BY <1>1, <1>2, <1>3 DEF IInv

\* A step of close(): what remains is its position, its own stage, and the
\* closers that still have the last write of an earlier attempt to make.
LEMMA CloserStep ==
    ASSUME IInv, TypeOK', NEW c \in Closers, NEW p \in Positions,
           task[c].p = p, task[c].at # "idle",
           Busy(c)' => Busy(c) /\ task'[c].p = p,
           \A d \in Closers \ {c} : task'[d] = task[d],
           \A q \in Positions \ {p} : Untouched(q),
           Holds(p)', Does(c)',
           \A d \in Closers \ {c} : task[d].p = p /\ task[d].at # "idle" => Does(d)'
    PROVE  IInv'
<1>1. OneCloseAtATime'
  BY DEF IInv, OneCloseAtATime, Busy
<1>2. \A q \in Positions : Holds(q)'
  BY UntouchedHolds DEF IInv
<1>3. ASSUME NEW d \in Closers PROVE Does(d)'
  <2>1. CASE task[d].at = "idle" /\ d # c
    BY <2>1 DEF Does
  <2>2. CASE task[d].at # "idle" /\ task[d].p # p /\ d # c
    BY <2>2, TaskFacts, UntouchedDoes DEF IInv
  <2> QED BY <2>1, <2>2
<1> QED BY <1>1, <1>2, <1>3 DEF IInv

\* Another closer of the same position, while one is busy with it, has only its
\* last write to make.
LEMMA OthersAreAtTheEnd ==
    ASSUME IInv, NEW c \in Closers, NEW d \in Closers, c # d, Busy(c),
           task[d].p = task[c].p, task[d].at # "idle"
    PROVE  task[d].at = "final"
  BY DEF IInv, OneCloseAtATime, Busy

\* A closer at its last write asks nothing but a status of a known position.
LEMMA AtTheEnd ==
    ASSUME NEW d \in Closers, task'[d].at = "final",
           status'[task'[d].p] \in {"open", "closing", "closed"}
    PROVE  Does(d)'
  BY DEF Does

\* Every step of open_position() preserves the inductive invariant.
LEMMA OpeningKeeps ==
    ASSUME IInv, NEW p \in Positions, Opening(p)
    PROVE  IInv'
<1>1. TypeOK'
  BY OpeningType DEF IInv
<1>2. Holds(p) /\ Sizes[p] \in Nat \ {0} /\ TypeOK
  BY DEF IInv
<1>3. \A c \in Closers : task[c].p = p /\ task[c].at # "idle" => status[p] \in {"open", "closing", "closed"}
  BY DEF IInv, Does
<1>4. CASE Open(p)
  <2>1. Holds(p)' /\ \A q \in Positions \ {p} : Untouched(q)
    BY <1>2, <1>4 DEF Open, Holds, Intact, Untouched, history, TypeOK
  <2> QED BY <1>1, <1>3, <1>4, <2>1, PositionStep DEF Open
<1>5. CASE Fill(p)
  <2>1. Holds(p)' /\ \A q \in Positions \ {p} : Untouched(q)
    BY <1>2, <1>5 DEF Fill, Holds, Intact, Untouched, history, TypeOK
  <2> QED BY <1>1, <1>3, <1>5, <2>1, PositionStep DEF Fill
<1>6. CASE Track(p)
  <2>1. Holds(p)' /\ \A q \in Positions \ {p} : Untouched(q)
    BY <1>2, <1>6 DEF Track, Holds, Intact, Untouched, history, holdings, TypeOK
  <2> QED BY <1>1, <1>3, <1>6, <2>1, PositionStep DEF Track
<1>7. CASE SaveNew(p)
  <2>1. Holds(p)' /\ \A q \in Positions \ {p} : Untouched(q)
    BY <1>2, <1>7 DEF SaveNew, Holds, Intact, Untouched, history, holdings, TypeOK
  <2>2. ASSUME NEW c \in Closers, task[c].p = p, task[c].at # "idle" PROVE Does(c)'
    <3>1. Does(c)
      BY DEF IInv
    <3> QED BY <1>2, <1>7, <2>2, <3>1 DEF SaveNew, Does, Intact, history, holdings, TypeOK
  <2> QED BY <1>1, <1>7, <2>1, <2>2, PositionStep DEF SaveNew
<1> QED BY <1>4, <1>5, <1>6, <1>7 DEF Opening

\* The start of close(), by the API or by a monitor, preserves the inductive
\* invariant: the status it checks and sets admits no second closer.
LEMMA StartKeeps ==
    ASSUME IInv, NEW p \in Positions, NEW c \in Closers, StartClose(c, p)
    PROVE  IInv'
<1>1. TypeOK'
  BY OtherType DEF IInv
<1>2. Holds(p) /\ TypeOK
  BY DEF IInv
<1>3. /\ task[c].at = "idle" /\ status[p] = "open"
      /\ status' = [status EXCEPT ![p] = "closing"]
      /\ task' = [task EXCEPT ![c] = [at |-> "save", p |-> p, sold |-> 0]]
      /\ UNCHANGED <<stored, unsaved, holdings, history>>
  BY DEF StartClose, Closable
<1>4. Holds(p)' /\ \A q \in Positions \ {p} : Untouched(q)
  BY <1>2, <1>3 DEF Holds, Intact, Untouched, history, holdings, TypeOK
<1>5. \A q \in Positions : Holds(q)'
  BY <1>4, UntouchedHolds DEF IInv
<1>6. ASSUME NEW d \in Closers \ {c}, Busy(d) PROVE task[d].p # p
  BY <1>3, <1>6 DEF IInv, Does, Busy, TypeOK, Tasks, Idle, Stages
<1>7. OneCloseAtATime'
  BY <1>2, <1>3, <1>6 DEF IInv, OneCloseAtATime, Busy, TypeOK
<1>8. Does(c)'
  BY <1>2, <1>3 DEF Does, Holds, Intact, history, holdings, TypeOK
<1>9. ASSUME NEW d \in Closers \ {c} PROVE Does(d)'
  <2>1. task'[d] = task[d] /\ Does(d)
    BY <1>2, <1>3 DEF IInv, TypeOK
  <2>2. CASE task[d].at = "idle"
    BY <2>1, <2>2 DEF Does
  <2>3. CASE task[d].at # "idle" /\ task[d].p # p
    BY <1>2, <1>4, <2>1, <2>3, TaskFacts, UntouchedDoes
  <2>4. CASE task[d].at # "idle" /\ task[d].p = p
    <3>1. task[d].at = "final"
      BY <1>6, <2>4 DEF Busy
    <3>2. status'[p] = "closing"
      BY <1>2, <1>3 DEF TypeOK
    <3> QED BY <2>1, <2>4, <3>1, <3>2, AtTheEnd
  <2> QED BY <2>2, <2>3, <2>4
<1> QED BY <1>1, <1>5, <1>7, <1>8, <1>9 DEF IInv

\* The sweep of simulated positions, the monitor's reconcile, a reset of the
\* breakers and a restart preserve the inductive invariant.
LEMMA OtherKeeps ==
    ASSUME IInv, SweepPaper \/ ReconcileShorts \/ ResetBreakers \/ Restart
    PROVE  IInv'
<1>1. TypeOK'
  BY OtherType DEF IInv
<1>2. CASE Restart
  <2>1. \A c \in Closers : task'[c].at = "idle"
    BY <1>2 DEF Restart, Idle
  <2>2. OneCloseAtATime' /\ \A c \in Closers : Does(c)'
    BY <2>1 DEF OneCloseAtATime, Does
  <2>3. ASSUME NEW p \in Positions PROVE Holds(p)'
    <3>1. /\ Holds(p) /\ status'[p] = Reloaded(p) /\ unsaved' = {}
          /\ UNCHANGED <<stored, spot, short, booked, partly>>
      BY <1>2 DEF IInv, Restart, holdings, history
    <3> QED BY <3>1 DEF Holds, Intact, Reloaded
  <2> QED BY <1>1, <2>2, <2>3 DEF IInv
<1>3. CASE SweepPaper \/ ReconcileShorts \/ ResetBreakers
  <2>1. UNCHANGED <<status, stored, unsaved, spot, short, task, booked, partly>>
    BY <1>3 DEF SweepPaper, ReconcileShorts, ResetBreakers, holdings, history
  <2>2. OneCloseAtATime'
    BY <2>1 DEF IInv, OneCloseAtATime
  <2>3. \A p \in Positions : Holds(p)'
    BY <2>1 DEF IInv, Holds, Intact
  <2>4. \A c \in Closers : Does(c)'
    BY <2>1 DEF IInv, Does, Intact
  <2> QED BY <1>1, <2>2, <2>3, <2>4 DEF IInv
<1> QED BY <1>2, <1>3

\* What the stage of a close says of the closer's position.
LEMMA ClosingKeeps ==
    ASSUME IInv, NEW c \in Closers, Closing(c)
    PROVE  IInv'
<1>1. TypeOK'
  BY ClosingType DEF IInv
<1>2. task[c].at # "idle"
  BY DEF Closing, SaveClosing, CannotClose, ReserveSpot, NoQuote, SellLeg, BuyLeg, Book,
         SaveFinal, WriteFails, LegRaises
<1>p. PICK p \in Positions : p = task[c].p
  BY <1>2, TaskFacts DEF IInv
<1>3. /\ TypeOK /\ Sizes[p] \in Nat \ {0} /\ task[c].sold \in Nat
      /\ Holds(p) /\ Does(c)
  BY <1>2, <1>p, TaskFacts DEF IInv
<1>4. \A d \in Closers \ {c} : task'[d] = task[d]
  BY <1>3 DEF Closing, SaveClosing, CannotClose, ReserveSpot, NoQuote, SellLeg, BuyLeg, Book,
              SaveFinal, WriteFails, LegRaises, Goes, Ends, TypeOK
<1>5. ASSUME Busy(c), status'[p] \in {"open", "closing", "closed"},
             NEW d \in Closers \ {c}, task[d].p = p, task[d].at # "idle"
      PROVE  Does(d)'
  BY <1>4, <1>5, <1>p, OthersAreAtTheEnd, AtTheEnd
<1>6. ASSUME NEW stage \in Stages, Goes(c, stage)
      PROVE  task'[c].at = stage /\ task'[c].p = p /\ task'[c].sold = task[c].sold
  BY <1>3, <1>6, <1>p, TaskFacts DEF Goes, TypeOK
<1>7. ASSUME Ends(c) PROVE task'[c].at = "idle"
  BY <1>3, <1>7 DEF Ends, Idle, TypeOK
<1>8. ASSUME Busy(c),
             Busy(c)' => task'[c].p = p,
             \A q \in Positions \ {p} : Untouched(q),
             Holds(p)', Does(c)', status'[p] \in {"open", "closing", "closed"}
      PROVE  IInv'
  BY <1>1, <1>2, <1>3, <1>4, <1>5, <1>8, <1>p, CloserStep
<1>9. CASE SaveClosing(c)
  <2>1. /\ task'[c].at = "reserve" /\ task'[c].p = p /\ Busy(c)
        /\ status[p] = "closing" /\ Intact(p)
    BY <1>3, <1>6, <1>9, <1>p DEF SaveClosing, Does, Busy, Stages
  <2>2. Holds(p)' /\ Does(c)' /\ \A q \in Positions \ {p} : Untouched(q)
    BY <1>3, <1>9, <2>1, <1>p DEF SaveClosing, Saved, Holds, Does, Intact, Untouched, history, holdings, TypeOK
  <2>3. status' = status
    BY <1>9 DEF SaveClosing
  <2> QED BY <1>8, <2>1, <2>2, <2>3
<1>10. CASE CannotClose(c) \/ NoQuote(c)
  <2>1. /\ task'[c].at = "final" /\ task'[c].p = p /\ Busy(c)
        /\ status' = [status EXCEPT ![p] = "open"]
        /\ UNCHANGED <<stored, unsaved, spot, short, history>>
        /\ Intact(p) /\ status[p] = "closing"
    BY <1>3, <1>6, <1>10, <1>p DEF CannotClose, NoQuote, Does, Busy, Stages, Reopened, holdings
  <2>2. Holds(p)' /\ Does(c)' /\ \A q \in Positions \ {p} : Untouched(q)
    BY <1>3, <2>1, <1>p DEF Holds, Does, Intact, Untouched, history, TypeOK
  <2>3. status'[p] = "open"
    BY <1>3, <2>1 DEF TypeOK
  <2> QED BY <1>8, <2>1, <2>2, <2>3
<1>11. CASE ReserveSpot(c)
  <2>1. /\ task'[c].at = "sell" /\ task'[c].p = p /\ Busy(c)
        /\ UNCHANGED <<status, stored, unsaved, spot, short, history>>
        /\ Intact(p) /\ status[p] = "closing" /\ stored[p] \in {"closing", "closed"}
    BY <1>3, <1>6, <1>11, <1>p DEF ReserveSpot, Does, Busy, Stages
  <2>2. Holds(p)' /\ Does(c)' /\ \A q \in Positions \ {p} : Untouched(q)
    BY <1>3, <2>1, <1>p DEF Holds, Does, Intact, Untouched, history, TypeOK
  <2> QED BY <1>8, <2>1, <2>2
<1>12. CASE SellLeg(c)
  <2>1. PICK f \in Fills(Sizes[task[c].p]) :
          /\ spot' = [spot EXCEPT ![task[c].p] = spot[task[c].p] - f]
          /\ task' = [task EXCEPT ![c] = [task[c] EXCEPT !.at = "buy", !.sold = f]]
    BY <1>12 DEF SellLeg
  <2>2. f \in 0 .. Sizes[p]
    BY <1>3, <1>p, FillsType
  <2>t. task'[c].at = "buy" /\ task'[c].p = p /\ task'[c].sold = f
    BY <1>2, <1>3, <1>p, <2>1, TaskFacts DEF TypeOK
  <2>3. /\ Busy(c)
        /\ UNCHANGED <<status, stored, unsaved, short, history>>
        /\ Intact(p) /\ status[p] = "closing" /\ stored[p] \in {"closing", "closed"}
    BY <1>3, <1>12, <1>p DEF SellLeg, Does, Busy, Intact, history
  <2>4. Holds(p)' /\ Does(c)' /\ \A q \in Positions \ {p} : Untouched(q)
    BY <1>3, <2>1, <2>2, <2>t, <2>3, <1>p DEF Holds, Does, Intact, Untouched, history, TypeOK
  <2> QED BY <1>8, <2>t, <2>3, <2>4
<1>13. CASE BuyLeg(c)
  <2> DEFINE f == task[c].sold
  <2>1. PICK g \in Fills(Sizes[p]) :
          /\ short' = [short EXCEPT ![p] = short[p] - g]
          /\ status' = [status EXCEPT ![p] = Verdict(p, f, g)]
          /\ partly' = IF {f, g} \subseteq {0, Sizes[p]} THEN partly ELSE partly \cup {p}
          /\ Goes(c, IF Verdict(p, f, g) = "closed" THEN "book" ELSE "final")
    BY <1>13, <1>p DEF BuyLeg
  <2>2. g \in 0 .. Sizes[p]
    BY <1>3, FillsType
  <2>3. /\ UNCHANGED <<stored, unsaved, spot, booked>> /\ Busy(c)
        /\ stored[p] \in {"closing", "closed"} /\ booked[p] = 0
        /\ f \in 0 .. Sizes[p] /\ spot[p] <= Sizes[p] - f
        /\ p \notin partly => spot[p] = Sizes[p] - f /\ short[p] = Sizes[p]
    BY <1>3, <1>13, <1>p DEF BuyLeg, Does, Busy
  <2>4. /\ status'[p] = Verdict(p, f, g) /\ task'[c].p = p
        /\ task'[c].at = IF Verdict(p, f, g) = "closed" THEN "book" ELSE "final"
        /\ short'[p] = short[p] - g
        /\ p \notin partly' => p \notin partly /\ f \in {0, Sizes[p]} /\ g \in {0, Sizes[p]}
    BY <1>3, <1>6, <2>1 DEF TypeOK, Stages
  <2>5. \A q \in Positions \ {p} : Untouched(q)
    BY <1>3, <2>1, <2>3 DEF Untouched, TypeOK
  <2> HIDE DEF f
  <2>6. Holds(p)'
    BY <1>3, <2>2, <2>3, <2>4 DEF Holds, Intact, Verdict, TypeOK
  <2>7. Does(c)'
    BY <1>3, <2>2, <2>3, <2>4 DEF Holds, Does, Verdict, TypeOK
  <2>8. status'[p] \in {"open", "closing", "closed"}
    BY <2>4 DEF Verdict
  <2> QED BY <1>8, <2>3, <2>4, <2>5, <2>6, <2>7, <2>8
<1>14. CASE Book(c)
  <2>1. /\ task'[c].at = "final" /\ task'[c].p = p /\ Busy(c)
        /\ booked' = [booked EXCEPT ![p] = booked[p] + 1]
        /\ UNCHANGED <<status, stored, unsaved, spot, short, partly>>
        /\ status[p] = "closed" /\ booked[p] = 0 /\ spot[p] <= 0 /\ short[p] <= 0
        /\ stored[p] \in {"closing", "closed"}
    BY <1>3, <1>6, <1>14, <1>p DEF Book, Does, Busy, Stages, holdings
  <2>2. Holds(p)' /\ Does(c)' /\ \A q \in Positions \ {p} : Untouched(q)
    BY <1>3, <2>1 DEF Holds, Does, Intact, Untouched, TypeOK
  <2> QED BY <1>8, <2>1, <2>2
<1>15. CASE SaveFinal(c)
  <2>1. /\ task'[c].at = "idle"
        /\ stored' = [stored EXCEPT ![p] = status[p]]
        /\ UNCHANGED <<status, unsaved, spot, short, booked, partly>>
        /\ status[p] \in {"open", "closing", "closed"}
    BY <1>3, <1>7, <1>15, <1>p DEF SaveFinal, Does, holdings, history
  <2>2. Holds(p)' /\ Does(c)' /\ \A q \in Positions \ {p} : Untouched(q)
    BY <1>3, <2>1 DEF Holds, Does, Intact, Untouched, TypeOK
  <2>3. ASSUME NEW d \in Closers \ {c}, task[d].p = p, task[d].at # "idle" PROVE Does(d)'
    <3>1. Does(d) /\ task'[d] = task[d]
      BY <1>4 DEF IInv
    <3> QED BY <1>3, <2>1, <2>3, <3>1 DEF Does, Intact, TypeOK
  <2>4. ~Busy(c)'
    BY <2>1 DEF Busy
  <2> QED BY <1>1, <1>2, <1>3, <1>4, <1>p, <2>2, <2>3, <2>4, CloserStep
<1>16. CASE WriteFails(c)
  <2>1. /\ task'[c].at = "idle"
        /\ UNCHANGED <<status, stored, unsaved, spot, short, booked, partly>>
    BY <1>7, <1>16 DEF WriteFails, holdings, history
  <2>2. Holds(p)' /\ Does(c)' /\ \A q \in Positions \ {p} : Untouched(q)
    BY <1>3, <2>1 DEF Holds, Does, Intact, Untouched
  <2>3. ASSUME NEW d \in Closers \ {c}, task[d].p = p, task[d].at # "idle" PROVE Does(d)'
    <3>1. Does(d) /\ task'[d] = task[d]
      BY <1>4 DEF IInv
    <3> QED BY <2>1, <3>1 DEF Does, Intact
  <2>4. ~Busy(c)'
    BY <2>1 DEF Busy
  <2> QED BY <1>1, <1>2, <1>3, <1>4, <1>p, <2>2, <2>3, <2>4, CloserStep
<1>17. CASE LegRaises(c)
  <2>1. PICK n \in {0, Sizes[p]} :
          IF task[c].at = "sell"
            THEN spot' = [spot EXCEPT ![p] = spot[p] - n] /\ short' = short
            ELSE short' = [short EXCEPT ![p] = short[p] - n] /\ spot' = spot
    BY <1>17, <1>p DEF LegRaises
  <2>2. /\ task'[c].at = "idle" /\ Busy(c)
        /\ UNCHANGED <<status, stored, unsaved, booked, partly>>
        /\ task[c].at \in {"sell", "buy"}
        /\ status[p] = "closing" /\ stored[p] \in {"closing", "closed"} /\ booked[p] = 0
    BY <1>3, <1>7, <1>17, <1>p DEF LegRaises, Does, Intact, Busy, history
  <2>3. p \notin partly => IF task[c].at = "sell" THEN spot[p] = Sizes[p] ELSE short[p] = Sizes[p]
    BY <1>3, <2>2, <1>p DEF Does, Intact
  <2>4. Holds(p)'
    BY <1>3, <2>1, <2>2, <2>3 DEF Holds, TypeOK
  <2>5. Does(c)' /\ \A q \in Positions \ {p} : Untouched(q)
    BY <1>3, <2>1, <2>2 DEF Does, Untouched, TypeOK
  <2> QED BY <1>8, <2>2, <2>4, <2>5 DEF Busy
<1> QED BY <1>9, <1>10, <1>11, <1>12, <1>13, <1>14, <1>15, <1>16, <1>17 DEF Closing

\* The inductive invariant holds in every state of every run: statuses, rows,
\* legs and tasks of close() agree, whatever interleaves with them.
THEOREM Invariance == Spec => []IInv
<1>1. Init => IInv
  <2> SUFFICES ASSUME Init PROVE IInv
    OBVIOUS
  <2>1. TypeOK
    BY InitType
  <2>2. OneCloseAtATime /\ \A c \in Closers : Does(c)
    BY DEF Init, OneCloseAtATime, Does, Idle
  <2>3. \A p \in Positions : Holds(p)
    BY DEF Init, Holds
  <2> QED BY <2>1, <2>2, <2>3 DEF IInv
<1>2. IInv /\ [Next]_vars => IInv'
  <2> SUFFICES ASSUME IInv, [Next]_vars PROVE IInv'
    OBVIOUS
  <2>1. CASE UNCHANGED vars
    <3>1. /\ UNCHANGED <<simulated, status, stored, unsaved, spot, short, task>>
          /\ UNCHANGED <<books, breakers, booked, partly, swept>>
      BY <2>1 DEF vars, holdings, history
    <3>2. TypeOK'
      BY <3>1 DEF IInv, TypeOK
    <3>3. OneCloseAtATime' /\ (\A p \in Positions : Holds(p)') /\ \A c \in Closers : Does(c)'
      BY <3>1 DEF IInv, OneCloseAtATime, Holds, Does, Intact
    <3> QED BY <3>2, <3>3 DEF IInv
  <2> QED BY <2>1, OpeningKeeps, StartKeeps, ClosingKeeps, OtherKeeps DEF Next
<1> QED BY <1>1, <1>2, PTL DEF Spec

\* Every variable of CarryPositions keeps its shape: no reservation of the
\* ledger is negative and a running close always has a position.
THEOREM TypeCorrect == Spec => []TypeOK
<1>1. IInv => TypeOK
  BY DEF IInv
<1> QED BY <1>1, Invariance, PTL

\* However many tasks close positions, no two of them are between the first
\* await and the end of close() with the same position.
THEOREM OneCloser == Spec => []OneCloseAtATime
<1>1. IInv => OneCloseAtATime
  BY DEF IInv
<1> QED BY <1>1, Invariance, PTL

\* The P&L of a position is booked at most once and after both legs, whatever
\* fails and however often the program restarts.
THEOREM PnlBookedOnce == Spec => []BookedOnce
<1>1. IInv => BookedOnce
  BY DEF IInv, Holds, BookedOnce
<1> QED BY <1>1, Invariance, PTL

\* No position whose close legs filled entirely or not at all is ever sold or
\* bought back twice.
THEOREM SoldOnce == Spec => []NeverOversold
<1>1. IInv => NeverOversold
  BY DEF IInv, Holds, NeverOversold
<1> QED BY <1>1, Invariance, PTL

--------------------------------------------------------------------------------
(* The simulated books.  What each operation does to the accounts that the *)
(* two promises about the ledger speak of.                                 *)

Margin == Total(books["margin"])
Bucket == Total(books["collateral"])

\* Opening a position: the notional moves from the margin to the bucket, the
\* spot is credited, and the reservations of closes stay as they are.
LEMMA OpenedBooks ==
    ASSUME TypeOK, NEW p \in Positions, NEW after, after = Opened(p), books["collateral"].used = 0
    PROVE  /\ after["collateral"].used = 0
           /\ Total(after["margin"]) + Total(after["collateral"]) = Margin + Bucket
           /\ Total(after["collateral"]) = Bucket + Sizes[p]
           /\ after["base"].used = books["base"].used
           /\ Total(after["base"]) = Total(books["base"]) + Sizes[p]
<1> DEFINE n == Sizes[p]
           paid == PaidFill(books, "quote", n, "base", n)
           moved == Smaller(paid["margin"].used, n)
<1>1. after = OpenPerp(paid, "margin", "collateral", n, 0)
  BY DEF Opened, SettleFill, Consume, PaidFill
<1>2. n \in Nat /\ books \in Ledgers(Accounts)
  BY BooksType
<1> HIDE DEF n
<1>3. /\ paid["margin"] = books["margin"] /\ paid["collateral"] = books["collateral"]
      /\ paid["base"] = [free |-> books["base"].free + n, used |-> books["base"].used]
  BY <1>2, Named DEF PaidFill, Credit, Balance, Ledgers, Accounts
<1>4. paid \in Ledgers(Accounts)
  BY <1>2, Named, PaidType
<1>5. moved \in Int
  BY <1>2, <1>3 DEF Smaller, Ledgers, Accounts
<1> HIDE DEF paid, moved
<1>6. /\ after["base"] = paid["base"]
      /\ after["collateral"] = [free |-> paid["collateral"].free + n, used |-> paid["collateral"].used]
      /\ after["margin"] = [free |-> paid["margin"].free - (n - moved), used |-> paid["margin"].used - moved]
  BY <1>1, <1>2, <1>4, <1>5 DEF OpenPerp, moved, Credit, Balance, Ledgers, Accounts
<1>7. /\ books["base"].free \in Int /\ books["base"].used \in Int
      /\ books["margin"].free \in Int /\ books["margin"].used \in Int
      /\ books["collateral"].free \in Int
  BY <1>2 DEF Ledgers, Accounts
<1> QED BY <1>2, <1>3, <1>5, <1>6, <1>7 DEF Total, Margin, Bucket, n

\* Reserving and releasing in the accounts of the opening legs moves nothing
\* between accounts and leaves the pools of the others alone.
LEMMA OpeningBooks ==
    ASSUME TypeOK, NEW p \in Positions, NEW after,
           after \in {Reserve(Reserve(books, "quote", Sizes[p]), "margin", Sizes[p]), Unopened(p)}
    PROVE  /\ \A a \in Accounts : Total(after[a]) = Total(books[a])
           /\ after["collateral"].used = books["collateral"].used
           /\ after["base"].used = books["base"].used
<1> DEFINE n == Sizes[p]
           taken == Reserve(books, "quote", n)
           given == Release(books, "quote", n)
<1>1. n \in Nat /\ books \in Ledgers(Accounts)
  BY BooksType
<1> HIDE DEF n
<1>n. "quote" \in Accounts /\ "margin" \in Accounts
  BY DEF Accounts
<1>2. taken \in Ledgers(Accounts) /\ given \in Ledgers(Accounts)
  BY <1>1, <1>n, ReserveType, ReleaseType
<1>t. \A a \in Accounts : Total(taken[a]) = Total(books[a]) /\ Total(given[a]) = Total(books[a])
  BY <1>1, <1>n, ReservingKeepsTotals
<1>u. \A a \in Accounts \ {"quote"} : taken[a].used = books[a].used /\ given[a].used = books[a].used
  BY <1>1, <1>n, ReservePools, ReleasePools
<1> HIDE DEF taken, given
<1>3. after = Reserve(taken, "margin", n) \/ after = Release(given, "margin", n)
  BY DEF Unopened, taken, given, n
<1>4. \A a \in Accounts : Total(after[a]) = Total(books[a])
  <2>1. \A a \in Accounts : /\ Total(Reserve(taken, "margin", n)[a]) = Total(taken[a])
                            /\ Total(Release(given, "margin", n)[a]) = Total(given[a])
    BY <1>1, <1>n, <1>2, ReservingKeepsTotals
  <2> QED BY <1>t, <1>3, <2>1
<1>5. \A a \in Accounts \ {"quote", "margin"} : after[a].used = books[a].used
  <2>1. \A a \in Accounts \ {"margin"} : /\ Reserve(taken, "margin", n)[a].used = taken[a].used
                                         /\ Release(given, "margin", n)[a].used = given[a].used
    BY <1>1, <1>n, <1>2, ReservePools, ReleasePools
  <2> QED BY <1>u, <1>3, <2>1
<1> QED BY <1>4, <1>5 DEF Accounts

\* Selling the spot of a close that is covered by the reservations.
LEMMA SoldBooks ==
    ASSUME TypeOK, NEW f \in Nat, NEW after, after = PaidFill(books, "base", f, "quote", f)
    PROVE  /\ after["margin"] = books["margin"] /\ after["collateral"] = books["collateral"]
           /\ f <= books["base"].used => /\ after["base"].used = books["base"].used - f
                                         /\ Total(after["base"]) = Total(books["base"]) - f
<1>2. books \in Ledgers(Accounts)
  BY BooksType
<1>3. /\ after["margin"] = books["margin"] /\ after["collateral"] = books["collateral"]
      /\ after["base"] = [free |-> books["base"].free, used |-> Larger(0, books["base"].used - f)]
  BY <1>2 DEF PaidFill, Credit, Balance, Ledgers, Accounts
<1>4. books["base"].free \in Int /\ books["base"].used \in Nat
  BY <1>2 DEF Ledgers, Accounts
<1> QED BY <1>3, <1>4 DEF Total, Larger

\* Buying back: the bucket is emptied and its excess over the price of what is
\* bought stays in the margin; what was not sold is released.
LEMMA BoughtBooks ==
    ASSUME TypeOK, NEW g \in Nat, NEW n \in Nat, NEW after, books["collateral"].used = 0,
           after = Release(IF g = 0 THEN books ELSE ClosePerp(books, "margin", "collateral", g, 0), "base", n)
    PROVE  /\ after["collateral"].used = 0
           /\ g = 0 => Total(after["margin"]) = Margin /\ Total(after["collateral"]) = Bucket
           /\ g # 0 => /\ Total(after["collateral"]) = 0
                       /\ Total(after["margin"]) = Margin + Bucket + Bucket - g
           /\ after["base"].used = Larger(0, books["base"].used - n)
           /\ Total(after["base"]) = Total(books["base"])
<1> DEFINE bought == IF g = 0 THEN books ELSE ClosePerp(books, "margin", "collateral", g, 0)
<1>1. books \in Ledgers(Accounts)
  BY BooksType
<1>2. bought \in Ledgers(Accounts)
  <2>1. "margin" \in Accounts /\ "collateral" \in Accounts /\ 0 \in Nat
    BY DEF Accounts
  <2>2. ClosePerp(books, "margin", "collateral", g, 0) \in Ledgers(Accounts)
    BY <1>1, <2>1, PerpType
  <2> QED BY <1>1, <2>2
<1>3. /\ books["margin"].free \in Int /\ books["margin"].used \in Int
      /\ books["collateral"].free \in Int
  BY <1>1 DEF Ledgers, Accounts
<1>4. /\ bought["base"] = books["base"] /\ bought["collateral"].used = 0
      /\ g = 0 => Total(bought["margin"]) = Margin /\ Total(bought["collateral"]) = Bucket
      /\ g # 0 => /\ Total(bought["collateral"]) = 0
                  /\ Total(bought["margin"]) = Margin + Bucket + Bucket - g
  <2>1. CASE g = 0
    BY <2>1 DEF Margin, Bucket
  <2>2. CASE g # 0
    <3>1. /\ bought["base"] = books["base"]
          /\ bought["collateral"].used = 0 /\ bought["collateral"].free = 0
          /\ bought["margin"].used = books["margin"].used
          /\ bought["margin"].free = books["margin"].free + books["collateral"].free
                                       + (books["collateral"].free - g) - 0
      BY <1>1, <2>2 DEF ClosePerp, Ledgers, Accounts
    <3> QED BY <1>3, <2>2, <3>1 DEF Total, Margin, Bucket
  <2> QED BY <2>1, <2>2
<1> HIDE DEF bought
<1>5. after = Release(bought, "base", n)
  BY DEF bought
<1>n. "base" \in Accounts
  BY DEF Accounts
<1>6. \A a \in Accounts : Total(after[a]) = Total(bought[a])
  BY <1>2, <1>5, <1>n, ReservingKeepsTotals
<1>7. \A a \in Accounts : after[a].used = IF a = "base" THEN Larger(0, bought[a].used - n) ELSE bought[a].used
  BY <1>2, <1>5, <1>n, ReleasePools
<1> QED BY <1>4, <1>6, <1>7 DEF Accounts

\* What the pool of the spot account still owes to a running close.
Owed(c) ==
    IF task[c].at = "sell" THEN Sizes[task[c].p]
    ELSE IF task[c].at = "buy" THEN Sizes[task[c].p] - task[c].sold ELSE 0
AllOwed == SumFunctionOnSet([c \in Closers |-> Owed(c)], Closers)

\* The bucket pays twice for what it holds: once when it is emptied, once as
\* the price of the short it was opened for.
PerpBalance ==
    /\ books["collateral"].used = 0
    /\ Margin + Bucket + Bucket = Funds + Sum(short)
    /\ Bucket # 0 => \E p \in Positions : short[p] # 0

\* The spot account follows the positions because the pool covers every close.
SpotBalance ==
    /\ AllOwed <= books["base"].used
    /\ Total(books["base"]) = Funds + Sum(spot)

Balanced == PerpBalance /\ (swept \/ SpotBalance)
CarryBooks == simulated => Balanced

\* A sum over the positions when one position changes.
LEMMA SumOfPositions ==
    ASSUME NEW f \in [Positions -> Int], NEW g \in [Positions -> Int], NEW p \in Positions,
           \A q \in Positions \ {p} : f[q] = g[q]
    PROVE  Sum(g) = Sum(f) + (g[p] - f[p])
<1>1. Positions \in SUBSET Positions /\ IsFiniteSet(Positions)
  OBVIOUS
<1> QED BY <1>1, SumChanges DEF Sum

\* A sum over the positions is a number, and none without holdings.
LEMMA SumOfNumbers ==
    ASSUME NEW f \in [Positions -> Int]
    PROVE  /\ Sum(f) \in Int
           /\ (\A p \in Positions : f[p] = 0) => Sum(f) = 0
<1>1. Positions \in SUBSET Positions /\ IsFiniteSet(Positions)
  OBVIOUS
<1>2. SumFunctionOnSet(f, Positions) \in Int
  BY <1>1, SumTaken
<1>3. ASSUME \A p \in Positions : f[p] = 0 PROVE SumFunctionOnSet(f, Positions) = 0
  <2>1. \A p \in Positions : f[p] >= 0
    BY <1>3
  <2> QED BY <1>1, <1>3, <2>1, SumBounds
<1> QED BY <1>2, <1>3 DEF Sum

\* No close is owed less than nothing.
OwedTypes == \A c \in Closers : Owed(c) \in Nat
LEMMA OwedIsNat == IInv => OwedTypes
<1> SUFFICES ASSUME IInv, NEW c \in Closers PROVE Owed(c) \in Nat
  BY DEF OwedTypes
<1>1. CASE task[c].at \notin {"sell", "buy"}
  BY <1>1 DEF Owed
<1>2. CASE task[c].at \in {"sell", "buy"}
  <2>1. /\ Sizes[task[c].p] \in Nat /\ task[c].sold \in Nat
        /\ task[c].at = "buy" => task[c].sold \in 0 .. Sizes[task[c].p]
    BY <1>2, TaskFacts DEF IInv, Does
  <2> QED BY <1>2, <2>1 DEF Owed
<1> QED BY <1>1, <1>2

\* The pool covers the close of each closer.
LEMMA OwedIsCovered ==
    ASSUME IInv, SpotBalance, NEW c \in Closers
    PROVE  Owed(c) <= books["base"].used
<1> DEFINE f == [d \in Closers |-> Owed(d)]
<1>1. \A d \in Closers : Owed(d) \in Nat
  BY OwedIsNat DEF OwedTypes
<1>2. f \in [Closers -> Int] /\ Closers \in SUBSET Closers /\ IsFiniteSet(Closers)
  BY <1>1
<1>3. \A d \in Closers : f[d] = Owed(d) /\ f[d] >= 0
  BY <1>1
<1>4. AllOwed = SumFunctionOnSet(f, Closers)
  BY DEF AllOwed
<1> HIDE DEF f
<1>5. SumFunctionOnSet(f, Closers) \in Nat /\ f[c] <= SumFunctionOnSet(f, Closers)
  BY <1>2, <1>3, SumBounds
<1>6. books["base"].used \in Nat
  BY DEF IInv, TypeOK, Accounts
<1> QED BY <1>1, <1>3, <1>4, <1>5, <1>6 DEF SpotBalance

\* A step of at most one closer keeps the spot account in balance when the pool
\* follows what that close is owed and the total follows the positions.
LEMMA SpotStep ==
    ASSUME IInv, IInv', SpotBalance, NEW c \in Closers,
           \A d \in Closers \ {c} : task'[d] = task[d],
           books'["base"].used >= books["base"].used + (Owed(c)' - Owed(c)),
           Total(books'["base"]) - Sum(spot') = Total(books["base"]) - Sum(spot)
    PROVE  SpotBalance'
<1> DEFINE f == [d \in Closers |-> Owed(d)]
           g == [d \in Closers |-> Owed(d)']
<1>1. OwedTypes /\ OwedTypes'
  BY OwedIsNat, PTL
<1>2. \A d \in Closers : Owed(d) \in Nat /\ Owed(d)' \in Nat
  BY <1>1 DEF OwedTypes
<1>3. /\ f \in [Closers -> Int] /\ g \in [Closers -> Int] /\ f[c] = Owed(c) /\ g[c] = Owed(c)'
      /\ Closers \in SUBSET Closers /\ IsFiniteSet(Closers)
  BY <1>2
<1>4. \A d \in Closers \ {c} : f[d] = g[d]
  BY DEF Owed
<1>5. AllOwed = SumFunctionOnSet(f, Closers) /\ AllOwed' = SumFunctionOnSet(g, Closers)
  BY DEF AllOwed
<1> HIDE DEF f, g
<1>6. /\ SumFunctionOnSet(g, Closers) = SumFunctionOnSet(f, Closers) + (g[c] - f[c])
      /\ SumFunctionOnSet(f, Closers) \in Int
  BY <1>3, <1>4, SumChanges
<1>7. Sum(spot) \in Int /\ Sum(spot') \in Int
  BY SumOfNumbers DEF IInv, TypeOK
<1>8. /\ books["base"].used \in Int /\ books'["base"].used \in Int
      /\ Total(books["base"]) \in Int /\ Total(books'["base"]) \in Int
  BY DEF IInv, TypeOK, Accounts, Total
<1>9. AllOwed' <= books'["base"].used
  BY <1>2, <1>3, <1>5, <1>6, <1>8 DEF SpotBalance
<1>10. Total(books'["base"]) = Funds + Sum(spot')
  BY <1>7, <1>8 DEF SpotBalance
<1> QED BY <1>9, <1>10 DEF SpotBalance

\* Opening a position keeps the simulated books in balance.
LEMMA OpeningBalances ==
    ASSUME IInv, IInv', simulated, Balanced, NEW p \in Positions, Opening(p)
    PROVE  Balanced'
<1>1. /\ TypeOK /\ task' = task /\ swept' = swept /\ Monitor \in Closers
      /\ status[p] = "opening" => spot[p] = 0 /\ short[p] = 0
      /\ Sizes[p] \in Nat \ {0}
  BY DEF IInv, Holds, Opening, Open, Fill, Track, SaveNew, holdings, history
<1>2. \A c \in Closers : Owed(c)' = Owed(c) /\ Owed(c) \in Nat
  BY <1>1, OwedIsNat DEF Owed, OwedTypes
<1>3. /\ books["base"].used \in Int /\ Total(books["base"]) \in Int
      /\ Margin \in Int /\ Bucket \in Int
      /\ spot \in [Positions -> Int] /\ short \in [Positions -> Int]
      /\ Sum(spot) \in Int /\ Sum(short) \in Int
  BY <1>1, SumOfNumbers DEF TypeOK, Accounts, Total, Margin, Bucket
<1>4. CASE /\ UNCHANGED <<spot, short>>
           /\ \A a \in Accounts : Total(books'[a]) = Total(books[a])
           /\ books'["collateral"].used = books["collateral"].used
           /\ books'["base"].used = books["base"].used
  <2>1. PerpBalance'
    BY <1>4 DEF Balanced, PerpBalance, Margin, Bucket, Accounts
  <2>2. ASSUME SpotBalance PROVE SpotBalance'
    <3>1. Total(books'["base"]) = Total(books["base"])
      BY <1>4 DEF Accounts
    <3>2. books'["base"].used >= books["base"].used + (Owed(Monitor)' - Owed(Monitor))
      BY <1>1, <1>2, <1>3, <1>4
    <3>3. Total(books'["base"]) - Sum(spot') = Total(books["base"]) - Sum(spot)
      BY <1>4, <3>1
    <3>4. \A d \in Closers \ {Monitor} : task'[d] = task[d]
      BY <1>1
    <3> QED BY <1>1, <2>2, <3>2, <3>3, <3>4, SpotStep
  <2> QED BY <1>1, <2>1, <2>2 DEF Balanced
<1>5. CASE Open(p)
  <2>1. books' = Reserve(Reserve(books, "quote", Sizes[p]), "margin", Sizes[p]) /\ UNCHANGED <<spot, short>>
    BY <1>5 DEF Open
  <2> QED BY <1>1, <1>4, <2>1, OpeningBooks
<1>6. CASE Track(p) \/ SaveNew(p)
  BY <1>4, <1>6 DEF Track, SaveNew, holdings
<1>7. CASE Fill(p) /\ books' = Unopened(p) /\ UNCHANGED <<spot, short>>
  BY <1>1, <1>4, <1>7, OpeningBooks
<1>8. CASE /\ status[p] = "opening" /\ books' = Opened(p)
           /\ spot' = [spot EXCEPT ![p] = Sizes[p]] /\ short' = [short EXCEPT ![p] = Sizes[p]]
  <2>1. /\ books'["collateral"].used = 0
        /\ Margin' + Bucket' = Margin + Bucket
        /\ Bucket' = Bucket + Sizes[p]
        /\ books'["base"].used = books["base"].used
        /\ Total(books'["base"]) = Total(books["base"]) + Sizes[p]
    <3> DEFINE after == books'
    <3>1. after = Opened(p) /\ books["collateral"].used = 0
      BY <1>8 DEF Balanced, PerpBalance
    <3>2. Margin' = Total(after["margin"]) /\ Bucket' = Total(after["collateral"])
      BY DEF Margin, Bucket
    <3> HIDE DEF after
    <3>3. /\ after["collateral"].used = 0
          /\ Total(after["margin"]) + Total(after["collateral"]) = Margin + Bucket
          /\ Total(after["collateral"]) = Bucket + Sizes[p]
          /\ after["base"].used = books["base"].used
          /\ Total(after["base"]) = Total(books["base"]) + Sizes[p]
      BY <1>1, <3>1, OpenedBooks
    <3> QED BY <3>2, <3>3 DEF after
  <2>2. Sum(spot') = Sum(spot) + Sizes[p] /\ Sum(short') = Sum(short) + Sizes[p]
    <3>1. /\ spot' \in [Positions -> Int] /\ short' \in [Positions -> Int]
          /\ spot'[p] = Sizes[p] /\ short'[p] = Sizes[p]
          /\ \A q \in Positions \ {p} : spot[q] = spot'[q] /\ short[q] = short'[q]
      BY <1>1, <1>3, <1>8
    <3>2. Sum(spot') = Sum(spot) + (spot'[p] - spot[p]) /\ Sum(short') = Sum(short) + (short'[p] - short[p])
      BY <1>3, <3>1, SumOfPositions
    <3> QED BY <1>1, <1>3, <1>8, <3>1, <3>2
  <2>3. PerpBalance'
    <3>1. short'[p] = Sizes[p] /\ Sizes[p] # 0
      BY <1>1, <1>3, <1>8
    <3>2. Margin' \in Int /\ Bucket' \in Int
      BY DEF IInv, TypeOK, Accounts, Total, Margin, Bucket
    <3>3. Margin' + Bucket' + Bucket' = Funds + Sum(short')
      BY <1>1, <1>3, <2>1, <2>2, <3>2 DEF Balanced, PerpBalance
    <3> QED BY <2>1, <3>1, <3>3 DEF PerpBalance
  <2>4. ASSUME SpotBalance PROVE SpotBalance'
    <3>1. books'["base"].used >= books["base"].used + (Owed(Monitor)' - Owed(Monitor))
      BY <1>1, <1>2, <1>3, <2>1
    <3>2. Total(books'["base"]) - Sum(spot') = Total(books["base"]) - Sum(spot)
      BY <1>1, <1>3, <2>1, <2>2
    <3>3. \A d \in Closers \ {Monitor} : task'[d] = task[d]
      BY <1>1
    <3> QED BY <1>1, <2>4, <3>1, <3>2, <3>3, SpotStep
  <2> QED BY <1>1, <2>3, <2>4 DEF Balanced
<1>9. CASE Fill(p)
  BY <1>7, <1>8, <1>9 DEF Fill
<1> QED BY <1>5, <1>6, <1>9 DEF Opening

\* The sweep, when it releases nothing a close still counts on, and the steps
\* that are not about the books keep them in balance.
LEMMA OtherBalances ==
    ASSUME IInv, IInv', simulated, Balanced,
           \/ \E p \in Positions : \E c \in Closers : StartClose(c, p)
           \/ SweepPaper \/ ReconcileShorts \/ ResetBreakers \/ Restart
    PROVE  Balanced'
<1>1. TypeOK /\ Monitor \in Closers
  BY DEF IInv
<1>2. \A c \in Closers : Owed(c) \in Nat
  BY OwedIsNat DEF OwedTypes
<1>3. /\ books["base"].used \in Int /\ Total(books["base"]) \in Int
      /\ Sum(spot) \in Int
  BY <1>1, SumOfNumbers DEF TypeOK, Accounts, Total
<1>4. CASE UNCHANGED <<books, spot, short, task, swept>>
  BY <1>4 DEF Balanced, PerpBalance, SpotBalance, AllOwed, Owed, Margin, Bucket
<1>5. ASSUME NEW p \in Positions, NEW c \in Closers, StartClose(c, p) PROVE Balanced'
  <2>1. UNCHANGED <<books, spot, short, swept>>
    BY <1>5 DEF StartClose, holdings, history
  <2>2. PerpBalance'
    BY <2>1 DEF Balanced, PerpBalance, Margin, Bucket
  <2>3. task'[c].at = "save" /\ task[c].at = "idle" /\ \A d \in Closers \ {c} : task'[d] = task[d]
    BY <1>1, <1>5 DEF StartClose, TypeOK
  <2>4. Owed(c)' = 0 /\ Owed(c) = 0
    BY <2>3 DEF Owed
  <2>5. ASSUME SpotBalance PROVE SpotBalance'
    <3>1. books'["base"].used >= books["base"].used + (Owed(c)' - Owed(c))
      BY <1>3, <2>1, <2>4
    <3>2. Total(books'["base"]) - Sum(spot') = Total(books["base"]) - Sum(spot)
      BY <2>1
    <3> QED BY <2>3, <2>5, <3>1, <3>2, SpotStep
  <2> QED BY <2>1, <2>2, <2>5 DEF Balanced
<1>6. CASE SweepPaper
  <2>1. /\ books' = [a \in Accounts |-> Release(books, a, books[a].used)[a]]
        /\ UNCHANGED <<spot, short, task>>
    BY <1>6 DEF SweepPaper
  <2>2. \A a \in Accounts : Total(books'[a]) = Total(books[a])
    <3>1. \A a \in Accounts : books[a].used \in Nat /\ books \in Ledgers(Accounts)
      BY <1>1, BooksType DEF TypeOK
    <3>2. \A a \in Accounts : Total(Release(books, a, books[a].used)[a]) = Total(books[a])
      BY <3>1, ReservingKeepsTotals
    <3> QED BY <2>1, <3>2
  <2>3. books'["collateral"].used = 0
    <3>1. "collateral" \in Accounts /\ books["collateral"].used = 0 /\ books \in Ledgers(Accounts) /\ 0 \in Nat
      BY <1>1, BooksType DEF Balanced, PerpBalance, Accounts
    <3>2. Release(books, "collateral", 0)["collateral"].used = Larger(0, books["collateral"].used - 0)
      BY <3>1, ReleasePools
    <3> QED BY <2>1, <3>1, <3>2 DEF Larger
  <2>4. PerpBalance'
    BY <2>1, <2>2, <2>3 DEF Balanced, PerpBalance, Margin, Bucket, Accounts
  <2>5. CASE \E c \in Closers : task[c].at \in {"sell", "buy"}
    BY <1>6, <2>4, <2>5 DEF SweepPaper, Balanced
  <2>6. CASE ~\E c \in Closers : task[c].at \in {"sell", "buy"}
    <3>1. swept' = swept \/ swept' = TRUE
      BY <1>6 DEF SweepPaper, IInv, TypeOK
    <3>2. ASSUME SpotBalance PROVE SpotBalance'
      <4>1. \A c \in Closers : Owed(c) = 0
        BY <2>6 DEF Owed
      <4>2. AllOwed = 0
        <5> DEFINE f == [c \in Closers |-> Owed(c)]
        <5>1. /\ f \in [Closers -> Int] /\ Closers \in SUBSET Closers /\ IsFiniteSet(Closers)
              /\ \A c \in Closers : f[c] = 0 /\ f[c] >= 0
          BY <4>1
        <5>2. AllOwed = SumFunctionOnSet(f, Closers)
          BY DEF AllOwed
        <5> HIDE DEF f
        <5> QED BY <5>1, <5>2, SumBounds
      <4>3. AllOwed' = AllOwed
        BY <2>1 DEF AllOwed, Owed
      <4>4. books'["base"].used \in Nat
        BY DEF IInv, TypeOK, Accounts
      <4>5. Total(books'["base"]) = Total(books["base"])
        BY <2>2 DEF Accounts
      <4> QED BY <2>1, <3>2, <4>2, <4>3, <4>4, <4>5 DEF SpotBalance
    <3> QED BY <2>4, <3>1, <3>2 DEF Balanced
  <2> QED BY <2>5, <2>6
<1> QED BY <1>4, <1>5, <1>6 DEF ReconcileShorts, ResetBreakers, Restart, holdings, history

\* Every step of close() keeps the simulated books in balance.
LEMMA ClosingBalances ==
    ASSUME IInv, IInv', simulated, Balanced, NEW c \in Closers, Closing(c)
    PROVE  Balanced'
<1> DEFINE p == task[c].p
           n == Sizes[task[c].p]
<1>0. task[c].at # "idle"
  BY DEF Closing, SaveClosing, CannotClose, ReserveSpot, NoQuote, SellLeg, BuyLeg, Book,
         SaveFinal, WriteFails, LegRaises
<1>1. /\ TypeOK /\ p \in Positions /\ n \in Nat /\ task[c].sold \in Nat
      /\ task[c] \in [at : Stages, p : Positions, sold : Nat]
      /\ swept' = swept
  BY <1>0, TaskFacts DEF IInv, Closing, SaveClosing, CannotClose, ReserveSpot, NoQuote, SellLeg, BuyLeg,
     Book, SaveFinal, WriteFails, LegRaises, history
<1>2. \A d \in Closers \ {c} : task'[d] = task[d]
  BY <1>1 DEF Closing, SaveClosing, CannotClose, ReserveSpot, NoQuote, SellLeg, BuyLeg, Book,
              SaveFinal, WriteFails, LegRaises, Goes, Ends, TypeOK
<1>3. /\ books["base"].used \in Nat /\ Total(books["base"]) \in Int
      /\ books \in Ledgers(Accounts) /\ "base" \in Accounts
      /\ Margin \in Int /\ Bucket \in Int
      /\ spot \in [Positions -> Int] /\ short \in [Positions -> Int]
      /\ Sum(spot) \in Int /\ Sum(short) \in Int
      /\ Owed(c) \in Nat
  BY <1>1, SumOfNumbers, OwedIsNat, BooksType DEF TypeOK, Accounts, Total, Margin, Bucket, OwedTypes
<1>4. ASSUME NEW stage \in Stages, Goes(c, stage)
      PROVE  task'[c].at = stage
  BY <1>1, <1>4 DEF Goes, TypeOK
<1>5. ASSUME PerpBalance',
             SpotBalance => /\ books'["base"].used >= books["base"].used + (Owed(c)' - Owed(c))
                            /\ Total(books'["base"]) - Sum(spot') = Total(books["base"]) - Sum(spot)
      PROVE  Balanced'
  <2>1. SpotBalance => SpotBalance'
    BY <1>2, <1>5, SpotStep
  <2> QED BY <1>1, <1>5, <2>1 DEF Balanced
<1>6. ASSUME UNCHANGED <<spot, short>>,
             \A a \in Accounts : Total(books'[a]) = Total(books[a]),
             books'["collateral"].used = books["collateral"].used,
             books'["base"].used >= books["base"].used + (Owed(c)' - Owed(c))
      PROVE  Balanced'
  <2>1. PerpBalance'
    BY <1>6 DEF Balanced, PerpBalance, Margin, Bucket, Accounts
  <2>2. Total(books'["base"]) - Sum(spot') = Total(books["base"]) - Sum(spot)
    BY <1>3, <1>6
  <2> QED BY <1>5, <1>6, <2>1, <2>2
<1>7. CASE \/ SaveClosing(c) \/ CannotClose(c) \/ Book(c) \/ SaveFinal(c) \/ WriteFails(c) \/ LegRaises(c)
  <2>1. UNCHANGED <<books, spot, short>>
    <3>1. CASE LegRaises(c)
      BY <1>1, <1>3, <3>1 DEF LegRaises
    <3> QED BY <1>7, <3>1 DEF SaveClosing, CannotClose, Book, SaveFinal, WriteFails, holdings
  <2>2. task'[c].at \in {"reserve", "final", "idle"}
    <3>1. CASE Ends(c)
      BY <1>1, <3>1 DEF Ends, Idle, TypeOK
    <3>2. CASE Goes(c, "reserve") \/ Goes(c, "final")
      BY <1>4, <3>2 DEF Stages
    <3> QED BY <1>7, <3>1, <3>2 DEF SaveClosing, CannotClose, Book, SaveFinal, WriteFails, LegRaises
  <2>3. Owed(c)' = 0
    BY <2>2 DEF Owed
  <2>4. books'["base"].used >= books["base"].used + (Owed(c)' - Owed(c))
    BY <1>3, <2>1, <2>3
  <2> QED BY <1>6, <2>1, <2>4
<1>8. CASE ReserveSpot(c)
  <2>1. /\ books' = Reserve(books, "base", n) /\ UNCHANGED <<spot, short>>
        /\ task[c].at = "reserve" /\ task' = [task EXCEPT ![c].at = "sell"]
    BY <1>8 DEF ReserveSpot, Goes
  <2>2. Owed(c) = 0 /\ Owed(c)' = n
    BY <1>1, <2>1 DEF Owed, TypeOK
  <2> HIDE DEF p, n
  <2>3. \A a \in Accounts : Total(books'[a]) = Total(books[a])
    BY <1>1, <1>3, <2>1, ReservingKeepsTotals
  <2>4. \A a \in Accounts : books'[a].used = IF a = "base" THEN books[a].used + n ELSE books[a].used
    BY <1>1, <1>3, <2>1, ReservePools
  <2>5. books'["collateral"].used = books["collateral"].used /\ books'["base"].used = books["base"].used + n
    BY <2>4 DEF Accounts
  <2> QED BY <1>1, <1>3, <1>6, <2>1, <2>2, <2>3, <2>5
<1>9. CASE NoQuote(c)
  <2>1. /\ books' = Release(books, "base", n) /\ UNCHANGED <<spot, short>>
        /\ task[c].at = "sell" /\ task'[c].at = "final"
    BY <1>4, <1>9 DEF NoQuote, Stages
  <2>2. Owed(c) = n /\ Owed(c)' = 0
    BY <2>1 DEF Owed
  <2> HIDE DEF p, n
  <2>3. \A a \in Accounts : Total(books'[a]) = Total(books[a])
    BY <1>1, <1>3, <2>1, ReservingKeepsTotals
  <2>4. \A a \in Accounts : books'[a].used = IF a = "base" THEN Larger(0, books[a].used - n) ELSE books[a].used
    BY <1>1, <1>3, <2>1, ReleasePools
  <2>5. /\ books'["collateral"].used = books["collateral"].used
        /\ books'["base"].used = Larger(0, books["base"].used - n)
    BY <2>4 DEF Accounts
  <2>6. books'["base"].used >= books["base"].used + (Owed(c)' - Owed(c))
    BY <1>1, <1>3, <2>2, <2>5 DEF Larger
  <2> QED BY <1>6, <2>1, <2>3, <2>5, <2>6
<1>10. CASE SellLeg(c)
  <2>1. PICK f \in Fills(n) :
          /\ books' = PaidFill(books, "base", f, "quote", f)
          /\ spot' = [spot EXCEPT ![p] = spot[p] - f]
          /\ task' = [task EXCEPT ![c] = [task[c] EXCEPT !.at = "buy", !.sold = f]]
    BY <1>10 DEF SellLeg, SettleFill, Consume, PaidFill
  <2>2. short' = short /\ task[c].at = "sell"
    BY <1>10 DEF SellLeg
  <2>3. f \in 0 .. n
    BY <1>1, FillsType
  <2>4. Owed(c) = n
    BY <2>2 DEF Owed
  <2>5. Owed(c)' = n - f
    BY <1>1, <2>1 DEF Owed, TypeOK
  <2> HIDE DEF n
  <2>6. Sum(spot') = Sum(spot) - f
    <3>1. /\ spot' \in [Positions -> Int] /\ spot'[p] = spot[p] - f
          /\ \A q \in Positions \ {p} : spot[q] = spot'[q]
      BY <1>1, <1>3, <2>1, <2>3
    <3> HIDE DEF p
    <3>2. Sum(spot') = Sum(spot) + (spot'[p] - spot[p])
      BY <1>1, <1>3, <3>1, SumOfPositions
    <3>3. spot[p] \in Int /\ f \in Int
      BY <1>1, <1>3, <2>3
    <3> QED BY <1>3, <3>1, <3>2, <3>3
  <2> HIDE DEF p
  <2>7. books'["margin"] = books["margin"] /\ books'["collateral"] = books["collateral"]
    BY <1>1, <2>1, <2>3, SoldBooks
  <2>8. PerpBalance'
    BY <2>2, <2>7 DEF Balanced, PerpBalance, Margin, Bucket
  <2>9. ASSUME SpotBalance
        PROVE  /\ books'["base"].used >= books["base"].used + (Owed(c)' - Owed(c))
               /\ Total(books'["base"]) - Sum(spot') = Total(books["base"]) - Sum(spot)
    <3>1. f <= books["base"].used
      BY <1>1, <1>3, <2>3, <2>4, <2>9, OwedIsCovered
    <3>2. books'["base"].used = books["base"].used - f /\ Total(books'["base"]) = Total(books["base"]) - f
      BY <1>1, <2>1, <2>3, <3>1, SoldBooks
    <3> QED BY <1>1, <1>3, <2>3, <2>4, <2>5, <2>6, <3>2
  <2> QED BY <1>5, <2>8, <2>9
<1>11. CASE BuyLeg(c)
  <2> DEFINE rest == Larger(0, n - task[c].sold)
             after == books'
  <2>1. PICK g \in Fills(n) :
          /\ after = Release(IF g = 0 THEN books ELSE ClosePerp(books, "margin", "collateral", g, 0),
                             "base", rest)
          /\ short' = [short EXCEPT ![p] = short[p] - g]
          /\ \E stage \in {"book", "final"} : Goes(c, stage)
    BY <1>11 DEF BuyLeg
  <2>2. spot' = spot /\ task[c].at = "buy" /\ task[c].sold \in 0 .. n
    BY <1>11 DEF BuyLeg, IInv, Does
  <2>3. g \in 0 .. n
    BY <1>1, FillsType
  <2>4. rest = n - task[c].sold /\ rest \in Nat
    BY <1>1, <2>2 DEF Larger
  <2>5. Owed(c) = rest
    BY <2>2, <2>4 DEF Owed
  <2>6. Owed(c)' = 0
    BY <1>4, <2>1 DEF Owed, Stages
  <2> HIDE DEF n, rest
  <2>7. Sum(short') = Sum(short) - g
    <3>1. /\ short' \in [Positions -> Int] /\ short'[p] = short[p] - g
          /\ \A q \in Positions \ {p} : short[q] = short'[q]
      BY <1>1, <1>3, <2>1, <2>3
    <3> HIDE DEF p
    <3>2. Sum(short') = Sum(short) + (short'[p] - short[p])
      BY <1>1, <1>3, <3>1, SumOfPositions
    <3>3. short[p] \in Int /\ g \in Int
      BY <1>1, <1>3, <2>3
    <3> QED BY <1>3, <3>1, <3>2, <3>3
  <2>8. g = 0 => short' = short
    BY <1>1, <1>3, <2>1
  <2>9. Margin' = Total(after["margin"]) /\ Bucket' = Total(after["collateral"])
    BY DEF Margin, Bucket
  <2>10. books["collateral"].used = 0
    BY DEF Balanced, PerpBalance
  <2> HIDE DEF p, after
  <2>11. /\ after["collateral"].used = 0
         /\ g = 0 => Total(after["margin"]) = Margin /\ Total(after["collateral"]) = Bucket
         /\ g # 0 => /\ Total(after["collateral"]) = 0
                     /\ Total(after["margin"]) = Margin + Bucket + Bucket - g
         /\ after["base"].used = Larger(0, books["base"].used - rest)
         /\ Total(after["base"]) = Total(books["base"])
    BY <1>1, <2>1, <2>3, <2>4, <2>10, BoughtBooks
  <2>12. PerpBalance'
    <3>1. Margin' + Bucket' + Bucket' = Funds + Sum(short')
      BY <1>1, <1>3, <2>3, <2>7, <2>9, <2>11 DEF Balanced, PerpBalance
    <3>2. Bucket' # 0 => \E q \in Positions : short'[q] # 0
      BY <2>8, <2>9, <2>11 DEF Balanced, PerpBalance
    <3> QED BY <2>11, <3>1, <3>2 DEF PerpBalance, after
  <2>13. /\ books'["base"].used >= books["base"].used + (Owed(c)' - Owed(c))
         /\ Total(books'["base"]) - Sum(spot') = Total(books["base"]) - Sum(spot)
    BY <1>3, <2>2, <2>4, <2>5, <2>6, <2>11 DEF Larger, after
  <2> QED BY <1>5, <2>12, <2>13
<1> QED BY <1>7, <1>8, <1>9, <1>10, <1>11 DEF Closing

\* In every simulated run the perp account pays twice for its bucket and the
\* spot account is covered until the reconciler sweeps under a running close.
THEOREM BooksBalance == Spec => []CarryBooks
<1>1. Init => CarryBooks
  <2> SUFFICES ASSUME Init PROVE Balanced
    BY DEF CarryBooks
  <2>1. TypeOK /\ \A p \in Positions : spot[p] = 0 /\ short[p] = 0
    BY InitType DEF Init
  <2>2. /\ Margin = Funds /\ Bucket = 0 /\ books["collateral"].used = 0
        /\ Total(books["base"]) = Funds /\ books["base"].used = 0
    BY DEF Init, Seed, Balance, Accounts, Total, Margin, Bucket
  <2>3. Sum(spot) = 0 /\ Sum(short) = 0
    BY <2>1, SumOfNumbers DEF TypeOK
  <2>4. PerpBalance
    BY <2>2, <2>3 DEF PerpBalance
  <2>5. AllOwed = 0
    <3> DEFINE f == [c \in Closers |-> Owed(c)]
    <3>1. \A c \in Closers : Owed(c) = 0
      BY DEF Init, Idle, Owed
    <3>2. /\ f \in [Closers -> Int] /\ Closers \in SUBSET Closers /\ IsFiniteSet(Closers)
          /\ \A c \in Closers : f[c] = 0 /\ f[c] >= 0
      BY <3>1
    <3>3. AllOwed = SumFunctionOnSet(f, Closers)
      BY DEF AllOwed
    <3> HIDE DEF f
    <3> QED BY <3>2, <3>3, SumBounds
  <2>6. SpotBalance
    BY <2>2, <2>3, <2>5 DEF SpotBalance
  <2> QED BY <2>4, <2>6 DEF Balanced
<1>2. IInv /\ IInv' /\ CarryBooks /\ [Next]_vars => CarryBooks'
  <2> SUFFICES ASSUME IInv, IInv', CarryBooks, [Next]_vars, simulated' PROVE Balanced'
    BY DEF CarryBooks
  <2>1. simulated
    BY DEF Next, Opening, Closing, Open, Fill, Track, SaveNew, StartClose, SaveClosing, CannotClose,
           ReserveSpot, NoQuote, SellLeg, BuyLeg, Book, SaveFinal, WriteFails, LegRaises,
           SweepPaper, ReconcileShorts, ResetBreakers, Restart, vars
  <2>2. Balanced
    BY <2>1 DEF CarryBooks
  <2>3. CASE UNCHANGED vars
    <3>1. UNCHANGED <<books, spot, short, task, swept>>
      BY <2>3 DEF vars, holdings, history
    <3> QED BY <2>2, <3>1 DEF Balanced, PerpBalance, SpotBalance, AllOwed, Owed, Margin, Bucket
  <2> QED BY <2>1, <2>2, <2>3, OpeningBalances, ClosingBalances, OtherBalances DEF Next
<1> QED BY <1>1, <1>2, Invariance, PTL DEF Spec

\* Whatever opens and closes, and however often a close fails, the perp account
\* of a simulated run has its starting balance back when no short is left.
THEOREM PerpAccountSettles == Spec => []PerpSettles
<1>1. IInv /\ CarryBooks => PerpSettles
  <2> SUFFICES ASSUME IInv, CarryBooks, simulated, \A p \in Positions : short[p] = 0
               PROVE  Total(books["margin"]) + Total(books["collateral"]) = Funds
    BY DEF PerpSettles
  <2>1. PerpBalance
    BY DEF CarryBooks, Balanced
  <2>2. Bucket = 0 /\ Sum(short) = 0
    BY <2>1, SumOfNumbers DEF PerpBalance, IInv, TypeOK
  <2>3. Margin \in Int
    BY DEF IInv, TypeOK, Accounts, Total, Margin
  <2> QED BY <2>1, <2>2, <2>3 DEF PerpBalance, Margin, Bucket
<1> QED BY <1>1, Invariance, BooksBalance, PTL

\* The spot account of a simulated run holds what its positions hold, until the
\* reconciler releases the reservation of a running close.
THEOREM SpotAccountMatches == Spec => []SpotMatches
<1>1. CarryBooks => SpotMatches
  BY DEF CarryBooks, Balanced, SpotBalance, SpotMatches
<1> QED BY <1>1, BooksBalance, PTL
================================================================================
