------------------------- MODULE SafetyAndVenues_proofs -------------------------
(***************************************************************************)
(* Proofs about the breakers and the emergency stop (SafetyControl), for   *)
(* any number of tasks and breakers, and about the venues' side: an order  *)
(* of any size (VenueOrders) and a feed of any number of symbols, whose    *)
(* gate asks for breakers (MarketFeed), and a leg on books of any depth    *)
(* (OrderBook).  The four share no state.                                  *)
(***************************************************************************)
EXTENDS SafetyControl, MarketFeed, VenueOrders, OrderBook, FiniteSetTheorems,
        WellFoundedInduction, TLAPS

USE DEF memory, Nothing, Calls

\* Asking for a call only records the request, and sets or clears the flag.
LEMMA Requesting ==
    ASSUME NEW c \in Callers, Request(c)
    PROVE  \E op \in {"trip", "reset", "activate", "release"} : \E arg \in SUBSET Breakers :
             /\ Call(c, op, arg)
             /\ op \in {"activate", "release"} => c \in Operators
             /\ op = "activate" => flag' = TRUE /\ engaged' = engaged
             /\ op = "release" => flag' = FALSE /\ engaged' = FALSE
             /\ op \in {"trip", "reset"} => flag' = flag /\ engaged' = engaged
<1> USE BreakerAssumption
<1>1. CASE Reset(c)
  <2>1. PICK arg \in SUBSET Breakers : Call(c, "reset", arg)
    BY <1>1 DEF Reset, Named
  <2> QED BY <1>1, <2>1 DEF Reset
<1>2. CASE Trip(c)
  <2>1. PICK arg \in SUBSET Breakers : Call(c, "trip", arg)
    BY <1>2 DEF Trip
  <2> QED BY <1>2, <2>1 DEF Trip
<1>3. CASE c \in Operators /\ Activate(c)
  BY <1>3 DEF Activate
<1>4. CASE c \in Operators /\ ReleaseStop(c)
  BY <1>4 DEF ReleaseStop
<1> QED BY <1>1, <1>2, <1>3, <1>4 DEF Request

\* Every variable of SafetyControl keeps its shape, and the lock has one
\* holder at most.
THEOREM TypeCorrect == SafetySpec => []SafetyTypeOK
<1> USE BreakerAssumption, CallerAssumption, BootAssumption
<1>1. SafetyInit => SafetyTypeOK
  <2> SUFFICES ASSUME SafetyInit PROVE SafetyTypeOK
    OBVIOUS
  <2>1. call \in [Callers -> Calls]
    BY DEF SafetyInit
  <2>2. flag \in BOOLEAN /\ doc \in BOOLEAN /\ engaged \in BOOLEAN /\ missed \in BOOLEAN
    BY DEF SafetyInit
  <2> QED BY <2>1, <2>2 DEF SafetyInit, SafetyTypeOK
<1>2. SafetyTypeOK /\ [SafetyNext]_safetyVars => SafetyTypeOK'
  <2> SUFFICES ASSUME SafetyTypeOK, [SafetyNext]_safetyVars PROVE SafetyTypeOK'
    OBVIOUS
  <2> USE DEF SafetyTypeOK
  <2>1. ASSUME NEW c \in Callers, Request(c) PROVE SafetyTypeOK'
    <3>1. PICK op \in {"trip", "reset", "activate", "release"}, arg \in SUBSET Breakers :
             /\ Call(c, op, arg)
             /\ flag' \in {flag, TRUE, FALSE} /\ engaged' \in {engaged, FALSE}
      BY <2>1, Requesting
    <3>2. call' \in [Callers -> Calls]
      BY <3>1 DEF Call
    <3> QED BY <3>1, <3>2 DEF Call
  <2>2. ASSUME NEW c \in Callers, Change(c) PROVE SafetyTypeOK'
    <3>1. call[c] \in Calls
      OBVIOUS
    <3>2. active' \subseteq Breakers /\ owed' \subseteq Breakers
      <4>1. active' \in {active \cup call[c].arg, active \ call[c].arg}
        BY <2>2 DEF Change
      <4>2. owed' \in {owed, owed \ call[c].arg}
        BY <2>2 DEF Change
      <4> QED BY <3>1, <4>1, <4>2
    <3>3. call' \in [Callers -> Calls]
      <4>1. [call[c] EXCEPT !.at = "save", !.snap = active'] \in Calls
        BY <3>1, <3>2
      <4>2. call' = [call EXCEPT ![c] = [call[c] EXCEPT !.at = "save", !.snap = active']]
        BY <2>2 DEF Change
      <4> QED BY <4>1, <4>2
    <3>4. busy' = {c}
      BY <2>2 DEF Change, LockFree
    <3> QED BY <2>2, <3>2, <3>3, <3>4 DEF Change
  <2>3. ASSUME NEW c \in Callers, Commit(c) PROVE SafetyTypeOK'
    BY <2>3 DEF Commit, Stored
  <2>4. ASSUME NEW c \in Callers, SaveDoc(c) PROVE SafetyTypeOK'
    BY <2>4 DEF SaveDoc
  <2>5. ASSUME NEW c \in Callers, WriteFails(c) PROVE SafetyTypeOK'
    BY <2>5 DEF WriteFails
  <2>6. CASE ProcessDies
    BY <2>6 DEF ProcessDies
  <2>7. CASE Boot
    BY <2>7 DEF Boot, BootRebuild, Erases, RestoreStop, LoadBreakers, Restored, Reloaded
  <2>8. CASE UNCHANGED safetyVars
    BY <2>8 DEF safetyVars
  <2> QED BY <2>1, <2>2, <2>3, <2>4, <2>5, <2>6, <2>7, <2>8 DEF SafetyNext, Serve
<1> QED BY <1>1, <1>2, PTL DEF SafetySpec

--------------------------------------------------------------------------------
(* The lock: one holder, whose list is the breakers in memory.             *)

Locked ==
    /\ \A c \in Callers : call[c].at = "save" <=> c \in busy
    /\ \A c, d \in busy : c = d
    /\ \A c \in busy : call[c].snap = active /\ (Adds(c) => call[c].arg \subseteq active)
    /\ stage # "up" => busy = {} /\ \A c \in Callers : call[c] = Nothing

\* While the application starts, memory holds nothing the database has not.
Booting ==
    /\ stage = "rebuild" => active = {}
    /\ stage \in {"restore", "load"} => active \subseteq stored

LockInv == SafetyTypeOK /\ Locked /\ Booting /\ PersistedWhenQuiet

\* What the lock guards holds when the application first starts.
LEMMA LockInitially == SafetyInit => Locked /\ Booting /\ PersistedWhenQuiet
  BY DEF SafetyInit, Locked, Booting, PersistedWhenQuiet

\* Every step, crashes and failed writes included, preserves what the lock guards.
LEMMA LockStep == LockInv /\ SafetyTypeOK' /\ [SafetyNext]_safetyVars => LockInv'
<1> SUFFICES ASSUME LockInv, SafetyTypeOK', [SafetyNext]_safetyVars PROVE (Locked /\ Booting /\ PersistedWhenQuiet)'
  BY DEF LockInv
<1> USE BreakerAssumption, BootAssumption DEF LockInv, SafetyTypeOK, Locked, Booting, PersistedWhenQuiet
<1>1. ASSUME NEW c \in Callers, Request(c) PROVE (Locked /\ Booting /\ PersistedWhenQuiet)'
  <2>1. PICK op \in {"trip", "reset", "activate", "release"}, arg \in SUBSET Breakers :
             Call(c, op, arg)
    BY <1>1, Requesting
  <2> QED BY <2>1 DEF Call, Adds
<1>2. ASSUME NEW c \in Callers, Change(c) PROVE (Locked /\ Booting /\ PersistedWhenQuiet)'
  BY <1>2 DEF Change, LockFree, Adds
<1>3. ASSUME NEW c \in Callers, Commit(c) PROVE (Locked /\ Booting /\ PersistedWhenQuiet)'
  BY <1>3 DEF Commit, Stored, Adds
<1>4. ASSUME NEW c \in Callers, SaveDoc(c) PROVE (Locked /\ Booting /\ PersistedWhenQuiet)'
  BY <1>4 DEF SaveDoc, Adds
<1>5. ASSUME NEW c \in Callers, WriteFails(c) PROVE (Locked /\ Booting /\ PersistedWhenQuiet)'
  BY <1>5 DEF WriteFails, Adds
<1>6. CASE ProcessDies
  BY <1>6 DEF ProcessDies
<1>7. CASE Boot
  BY <1>7 DEF Boot, BootRebuild, Erases, RestoreStop, LoadBreakers, Restored, Reloaded
<1>8. CASE UNCHANGED safetyVars
  BY <1>8 DEF safetyVars, Adds
<1> QED BY <1>1, <1>2, <1>3, <1>4, <1>5, <1>6, <1>7, <1>8 DEF SafetyNext, Serve

\* What the lock guards holds in every state of every run.
LEMMA LockInvariant == SafetySpec => []LockInv
<1>1. SafetyInit /\ SafetyTypeOK => LockInv
  BY LockInitially DEF LockInv
<1>2. LockInv /\ SafetyTypeOK' /\ [SafetyNext]_safetyVars => LockInv'
  BY LockStep
<1> QED BY TypeCorrect, <1>1, <1>2, PTL DEF SafetySpec

\* However many tasks trip and reset breakers, the database holds exactly the
\* breakers in memory whenever no write is in progress and the last one did not
\* fail: the lock kept across _on_change orders the writes.
THEOREM Persisted == SafetySpec => []PersistedWhenQuiet
  BY LockInvariant, PTL DEF LockInv

--------------------------------------------------------------------------------
(* What was tripped, through restarts of every kind.                       *)

Owing ==
    /\ owed \ erased \subseteq stored
    /\ stage = "up" => owed \ erased \subseteq active

\* Every step keeps the owed breakers that no start wrote over in the database, and
\* in memory once the application is up.
LEMMA OwingStep ==
    ASSUME LockInv, Owing, [SafetyNext]_safetyVars PROVE Owing'
<1> USE DEF LockInv, SafetyTypeOK, Locked, Owing
<1>1. ASSUME NEW c \in Callers, Request(c) PROVE Owing'
  BY <1>1 DEF Request, Reset, Trip, Activate, ReleaseStop, Call
<1>2. ASSUME NEW c \in Callers, Change(c) PROVE Owing'
  BY <1>2 DEF Change, LockFree
<1>3. ASSUME NEW c \in Callers, Commit(c) PROVE Owing'
  <2>1. call[c].snap = active /\ stored' = active /\ active' = active /\ erased' = erased \ active
    BY <1>3 DEF Commit, Stored
  <2>2. owed' \subseteq owed \cup active /\ stage' = stage /\ stage = "up"
    BY <1>3 DEF Commit, Adds
  <2> QED BY <2>1, <2>2
<1>4. ASSUME NEW c \in Callers, SaveDoc(c) \/ WriteFails(c) PROVE Owing'
  BY <1>4 DEF SaveDoc, WriteFails
<1>5. CASE ProcessDies
  BY <1>5 DEF ProcessDies
<1>6. CASE Boot
  <2>1. CASE BootRebuild
    <3>1. CASE UNCHANGED <<active, stored, owed, erased>>
      BY <2>1, <3>1 DEF BootRebuild
    <3>2. CASE \E bs \in SUBSET VenueBreakers : Erases(bs)
      BY <2>1, <3>2 DEF BootRebuild, Erases
    <3> QED BY <2>1, <3>1, <3>2 DEF BootRebuild
  <2>2. CASE RestoreStop
    BY <2>2 DEF RestoreStop
  <2>3. CASE LoadBreakers
    BY <2>3 DEF LoadBreakers, Reloaded
  <2> QED BY <1>6, <2>1, <2>2, <2>3 DEF Boot
<1>7. CASE UNCHANGED safetyVars
  BY <1>7 DEF safetyVars
<1> QED BY <1>1, <1>2, <1>3, <1>4, <1>5, <1>6, <1>7 DEF SafetyNext, Serve

\* A committed breaker survives every crash, restart and failed write until it is
\* reset, unless a start that connects a venue writes over it; venues may connect
\* at any start, and crashes may interrupt it.
THEOREM BreakersSurvive == SafetySpec => []OnlyStartsErase
<1>1. SafetyInit => Owing
  BY DEF SafetyInit, Owing
<1>2. LockInv /\ Owing /\ [SafetyNext]_safetyVars => Owing'
  BY OwingStep
<1>3. Owing => OnlyStartsErase
  BY DEF Owing, OnlyStartsErase
<1> QED BY LockInvariant, <1>1, <1>2, <1>3, PTL DEF SafetySpec

--------------------------------------------------------------------------------
(* One operator at a time.                                                 *)

Stopping ==
    /\ engaged => doc /\ (stage \in {"load", "up"} => flag)
    /\ \A c \in Callers :
         /\ call[c].at = "doc" => call[c].op \in {"activate", "release"}
         /\ call[c].op \in {"activate", "release"} => c \in Operators /\ stage = "up"
         /\ call[c].op = "activate" => flag
         /\ call[c].op = "release" => ~engaged

\* Every step keeps an engaged stop in the document and, once restored, in memory.
LEMMA StoppingStep ==
    ASSUME \A c, d \in Operators : c = d,
           LockInv, Stopping, [SafetyNext]_safetyVars
    PROVE  Stopping'
<1> USE CallerAssumption DEF LockInv, SafetyTypeOK, Locked, Stopping
<1>1. ASSUME NEW c \in Callers, Request(c) PROVE Stopping'
  <2>1. PICK op \in {"trip", "reset", "activate", "release"}, arg \in SUBSET Breakers :
             /\ Call(c, op, arg)
             /\ op \in {"activate", "release"} => c \in Operators
             /\ op = "activate" => flag' = TRUE /\ engaged' = engaged
             /\ op = "release" => flag' = FALSE /\ engaged' = FALSE
             /\ op \in {"trip", "reset"} => flag' = flag /\ engaged' = engaged
    BY <1>1, Requesting
  <2> QED BY <2>1 DEF Call
<1>4. ASSUME NEW c \in Callers, Change(c) PROVE Stopping'
  BY <1>4 DEF Change
<1>5. ASSUME NEW c \in Callers, Commit(c) PROVE Stopping'
  BY <1>5 DEF Commit
<1>6. ASSUME NEW c \in Callers, SaveDoc(c) PROVE Stopping'
  BY <1>6 DEF SaveDoc
<1>7. ASSUME NEW c \in Callers, WriteFails(c) PROVE Stopping'
  BY <1>7 DEF WriteFails
<1>8. CASE ProcessDies
  BY <1>8 DEF ProcessDies
<1>9. CASE Boot
  <2>1. CASE BootRebuild
    BY <2>1 DEF BootRebuild
  <2>2. CASE RestoreStop
    BY <2>2 DEF RestoreStop, Restored
  <2>3. CASE LoadBreakers
    BY <2>3 DEF LoadBreakers
  <2> QED BY <1>9, <2>1, <2>2, <2>3 DEF Boot
<1>10. CASE UNCHANGED safetyVars
  BY <1>10 DEF safetyVars
<1> QED BY <1>1, <1>4, <1>5, <1>6, <1>7, <1>8, <1>9, <1>10 DEF SafetyNext, Serve

\* With at most one operator's request in service, an emergency stop whose
\* activation returned holds until a release is asked for, through crashes,
\* restarts and failed writes.
THEOREM StopHolds == (\A c, d \in Operators : c = d) => (SafetySpec => []StopSurvives)
<1> SUFFICES ASSUME \A c, d \in Operators : c = d PROVE SafetySpec => []StopSurvives
  OBVIOUS
<1>1. SafetyInit => Stopping
  BY DEF SafetyInit, Stopping
<1>2. LockInv /\ Stopping /\ [SafetyNext]_safetyVars => Stopping'
  BY StoppingStep
<1>3. Stopping => StopSurvives
  BY DEF Stopping, StopSurvives
<1> QED BY LockInvariant, <1>1, <1>2, <1>3, PTL DEF SafetySpec

--------------------------------------------------------------------------------
(* Orders: the answer against what the venue did.                          *)

Statuses == {"new", "open", "partially_filled", "filled", "cancelled", "rejected", "failed"}
States == {"none", "open", "closed", "cancelled"}

Orders == [accepted : Nat, state : States, executed : 0 .. Size, ioc : BOOLEAN]
Results == [status : Statuses, filled : 0 .. Size, fills : 0 .. Size]

OrderType ==
    /\ venue \in {"ccxt", "router", "pool"}
    /\ order \in Orders /\ result \in Results
    /\ pc \in {"create", "poll", "refetch", "fills", "confirm", "done"}
    /\ plain \in BOOLEAN /\ requoted \in BOOLEAN /\ blind \in BOOLEAN /\ lostAnswers \in Nat

\* Nothing was sent while place_order() is still about to create the order.
Unsent ==
    pc = "create" => /\ order.accepted = 0 /\ order.state = "none" /\ order.executed = 0
                     /\ result.status = "new" /\ result.filled = 0 /\ result.fills = 0

\* What an order can look like at a venue.
Executable ==
    /\ order.state \in {"none", "open"} => order.executed < Size
    /\ order.state = "none" => order.executed = 0
    /\ venue # "ccxt" => order.executed = IF order.state = "closed" THEN Size ELSE 0

\* What the connector knows of an order at the steps of place_order().
Known ==
    /\ order.state = "none" => pc \in {"create", "done"}
    /\ pc \in {"create", "poll"} => ~blind
    /\ pc = "confirm" => venue # "ccxt"
    /\ pc = "refetch" /\ ~blind => order.state # "open"
    /\ pc = "fills" /\ ~blind => order.state # "open" /\ result.filled = order.executed

OrderInv == OrderType /\ Unsent /\ Executable /\ Known /\ NeverOverstated /\ AnswerIsTrue /\ SentOnce

\* A report of the order is applied to the result: lots that were executed, and
\* a final status only when nothing can be executed any more.
LEMMA Applied ==
    ASSUME NEW r \in Results, NEW o \in Orders, o.state # "none",
           r.filled <= o.executed, r.fills <= o.executed,
           o.state = "open" => o.executed < Size,
           NEW n \in Apply(r, o)
    PROVE  /\ n \in Results
           /\ n.filled = o.executed /\ n.fills <= o.executed
           /\ Terminal(n) => o.state # "open"
<1> USE VenueOrdersAssumption DEF Orders, Results
<1>1. PICK k \in FillsTold(r, o) :
         n = [filled |-> Larger(r.filled, o.executed),
              status |-> IF o.state = "closed" \/ o.executed = Size THEN "filled"
                         ELSE IF Larger(r.filled, o.executed) > 0 THEN "partially_filled"
                         ELSE o.state,
              fills |-> k]
  BY DEF Apply
<1>2. Larger(r.filled, o.executed) = o.executed
  BY DEF Larger
<1>3. k \in 0 .. Size /\ k <= o.executed
  BY DEF FillsTold
<1> QED BY <1>1, <1>2, <1>3 DEF Orders, Results, Statuses, States, Terminal


\* A request starts with nothing sent and nothing known.
LEMMA OrderInitially == OrderInit => OrderInv
<1> SUFFICES ASSUME OrderInit PROVE OrderInv
  OBVIOUS
<1> USE VenueOrdersAssumption DEF OrderInit
<1>1. OrderType
  <2>1. order \in Orders
    BY DEF Orders, States
  <2>2. result \in Results
    BY DEF Results, Statuses
  <2> QED BY <2>1, <2>2 DEF OrderType
<1>2. Unsent /\ Executable /\ Known
  BY DEF Unsent, Executable, Known
<1>3. NeverOverstated /\ AnswerIsTrue /\ SentOnce
  BY DEF NeverOverstated, AnswerIsTrue, SentOnce
<1> QED BY <1>1, <1>2, <1>3 DEF OrderInv

\* The venue executes an order or lets it expire.
LEMMA VenueKeeps == OrderInv /\ (Executes \/ Expires) => OrderInv'
<1> SUFFICES ASSUME OrderInv, Executes \/ Expires PROVE OrderInv'
  OBVIOUS
<1> USE VenueOrdersAssumption DEF OrderInv
<1>1. order.state = "open" /\ UNCHANGED <<venue, result, pc, plain, requoted, blind, lostAnswers>>
  BY DEF Executes, Expires
<1>2. \E n \in order.executed .. Size, s \in {"open", "closed", "cancelled"} :
         /\ order' = [order EXCEPT !.executed = n, !.state = s]
         /\ s = "cancelled" => n = order.executed
         /\ s = "open" => n < Size /\ venue = "ccxt"
         /\ venue # "ccxt" /\ s = "closed" => n = Size
  <2>1. CASE Executes
    <3>1. PICK n \in (order.executed + 1) .. Size :
             /\ venue # "ccxt" => n = Size
             /\ order' = [order EXCEPT !.executed = n, !.state = IF n = Size THEN "closed" ELSE "open"]
      BY <2>1 DEF Executes
    <3>2. order.executed \in 0 .. Size
      BY DEF OrderType, Orders
    <3>3. n \in order.executed .. Size /\ n \in Nat
      BY <3>2
    <3>4. CASE n = Size
      BY <3>1, <3>3, <3>4
    <3>5. CASE n # Size
      <4>1. n < Size
        BY <3>3, <3>5
      <4> QED BY <3>1, <3>3, <3>5, <4>1
    <3> QED BY <3>4, <3>5
  <2>2. CASE Expires
    <3>1. order' = [order EXCEPT !.executed = order.executed, !.state = "cancelled"]
      BY <2>2 DEF Expires, OrderType, Orders
    <3>2. order.executed \in order.executed .. Size
      BY DEF OrderType, Orders
    <3> QED BY <3>1, <3>2
  <2> QED BY <2>1, <2>2
<1>3. PICK n \in order.executed .. Size, s \in {"open", "closed", "cancelled"} :
         /\ order' = [order EXCEPT !.executed = n, !.state = s]
         /\ s = "cancelled" => n = order.executed
         /\ s = "open" => n < Size /\ venue = "ccxt"
         /\ venue # "ccxt" /\ s = "closed" => n = Size
  BY <1>2
<1>4. /\ order' \in Orders /\ order'.accepted = order.accepted
      /\ order'.executed = n /\ order'.state = s
  <2>1. order.executed \in 0 .. Size /\ order \in Orders
    BY DEF OrderType, Orders
  <2>2. n \in 0 .. Size /\ s \in States
    BY <2>1 DEF States
  <2>3. order' = [order EXCEPT !.executed = n, !.state = s]
    BY <1>3
  <2> HIDE <1>3
  <2> QED BY <2>1, <2>2, <2>3 DEF Orders
<1>5. OrderType'
  BY <1>1, <1>4 DEF OrderType
<1>6. Executable'
  BY <1>1, <1>3, <1>4 DEF Executable, OrderType
<1>7. Unsent' /\ Known' /\ AnswerIsTrue' /\ SentOnce'
  BY <1>1, <1>3, <1>4 DEF Unsent, Known, AnswerIsTrue, SentOnce
<1>8. NeverOverstated'
  BY <1>1, <1>3, <1>4 DEF NeverOverstated, OrderType, Orders, Results
<1> QED BY <1>5, <1>6, <1>7, <1>8

\* An exchange that accepts the request has accepted it once.
LEMMA AcceptedOnce ==
    ASSUME OrderInv, pc = "create", NEW ioc \in BOOLEAN, NEW o \in Accepted(ioc)
    PROVE  /\ o \in Orders /\ o.accepted = 1 /\ o.state \in {"open", "closed", "cancelled"}
           /\ o.state = "open" => o.executed < Size
<1> USE VenueOrdersAssumption
<1>1. order.accepted = 0
  BY DEF OrderInv, Unsent
<1>2. /\ o \in [accepted : {1}, state : {"open", "closed", "cancelled"},
                executed : 0 .. Size, ioc : {ioc}]
      /\ o.executed = Size => o.state = "closed"
  BY <1>1 DEF Accepted
<1> QED BY <1>2 DEF Orders, States

\* So has a chain, and nothing of a swap is executed yet.
LEMMA SwappedOnce ==
    ASSUME OrderInv, pc = "create", NEW o \in Swapped
    PROVE  o \in Orders /\ o = [accepted |-> 1, state |-> "open", executed |-> 0, ioc |-> FALSE]
<1>1. order.accepted = 0
  BY DEF OrderInv, Unsent
<1>2. o = [accepted |-> 1, state |-> "open", executed |-> 0, ioc |-> FALSE]
  BY <1>1 DEF Swapped
<1> QED BY <1>2, VenueOrdersAssumption DEF Orders, States

\* An answer of what was executed, or of nothing, is a result.
LEMMA Answered ==
    ASSUME NEW status \in Statuses, NEW n \in 0 .. Size, Answer(status, n)
    PROVE  /\ result' \in Results /\ pc' = "done"
           /\ result'.status = status /\ result'.filled = n /\ result'.fills = n
  BY DEF Answer, Results

\* create_order() answers.
LEMMA CreateAnsweredKeeps == OrderInv /\ CreateAnswered => OrderInv'
<1> SUFFICES ASSUME OrderInv, CreateAnswered PROVE OrderInv'
  OBVIOUS
<1> USE VenueOrdersAssumption
<1>1. /\ pc = "create" /\ venue = "ccxt" /\ order' \in Accepted(~plain)
      /\ UNCHANGED <<venue, plain, requoted, blind, lostAnswers>>
      /\ result' \in {result} \cup Apply(result, order')
      /\ pc' = IF Terminal(result') THEN Leaves(result') ELSE "poll"
  BY DEF CreateAnswered
<1>2. /\ order' \in Orders /\ order'.accepted = 1 /\ order'.state \in {"open", "closed", "cancelled"}
      /\ order'.state = "open" => order'.executed < Size
  <2>1. (~plain) \in BOOLEAN
    BY Zenon
  <2> QED BY <1>1, <2>1, AcceptedOnce
<1>3. /\ result \in Results /\ result.status = "new" /\ result.filled = 0 /\ result.fills = 0
      /\ ~blind
  BY <1>1 DEF OrderInv, OrderType, Unsent, Known
<1>4. /\ result' \in Results /\ result'.filled <= order'.executed /\ result'.fills <= order'.executed
      /\ Terminal(result') => result'.filled = order'.executed /\ order'.state # "open"
  <2>1. CASE result' = result
    BY <1>2, <1>3, <2>1 DEF Terminal, Orders
  <2>2. CASE result' \in Apply(result, order')
    <3>1. result.filled <= order'.executed /\ result.fills <= order'.executed
      BY <1>2, <1>3 DEF Orders
    <3>2. /\ result' \in Results /\ result'.filled = order'.executed
          /\ result'.fills <= order'.executed /\ (Terminal(result') => order'.state # "open")
      BY <1>2, <1>3, <2>2, <3>1, Applied
    <3> QED BY <1>2, <3>2 DEF Orders
  <2> QED BY <1>1, <2>1, <2>2
<1>5. pc' \in {"poll", "fills", "done"} /\ (pc' # "poll" => Terminal(result'))
  BY <1>1 DEF Leaves
<1>6. OrderType'
  BY <1>1, <1>2, <1>4, <1>5 DEF OrderInv, OrderType
<1>7. Executable'
  BY <1>1, <1>2 DEF Executable
<1>8. Unsent' /\ Known' /\ AnswerIsTrue' /\ SentOnce' /\ NeverOverstated'
  BY <1>1, <1>2, <1>3, <1>4, <1>5 DEF Unsent, Known, AnswerIsTrue, SentOnce, NeverOverstated
<1> QED BY <1>6, <1>7, <1>8 DEF OrderInv

\* A call whose answer is lost: the request is given up, sent or not.
LEMMA LostKeeps == OrderInv /\ (CreateLost \/ SwapLost) => OrderInv'
<1> SUFFICES ASSUME OrderInv, CreateLost \/ SwapLost PROVE OrderInv'
  OBVIOUS
<1> USE VenueOrdersAssumption
<1>1. /\ pc = "create" /\ UNCHANGED <<venue, plain, requoted>> /\ blind' = TRUE /\ Lose
      /\ \E status \in {"rejected", "failed"} : Answer(status, 0)
  BY DEF CreateLost, SwapLost
<1>2. order \in Orders /\ order.accepted = 0 /\ order.state = "none" /\ order.executed = 0
  BY <1>1 DEF OrderInv, OrderType, Unsent
<1>3. order' \in Orders /\ order'.accepted <= 1 /\ Executable'
  <2>1. CASE order' = order
    BY <1>1, <1>2, <2>1 DEF OrderInv, Executable
  <2>2. CASE order' # order /\ CreateLost
    <3>1. order' \in Accepted(~plain) /\ venue = "ccxt"
      BY <2>2 DEF CreateLost
    <3>2. (~plain) \in BOOLEAN
      BY Zenon
    <3>3. /\ order' \in Orders /\ order'.accepted = 1 /\ order'.state \in {"open", "closed", "cancelled"}
          /\ order'.state = "open" => order'.executed < Size
      BY <1>1, <3>1, <3>2, AcceptedOnce
    <3> QED BY <1>1, <3>1, <3>3 DEF Executable
  <2>3. CASE order' # order /\ SwapLost
    <3>1. order' \in Swapped
      BY <2>3 DEF SwapLost
    <3>2. order' \in Orders /\ order' = [accepted |-> 1, state |-> "open", executed |-> 0, ioc |-> FALSE]
      BY <1>1, <3>1, SwappedOnce
    <3> QED BY <3>2 DEF Executable
  <2> QED BY <2>1, <2>2, <2>3
<1>4. result' \in Results /\ pc' = "done" /\ result'.filled = 0 /\ result'.fills = 0
  <2>1. PICK status \in {"rejected", "failed"} : Answer(status, 0)
    BY <1>1
  <2>2. status \in Statuses /\ 0 \in 0 .. Size
    BY DEF Statuses
  <2> QED BY <2>1, <2>2, Answered
<1>5. OrderType'
  BY <1>1, <1>3, <1>4 DEF OrderInv, OrderType, Lose
<1>6. Unsent' /\ Known' /\ AnswerIsTrue' /\ SentOnce'
  BY <1>1, <1>3, <1>4 DEF Unsent, Known, AnswerIsTrue, SentOnce
<1>7. NeverOverstated'
  BY <1>3, <1>4 DEF NeverOverstated, Orders
<1> QED BY <1>3, <1>5, <1>6, <1>7 DEF OrderInv

\* A report applied to the result, for the order as it is.
LEMMA AppliedNow ==
    ASSUME OrderInv, order.state # "none", NEW n \in Apply(result, order)
    PROVE  /\ n \in Results /\ n.filled = order.executed /\ n.fills <= order.executed
           /\ Terminal(n) => order.state # "open"
<1>1. result \in Results /\ order \in Orders
  BY DEF OrderInv, OrderType
<1>2. result.filled <= order.executed /\ result.fills <= order.executed
  BY DEF OrderInv, NeverOverstated
<1>3. order.state = "open" => order.executed < Size
  BY DEF OrderInv, Executable
<1> QED BY <1>1, <1>2, <1>3, Applied

\* What is given out at the end differs in its status only.
LEMMA GivenOutLots ==
    ASSUME NEW r \in Results
    PROVE  GivenOut(r) \in Results /\ GivenOut(r).filled = r.filled /\ GivenOut(r).fills = r.fills
  BY DEF GivenOut, Results, Statuses

\* Polling an order.
LEMMA PollKeeps == OrderInv /\ Poll => OrderInv'
<1> SUFFICES ASSUME OrderInv, Poll PROVE OrderInv'
  OBVIOUS
<1>1. pc = "poll" /\ UNCHANGED <<venue, order, plain, requoted, blind>>
  BY DEF Poll
<1>2. order.state # "none" /\ ~blind /\ lostAnswers' \in Nat
  BY <1>1 DEF OrderInv, OrderType, Known, Poll, Lose
<1>3. CASE UNCHANGED <<result, pc>>
  BY <1>1, <1>2, <1>3 DEF OrderInv, OrderType, Unsent, Executable, Known, NeverOverstated, AnswerIsTrue, SentOnce
<1>4. CASE /\ result' \in Apply(result, order)
           /\ pc' = IF Terminal(result') THEN Leaves(result') ELSE "poll"
  <2>1. /\ result' \in Results /\ result'.filled = order.executed /\ result'.fills <= order.executed
        /\ Terminal(result') => order.state # "open"
    BY <1>2, <1>4, AppliedNow
  <2>2. pc' \in {"poll", "fills", "done"} /\ (pc' # "poll" => Terminal(result'))
    BY <1>4 DEF Leaves
  <2>3. OrderType'
    BY <1>1, <1>2, <2>1, <2>2 DEF OrderInv, OrderType
  <2>4. NeverOverstated'
    BY <1>1, <2>1 DEF NeverOverstated, OrderInv, OrderType, Orders
  <2>5. Unsent' /\ Known' /\ AnswerIsTrue' /\ SentOnce' /\ Executable'
    BY <1>1, <1>2, <2>1, <2>2 DEF OrderInv, Unsent, Known, AnswerIsTrue, SentOnce, Executable
  <2> QED BY <2>3, <2>4, <2>5 DEF OrderInv
<1> QED BY <1>3, <1>4 DEF Poll

\* The deadline: the order is cancelled, or the connector may not know.
LEMMA CancelKeeps == OrderInv /\ Cancel => OrderInv'
<1> SUFFICES ASSUME OrderInv, Cancel PROVE OrderInv'
  OBVIOUS
<1>1. pc = "poll" /\ pc' = "refetch" /\ UNCHANGED <<venue, result, plain, requoted>>
  BY DEF Cancel
<1>2. order \in Orders /\ order.state # "none" /\ ~blind
  BY <1>1 DEF OrderInv, OrderType, Known
<1>3. /\ order' \in Orders /\ order'.accepted = order.accepted /\ order'.executed = order.executed
      /\ order'.state \in {order.state, "cancelled"} /\ (order'.state = "cancelled" => order.state \in {"open", "cancelled"})
  <2>1. order' \in {order, Withdrawn}
    BY DEF Cancel
  <2> QED BY <1>2, <2>1 DEF Withdrawn, Orders, States
<1>4. blind' \in BOOLEAN /\ (~blind' => order'.state # "open") /\ lostAnswers' \in Nat
  <2>1. CASE order' = Withdrawn /\ UNCHANGED <<blind, lostAnswers>>
    BY <1>2, <2>1 DEF Withdrawn, OrderInv, OrderType, Orders
  <2>2. CASE Lose /\ blind' = (order'.state = "open")
    <3>1. blind' \in BOOLEAN /\ (~blind' => order'.state # "open")
      BY <2>2, Zenon
    <3>2. lostAnswers' \in Nat
      <4>1. Lose
        BY <2>2
      <4> HIDE <2>2
      <4> QED BY <4>1 DEF Lose, OrderInv, OrderType
    <3> QED BY <3>1, <3>2
  <2> QED BY <2>1, <2>2 DEF Cancel
<1>5. OrderType'
  BY <1>1, <1>3, <1>4 DEF OrderInv, OrderType
<1>6. Executable' /\ NeverOverstated' /\ SentOnce'
  BY <1>1, <1>2, <1>3 DEF OrderInv, Executable, NeverOverstated, SentOnce
<1>7. Unsent' /\ AnswerIsTrue' /\ Known'
  BY <1>1, <1>2, <1>3, <1>4 DEF Unsent, AnswerIsTrue, Known
<1> QED BY <1>5, <1>6, <1>7 DEF OrderInv

\* The last fetch.
LEMMA RefetchKeeps == OrderInv /\ Refetch => OrderInv'
<1> SUFFICES ASSUME OrderInv, Refetch PROVE OrderInv'
  OBVIOUS
<1>1. pc = "refetch" /\ UNCHANGED <<venue, order, plain, requoted>> /\ pc' = Leaves(result')
  BY DEF Refetch
<1>2. order.state # "none" /\ result \in Results
  BY <1>1 DEF OrderInv, OrderType, Known
<1>3. /\ result' \in Results /\ result'.filled <= order.executed /\ result'.fills <= order.executed
      /\ blind' \in BOOLEAN /\ lostAnswers' \in Nat
      /\ ~blind' => ~blind /\ result'.filled = order.executed
  <2>1. CASE \E r \in Apply(result, order) : result' = GivenOut(r) /\ UNCHANGED <<blind, lostAnswers>>
    <3>1. PICK r \in Apply(result, order) : result' = GivenOut(r)
      BY <2>1
    <3>2. r \in Results /\ r.filled = order.executed /\ r.fills <= order.executed
      BY <1>2, AppliedNow
    <3>3. result' \in Results /\ result'.filled = order.executed /\ result'.fills <= order.executed
      BY <3>1, <3>2, GivenOutLots
    <3> QED BY <2>1, <3>3 DEF OrderInv, OrderType, Orders
  <2>2. CASE Lose /\ result' = GivenOut(result) /\ blind' = TRUE
    <3>1. result' \in Results /\ result'.filled = result.filled /\ result'.fills = result.fills
      BY <1>2, <2>2, GivenOutLots
    <3> QED BY <2>2, <3>1 DEF OrderInv, OrderType, NeverOverstated, Lose
  <2> QED BY <2>1, <2>2 DEF Refetch
<1>4. pc' \in {"fills", "done"}
  BY <1>1 DEF Leaves
<1>5. OrderType'
  BY <1>1, <1>3, <1>4 DEF OrderInv, OrderType
<1>6. Executable' /\ NeverOverstated' /\ SentOnce'
  BY <1>1, <1>3 DEF OrderInv, Executable, NeverOverstated, SentOnce
<1>7. Unsent' /\ AnswerIsTrue' /\ Known'
  BY <1>1, <1>2, <1>3, <1>4 DEF OrderInv, Unsent, AnswerIsTrue, Known
<1> QED BY <1>5, <1>6, <1>7 DEF OrderInv

\* The account's trades are read for their fills.
LEMMA LoadFillsKeeps == OrderInv /\ LoadFills => OrderInv'
<1> SUFFICES ASSUME OrderInv, LoadFills PROVE OrderInv'
  OBVIOUS
<1>1. pc = "fills" /\ pc' = "done" /\ UNCHANGED <<venue, order, plain, requoted, blind>>
  BY DEF LoadFills
<1>2. lostAnswers' \in Nat /\ result \in Results /\ order \in Orders /\ result.fills <= order.executed
  BY DEF LoadFills, Lose, OrderInv, OrderType, NeverOverstated
<1>3. /\ result' \in Results /\ result'.filled = result.filled /\ result'.status = result.status
      /\ result'.fills <= order.executed
  <2>1. CASE \E n \in 0 .. order.executed : result' = [result EXCEPT !.fills = n]
    <3>1. PICK n \in 0 .. order.executed : result' = [result EXCEPT !.fills = n]
      BY <2>1
    <3>2. n \in 0 .. Size /\ n <= order.executed
      BY <1>2, VenueOrdersAssumption DEF Orders
    <3> QED BY <1>2, <3>1, <3>2 DEF Results
  <2>2. CASE UNCHANGED result
    BY <1>2, <2>2
  <2> QED BY <2>1, <2>2 DEF LoadFills
<1>4. OrderType'
  BY <1>1, <1>2, <1>3 DEF OrderInv, OrderType
<1>5. Executable' /\ NeverOverstated' /\ SentOnce'
  BY <1>1, <1>3 DEF OrderInv, Executable, NeverOverstated, SentOnce
<1>6. Unsent' /\ AnswerIsTrue' /\ Known'
  BY <1>1, <1>3 DEF OrderInv, Unsent, AnswerIsTrue, Known
<1> QED BY <1>4, <1>5, <1>6 DEF OrderInv

\* A request that ends with nothing sent.
LEMMA RefusedKeeps ==
    ASSUME OrderInv, pc = "create", NEW status \in Statuses, Answer(status, 0),
           UNCHANGED <<venue, order, blind, lostAnswers>>, plain' \in BOOLEAN, requoted' \in BOOLEAN
    PROVE  OrderInv'
<1>1. result' \in Results /\ pc' = "done" /\ result'.filled = 0 /\ result'.fills = 0
  BY VenueOrdersAssumption, Answered
<1>2. order.accepted = 0 /\ order.state = "none" /\ order.executed = 0
  BY DEF OrderInv, Unsent
<1>3. OrderType'
  BY <1>1 DEF OrderInv, OrderType
<1>4. Executable' /\ NeverOverstated' /\ SentOnce'
  BY <1>1, <1>2 DEF OrderInv, Executable, NeverOverstated, SentOnce
<1>5. Unsent' /\ AnswerIsTrue' /\ Known'
  BY <1>1, <1>2 DEF OrderInv, Unsent, AnswerIsTrue, Known
<1> QED BY <1>3, <1>4, <1>5 DEF OrderInv

\* A request that starts over, before anything was sent.
LEMMA AgainKeeps ==
    ASSUME OrderInv, UNCHANGED <<venue, order, result, pc, blind, lostAnswers>>,
           plain' \in BOOLEAN, requoted' \in BOOLEAN
    PROVE  OrderInv'
  BY DEF OrderInv, OrderType, Unsent, Executable, Known, NeverOverstated, AnswerIsTrue, SentOnce

\* The checks before anything is sent, a complaint about timeInForce and a stale quote.
LEMMA NothingSentKeeps == OrderInv /\ (Refuse \/ CreateRefused \/ QuoteExpires) => OrderInv'
<1> SUFFICES ASSUME OrderInv, Refuse \/ CreateRefused \/ QuoteExpires PROVE OrderInv'
  OBVIOUS
<1>1. pc = "create" /\ UNCHANGED <<venue, order, blind, lostAnswers>>
  BY DEF Refuse, CreateRefused, QuoteExpires
<1>2. plain' \in BOOLEAN /\ requoted' \in BOOLEAN
  BY Zenon DEF Refuse, CreateRefused, QuoteExpires, OrderInv, OrderType
<1>3. \/ UNCHANGED <<result, pc>>
      \/ \E status \in {"rejected", "failed"} : Answer(status, 0)
  BY DEF Refuse, CreateRefused, QuoteExpires
<1>4. CASE UNCHANGED <<result, pc>>
  BY <1>1, <1>2, <1>4, AgainKeeps
<1>5. CASE \E status \in {"rejected", "failed"} : Answer(status, 0)
  <2>1. PICK status \in {"rejected", "failed"} : Answer(status, 0)
    BY <1>5
  <2>2. status \in Statuses
    BY DEF Statuses
  <2> QED BY <1>1, <1>2, <2>1, <2>2, RefusedKeeps
<1> QED BY <1>3, <1>4, <1>5

\* The gateway answers its one POST.
LEMMA SwapAnsweredKeeps == OrderInv /\ SwapAnswered => OrderInv'
<1> SUFFICES ASSUME OrderInv, SwapAnswered PROVE OrderInv'
  OBVIOUS
<1> USE VenueOrdersAssumption
<1>1. venue # "ccxt" /\ pc = "create" /\ UNCHANGED <<venue, plain, requoted, blind, lostAnswers>>
  BY DEF SwapAnswered
<1>2. plain' \in BOOLEAN /\ requoted' \in BOOLEAN /\ result \in Results /\ result.filled = 0 /\ result.fills = 0
  BY <1>1 DEF OrderInv, OrderType, Unsent
<1>3. CASE \E status \in {"rejected", "failed"} : Answer(status, 0) /\ UNCHANGED order
  <2>1. PICK status \in {"rejected", "failed"} : Answer(status, 0) /\ UNCHANGED order
    BY <1>3
  <2>2. status \in Statuses
    BY DEF Statuses
  <2> QED BY <1>1, <1>2, <2>1, <2>2, RefusedKeeps
<1>4. ASSUME NEW s \in States \ {"none"}, NEW n \in {0, Size},
             order' = [accepted |-> 1, state |-> s, executed |-> n, ioc |-> FALSE],
             s = "closed" <=> n = Size,
             result' \in Results, result'.filled = n, result'.fills = n,
             \/ pc' = "done" /\ s # "open"
             \/ pc' = "confirm"
      PROVE  OrderInv'
  <2>1. order' \in Orders
    BY <1>4 DEF Orders, States
  <2>2. OrderType'
    BY <1>1, <1>4, <2>1 DEF OrderInv, OrderType
  <2>3. Executable' /\ NeverOverstated' /\ SentOnce'
    BY <1>1, <1>4 DEF Executable, NeverOverstated, SentOnce
  <2>4. Unsent' /\ AnswerIsTrue' /\ Known'
    BY <1>1, <1>4 DEF Unsent, AnswerIsTrue, Known, States
  <2> QED BY <2>2, <2>3, <2>4 DEF OrderInv
<1>5. ASSUME NEW o \in Swapped,
             \/ /\ order' = [o EXCEPT !.state = "closed", !.executed = Size]
                /\ Answer("filled", Size)
             \/ /\ order' = [o EXCEPT !.state = "cancelled"]
                /\ Answer("failed", 0)
             \/ order' = o /\ pc' = "confirm" /\ UNCHANGED result
      PROVE OrderInv'
  <2>1. o = [accepted |-> 1, state |-> "open", executed |-> 0, ioc |-> FALSE]
    BY <1>1, SwappedOnce
  <2>2. CASE order' = [o EXCEPT !.state = "closed", !.executed = Size] /\ Answer("filled", Size)
    <3>1. result' \in Results /\ pc' = "done" /\ result'.filled = Size /\ result'.fills = Size
      BY <2>2, Answered DEF Statuses
    <3>2. order' = [accepted |-> 1, state |-> "closed", executed |-> Size, ioc |-> FALSE]
      BY <2>1, <2>2
    <3>3. "closed" \in States \ {"none"}
      BY DEF States
    <3> QED BY <1>4, <3>1, <3>2, <3>3
  <2>3. CASE order' = [o EXCEPT !.state = "cancelled"] /\ Answer("failed", 0)
    <3>1. result' \in Results /\ pc' = "done" /\ result'.filled = 0 /\ result'.fills = 0
      BY <2>3, Answered DEF Statuses
    <3>2. order' = [accepted |-> 1, state |-> "cancelled", executed |-> 0, ioc |-> FALSE]
      BY <2>1, <2>3
    <3>3. "cancelled" \in States \ {"none"} /\ 0 # Size
      BY DEF States
    <3> QED BY <1>4, <3>1, <3>2, <3>3
  <2>4. CASE order' = o /\ pc' = "confirm" /\ UNCHANGED result
    BY <1>2, <1>4, <2>1, <2>4 DEF States
  <2> QED BY <1>5, <2>2, <2>3, <2>4
<1> QED BY <1>3, <1>5 DEF SwapAnswered

\* The transaction is found, or not before the deadline.
LEMMA ConfirmKeeps == OrderInv /\ (Confirm \/ ConfirmTimesOut) => OrderInv'
<1> SUFFICES ASSUME OrderInv, Confirm \/ ConfirmTimesOut PROVE OrderInv'
  OBVIOUS
<1> USE VenueOrdersAssumption
<1>1. pc = "confirm" /\ UNCHANGED <<venue, order, plain, requoted, blind, lostAnswers>>
  BY DEF Confirm, ConfirmTimesOut
<1>2. venue # "ccxt" /\ order.state # "none" /\ order.executed = IF order.state = "closed" THEN Size ELSE 0
  BY <1>1 DEF OrderInv, Known, Executable
<1>3. /\ result' \in Results /\ pc' = "done" /\ result'.filled <= order.executed /\ result'.fills <= order.executed
      /\ \/ result'.status = "open"
         \/ order.state # "open" /\ result'.filled = order.executed
  <2>1. CASE order.state = "closed" /\ Answer("filled", Size)
    <3>1. "filled" \in Statuses /\ Size \in 0 .. Size
      BY DEF Statuses
    <3> QED BY <1>2, <2>1, <3>1, Answered
  <2>2. CASE order.state \notin {"open", "closed"} /\ Answer("failed", 0)
    <3>1. "failed" \in Statuses /\ 0 \in 0 .. Size
      BY DEF Statuses
    <3> QED BY <1>2, <2>2, <3>1, Answered
  <2>3. CASE Answer("open", 0)
    <3>1. "open" \in Statuses /\ 0 \in 0 .. Size
      BY DEF Statuses
    <3> QED BY <1>2, <2>3, <3>1, Answered
  <2> QED BY <2>1, <2>2, <2>3 DEF Confirm, ConfirmTimesOut
<1>4. OrderType'
  BY <1>1, <1>3 DEF OrderInv, OrderType
<1>5. Executable' /\ NeverOverstated' /\ SentOnce'
  BY <1>1, <1>3 DEF OrderInv, Executable, NeverOverstated, SentOnce
<1>6. Unsent' /\ AnswerIsTrue' /\ Known'
  BY <1>1, <1>2, <1>3 DEF OrderInv, Unsent, AnswerIsTrue, Known
<1> QED BY <1>4, <1>5, <1>6 DEF OrderInv

\* What the connector knows of an order and what the venue did with it fit
\* together in every state.
LEMMA OrderInvariant == OrderSpec => []OrderInv
<1>1. OrderInv /\ [OrderNext]_orderVars => OrderInv'
  <2>1. OrderInv /\ UNCHANGED orderVars => OrderInv'
    BY DEF orderVars, OrderInv, OrderType, Unsent, Executable, Known, NeverOverstated, AnswerIsTrue, SentOnce
  <2> QED BY <2>1, VenueKeeps, CreateAnsweredKeeps, LostKeeps, PollKeeps, CancelKeeps, RefetchKeeps,
             LoadFillsKeeps, NothingSentKeeps, SwapAnsweredKeeps, ConfirmKeeps DEF OrderNext, PlaceOrder
<1> QED BY <1>1, OrderInitially, PTL DEF OrderSpec

\* At no point the connector reports more than the venue executed
\* (_apply_order, _load_fills, _apply_confirmed), for orders of any size.
THEOREM AnswersAreCovered == OrderSpec => []NeverOverstated
<1>1. OrderInv => NeverOverstated
  BY DEF OrderInv
<1> QED BY <1>1, OrderInvariant, PTL

\* A final answer of a connector that lost no call is the whole truth about the
\* order (ccxt place_order, gateway _await_confirmation).
THEOREM FinalAnswersAreTrue == OrderSpec => []AnswerIsTrue
<1>1. OrderInv => AnswerIsTrue
  BY DEF OrderInv
<1> QED BY <1>1, OrderInvariant, PTL

\* A request is accepted by a venue at most once, over retries, second quotes and
\* lost answers (gateway_client._request, ccxt place_order).
THEOREM AcceptedAtMostOnce == OrderSpec => []SentOnce
<1>1. OrderInv => SentOnce
  BY DEF OrderInv
<1> QED BY <1>1, OrderInvariant, PTL

--------------------------------------------------------------------------------
(* The market feed.                                                        *)

Asks == Symbols \cup {"health", "operator"}
BreakerCalls == [by : Asks, op : {"trip"}, reason : Reasons]
                \cup [by : Asks, op : {"reset"}, reason : Reasons \cup {"any"}]

FeedType ==
    /\ cache \in [Symbols -> Nat]
    /\ quality \in [last : Nat, rejections : Nat]
    /\ tracker \in [bad : BOOLEAN, maint : BOOLEAN, rate : BOOLEAN]
    /\ queue \in Seq(BreakerCalls) /\ maintenance \in BOOLEAN

\* The gate remembers a number that no cached book is ahead of.
Numbered ==
    "numbers" \in offers => \A s \in Symbols : cache[s] # 0 => Base[s] + cache[s] <= quality.last

\* A venue whose books keep being rejected is marked, and its breaker is in
\* force or will be once everybody in the queue had the lock.
Paused ==
    Unhealthy(quality) => tracker.bad /\ (lastWord = "operator" \/ InForceAtLast("data"))

FeedInv == FeedType /\ Numbered /\ Paused

\* The queue gets one call longer, and the breakers change at once when the
\* lock is free.
LEMMA Asked ==
    ASSUME queue \in Seq(BreakerCalls), NEW who, NEW op \in {"trip", "reset"},
           NEW reason \in Reasons \cup {"any"}, op = "trip" => reason # "any",
           who \in Asks, Ask(who, op, reason)
    PROVE  /\ queue' \in Seq(BreakerCalls) /\ Len(queue') = Len(queue) + 1
           /\ \A i \in 1 .. Len(queue) : queue'[i] = queue[i]
           /\ queue'[Len(queue) + 1] = [by |-> who, op |-> op, reason |-> reason]
           /\ queue # <<>> => inForce' = inForce
           /\ queue = <<>> /\ reason # "any" =>
                 inForce' = IF op = "trip" THEN inForce \cup {reason} ELSE inForce \ {reason}
<1> DEFINE asked == [by |-> who, op |-> op, reason |-> reason]
<1>1. asked \in BreakerCalls
  BY DEF BreakerCalls
<1>2. queue' = Append(queue, asked) /\ inForce' = IF queue = <<>> THEN After(inForce, asked) ELSE inForce
  BY DEF Ask
<1>3. asked.op = op /\ asked.reason = reason
  OBVIOUS
<1>4. reason # "any" =>
        After(inForce, asked) = IF op = "trip" THEN inForce \cup {reason} ELSE inForce \ {reason}
  BY <1>3 DEF After
<1> HIDE DEF asked
<1>5. /\ queue' \in Seq(BreakerCalls) /\ Len(queue') = Len(queue) + 1
      /\ \A i \in 1 .. Len(queue) : queue'[i] = queue[i]
      /\ queue'[Len(queue) + 1] = asked
  BY <1>1, <1>2
<1> QED BY <1>2, <1>4, <1>5 DEF asked

\* Once a trip was asked for, the breaker is in force at last.
LEMMA TripIsLast ==
    ASSUME queue \in Seq(BreakerCalls), NEW who \in Asks,
           NEW reason \in Reasons,
           Ask(who, "trip", reason)
    PROVE  InForceAtLast(reason)'
<1>1. /\ queue' \in Seq(BreakerCalls) /\ Len(queue') = Len(queue) + 1
      /\ queue'[Len(queue) + 1] = [by |-> who, op |-> "trip", reason |-> reason]
      /\ queue = <<>> => inForce' = inForce \cup {reason}
  BY Asked DEF Reasons
<1>2. Len(queue) \in Nat /\ (Len(queue) = 0 <=> queue = <<>>) /\ DOMAIN queue' = 1 .. (Len(queue) + 1)
  BY <1>1
<1>3. CASE queue = <<>>
  <2>1. Asking(reason)' = {}
    BY <1>2, <1>3 DEF Asking
  <2> QED BY <1>1, <1>3, <2>1 DEF InForceAtLast
<1>4. CASE queue # <<>>
  <2> DEFINE last == Len(queue) + 1
  <2>1. last \in Asking(reason)'
    BY <1>1, <1>2, <1>4 DEF Asking
  <2>2. \A j \in Asking(reason)' : j <= last
    BY <1>2 DEF Asking
  <2>3. queue'[last].op = "trip"
    BY <1>1
  <2> HIDE DEF last
  <2> QED BY <2>1, <2>2, <2>3 DEF InForceAtLast
<1> QED BY <1>3, <1>4

\* A call about another breaker, and none, leave it as it is at last.
LEMMA OthersKeepLast ==
    ASSUME queue \in Seq(BreakerCalls), NEW reason \in Reasons, InForceAtLast(reason),
           NEW who \in Asks, NEW op \in {"trip", "reset"},
           NEW r \in Reasons \ {reason},
           Ask(who, op, r)
    PROVE  InForceAtLast(reason)'
<1>1. /\ queue' \in Seq(BreakerCalls) /\ Len(queue') = Len(queue) + 1
      /\ \A i \in 1 .. Len(queue) : queue'[i] = queue[i]
      /\ queue'[Len(queue) + 1].reason = r
      /\ queue # <<>> => inForce' = inForce
      /\ queue = <<>> => (reason \in inForce <=> reason \in inForce')
  <2>0. r \in Reasons \cup {"any"} /\ r # "any"
    BY DEF Reasons
  <2>1. /\ queue' \in Seq(BreakerCalls) /\ Len(queue') = Len(queue) + 1
        /\ \A i \in 1 .. Len(queue) : queue'[i] = queue[i]
        /\ queue'[Len(queue) + 1] = [by |-> who, op |-> op, reason |-> r]
        /\ queue # <<>> => inForce' = inForce
        /\ queue = <<>> => inForce' = IF op = "trip" THEN inForce \cup {r} ELSE inForce \ {r}
    BY <2>0, Asked
  <2> QED BY <2>1
<1>2. Len(queue) \in Nat /\ DOMAIN queue = 1 .. Len(queue) /\ DOMAIN queue' = 1 .. (Len(queue) + 1)
  BY <1>1
<1>3. Asking(reason)' = Asking(reason)
  BY <1>1, <1>2 DEF Asking, Reasons
<1>4. \A i \in Asking(reason) : queue'[i] = queue[i]
  BY <1>1, <1>2 DEF Asking
<1>5. reason \in inForce <=> reason \in inForce'
  BY <1>1
<1> QED BY <1>3, <1>4, <1>5 DEF InForceAtLast

\* The next caller gets the lock: nothing changes at last.
LEMMA SavedKeepsLast ==
    ASSUME queue \in Seq(BreakerCalls), NEW reason \in Reasons, InForceAtLast(reason),
           NEW ok \in BOOLEAN, Saved(ok)
    PROVE  InForceAtLast(reason)'
<1>1. /\ queue # <<>> /\ queue' = Tail(queue)
      /\ inForce' = IF Len(queue) > 1 THEN After(inForce, queue[2]) ELSE inForce
  BY DEF Saved
<1>2. /\ Len(queue) \in Nat \ {0} /\ DOMAIN queue = 1 .. Len(queue) /\ DOMAIN queue' = 1 .. (Len(queue) - 1)
      /\ \A i \in 1 .. (Len(queue) - 1) : queue'[i] = queue[i + 1]
  BY <1>1
<1>3. Asking(reason)' = {i \in 2 .. (Len(queue) - 1) : queue[i + 1].reason \in {reason, "any"}}
  BY <1>2 DEF Asking
<1>4. Asking(reason) = {i \in 2 .. Len(queue) : queue[i].reason \in {reason, "any"}}
  BY <1>2 DEF Asking
<1>5. CASE Asking(reason)' # {}
  <2>1. \A j \in Asking(reason)' : j + 1 \in Asking(reason)
    BY <1>2, <1>3, <1>4
  <2>2. PICK i \in Asking(reason) : queue[i].op = "trip" /\ \A j \in Asking(reason) : j <= i
    BY <1>5, <2>1 DEF InForceAtLast
  <2>3. i \in 2 .. Len(queue) /\ i >= 3 /\ queue[i].reason \in {reason, "any"}
    BY <1>3, <1>4, <1>5, <2>1, <2>2
  <2>4. i - 1 \in Asking(reason)'
    BY <1>2, <1>3, <2>3
  <2>5. queue'[i - 1] = queue[i]
    BY <1>2, <2>3
  <2>6. \A j \in Asking(reason)' : j <= i - 1
    BY <1>2, <1>3, <2>1, <2>2, <2>3
  <2> QED BY <1>5, <2>2, <2>4, <2>5, <2>6 DEF InForceAtLast
<1>6. CASE Asking(reason)' = {}
  <2>1. \A i \in Asking(reason) : i = 2
    <3> SUFFICES ASSUME NEW i \in Asking(reason), i # 2 PROVE FALSE
      OBVIOUS
    <3>1. i - 1 \in Asking(reason)'
      BY <1>2, <1>3, <1>4
    <3> QED BY <1>6, <3>1
  <2>2. CASE Asking(reason) = {}
    <3>1. reason \in inForce
      BY <2>2 DEF InForceAtLast
    <3>2. Len(queue) > 1 => queue[2].reason \notin {reason, "any"} /\ queue[2] \in BreakerCalls
      BY <1>2, <1>4, <2>2
    <3>3. Len(queue) > 1 => queue[2].op = "trip" \/ queue[2].op = "reset"
      BY <3>2 DEF BreakerCalls
    <3>4. Len(queue) > 1 => After(inForce, queue[2]) \in {inForce \cup {queue[2].reason}, inForce \ {queue[2].reason}}
      BY <3>2, <3>3 DEF After
    <3>5. reason \in inForce'
      BY <1>1, <3>1, <3>2, <3>4
    <3> QED BY <1>6, <3>5 DEF InForceAtLast
  <2>3. CASE Asking(reason) # {}
    <3>1. 2 \in Asking(reason) /\ queue[2].op = "trip"
      BY <2>1, <2>3 DEF InForceAtLast
    <3>2. Len(queue) > 1 /\ queue[2] \in BreakerCalls /\ queue[2].reason \in {reason, "any"}
      BY <1>2, <1>4, <3>1
    <3>3. inForce' = inForce \cup {queue[2].reason}
      BY <1>1, <3>1, <3>2 DEF After
    <3>4. queue[2].reason = reason
      BY <3>1, <3>2 DEF BreakerCalls, Reasons
    <3>5. reason \in inForce'
      BY <3>3, <3>4
    <3> QED BY <1>6, <3>5 DEF InForceAtLast
  <2> QED BY <2>2, <2>3
<1> QED BY <1>5, <1>6

\* A mark makes a venue unhealthy or worse, whatever the statistics say.
LEMMA MarkedIsUnhealthy ==
    ASSUME tracker \in [bad : BOOLEAN, maint : BOOLEAN, rate : BOOLEAN], tracker.bad,
           NEW h \in {"healthy", "degraded", "unhealthy"}
    PROVE  Rank(Classify(tracker, h)) >= Rank("unhealthy")
<1>1. Rank("healthy") = 1 /\ Rank("degraded") = 2 /\ Rank("unhealthy") = 3 /\ Rank("blocked") = 4
  <2>1. \A x, i : i \in DOMAIN Healths /\ Healths[i] = x /\ (\A j \in DOMAIN Healths : Healths[j] = x => j = i)
                    => Rank(x) = i
    BY DEF Rank
  <2>2. DOMAIN Healths = 1 .. 4 /\ Healths[1] = "healthy" /\ Healths[2] = "degraded"
        /\ Healths[3] = "unhealthy" /\ Healths[4] = "blocked"
    BY DEF Healths
  <2> QED BY <2>1, <2>2
<1> DEFINE S == {"healthy", h}
                \cup (IF tracker.maint THEN {"blocked"} ELSE {})
                \cup (IF tracker.bad THEN {"unhealthy"} ELSE {})
                \cup (IF tracker.rate THEN {"degraded"} ELSE {})
<1>2. Classify(tracker, h) = CHOOSE k \in S : \A g \in S : Rank(g) <= Rank(k)
  BY DEF Classify, Worst
<1>3. "unhealthy" \in S /\ S \subseteq {"healthy", "degraded", "unhealthy", "blocked"}
  OBVIOUS
<1> HIDE DEF S
<1>4. \E k \in S : \A g \in S : Rank(g) <= Rank(k)
  <2>1. CASE "blocked" \in S
    BY <1>1, <1>3, <2>1
  <2>2. CASE "blocked" \notin S
    BY <1>1, <1>3, <2>2
  <2> QED BY <2>1, <2>2
<1>5. PICK k \in S : Classify(tracker, h) = k /\ \A g \in S : Rank(g) <= Rank(k)
  BY <1>2, <1>4
<1> QED BY <1>1, <1>3, <1>5

\* What becomes of a tracker when a call fails, or fetch_status answers.
LEMMA NotedKeepsMark ==
    ASSUME tracker \in [bad : BOOLEAN, maint : BOOLEAN, rate : BOOLEAN], maintenance \in BOOLEAN,
           \/ tracker' \in Noted \cup {tracker}
           \/ tracker' = [tracker EXCEPT !.maint = maintenance]
           \/ tracker' = [tracker EXCEPT !.rate = FALSE]
    PROVE  tracker' \in [bad : BOOLEAN, maint : BOOLEAN, rate : BOOLEAN] /\ tracker'.bad = tracker.bad
<1>1. CASE tracker' = tracker
  BY <1>1
<1>2. CASE tracker' = [tracker EXCEPT !.maint = maintenance]
  BY <1>2
<1>3. CASE tracker' = [tracker EXCEPT !.rate = FALSE]
  BY <1>3
<1>4. CASE tracker' = [tracker EXCEPT !.maint = TRUE]
  BY <1>4
<1>5. CASE tracker' = [tracker EXCEPT !.rate = TRUE]
  BY <1>5
<1> QED BY <1>1, <1>2, <1>3, <1>4, <1>5 DEF Noted

\* A step that leaves books and gate alone, and does not ask for the breaker of
\* the data or is the operator's reset of it, keeps the invariant.
LEMMA OthersKeepFeed ==
    ASSUME FeedInv, UNCHANGED <<offers, cache, quality>>,
           tracker' \in [bad : BOOLEAN, maint : BOOLEAN, rate : BOOLEAN], tracker'.bad = tracker.bad,
           maintenance' \in BOOLEAN,
           \/ UNCHANGED breakerVars
           \/ \E who \in Asks, op \in {"trip", "reset"}, r \in Reasons \ {"data"} :
                 AskOwn(who, op, r)
    PROVE  FeedInv'
<1>1. queue \in Seq(BreakerCalls)
  BY DEF FeedInv, FeedType
<1>2. /\ queue' \in Seq(BreakerCalls) /\ lastWord' = lastWord
      /\ InForceAtLast("data") => InForceAtLast("data")'
  <2>1. CASE UNCHANGED breakerVars
    BY <1>1, <2>1 DEF breakerVars, InForceAtLast, Asking
  <2>2. CASE \E who \in Asks, op \in {"trip", "reset"}, r \in Reasons \ {"data"} :
                AskOwn(who, op, r)
    <3>1. PICK who \in Asks, op \in {"trip", "reset"}, r \in Reasons \ {"data"} :
                Ask(who, op, r) /\ lastWord' = lastWord
      BY <2>2 DEF AskOwn
    <3>2. "data" \in Reasons /\ r # "any"
      BY DEF Reasons
    <3>3. queue' \in Seq(BreakerCalls)
      BY <1>1, <3>1, <3>2, Asked
    <3>4. InForceAtLast("data") => InForceAtLast("data")'
      BY <1>1, <3>1, <3>2, OthersKeepLast
    <3> QED BY <3>1, <3>3, <3>4
  <2> QED BY <2>1, <2>2
<1>3. FeedType'
  BY <1>2 DEF FeedInv, FeedType
<1>4. Numbered'
  BY DEF FeedInv, Numbered
<1>5. Paused'
  BY <1>2 DEF FeedInv, Paused, Unhealthy
<1> QED BY <1>3, <1>4, <1>5 DEF FeedInv

\* A snapshot is accepted or rejected; an accepted one is newer than the book it
\* replaces.
LEMMA IngestKeeps ==
    ASSUME FeedInv, NEW s \in Symbols, NEW b \in Snapshots, Ingest(s, b)
    PROVE  FeedInv' /\ ("numbers" \in offers => \A t \in Symbols : cache'[t] >= cache[t])
<1> USE MarketFeedAssumption
<1>1. /\ cache \in [Symbols -> Nat] /\ quality \in [last : Nat, rejections : Nat]
      /\ tracker \in [bad : BOOLEAN, maint : BOOLEAN, rate : BOOLEAN]
      /\ queue \in Seq(BreakerCalls)
  BY DEF FeedInv, FeedType
<1>2. b.version \in Nat \ {0} /\ Base[s] \in Nat
  BY DEF Snapshots
<1>3. CASE Acceptable(s, b)
  <2> DEFINE last == IF "numbers" \in offers THEN Number(s, b) ELSE quality.last
  <2>1. /\ quality' = [last |-> last, rejections |-> 0]
        /\ cache' = [cache EXCEPT ![s] = b.version]
        /\ CheckRapidMove(s, b) /\ UNCHANGED <<tracker, offers>>
    BY <1>3 DEF Ingest, Accept
  <2>2. /\ Number(s, b) = Base[s] + b.version
        /\ "numbers" \in offers => Number(s, b) > quality.last /\ last = Number(s, b)
    BY <1>3 DEF Number, Acceptable
  <2>0. last \in Nat
    BY <1>1, <1>2, <2>2
  <2> HIDE DEF last
  <2>3. /\ cache' \in [Symbols -> Nat] /\ quality' \in [last : Nat, rejections : Nat]
        /\ "numbers" \in offers => quality'.last = Base[s] + b.version
        /\ quality'.rejections = 0
        /\ cache'[s] = b.version /\ \A t \in Symbols \ {s} : cache'[t] = cache[t]
    BY <1>1, <1>2, <2>0, <2>1, <2>2
  <2>4. queue' \in Seq(BreakerCalls)
    <3>1. UNCHANGED breakerVars \/ Ask(s, "trip", "rapid_move")
      BY <2>1 DEF CheckRapidMove, AskOwn
    <3>2. "rapid_move" \in Reasons \cup {"any"} /\ "rapid_move" # "any" /\ s \in Asks
      BY DEF Reasons, Asks
    <3> QED BY <1>1, <3>1, <3>2, Asked DEF breakerVars
  <2>5. FeedType'
    BY <1>1, <2>1, <2>3, <2>4 DEF FeedType, FeedInv, Ingest
  <2>6. "numbers" \in offers => \A t \in Symbols : cache[t] # 0 => Base[t] + cache[t] <= quality.last
    BY DEF FeedInv, Numbered
  <2>7. Numbered'
    <3> SUFFICES ASSUME "numbers" \in offers, NEW t \in Symbols, cache'[t] # 0
                 PROVE  Base[t] + cache'[t] <= quality'.last
      BY <2>1 DEF Numbered
    <3>1. Base[t] \in Nat /\ cache[t] \in Nat /\ quality.last \in Nat
      BY <1>1
    <3>2. CASE t = s
      BY <1>2, <2>3, <3>2
    <3>3. CASE t # s
      <4>1. cache'[t] = cache[t]
        BY <2>3, <3>3
      <4> QED BY <1>2, <2>2, <2>3, <2>6, <3>1, <4>1
    <3> QED BY <3>2, <3>3
  <2>8. Paused'
    BY <2>3 DEF Paused, Unhealthy
  <2>9. "numbers" \in offers => cache'[s] >= cache[s]
    <3>1. cache[s] \in Nat /\ quality.last \in Nat
      BY <1>1
    <3> QED BY <1>2, <2>2, <2>3, <2>6, <3>1
  <2>10. \A t \in Symbols \ {s} : cache'[t] >= cache[t]
    BY <1>1, <2>3
  <2> QED BY <2>5, <2>7, <2>8, <2>9, <2>10 DEF FeedInv
<1>4. CASE ~Acceptable(s, b)
  <2> DEFINE q == [quality EXCEPT !.rejections = IF @ < UnhealthyAfter THEN @ + 1 ELSE @]
  <2>1. /\ quality' = q /\ tracker' = [tracker EXCEPT !.bad = Unhealthy(q)]
        /\ UNCHANGED <<cache, offers>>
        /\ IF Unhealthy(q) THEN Ask(s, "trip", "data") ELSE UNCHANGED breakerVars
    BY <1>4 DEF Ingest, Reject
  <2>2. q \in [last : Nat, rejections : Nat] /\ q.last = quality.last
    <3>1. quality.last \in Nat /\ quality.rejections \in Nat /\ quality.rejections + 1 \in Nat
      BY <1>1
    <3> QED BY <1>1, <3>1
  <2> HIDE DEF q
  <2>3. Unhealthy(q) \in BOOLEAN
    BY DEF Unhealthy
  <2>4. /\ tracker' \in [bad : BOOLEAN, maint : BOOLEAN, rate : BOOLEAN]
        /\ Unhealthy(q) => tracker'.bad
    BY <1>1, <2>1, <2>3 DEF Unhealthy
  <2>5. "data" \in Reasons /\ "data" # "any" /\ s \in Asks
    BY DEF Reasons, Asks
  <2>6. queue' \in Seq(BreakerCalls)
    BY <1>1, <2>1, <2>5, Asked DEF breakerVars
  <2>7. Unhealthy(q) => InForceAtLast("data")'
    BY <1>1, <2>1, <2>5, TripIsLast
  <2>8. FeedType'
    BY <1>1, <2>1, <2>2, <2>4, <2>6 DEF FeedType, FeedInv, Ingest
  <2>9. Numbered'
    BY <2>1, <2>2 DEF FeedInv, Numbered
  <2>10. Paused'
    BY <2>1, <2>4, <2>7 DEF Paused, Unhealthy
  <2> QED BY <1>1, <2>1, <2>8, <2>9, <2>10 DEF FeedInv
<1> QED BY <1>3, <1>4

\* The health loop lifts the breaker of the data only when the feed is clean.
LEMMA CheckDataKeeps == FeedInv /\ CheckData => FeedInv'
<1> SUFFICES ASSUME FeedInv, CheckData PROVE FeedInv'
  OBVIOUS
<1>1. CASE tracker.bad /\ ~Unhealthy(quality)
  <2>1. /\ UNCHANGED <<offers, cache, quality>> /\ tracker' = [tracker EXCEPT !.bad = FALSE]
        /\ Ask("health", "reset", "data")
    BY <1>1 DEF CheckData, AskOwn
  <2>2. "data" \in Reasons /\ "health" \in Asks
    BY DEF Reasons, Asks
  <2>3. queue' \in Seq(BreakerCalls)
    BY <2>1, <2>2, Asked DEF FeedInv, FeedType
  <2>4. FeedType'
    BY <2>1, <2>3 DEF FeedInv, FeedType, CheckData
  <2>5. Numbered'
    BY <2>1 DEF FeedInv, Numbered
  <2>6. Paused'
    BY <1>1, <2>1 DEF Paused, Unhealthy
  <2> QED BY <2>4, <2>5, <2>6 DEF FeedInv
<1>2. CASE ~(tracker.bad /\ ~Unhealthy(quality))
  <2>1. UNCHANGED <<offers, cache, quality, tracker>> /\ UNCHANGED breakerVars
    BY <1>2 DEF CheckData, breakerVars
  <2> QED BY <2>1, OthersKeepFeed DEF FeedInv, FeedType, CheckData
<1> QED BY <1>1, <1>2

\* The other steps of the health loop.
LEMMA CheckKeeps == FeedInv /\ (CheckStatus \/ CheckRate \/ CheckMaintenance \/ CheckWs) => FeedInv'
<1> SUFFICES ASSUME FeedInv, CheckStatus \/ CheckRate \/ CheckMaintenance \/ CheckWs PROVE FeedInv'
  OBVIOUS
<1>1. tracker \in [bad : BOOLEAN, maint : BOOLEAN, rate : BOOLEAN] /\ maintenance \in BOOLEAN
  BY DEF FeedInv, FeedType
<1>2. UNCHANGED <<offers, cache, quality, maintenance>>
  BY DEF CheckStatus, CheckRate, CheckMaintenance, CheckWs
<1>3. tracker' \in [bad : BOOLEAN, maint : BOOLEAN, rate : BOOLEAN] /\ tracker'.bad = tracker.bad
  <2>1. CASE CheckStatus
    <3>1. \/ tracker' = [tracker EXCEPT !.maint = maintenance]
          \/ tracker' = tracker
          \/ tracker' \in Noted \cup {tracker}
      BY <2>1 DEF CheckStatus
    <3> QED BY <1>1, <3>1, NotedKeepsMark
  <2>2. CASE ~CheckStatus
    BY <1>1, <2>2 DEF CheckRate, CheckMaintenance, CheckWs
  <2> QED BY <2>1, <2>2
<1>4. \/ UNCHANGED breakerVars
      \/ \E op \in {"trip", "reset"}, r \in {"rate_limit", "maintenance", "ws"} :
            AskOwn("health", op, r)
  <2>1. CASE CheckStatus
    BY <2>1 DEF CheckStatus
  <2>2. CASE CheckRate
    BY <2>2 DEF CheckRate
  <2>3. CASE CheckMaintenance
    BY <2>3 DEF CheckMaintenance
  <2>4. CASE CheckWs
    BY <2>4 DEF CheckWs
  <2> QED BY <2>1, <2>2, <2>3, <2>4
<1>5. "health" \in Asks /\ {"rate_limit", "maintenance", "ws"} \subseteq Reasons \ {"data"}
  BY DEF Reasons, Asks
<1> QED BY <1>1, <1>2, <1>3, <1>4, <1>5, OthersKeepFeed

\* A write of the breakers ends.
LEMMA SavedKeeps == FeedInv /\ (\E ok \in BOOLEAN : Saved(ok)) => FeedInv'
<1> SUFFICES ASSUME FeedInv, NEW ok \in BOOLEAN, Saved(ok) PROVE FeedInv'
  OBVIOUS
<1>1. /\ UNCHANGED <<offers, cache, quality, tracker, maintenance, lastWord>>
      /\ queue # <<>> /\ queue' = Tail(queue)
  BY DEF Saved
<1>2. queue \in Seq(BreakerCalls)
  BY DEF FeedInv, FeedType
<1>3. queue' \in Seq(BreakerCalls)
  BY <1>1, <1>2
<1>4. InForceAtLast("data") => InForceAtLast("data")'
  BY <1>2, SavedKeepsLast DEF Reasons
<1>5. FeedType'
  BY <1>1, <1>3 DEF FeedInv, FeedType
<1>6. Numbered'
  BY <1>1 DEF FeedInv, Numbered
<1>7. Paused'
  BY <1>1, <1>4 DEF FeedInv, Paused, Unhealthy
<1> QED BY <1>5, <1>6, <1>7 DEF FeedInv

\* The operator's reset: of another breaker, or with the last word.
LEMMA ResetKeeps == FeedInv /\ OperatorResets => FeedInv' /\ UNCHANGED <<offers, cache>>
<1> SUFFICES ASSUME FeedInv, OperatorResets PROVE FeedInv' /\ UNCHANGED <<offers, cache>>
  OBVIOUS
<1>1. /\ UNCHANGED <<offers, cache, quality, tracker, maintenance>>
      /\ queue \in Seq(BreakerCalls)
  BY DEF OperatorResets, FeedInv, FeedType
<1>2. PICK reason \in Reasons \cup {"any"} :
        /\ Ask("operator", "reset", reason)
        /\ lastWord' = IF reason \in {"data", "any"} THEN "operator" ELSE lastWord
  BY DEF OperatorResets
<1>3. "operator" \in Asks
  BY DEF Asks
<1>4. CASE reason \in {"data", "any"}
  <2>1. queue' \in Seq(BreakerCalls)
    BY <1>1, <1>2, <1>3, Asked
  <2>2. FeedType'
    BY <1>1, <2>1 DEF FeedInv, FeedType
  <2>3. Numbered'
    BY <1>1 DEF FeedInv, Numbered
  <2>4. Paused'
    BY <1>1, <1>2, <1>4 DEF FeedInv, Paused, Unhealthy
  <2> QED BY <1>1, <2>2, <2>3, <2>4 DEF FeedInv
<1>5. CASE reason \notin {"data", "any"}
  <2>1. AskOwn("operator", "reset", reason) /\ reason \in Reasons \ {"data"}
    BY <1>2, <1>5 DEF AskOwn
  <2>2. FeedType
    BY DEF FeedInv
  <2> QED BY <1>1, <1>3, <2>1, <2>2, OthersKeepFeed DEF FeedType
<1> QED BY <1>4, <1>5

\* The exchange, time and the feeds' connections.
LEMMA OutsideKeeps ==
    ASSUME FeedInv,
           \/ MaintenanceStarts \/ MaintenanceEnds \/ RateLimitEnds
           \/ \E s \in Symbols :
                 WatchFails(s) \/ WatchUnsupported(s) \/ PollFails(s) \/ Reconnect(s)
    PROVE  FeedInv' /\ UNCHANGED <<offers, cache>>
<1>1. tracker \in [bad : BOOLEAN, maint : BOOLEAN, rate : BOOLEAN] /\ maintenance \in BOOLEAN
  BY DEF FeedInv, FeedType
<1>2. UNCHANGED <<offers, cache, quality>> /\ UNCHANGED breakerVars
  BY DEF MaintenanceStarts, MaintenanceEnds, RateLimitEnds, WatchFails, WatchUnsupported,
         PollFails, Reconnect
<1>3. maintenance' \in BOOLEAN
  BY <1>1 DEF MaintenanceStarts, MaintenanceEnds, RateLimitEnds, WatchFails, WatchUnsupported,
         PollFails, Reconnect
<1>4. tracker' \in Noted \cup {tracker} \/ tracker' = [tracker EXCEPT !.rate = FALSE]
  BY DEF MaintenanceStarts, MaintenanceEnds, RateLimitEnds, WatchFails, WatchUnsupported,
         PollFails, Reconnect
<1>5. tracker' \in [bad : BOOLEAN, maint : BOOLEAN, rate : BOOLEAN] /\ tracker'.bad = tracker.bad
  BY <1>1, <1>4, NotedKeepsMark
<1>6. FeedInv'
  BY <1>1, <1>2, <1>3, <1>5, OthersKeepFeed
<1> QED BY <1>2, <1>6

\* Every step of the feed keeps the invariant, and no book goes back.
LEMMA FeedStep ==
    ASSUME FeedInv, [FeedNext]_feedVars
    PROVE  FeedInv' /\ \A s \in Symbols : "numbers" \in offers => cache'[s] >= cache[s]
<1>0. \A s \in Symbols : cache[s] >= cache[s]
  BY DEF FeedInv, FeedType
<1>1. CASE \E s \in Symbols : WatchYields(s) \/ PollAnswers(s)
  <2>1. PICK s \in Symbols, b \in Snapshots : Ingest(s, b)
    BY <1>1 DEF WatchYields, PollAnswers
  <2> QED BY <2>1, IngestKeeps
<1>2. CASE \E s \in Symbols : WatchFails(s) \/ WatchUnsupported(s) \/ PollFails(s) \/ Reconnect(s)
  BY <1>0, <1>2, OutsideKeeps
<1>3. CASE \E ok \in BOOLEAN : Saved(ok)
  <2>1. UNCHANGED cache
    BY <1>3 DEF Saved
  <2> QED BY <1>0, <1>3, <2>1, SavedKeeps
<1>4. CASE Check
  <2>1. UNCHANGED cache
    BY <1>4 DEF Check, CheckStatus, CheckRate, CheckData, CheckMaintenance, CheckWs
  <2>2. FeedInv'
    BY <1>4, CheckKeeps, CheckDataKeeps DEF Check
  <2> QED BY <1>0, <2>1, <2>2
<1>7. CASE OperatorResets
  BY <1>0, <1>7, ResetKeeps
<1>5. CASE MaintenanceStarts \/ MaintenanceEnds \/ RateLimitEnds
  BY <1>0, <1>5, OutsideKeeps
<1>6. CASE UNCHANGED feedVars
  <2>1. UNCHANGED <<offers, cache, quality, tracker, maintenance, inForce, queue, lastWord>>
    BY <1>6 DEF feedVars
  <2>2. FeedInv'
    BY <2>1, OthersKeepFeed DEF FeedInv, FeedType, breakerVars
  <2> QED BY <1>0, <2>1, <2>2
<1> QED BY <1>1, <1>2, <1>3, <1>4, <1>5, <1>6, <1>7 DEF FeedNext

\* A feed starts with no books and no rejections.
LEMMA FeedInitially == FeedInit => FeedInv
<1> SUFFICES ASSUME FeedInit PROVE FeedInv
  OBVIOUS
<1>1. FeedType
  <2>1. cache \in [Symbols -> Nat] /\ quality \in [last : Nat, rejections : Nat]
    BY DEF FeedInit
  <2>2. tracker \in [bad : BOOLEAN, maint : BOOLEAN, rate : BOOLEAN]
    BY DEF FeedInit
  <2>3. queue \in Seq(BreakerCalls)
    <3>1. queue = <<>>
      BY DEF FeedInit
    <3> QED BY <3>1
  <2>4. maintenance \in BOOLEAN
    BY Zenon DEF FeedInit
  <2> QED BY <2>1, <2>2, <2>3, <2>4 DEF FeedType
<1>2. Numbered
  BY DEF FeedInit, Numbered
<1>3. Paused
  <2>1. UnhealthyAfter \in Nat \ {0} /\ quality.rejections = 0
    BY MarketFeedAssumption DEF FeedInit
  <2> QED BY <2>1 DEF Paused, Unhealthy
<1> QED BY <1>1, <1>2, <1>3 DEF FeedInv

\* Books, gate and breakers fit together in every state.
LEMMA FeedInvariant == FeedSpec => []FeedInv
<1>1. FeedInv /\ [FeedNext]_feedVars => FeedInv'
  BY FeedStep
<1> QED BY <1>1, FeedInitially, PTL DEF FeedSpec

\* A venue whose books keep being rejected is out of use once the calls that
\* wait for the lock had it, unless the operator had the last word
\* (app._on_market_data_reject against the health loop's recovery and the API's
\* resets), for any number of symbols and any length of the queue.
THEOREM UnhealthyVenuesArePaused == FeedSpec => []UnhealthyIsPaused
<1>1. FeedInv => UnhealthyIsPaused
  <2> SUFFICES ASSUME FeedInv, Unhealthy(quality)
               PROVE  /\ lastWord = "operator" \/ InForceAtLast("data")
                      /\ \A h \in {"healthy", "degraded", "unhealthy"} :
                            Rank(Classify(tracker, h)) >= Rank("unhealthy")
    BY DEF UnhealthyIsPaused
  <2>1. tracker \in [bad : BOOLEAN, maint : BOOLEAN, rate : BOOLEAN] /\ tracker.bad
        /\ (lastWord = "operator" \/ InForceAtLast("data"))
    BY DEF FeedInv, FeedType, Paused
  <2> QED BY <2>1, MarkedIsUnhealthy
<1> QED BY <1>1, FeedInvariant, PTL

\* Where snapshots have numbers, a cached book is never replaced by an older one
\* (quality._check, hub.ingest).
THEOREM BooksOnlyGoForward == FeedSpec => BooksGoForward
<1>1. FeedInv /\ [FeedNext]_feedVars => [\A s \in Symbols : "numbers" \in offers => cache'[s] >= cache[s]]_feedVars
  BY FeedStep
<1> QED BY <1>1, FeedInvariant, PTL DEF FeedSpec, BooksGoForward

(***************************************************************************)
(* Books                                                                   *)
(***************************************************************************)
\* Induction up to a number: the numbers that have a property are given as a
\* set, not as an operator.
LEMMA CountingUp ==
    ASSUME NEW N \in Nat, NEW G, 0 \in G,
           \A i \in 1 .. N : i - 1 \in G => i \in G
    PROVE  \A i \in 0 .. N : i \in G
<1> SUFFICES ASSUME NEW m \in 0 .. N, m \notin G PROVE FALSE
  OBVIOUS
<1> DEFINE B == {i \in 0 .. N : i \notin G}
<1>1. B \subseteq Nat /\ B # {}
  OBVIOUS
<1>2. PICK i \in B : \A j \in B : ~(<<j, i>> \in OpToRel(<, Nat))
  <2> HIDE DEF B
  <2> QED BY <1>1, NatLessThanWellFounded, WFMin
<1>3. \A j \in B : ~(j < i)
  BY <1>1, <1>2 DEF OpToRel
<1>4. i # 0 /\ i \in 1 .. N /\ i - 1 \in 0 .. N /\ i - 1 < i
  OBVIOUS
<1>5. i - 1 \in G
  BY <1>3, <1>4
<1> QED BY <1>4, <1>5

\* A loop over numbers has a run: a value before it and one after each pass.
LEMMA LoopsRun ==
    ASSUME NEW N \in Nat, NEW A, NEW a \in A, NEW F \in [1 .. N -> [A -> A]]
    PROVE  \E f \in [0 .. N -> A] : f[0] = a /\ \A i \in 1 .. N : f[i] = F[i][f[i - 1]]
<1> DEFINE Runs(k) == \E f \in [0 .. k -> A] :
                         f[0] = a /\ \A i \in 1 .. k : f[i] = F[i][f[i - 1]]
           G == {k \in 0 .. N : Runs(k)}
<1>1. 0 \in G
  <2>1. [i \in 0 .. 0 |-> a] \in [0 .. 0 -> A] /\ [i \in 0 .. 0 |-> a][0] = a
    OBVIOUS
  <2>2. Runs(0)
    <3> DEFINE f == [i \in 0 .. 0 |-> a]
    <3> HIDE DEF f
    <3>1. f \in [0 .. 0 -> A] /\ f[0] = a /\ \A i \in 1 .. 0 : f[i] = F[i][f[i - 1]]
      BY <2>1 DEF f
    <3> QED BY <3>1
  <2> HIDE DEF Runs
  <2> QED BY <2>2
<1>2. ASSUME NEW k \in 1 .. N, k - 1 \in G PROVE k \in G
  <2>1. PICK f \in [0 .. k - 1 -> A] :
            f[0] = a /\ \A i \in 1 .. k - 1 : f[i] = F[i][f[i - 1]]
    BY <1>2
  <2> DEFINE g == [i \in 0 .. k |-> IF i = k THEN F[k][f[k - 1]] ELSE f[i]]
  <2>2. k - 1 \in 0 .. k - 1 /\ F[k] \in [A -> A]
    OBVIOUS
  <2>3. g \in [0 .. k -> A] /\ g[0] = a
    BY <2>1, <2>2
  <2>4. ASSUME NEW i \in 1 .. k PROVE g[i] = F[i][g[i - 1]]
    <3>1. g[i - 1] = f[i - 1]
      OBVIOUS
    <3>2. CASE i = k
      BY <3>1, <3>2
    <3>3. CASE i # k
      BY <2>1, <3>1, <3>3
    <3> QED BY <3>2, <3>3
  <2>5. Runs(k)
    <3> HIDE DEF g
    <3> QED BY <2>3, <2>4
  <2> HIDE DEF Runs
  <2> QED BY <2>5
<1>3. N \in G
  <2> HIDE DEF G
  <2>1. \A i \in 0 .. N : i \in G
    BY <1>1, <1>2, CountingUp
  <2> QED BY <2>1
<1> QED BY <1>3

\* Levels with a price and an amount, an amount of zero included.
Levels == [price : Nat \ {0}, amount : Nat]

\* What a walk knows after some levels.
Walks == [left : Nat, lots : Nat, value : Nat]

\* One level of a walk.
Taking(acc, level) ==
    [left |-> acc.left - Least(level.amount, acc.left),
     lots |-> acc.lots + Least(level.amount, acc.left),
     value |-> acc.value + Least(level.amount, acc.left) * level.price]

\* A level takes from what is left of a walk.
LEMMA TakingWalks ==
    ASSUME NEW acc \in Walks, NEW level \in Levels
    PROVE  Taking(acc, level) \in Walks
<1> DEFINE take == Least(level.amount, acc.left)
<1>1. take \in Nat /\ acc.left - take \in Nat
  BY DEF Least, Walks, Levels
<1> HIDE DEF take
<1>2. take * level.price \in Nat
  BY <1>1 DEF Levels
<1> QED BY <1>1, <1>2 DEF Taking, Walks, take

\* A walk of a book starts with nothing and takes from every level in turn.
LEMMA WalksGo ==
    ASSUME NEW book \in Seq(Levels), NEW n \in Nat
    PROVE  /\ WalkedTo(book, n) \in [0 .. Len(book) -> Walks]
           /\ WalkedTo(book, n)[0] = [left |-> n, lots |-> 0, value |-> 0]
           /\ \A i \in 1 .. Len(book) :
                WalkedTo(book, n)[i] = Taking(WalkedTo(book, n)[i - 1], book[i])
<1> DEFINE N == Len(book)
           a == [left |-> n, lots |-> 0, value |-> 0]
           F == [i \in 1 .. N |-> [acc \in Walks |-> Taking(acc, book[i])]]
           Pass(f) == [i \in 0 .. N |-> IF i = 0 THEN a ELSE Taking(f[i - 1], book[i])]
<1>1. N \in Nat /\ a \in Walks /\ \A i \in 1 .. N : book[i] \in Levels
  BY DEF Walks
<1>2. F \in [1 .. N -> [Walks -> Walks]]
  BY <1>1, TakingWalks
<1>3. \E f \in [0 .. N -> Walks] : f[0] = a /\ \A i \in 1 .. N : f[i] = F[i][f[i - 1]]
  <2>1. N \in Nat /\ a \in Walks
    BY <1>1
  <2> DEFINE Runs(b, H, f) == f[0] = b /\ \A i \in 1 .. N : f[i] = H[i][f[i - 1]]
  <2> HIDE DEF N, a, F
  <2>2. \A A : \A b \in A : \A H \in [1 .. N -> [A -> A]] :
            \E f \in [0 .. N -> A] : Runs(b, H, f)
    BY <2>1, LoopsRun
  <2> HIDE DEF Runs
  <2>3. \E f \in [0 .. N -> Walks] : Runs(a, F, f)
    BY <1>2, <2>1, <2>2
  <2> QED BY <2>3 DEF Runs
<1>4. PICK f \in [0 .. N -> Walks] : f[0] = a /\ \A i \in 1 .. N : f[i] = F[i][f[i - 1]]
  BY <1>3
<1>5. \A i \in 1 .. N : f[i] = Taking(f[i - 1], book[i])
  <2> TAKE i \in 1 .. N
  <2>1. i - 1 \in 0 .. N
    BY <1>1
  <2> QED BY <1>4, <2>1
<1>6. f = Pass(f)
  <2> HIDE DEF a, N
  <2>1. \A i \in 0 .. N : f[i] = IF i = 0 THEN a ELSE Taking(f[i - 1], book[i])
    BY <1>1, <1>4, <1>5
  <2> QED BY <1>4, <2>1
<1>7. WalkedTo(book, n) = CHOOSE g : g = Pass(g)
  BY DEF WalkedTo, Taking
<1> DEFINE W == WalkedTo(book, n)
<1>8. W = Pass(W)
  <2> HIDE DEF Pass
  <2> QED BY <1>6, <1>7
<1> HIDE DEF W
<1>9. W[0] = a /\ \A i \in 1 .. N : W[i] = Taking(W[i - 1], book[i])
  <2>1. 0 \in 0 .. N /\ \A i \in 1 .. N : i \in 0 .. N /\ i # 0
    BY <1>1
  <2> HIDE DEF a, N
  <2> QED BY <1>8, <2>1
<1>10. W \in [0 .. N -> Walks]
  <2> DEFINE G == {i \in 0 .. N : W[i] \in Walks}
  <2>1. 0 \in G
    BY <1>1, <1>9
  <2>2. \A i \in 1 .. N : i - 1 \in G => i \in G
    BY <1>1, <1>9, TakingWalks
  <2>3. \A i \in 0 .. N : i \in G
    <3> HIDE DEF G, N
    <3> QED BY <1>1, <2>1, <2>2, CountingUp
  <2>4. DOMAIN W = 0 .. N /\ W = [i \in 0 .. N |-> W[i]]
    <3> HIDE DEF a, N
    <3> QED BY <1>8
  <2> QED BY <2>3, <2>4
<1> QED BY <1>9, <1>10 DEF W

\* What the first levels hold, as a walk for everything would take it.
Sums == [lots : Nat, value : Nat]

\* The totals start with nothing and add every level in turn.
LEMMA TotalsGo ==
    ASSUME NEW book \in Seq(Levels)
    PROVE  /\ Totals(book) \in [0 .. Len(book) -> Sums]
           /\ Totals(book)[0] = [lots |-> 0, value |-> 0]
           /\ \A i \in 1 .. Len(book) :
                Totals(book)[i] =
                    [lots |-> Totals(book)[i - 1].lots + book[i].amount,
                     value |-> Totals(book)[i - 1].value + book[i].amount * book[i].price]
<1> DEFINE N == Len(book)
           a == [lots |-> 0, value |-> 0]
           Add(acc, level) == [lots |-> acc.lots + level.amount,
                               value |-> acc.value + level.amount * level.price]
           F == [i \in 1 .. N |-> [acc \in Sums |-> Add(acc, book[i])]]
           Pass(f) == [i \in 0 .. N |-> IF i = 0 THEN a ELSE Add(f[i - 1], book[i])]
<1>1. N \in Nat /\ a \in Sums /\ \A i \in 1 .. N : book[i] \in Levels
  BY DEF Sums
<1>0. ASSUME NEW acc \in Sums, NEW level \in Levels PROVE Add(acc, level) \in Sums
  <2>1. level.amount * level.price \in Nat
    BY DEF Levels
  <2> QED BY <2>1 DEF Sums, Levels
<1>2. F \in [1 .. N -> [Sums -> Sums]]
  <2> HIDE DEF Add
  <2> QED BY <1>1, <1>0
<1>3. \E f \in [0 .. N -> Sums] : f[0] = a /\ \A i \in 1 .. N : f[i] = F[i][f[i - 1]]
  <2>1. N \in Nat /\ a \in Sums
    BY <1>1
  <2> DEFINE Runs(b, H, f) == f[0] = b /\ \A i \in 1 .. N : f[i] = H[i][f[i - 1]]
  <2> HIDE DEF N, a, F
  <2>2. \A A : \A b \in A : \A H \in [1 .. N -> [A -> A]] :
            \E f \in [0 .. N -> A] : Runs(b, H, f)
    BY <2>1, LoopsRun
  <2> HIDE DEF Runs
  <2>3. \E f \in [0 .. N -> Sums] : Runs(a, F, f)
    BY <1>2, <2>1, <2>2
  <2> QED BY <2>3 DEF Runs
<1>4. PICK f \in [0 .. N -> Sums] : f[0] = a /\ \A i \in 1 .. N : f[i] = F[i][f[i - 1]]
  BY <1>3
<1>5. \A i \in 1 .. N : f[i] = Add(f[i - 1], book[i])
  <2> TAKE i \in 1 .. N
  <2>1. i - 1 \in 0 .. N
    BY <1>1
  <2> HIDE DEF Add
  <2> QED BY <1>4, <2>1
<1>6. f = Pass(f)
  <2> HIDE DEF a, N, Add
  <2>1. \A i \in 0 .. N : f[i] = IF i = 0 THEN a ELSE Add(f[i - 1], book[i])
    BY <1>1, <1>4, <1>5
  <2> QED BY <1>4, <2>1
<1>7. Totals(book) = CHOOSE g : g = Pass(g)
  BY DEF Totals
<1> DEFINE W == Totals(book)
<1>8. W = Pass(W)
  <2> HIDE DEF Pass
  <2> QED BY <1>6, <1>7
<1> HIDE DEF W, Add
<1>9. W[0] = a /\ \A i \in 1 .. N : W[i] = Add(W[i - 1], book[i])
  <2>1. 0 \in 0 .. N /\ \A i \in 1 .. N : i \in 0 .. N /\ i # 0
    BY <1>1
  <2> HIDE DEF a, N
  <2> QED BY <1>8, <2>1
<1>10. W \in [0 .. N -> Sums]
  <2> DEFINE G == {i \in 0 .. N : W[i] \in Sums}
  <2>1. 0 \in G
    BY <1>1, <1>9
  <2>2. \A i \in 1 .. N : i - 1 \in G => i \in G
    BY <1>1, <1>9, <1>0
  <2>3. \A i \in 0 .. N : i \in G
    <3> HIDE DEF G, N
    <3> QED BY <1>1, <2>1, <2>2, CountingUp
  <2>4. DOMAIN W = 0 .. N /\ W = [i \in 0 .. N |-> W[i]]
    <3> HIDE DEF a, N
    <3> QED BY <1>8
  <2> QED BY <2>3, <2>4
<1> QED BY <1>9, <1>10 DEF W, Add

\* A walk counts what is left of it, and with no lots there is no value.
LEMMA WalkCounts ==
    ASSUME NEW book \in Seq(Levels), NEW n \in Nat, NEW i \in 0 .. Len(book)
    PROVE  LET acc == WalkedTo(book, n)[i]
           IN /\ acc \in Walks /\ acc.left = n - acc.lots
              /\ acc.lots = 0 => acc.value = 0
<1> DEFINE N == Len(book)
           w == WalkedTo(book, n)
           G == {j \in 0 .. N : w[j].left = n - w[j].lots /\ (w[j].lots = 0 => w[j].value = 0)}
<1>1. /\ N \in Nat /\ w \in [0 .. N -> Walks]
      /\ w[0] = [left |-> n, lots |-> 0, value |-> 0]
      /\ \A j \in 1 .. N : w[j] = Taking(w[j - 1], book[j]) /\ book[j] \in Levels
  BY WalksGo
<1> HIDE DEF w, N
<1>2. 0 \in G
  BY <1>1
<1>3. ASSUME NEW j \in 1 .. N, j - 1 \in G PROVE j \in G
  <2> DEFINE acc == w[j - 1]
             take == Least(book[j].amount, acc.left)
  <2>1. acc \in Walks /\ book[j] \in Levels /\ w[j] = Taking(acc, book[j])
    BY <1>1
  <2>2. acc.left = n - acc.lots /\ (acc.lots = 0 => acc.value = 0)
    BY <1>3
  <2>3. /\ acc.left \in Nat /\ acc.lots \in Nat /\ acc.value \in Nat
        /\ take \in Nat /\ book[j].price \in Nat
    BY <2>1 DEF Walks, Levels, Least
  <2>4. /\ w[j].left = acc.left - take /\ w[j].lots = acc.lots + take
        /\ w[j].value = acc.value + take * book[j].price
    BY <2>1 DEF Taking
  <2> HIDE DEF acc, take
  <2>5. w[j].left = n - w[j].lots
    BY <2>2, <2>3, <2>4
  <2>6. ASSUME w[j].lots = 0 PROVE w[j].value = 0
    <3>1. acc.lots = 0 /\ take = 0
      BY <2>3, <2>4, <2>6
    <3>2. take * book[j].price = 0
      BY <2>3, <3>1
    <3> QED BY <2>2, <2>3, <2>4, <3>1, <3>2
  <2> QED BY <2>5, <2>6
<1>4. \A j \in 0 .. N : j \in G
  <2> HIDE DEF G
  <2> QED BY <1>1, <1>2, <1>3, CountingUp
<1> QED BY <1>1, <1>4 DEF w, N

\* The levels of a walk in numbers: each takes some of its amount, as much as
\* is asked for.
LEMMA WalkSteps ==
    ASSUME NEW book \in Seq(Levels), NEW n \in Nat, NEW i \in 1 .. Len(book)
    PROVE  LET acc == WalkedTo(book, n)[i - 1]
               now == WalkedTo(book, n)[i]
           IN /\ acc.lots \in Nat /\ acc.value \in Nat /\ acc.lots <= n
              /\ now.lots \in Nat /\ now.value \in Nat /\ now.lots <= n
              /\ now.lots >= acc.lots
              /\ now.lots = Least(acc.lots + book[i].amount, n)
              /\ now.value = acc.value + (now.lots - acc.lots) * book[i].price
<1> DEFINE w == WalkedTo(book, n)
           acc == w[i - 1]
           now == w[i]
           take == Least(book[i].amount, acc.left)
<1>1. i - 1 \in 0 .. Len(book) /\ i \in 0 .. Len(book) /\ book[i] \in Levels
  OBVIOUS
<1>2. /\ acc \in Walks /\ acc.left = n - acc.lots
      /\ now \in Walks /\ now.left = n - now.lots
  BY <1>1, WalkCounts
<1>3. now = Taking(acc, book[i])
  BY WalksGo
<1> HIDE DEF w, acc, now
<1>4. /\ acc.left \in Nat /\ acc.lots \in Nat /\ acc.value \in Nat
      /\ now.left \in Nat /\ now.lots \in Nat /\ now.value \in Nat
      /\ book[i].amount \in Nat /\ book[i].price \in Nat
  BY <1>1, <1>2 DEF Walks, Levels
<1>5. now.lots = acc.lots + take /\ now.value = acc.value + take * book[i].price
  BY <1>3 DEF Taking
<1>6. take = IF book[i].amount < n - acc.lots THEN book[i].amount ELSE n - acc.lots
  BY <1>2 DEF Least
<1> HIDE DEF take
<1>7. take \in Nat /\ take = now.lots - acc.lots
  BY <1>2, <1>4, <1>5, <1>6
<1>8. now.lots = Least(acc.lots + book[i].amount, n)
  BY <1>2, <1>4, <1>5, <1>6 DEF Least
<1>9. now.value = acc.value + (now.lots - acc.lots) * book[i].price
  BY <1>5, <1>7
<1>10. acc.lots <= n /\ now.lots <= n /\ now.lots >= acc.lots
  <2>1. acc.left = n - acc.lots /\ now.left = n - now.lots /\ now.lots = acc.lots + take
    BY <1>2, <1>5
  <2> DEFINE x == acc.left y == acc.lots u == now.left v == now.lots
  <2>2. x \in Nat /\ y \in Nat /\ u \in Nat /\ v \in Nat
    BY <1>4
  <2> HIDE DEF x, y, u, v
  <2>3. x = n - y /\ u = n - v /\ v = y + take
    BY <2>1 DEF x, y, u, v
  <2>4. y <= n /\ v <= n /\ v >= y
    BY <1>7, <2>2, <2>3
  <2> QED BY <2>4 DEF y, v
<1> QED BY <1>4, <1>8, <1>9, <1>10 DEF w, acc, now

\* Products with a number that is not negative keep their order.
LEMMA Scaled ==
    ASSUME NEW t \in Nat, NEW x \in Int, NEW y \in Int, x <= y
    PROVE  t * x \in Int /\ t * y \in Int /\ t * x <= t * y
<1>1. t * x \in Int /\ t * y \in Int /\ y - x \in Nat
  OBVIOUS
<1>2. t * (y - x) \in Nat /\ t * (y - x) = t * y - t * x
  BY <1>1
<1> DEFINE a == t * x b == t * y
<1> QED BY <1>1, <1>2

\* Values of a walk whose levels each stay within K / c stay within it together.
\* Values and prices are integers here: a sale counts them negative.
LEMMA AverageStays ==
    ASSUME NEW N \in Nat, NEW L \in [0 .. N -> Nat], NEW V \in [0 .. N -> Int],
           NEW q \in [1 .. N -> Int], NEW c \in Int, NEW K \in Int,
           L[0] = 0, V[0] = 0,
           \A i \in 1 .. N : L[i - 1] <= L[i],
           \A i \in 1 .. N : V[i] = V[i - 1] + (L[i] - L[i - 1]) * q[i],
           \A i \in 1 .. N : L[i] # L[i - 1] => c * q[i] <= K
    PROVE  c * V[N] <= K * L[N]
<1> DEFINE G == {i \in 0 .. N : c * V[i] <= K * L[i]}
<1>1. 0 \in G
  <2>1. c * 0 = 0 /\ K * 0 = 0
    OBVIOUS
  <2> QED BY <2>1
<1>2. ASSUME NEW i \in 1 .. N, i - 1 \in G PROVE i \in G
  <2> DEFINE t == L[i] - L[i - 1] v == V[i - 1] l == L[i - 1] p == q[i]
  <2>1. i - 1 \in 0 .. N /\ i \in 0 .. N
    OBVIOUS
  <2>0. L[i] \in Nat /\ L[i - 1] \in Nat /\ V[i - 1] \in Int /\ q[i] \in Int /\ L[i - 1] <= L[i]
    BY <2>1, Zenon
  <2>10. V[i] = V[i - 1] + (L[i] - L[i - 1]) * q[i] /\ (L[i] # L[i - 1] => c * q[i] <= K)
    BY Zenon
  <2>11. t \in Nat /\ L[i] = l + t /\ (t # 0 => L[i] # L[i - 1])
    <3> DEFINE x == L[i] y == L[i - 1]
    <3>1. x \in Nat /\ y \in Nat /\ y <= x
      BY <2>0
    <3> HIDE DEF x, y
    <3>2. x - y \in Nat /\ x = y + (x - y) /\ (x - y # 0 => x # y)
      BY <3>1
    <3> QED BY <3>2 DEF x, y
  <2>2. t \in Nat /\ v \in Int /\ l \in Nat /\ p \in Int
    BY <2>0, <2>11
  <2>12. c * v <= K * l
    BY <1>2
  <2>13. V[i] = v + t * p /\ (t # 0 => c * p <= K)
    BY <2>10, <2>11, Zenon
  <2>3. L[i] = l + t /\ V[i] = v + t * p /\ (t # 0 => c * p <= K) /\ c * v <= K * l
    BY <2>11, <2>12, <2>13, Zenon
  <2> HIDE DEF t, v, l, p
  <2>4. c * (v + t * p) = c * v + t * (c * p) /\ K * (l + t) = K * l + t * K
    BY <2>2
  <2>5. c * p \in Int /\ c * v \in Int /\ K * l \in Int
    BY <2>2
  <2>6. t * (c * p) \in Int /\ t * K \in Int /\ t * (c * p) <= t * K
    <3>1. CASE t = 0
      <4>1. 0 * (c * p) = 0 /\ 0 * K = 0
        BY <2>5
      <4> QED BY <3>1, <4>1
    <3>2. CASE t # 0
      BY <2>2, <2>3, <2>5, <3>2, Scaled
    <3> QED BY <3>1, <3>2
  <2>7. c * (v + t * p) <= K * (l + t)
    <3> DEFINE a == c * v b == K * l d == t * (c * p) e == t * K
    <3>1. a \in Int /\ b \in Int /\ d \in Int /\ e \in Int /\ a <= b /\ d <= e
      BY <2>3, <2>5, <2>6
    <3> HIDE DEF a, b, d, e
    <3>2. a + d <= b + e
      BY <3>1
    <3> QED BY <2>4, <3>2 DEF a, b, d, e
  <2>8. c * V[i] <= K * L[i]
    BY <2>3, <2>7, Zenon
  <2> QED BY <2>1, <2>8
<1>3. \A i \in 0 .. N : i \in G
  <2> HIDE DEF G
  <2> QED BY <1>1, <1>2, CountingUp
<1> QED BY <1>3

\* A walk that takes the same lots no earlier than another takes them from
\* levels that are no cheaper.
LEMMA LaterIsDearer ==
    ASSUME NEW N \in Nat, NEW q \in [1 .. N -> Int],
           NEW L \in [0 .. N -> Nat], NEW V \in [0 .. N -> Int],
           NEW M \in [0 .. N -> Nat], NEW W \in [0 .. N -> Int],
           L[0] = 0, V[0] = 0, M[0] = 0, W[0] = 0,
           \A i, j \in 1 .. N : i <= j => q[i] <= q[j],
           \A i \in 1 .. N : L[i - 1] <= L[i] /\ M[i - 1] <= M[i] /\ L[i] <= M[i],
           \A i \in 1 .. N : V[i] = V[i - 1] + (L[i] - L[i - 1]) * q[i],
           \A i \in 1 .. N : W[i] = W[i - 1] + (M[i] - M[i - 1]) * q[i],
           L[N] = M[N]
    PROVE  W[N] <= V[N]
<1> DEFINE G == {i \in 0 .. N : \A j \in 1 .. N : i <= j => W[i] <= V[i] + (M[i] - L[i]) * q[j]}
<1>1. 0 \in G
  <2>1. ASSUME NEW j \in 1 .. N PROVE W[0] <= V[0] + (M[0] - L[0]) * q[j]
    <3>1. (0 - 0) * q[j] = 0
      OBVIOUS
    <3> QED BY <3>1
  <2> QED BY <2>1
<1>2. ASSUME NEW i \in 1 .. N, i - 1 \in G PROVE i \in G
  <2>1. i - 1 \in 0 .. N /\ i \in 0 .. N /\ i - 1 <= i
    OBVIOUS
  <2>2. SUFFICES ASSUME NEW j \in 1 .. N, i <= j PROVE W[i] <= V[i] + (M[i] - L[i]) * q[j]
    BY <2>1
  <2> DEFINE l == L[i - 1] v == V[i - 1] m == M[i - 1] w == W[i - 1]
             s == L[i] - L[i - 1] t == M[i] - M[i - 1] p == q[i] r == q[j]
  <2>0. /\ L[i - 1] \in Nat /\ M[i - 1] \in Nat /\ V[i - 1] \in Int /\ W[i - 1] \in Int
        /\ L[i] \in Nat /\ M[i] \in Nat /\ q[i] \in Int /\ q[j] \in Int /\ q[i] <= q[j]
        /\ L[i - 1] <= L[i] /\ M[i - 1] <= M[i] /\ L[i] <= M[i]
    BY <2>1, <2>2, Zenon
  <2>10. V[i] = v + s * p /\ W[i] = w + t * p
    BY Zenon
  <2>11. w <= v + (m - l) * p
    <3>1. i <= i
      OBVIOUS
    <3>2. \A k \in 1 .. N : i - 1 <= k => W[i - 1] <= V[i - 1] + (M[i - 1] - L[i - 1]) * q[k]
      BY <1>2
    <3> QED BY <2>1, <3>2, Zenon
  <2>12. s \in Nat /\ L[i] = l + s /\ t \in Nat /\ M[i] = m + t /\ l + s <= m + t
    <3> DEFINE x == L[i] y == L[i - 1] z == M[i] u == M[i - 1]
    <3>1. x \in Nat /\ y \in Nat /\ y <= x /\ z \in Nat /\ u \in Nat /\ u <= z /\ x <= z
      BY <2>0
    <3> HIDE DEF x, y, z, u
    <3>2. /\ x - y \in Nat /\ x = y + (x - y) /\ z - u \in Nat /\ z = u + (z - u)
          /\ y + (x - y) <= u + (z - u)
      BY <3>1
    <3> QED BY <3>2 DEF x, y, z, u
  <2>3. /\ l \in Nat /\ m \in Nat /\ v \in Int /\ w \in Int
        /\ s \in Nat /\ t \in Nat /\ p \in Int /\ r \in Int
    BY <2>0, <2>12, Zenon
  <2>4. /\ L[i] = l + s /\ M[i] = m + t /\ V[i] = v + s * p /\ W[i] = w + t * p
        /\ l + s <= m + t /\ p <= r
        /\ w <= v + (m - l) * p
    BY <2>0, <2>10, <2>11, <2>12, Zenon
  <2> HIDE DEF l, v, m, w, s, t, p, r
  <2> DEFINE d == (m + t) - (l + s)
  <2>5. d \in Nat
    BY <2>3, <2>4
  <2>6. d * p \in Int /\ d * r \in Int /\ d * p <= d * r
    <3> HIDE DEF d
    <3> QED BY <2>3, <2>4, <2>5, Scaled
  <2>7. d * p = ((m - l) * p + t * p) - s * p
    BY <2>3
  <2>8. w + t * p <= (v + s * p) + d * r
    <3> DEFINE a == (m - l) * p b == t * p c == s * p x == d * p y == d * r
    <3>1. a \in Int /\ b \in Int /\ c \in Int /\ x \in Int /\ y \in Int
      BY <2>3, <2>5
    <3>2. w <= v + a /\ x <= y /\ x = (a + b) - c
      BY <2>4, <2>6, <2>7
    <3> HIDE DEF a, b, c, x, y
    <3>3. w + b <= (v + c) + y
      BY <2>3, <3>1, <3>2
    <3> QED BY <3>3 DEF b, c, y
  <2>9. W[i] = w + t * p /\ V[i] = v + s * p /\ M[i] - L[i] = d
    BY <2>4, Zenon
  <2> HIDE DEF d
  <2> QED BY <2>8, <2>9, Zenon DEF r
<1>3. \A i \in 0 .. N : i \in G
  <2> HIDE DEF G
  <2> QED BY <1>1, <1>2, CountingUp
<1>4. CASE N = 0
  BY <1>4
<1>5. CASE N # 0
  <2>1. N \in 1 .. N /\ N \in 0 .. N /\ M[N] - L[N] = 0
    BY <1>5
  <2>2. W[N] <= V[N] + (M[N] - L[N]) * q[N]
    BY <1>3, <2>1
  <2>3. 0 * q[N] = 0
    BY <2>1
  <2> QED BY <2>1, <2>2, <2>3
<1> QED BY <1>4, <1>5

\* Between two totals that stay within h / 100, a part of the level between
\* them stays within it too.
LEMMA BetweenTotals ==
    ASSUME NEW h \in Int, NEW v \in Int, NEW l \in Nat, NEW q \in Int,
           NEW a \in Nat, NEW t \in Nat, t <= a,
           100 * v <= h * l, 100 * (v + a * q) <= h * (l + a)
    PROVE  100 * (v + t * q) <= h * (l + t)
<1> DEFINE hl == h * l ha == h * a ht == h * t aq == a * q tq == t * q
<1>1. hl \in Int /\ ha \in Int /\ ht \in Int /\ aq \in Int /\ tq \in Int
  OBVIOUS
<1>2. h * (l + a) = hl + ha /\ h * (l + t) = hl + ht
  OBVIOUS
<1>3. 100 * v <= hl /\ 100 * (v + aq) <= hl + ha
  BY <1>2
<1>4. SUFFICES 100 * (v + tq) <= hl + ht
  BY <1>2
<1>5. CASE 100 * q <= h
  <2>1. t * (100 * q) <= t * h
    BY <1>5, Scaled
  <2>2. t * (100 * q) = 100 * tq /\ t * h = ht
    OBVIOUS
  <2>3. 100 * tq <= ht
    BY <2>1, <2>2
  <2> HIDE DEF hl, ha, ht, aq, tq
  <2> QED BY <1>1, <1>3, <2>3
<1>6. CASE h <= 100 * q
  <2>1. (a - t) * h <= (a - t) * (100 * q)
    <3>1. a - t \in Nat /\ 100 * q \in Int
      OBVIOUS
    <3> QED BY <1>6, <3>1, Scaled
  <2>2. (a - t) * (100 * q) = 100 * aq - 100 * tq /\ (a - t) * h = ha - ht
    OBVIOUS
  <2>3. ha - ht <= 100 * aq - 100 * tq
    BY <2>1, <2>2
  <2> HIDE DEF hl, ha, ht, aq, tq
  <2> QED BY <1>1, <1>3, <2>3
<1> QED BY <1>5, <1>6

\* A walk L for n lots, worth V, beside the totals T, worth X, of a book with the
\* amounts a at prices q; the totals up to k stay within h / 100.
WalkedBesideTotals(N, L, V, T, X, a, q, h, n, k) ==
    /\ N \in Nat /\ n \in Nat /\ h \in Int /\ k \in 0 .. N
    /\ L \in [0 .. N -> Nat] /\ V \in [0 .. N -> Int]
    /\ T \in [0 .. N -> Nat] /\ X \in [0 .. N -> Int]
    /\ a \in [1 .. N -> Nat] /\ q \in [1 .. N -> Int]
    /\ L[0] = 0 /\ V[0] = 0 /\ T[0] = 0 /\ X[0] = 0
    /\ \A i \in 1 .. N : T[i] = T[i - 1] + a[i] /\ L[i] = Least(L[i - 1] + a[i], n)
    /\ \A i \in 1 .. N : X[i] = X[i - 1] + a[i] * q[i]
    /\ \A i \in 1 .. N : V[i] = V[i - 1] + (L[i] - L[i - 1]) * q[i]
    /\ n <= T[k] /\ \A i \in 1 .. k : 100 * X[i] <= h * T[i]

\* A walk for no more than a total fills, and if the totals up to that one stay
\* within h / 100, so does the walk.
LEMMA WalkBetweenTotals ==
    ASSUME NEW N, NEW L, NEW V, NEW T, NEW X, NEW a, NEW q, NEW h, NEW n, NEW k,
           WalkedBesideTotals(N, L, V, T, X, a, q, h, n, k)
    PROVE  L[N] = n /\ 100 * V[N] <= h * L[N]
<1>0. SUFFICES ASSUME N \in Nat, L \in [0 .. N -> Nat], V \in [0 .. N -> Int],
           T \in [0 .. N -> Nat], X \in [0 .. N -> Int],
           a \in [1 .. N -> Nat], q \in [1 .. N -> Int],
           h \in Int, n \in Nat, k \in 0 .. N, n <= T[k],
           L[0] = 0, V[0] = 0, T[0] = 0, X[0] = 0,
           \A i \in 1 .. N : T[i] = T[i - 1] + a[i] /\ L[i] = Least(L[i - 1] + a[i], n),
           \A i \in 1 .. N : X[i] = X[i - 1] + a[i] * q[i],
           \A i \in 1 .. N : V[i] = V[i - 1] + (L[i] - L[i - 1]) * q[i],
           \A i \in 1 .. k : 100 * X[i] <= h * T[i]
      PROVE  L[N] = n /\ 100 * V[N] <= h * L[N]
  BY Zenon DEF WalkedBesideTotals
<1> USE <1>0
<1> DEFINE Half(i) == /\ L[i] <= n /\ 100 * V[i] <= h * L[i]
                      /\ (L[i] = T[i] /\ V[i] = X[i]) \/ L[i] = n
                      /\ i >= k => L[i] = n
           G == {i \in 0 .. N : Half(i)}
<1>1. 0 \in G
  <2>1. 100 * 0 <= h * 0
    OBVIOUS
  <2>2. 0 >= k => n = 0
    <3>1. ASSUME 0 >= k PROVE k = 0
      BY <3>1
    <3> QED BY <3>1
  <2>3. Half(0)
    BY <2>1, <2>2
  <2> HIDE DEF Half
  <2> QED BY <2>3
<1>2. ASSUME NEW i \in 1 .. N, i - 1 \in G PROVE i \in G
  <2>1. i - 1 \in 0 .. N /\ i \in 0 .. N
    OBVIOUS
  <2>2. Half(i - 1)
    BY <1>2
  <2> DEFINE l == L[i - 1] v == V[i - 1] b == a[i] p == q[i] m == L[i] w == V[i]
             t == T[i] x == X[i]
  <2>3. /\ l \in Nat /\ v \in Int /\ b \in Nat /\ p \in Int /\ m \in Nat /\ w \in Int
        /\ t \in Nat /\ x \in Int
    BY <2>1, Zenon
  <2>4. /\ t = T[i - 1] + b /\ m = Least(l + b, n)
        /\ x = X[i - 1] + b * p /\ w = v + (m - l) * p
    BY Zenon
  <2>5. l <= n /\ 100 * v <= h * l
    BY <2>2
  <2>6. \/ l = n
        \/ l # n /\ i <= k /\ t = l + b /\ x = v + b * p
    <3>1. l = n \/ (l # n /\ l = T[i - 1] /\ v = X[i - 1])
      BY <2>2, Zenon
    <3>2. i - 1 >= k => l = n
      BY <2>2, Zenon
    <3>3. ~(i - 1 >= k) => i <= k
      OBVIOUS
    <3> QED BY <2>4, <3>1, <3>2, <3>3, Zenon
  <2>7. i <= k => 100 * x <= h * t
    <3>1. i <= k => i \in 1 .. k
      OBVIOUS
    <3> QED BY <3>1, Zenon
  <2>8. i >= k /\ i <= k => n <= t
    <3>1. i >= k /\ i <= k => i = k
      OBVIOUS
    <3> QED BY <3>1, Zenon
  <2>9. /\ m <= n /\ 100 * w <= h * m
        /\ (m = t /\ w = x) \/ m = n
        /\ i >= k => m = n
    <3> HIDE DEF l, v, b, p, m, w, t, x
    <3>1. CASE l = n
      <4>1. m = n
        BY <2>3, <2>4, <3>1 DEF Least
      <4>2. (m - l) * p = 0 /\ m = l
        <5>1. m - l = 0 /\ 0 * p = 0
          BY <2>3, <3>1, <4>1
        <5> QED BY <3>1, <4>1, <5>1
      <4>3. w = v
        BY <2>3, <2>4, <4>2
      <4> QED BY <2>3, <2>5, <4>1, <4>2, <4>3
    <3>2. CASE l # n /\ i <= k /\ t = l + b /\ x = v + b * p
      <4> DEFINE s == m - l
      <4>1. s \in Nat /\ s <= b /\ m = l + s /\ m <= n
        BY <2>3, <2>4, <2>5, <3>2 DEF Least
      <4>2. w = v + s * p
        BY <2>4
      <4> HIDE DEF s
      <4>3. 100 * (v + s * p) <= h * (l + s)
        <5>1. 100 * (v + b * p) <= h * (l + b)
          BY <2>7, <3>2
        <5> QED BY <2>3, <2>5, <4>1, <5>1, BetweenTotals
      <4>4. 100 * w <= h * m
        BY <4>1, <4>2, <4>3, Zenon
      <4>5. (m = t /\ s = b) \/ m = n
        BY <2>3, <2>4, <2>5, <3>2, <4>1 DEF Least
      <4>6. (m = t /\ w = x) \/ m = n
        BY <3>2, <4>2, <4>5, Zenon
      <4>7. i >= k => m = n
        BY <2>3, <2>8, <3>2, <4>1, <4>5
      <4> QED BY <4>1, <4>4, <4>6, <4>7
    <3> QED BY <2>6, <3>1, <3>2
  <2>10. Half(i)
    BY <2>9, Zenon
  <2> HIDE DEF Half
  <2> QED BY <2>1, <2>10
<1>3. \A i \in 0 .. N : i \in G
  <2> HIDE DEF G
  <2> QED BY <1>1, <1>2, CountingUp
<1>4. N \in 0 .. N /\ N >= k
  OBVIOUS
<1>5. Half(N)
  <2> HIDE DEF Half
  <2> QED BY <1>3, <1>4
<1> QED BY <1>4, <1>5

\* A set of numbers up to some number has a largest one.
LEMMA HasLargest ==
    ASSUME NEW N \in Nat, NEW S \in SUBSET (0 .. N), S # {}
    PROVE  \E i \in S : \A j \in S : j <= i
<1> DEFINE G == {m \in 0 .. N : \A i \in S : i <= m => \E k \in S : \A j \in S : j <= m => j <= k}
<1>1. 0 \in G
  BY DEF G
<1>2. ASSUME NEW m \in 1 .. N, m - 1 \in G PROVE m \in G
  <2>1. CASE m \in S
    BY <2>1
  <2>2. CASE m \notin S
    <3>1. \A j \in S : j <= m => j <= m - 1
      BY <2>2
    <3>2. \A i \in S : i <= m - 1 => \E k \in S : \A j \in S : j <= m - 1 => j <= k
      BY <1>2
    <3> QED BY <3>1, <3>2
  <2> QED BY <2>1, <2>2
<1>3. \A m \in 0 .. N : m \in G
  <2> HIDE DEF G
  <2> QED BY <1>1, <1>2, CountingUp
<1>4. N \in G
  <2>1. N \in 0 .. N
    OBVIOUS
  <2> HIDE DEF G
  <2> QED BY <1>3, <2>1
<1>5. \A i \in S : i <= N => \E k \in S : \A j \in S : j <= N => j <= k
  BY <1>4, Zenon
<1>6. \A i \in S : i <= N
  OBVIOUS
<1>7. \E i \in S : TRUE
  OBVIOUS
<1> HIDE DEF G
<1> QED BY <1>5, <1>6, <1>7

\* What a level or a walk counts as in the lemmas above: a sale is the better
\* the dearer.
Signed(x) == IF side = "buy" THEN x ELSE -x

\* A book, the best level first.
Sorted(book) == \A i, j \in 1 .. Len(book) : i <= j => AsGood(book[i].price, book[j].price)

\* A walk takes more with every level.
LEMMA WalkGrows ==
    ASSUME NEW book \in Seq(Levels), NEW n \in Nat, NEW i \in 0 .. Len(book)
    PROVE  WalkedTo(book, n)[i].lots <= Walk(book, n).lots
<1> DEFINE N == Len(book)
           L == [j \in 0 .. N |-> WalkedTo(book, n)[j].lots]
           G == {k \in 0 .. N : \A j \in 0 .. N : j <= k => L[j] <= L[k]}
<1>1. N \in Nat /\ L \in [0 .. N -> Nat]
  <2>1. \A j \in 0 .. N : WalkedTo(book, n)[j].lots \in Nat
    BY WalkCounts DEF Walks
  <2> QED BY <2>1
<1>2. \A j \in 1 .. N : L[j - 1] <= L[j]
  <2> TAKE j \in 1 .. N
  <2>1. j - 1 \in 0 .. N /\ j \in 0 .. N
    OBVIOUS
  <2>2. WalkedTo(book, n)[j].lots >= WalkedTo(book, n)[j - 1].lots
    BY WalkSteps
  <2>3. L[j] >= L[j - 1]
    BY <2>1, <2>2
  <2> HIDE DEF L
  <2> QED BY <1>1, <2>1, <2>3
<1>3. L[i] = WalkedTo(book, n)[i].lots /\ L[N] = Walk(book, n).lots
  BY DEF Walk
<1> HIDE DEF L, N
<1>4. 0 \in G
  BY <1>1
<1>5. ASSUME NEW k \in 1 .. N, k - 1 \in G PROVE k \in G
  <2> SUFFICES ASSUME NEW j \in 0 .. N, j <= k PROVE L[j] <= L[k]
    OBVIOUS
  <2>1. k - 1 \in 0 .. N /\ k \in 0 .. N /\ L[k - 1] <= L[k]
    BY <1>1, <1>2
  <2>2. CASE j = k
    BY <1>1, <2>2
  <2>3. CASE j # k
    <3>1. j <= k - 1
      BY <1>1, <2>3
    <3>2. L[j] <= L[k - 1]
      BY <1>5, <3>1
    <3>3. L[j] \in Nat /\ L[k - 1] \in Nat /\ L[k] \in Nat
      BY <1>1, <2>1
    <3> QED BY <2>1, <3>2, <3>3
  <2> QED BY <2>2, <2>3
<1>6. \A k \in 0 .. N : k \in G
  <2> HIDE DEF G
  <2> QED BY <1>1, <1>4, <1>5, CountingUp
<1>7. N \in 0 .. N /\ i \in 0 .. N /\ i <= N
  BY <1>1 DEF N
<1>8. L[i] <= L[N]
  BY <1>6, <1>7
<1> QED BY <1>3, <1>8

\* A walk in signed numbers, as the lemmas above take it.
LEMMA SignedWalk ==
    ASSUME NEW book \in Seq(Levels), NEW n \in Nat
    PROVE  LET N == Len(book)
               L == [i \in 0 .. N |-> WalkedTo(book, n)[i].lots]
               V == [i \in 0 .. N |-> Signed(WalkedTo(book, n)[i].value)]
               q == [i \in 1 .. N |-> Signed(book[i].price)]
           IN /\ N \in Nat /\ L \in [0 .. N -> Nat] /\ V \in [0 .. N -> Int]
              /\ q \in [1 .. N -> Int] /\ L[0] = 0 /\ V[0] = 0
              /\ \A i \in 1 .. N : L[i - 1] <= L[i]
              /\ \A i \in 1 .. N : L[i] = Least(L[i - 1] + book[i].amount, n)
              /\ \A i \in 1 .. N : V[i] = V[i - 1] + (L[i] - L[i - 1]) * q[i]
              /\ \A i \in 0 .. N : L[i] <= L[N]
              /\ L[N] = Walk(book, n).lots /\ V[N] = Signed(Walk(book, n).value)
<1> DEFINE N == Len(book)
           w == WalkedTo(book, n)
           L == [i \in 0 .. N |-> w[i].lots]
           V == [i \in 0 .. N |-> Signed(w[i].value)]
           q == [i \in 1 .. N |-> Signed(book[i].price)]
<1>1. N \in Nat /\ 0 \in 0 .. N /\ N \in 0 .. N
  OBVIOUS
<1>2. \A i \in 0 .. N : w[i].lots \in Nat /\ w[i].value \in Nat /\ w[i].lots <= w[N].lots
  <2> TAKE i \in 0 .. N
  <2>1. w[i].lots <= w[N].lots
    BY WalkGrows DEF Walk
  <2> QED BY <2>1, WalkCounts DEF Walks
<1>3. \A i \in 1 .. N : book[i].price \in Nat /\ book[i].amount \in Nat
  <2>1. \A i \in 1 .. N : book[i] \in Levels
    OBVIOUS
  <2> HIDE DEF N
  <2> QED BY <2>1 DEF Levels
<1>4. w[0].lots = 0 /\ w[0].value = 0
  <2>1. w[0] = [left |-> n, lots |-> 0, value |-> 0]
    BY WalksGo
  <2> HIDE DEF w
  <2> QED BY <2>1
<1>5. ASSUME NEW i \in 1 .. N
      PROVE  /\ i - 1 \in 0 .. N /\ i \in 0 .. N
             /\ w[i].lots >= w[i - 1].lots
             /\ w[i].lots = Least(w[i - 1].lots + book[i].amount, n)
             /\ w[i].value = w[i - 1].value + (w[i].lots - w[i - 1].lots) * book[i].price
  <2>1. i - 1 \in 0 .. N /\ i \in 0 .. N
    OBVIOUS
  <2>2. /\ w[i].lots >= w[i - 1].lots
        /\ w[i].lots = Least(w[i - 1].lots + book[i].amount, n)
        /\ w[i].value = w[i - 1].value + (w[i].lots - w[i - 1].lots) * book[i].price
    BY WalkSteps, Zenon
  <2> QED BY <2>1, <2>2, Zenon
<1>6. w[N].lots = Walk(book, n).lots /\ w[N].value = Walk(book, n).value
  BY DEF Walk
<1> HIDE DEF w, N
<1>7. L \in [0 .. N -> Nat] /\ V \in [0 .. N -> Int] /\ q \in [1 .. N -> Int]
  BY <1>2, <1>3 DEF Signed
<1>8. L[0] = 0 /\ V[0] = 0
  BY <1>1, <1>4 DEF Signed
<1>9. ASSUME NEW i \in 1 .. N
      PROVE  /\ L[i - 1] <= L[i] /\ L[i] = Least(L[i - 1] + book[i].amount, n)
             /\ V[i] = V[i - 1] + (L[i] - L[i - 1]) * q[i]
  <2>1. L[i] = w[i].lots /\ L[i - 1] = w[i - 1].lots
    BY <1>5
  <2>2. /\ V[i] = Signed(w[i].value) /\ V[i - 1] = Signed(w[i - 1].value)
        /\ q[i] = Signed(book[i].price)
    BY <1>5
  <2>3. /\ w[i].lots \in Nat /\ w[i - 1].lots \in Nat /\ w[i - 1].value \in Nat
        /\ book[i].price \in Nat
    BY <1>2, <1>3, <1>5
  <2> HIDE DEF L, V, q
  <2>4. L[i - 1] <= L[i] /\ L[i] = Least(L[i - 1] + book[i].amount, n)
    <3>1. w[i].lots >= w[i - 1].lots
      BY <1>5
    <3>2. w[i - 1].lots <= w[i].lots
      BY <2>3, <3>1
    <3> QED BY <1>5, <2>1, <3>2, Zenon
  <2>5. V[i] = V[i - 1] + (L[i] - L[i - 1]) * q[i]
    <3> DEFINE v == w[i - 1].value t == w[i].lots - w[i - 1].lots p == book[i].price
    <3>1. w[i].value = v + t * p
      BY <1>5
    <3>2. v \in Nat /\ t \in Int /\ p \in Nat
      BY <2>3
    <3>5. /\ V[i] = Signed(w[i].value) /\ V[i - 1] = Signed(v) /\ q[i] = Signed(p)
          /\ L[i] - L[i - 1] = t
      BY <2>1, <2>2
    <3> HIDE DEF v, t, p
    <3>3. Signed(v + t * p) = Signed(v) + t * Signed(p)
      <4>1. t * p \in Int /\ t * (-p) = -(t * p)
        BY <3>2
      <4> QED BY <3>2, <4>1 DEF Signed
    <3> QED BY <3>1, <3>3, <3>5, Zenon
  <2> QED BY <2>4, <2>5
<1>10. \A i \in 0 .. N : L[i] <= L[N]
  BY <1>1, <1>2
<1>11. L[N] = Walk(book, n).lots /\ V[N] = Signed(Walk(book, n).value)
  BY <1>1, <1>6
<1>12. /\ \A i \in 1 .. N : L[i - 1] <= L[i]
       /\ \A i \in 1 .. N : L[i] = Least(L[i - 1] + book[i].amount, n)
       /\ \A i \in 1 .. N : V[i] = V[i - 1] + (L[i] - L[i - 1]) * q[i]
  <2> HIDE DEF L, V, q
  <2> QED BY <1>9
<1>13. /\ N \in Nat /\ L \in [0 .. N -> Nat] /\ V \in [0 .. N -> Int]
       /\ q \in [1 .. N -> Int] /\ L[0] = 0 /\ V[0] = 0
  BY <1>1, <1>7, <1>8
<1> QED BY <1>10, <1>11, <1>12, <1>13, Zenon DEF w, N

\* When every level with an amount stays within K / c, so does a walk.
LEMMA WalkStays ==
    ASSUME NEW book \in Seq(Levels), NEW n \in Nat, NEW c \in Int, NEW K \in Int,
           \A i \in 1 .. Len(book) : book[i].amount # 0 => c * Signed(book[i].price) <= K
    PROVE  c * Signed(Walk(book, n).value) <= K * Walk(book, n).lots
<1> DEFINE N == Len(book)
           L == [i \in 0 .. N |-> WalkedTo(book, n)[i].lots]
           V == [i \in 0 .. N |-> Signed(WalkedTo(book, n)[i].value)]
           q == [i \in 1 .. N |-> Signed(book[i].price)]
<1>1. /\ N \in Nat /\ L \in [0 .. N -> Nat] /\ V \in [0 .. N -> Int]
      /\ q \in [1 .. N -> Int] /\ L[0] = 0 /\ V[0] = 0
      /\ \A i \in 1 .. N : L[i - 1] <= L[i]
      /\ \A i \in 1 .. N : V[i] = V[i - 1] + (L[i] - L[i - 1]) * q[i]
      /\ L[N] = Walk(book, n).lots /\ V[N] = Signed(Walk(book, n).value)
  BY SignedWalk
<1>2. \A i \in 1 .. N : L[i] = Least(L[i - 1] + book[i].amount, n) /\ L[i - 1] <= n
  <2> TAKE i \in 1 .. N
  <2>1. L[i] = Least(L[i - 1] + book[i].amount, n)
    BY SignedWalk
  <2>2. i - 1 \in 0 .. N
    OBVIOUS
  <2>3. WalkedTo(book, n)[i - 1].lots <= n
    BY WalkSteps
  <2>4. L[i - 1] <= n
    BY <2>2, <2>3
  <2> QED BY <2>1, <2>4
<1>3. \A i \in 1 .. N : q[i] = Signed(book[i].price) /\ book[i].amount \in Nat
  <2>1. \A i \in 1 .. N : book[i] \in Levels
    OBVIOUS
  <2>2. \A i \in 1 .. N : book[i].amount \in Nat
    <3> HIDE DEF N
    <3> QED BY <2>1 DEF Levels
  <2> QED BY <2>2
<1>4. \A i \in 1 .. N : L[i] # L[i - 1] => c * q[i] <= K
  <2> SUFFICES ASSUME NEW i \in 1 .. N, L[i] # L[i - 1] PROVE c * q[i] <= K
    OBVIOUS
  <2>1. book[i].amount # 0
    <3> SUFFICES ASSUME book[i].amount = 0 PROVE L[i] = L[i - 1]
      OBVIOUS
    <3>1. L[i - 1] \in Nat
      <4>1. i - 1 \in 0 .. N
        OBVIOUS
      <4> HIDE DEF L, N
      <4> QED BY <1>1, <4>1
    <3>2. L[i] = Least(L[i - 1] + 0, n) /\ L[i - 1] <= n
      BY <1>2
    <3> HIDE DEF L, N
    <3> QED BY <3>1, <3>2 DEF Least
  <2> QED BY <1>3, <2>1, Zenon
<1> HIDE DEF N, L, V, q
<1>5. c * V[N] <= K * L[N]
  BY <1>1, <1>4, AverageStays
<1> QED BY <1>1, <1>5

\* A thinner book is walked no cheaper than the book for the same lots.
LEMMA ThinnerIsDearer ==
    ASSUME NEW book \in Seq(Levels), NEW thin \in Seq(Levels), NEW n \in Nat,
           side \in {"buy", "sell"}, Sorted(book), Len(thin) = Len(book),
           \A i \in 1 .. Len(book) :
              thin[i].price = book[i].price /\ thin[i].amount <= book[i].amount
    PROVE  Signed(Walk(book, Walk(thin, n).lots).value) <= Signed(Walk(thin, n).value)
<1> DEFINE N == Len(book)
           m == Walk(thin, n).lots
           K == Len(thin)
           L == [i \in 0 .. K |-> WalkedTo(thin, n)[i].lots]
           V == [i \in 0 .. K |-> Signed(WalkedTo(thin, n)[i].value)]
           M == [i \in 0 .. N |-> WalkedTo(book, m)[i].lots]
           W == [i \in 0 .. N |-> Signed(WalkedTo(book, m)[i].value)]
           q == [i \in 1 .. N |-> Signed(book[i].price)]
           r == [i \in 1 .. K |-> Signed(thin[i].price)]
<1>0. /\ K \in Nat /\ L \in [0 .. K -> Nat] /\ V \in [0 .. K -> Int] /\ r \in [1 .. K -> Int]
      /\ L[0] = 0 /\ V[0] = 0
      /\ \A i \in 1 .. K : L[i - 1] <= L[i]
      /\ \A i \in 1 .. K : L[i] = Least(L[i - 1] + thin[i].amount, n)
      /\ \A i \in 1 .. K : V[i] = V[i - 1] + (L[i] - L[i - 1]) * r[i]
      /\ \A i \in 0 .. K : L[i] <= L[K]
      /\ L[K] = m /\ V[K] = Signed(Walk(thin, n).value)
  BY SignedWalk
<1>1. /\ N \in Nat /\ L \in [0 .. N -> Nat] /\ V \in [0 .. N -> Int]
      /\ L[0] = 0 /\ V[0] = 0
      /\ \A i \in 1 .. N : L[i - 1] <= L[i]
      /\ \A i \in 1 .. N : L[i] = Least(L[i - 1] + thin[i].amount, n)
      /\ \A i \in 1 .. N : V[i] = V[i - 1] + (L[i] - L[i - 1]) * r[i]
      /\ \A i \in 0 .. N : L[i] <= L[N]
      /\ L[N] = m /\ V[N] = Signed(Walk(thin, n).value)
  <2> HIDE DEF m, N, K, L, V, r
  <2>1. N \in Nat /\ K = N
    BY DEF N, K
  <2> QED BY <1>0, <2>1
<1>2. m \in Nat
  <2>1. L[N] \in Nat
    <3> HIDE DEF L, N
    <3> QED BY <1>1
  <2> QED BY <1>1, <2>1, Zenon
<1>3. /\ M \in [0 .. N -> Nat] /\ W \in [0 .. N -> Int]
      /\ q \in [1 .. N -> Int] /\ M[0] = 0 /\ W[0] = 0
      /\ \A i \in 1 .. N : M[i - 1] <= M[i]
      /\ \A i \in 1 .. N : M[i] = Least(M[i - 1] + book[i].amount, m)
      /\ \A i \in 1 .. N : W[i] = W[i - 1] + (M[i] - M[i - 1]) * q[i]
      /\ \A i \in 0 .. N : M[i] <= M[N]
      /\ M[N] = Walk(book, m).lots /\ W[N] = Signed(Walk(book, m).value)
  <2> HIDE DEF m
  <2> QED BY <1>2, SignedWalk
<1>4. q = r
  <2>1. \A i \in 1 .. N : thin[i].price = book[i].price
    OBVIOUS
  <2>2. K = N
    OBVIOUS
  <2>3. r = [i \in 1 .. N |-> Signed(thin[i].price)]
    <3> HIDE DEF N, K
    <3> QED BY <2>2, Zenon
  <2> HIDE DEF N, r
  <2> QED BY <2>1, <2>3, Zenon
<1>5. \A i, j \in 1 .. N : i <= j => q[i] <= q[j]
  <2> SUFFICES ASSUME NEW i \in 1 .. N, NEW j \in 1 .. N, i <= j PROVE q[i] <= q[j]
    OBVIOUS
  <2>1. AsGood(book[i].price, book[j].price)
    BY DEF Sorted
  <2>2. book[i] \in Levels /\ book[j] \in Levels
    OBVIOUS
  <2>3. book[i].price \in Nat /\ book[j].price \in Nat
    BY <2>2 DEF Levels
  <2>4. Signed(book[i].price) <= Signed(book[j].price)
    BY <2>1, <2>3 DEF AsGood, Signed
  <2> QED BY <2>4
<1>6. \A i \in 1 .. N : thin[i].amount <= book[i].amount /\ thin[i].amount \in Nat /\ book[i].amount \in Nat
  <2>1. \A i \in 1 .. N : thin[i] \in Levels /\ book[i] \in Levels /\ thin[i].amount <= book[i].amount
    OBVIOUS
  <2> HIDE DEF N
  <2> QED BY <2>1 DEF Levels
<1> HIDE DEF N, m, K, L, V, M, W, q, r
<1>7. \A i \in 0 .. N : L[i] <= M[i]
  <2> DEFINE G == {i \in 0 .. N : L[i] <= M[i]}
  <2>1. 0 \in G
    BY <1>1, <1>3
  <2>2. ASSUME NEW i \in 1 .. N, i - 1 \in G PROVE i \in G
    <3>1. i - 1 \in 0 .. N /\ i \in 0 .. N
      BY <1>1
    <3>2. L[i - 1] \in Nat /\ M[i - 1] \in Nat /\ L[i] \in Nat /\ M[i] \in Nat /\ L[i] <= m
      <4>1. L[i - 1] \in Nat /\ M[i - 1] \in Nat /\ L[i] \in Nat /\ M[i] \in Nat /\ L[i] <= L[N]
        BY <1>1, <1>3, <3>1, Zenon
      <4> QED BY <1>1, <4>1
    <3>3. L[i - 1] <= M[i - 1]
      BY <2>2
    <3>4. /\ L[i] = Least(L[i - 1] + thin[i].amount, n)
          /\ M[i] = Least(M[i - 1] + book[i].amount, m)
      BY <1>1, <1>3
    <3> DEFINE l == L[i - 1] k == M[i - 1] a == thin[i].amount b == book[i].amount x == L[i] y == M[i]
    <3>5. /\ l \in Nat /\ k \in Nat /\ a \in Nat /\ b \in Nat /\ x \in Nat /\ y \in Nat
          /\ x <= m /\ l <= k /\ a <= b /\ x = Least(l + a, n) /\ y = Least(k + b, m)
      BY <1>6, <3>2, <3>3, <3>4
    <3> HIDE DEF l, k, a, b, x, y
    <3>6. x <= l + a
      BY <3>5 DEF Least
    <3>7. x <= y
      BY <1>2, <3>5, <3>6 DEF Least
    <3> QED BY <3>1, <3>7 DEF x, y
  <2>3. \A i \in 0 .. N : i \in G
    <3> HIDE DEF G
    <3> QED BY <1>1, <2>1, <2>2, CountingUp
  <2> QED BY <2>3
<1>8. L[N] = M[N]
  <2>1. N \in 0 .. N
    BY <1>1
  <2>2. L[N] <= M[N] /\ L[N] \in Nat /\ M[N] \in Nat
    BY <1>1, <1>3, <1>7, <2>1
  <2>3. M[N] <= m
    <3>1. CASE N = 0
      BY <1>2, <1>3, <3>1
    <3>2. CASE N # 0
      <4>1. N \in 1 .. N /\ N - 1 \in 0 .. N
        BY <1>1, <3>2
      <4>2. M[N] = Least(M[N - 1] + book[N].amount, m)
        BY <1>3, <4>1
      <4>3. M[N - 1] \in Nat /\ book[N].amount \in Nat
        BY <1>3, <1>6, <4>1
      <4> QED BY <1>2, <4>2, <4>3 DEF Least
    <3> QED BY <3>1, <3>2
  <2> QED BY <1>1, <1>2, <2>2, <2>3
<1>9. W[N] <= V[N]
  <2>1. /\ \A i \in 1 .. N : L[i - 1] <= L[i] /\ M[i - 1] <= M[i] /\ L[i] <= M[i]
        /\ \A i \in 1 .. N : V[i] = V[i - 1] + (L[i] - L[i - 1]) * q[i]
        /\ \A i \in 1 .. N : W[i] = W[i - 1] + (M[i] - M[i - 1]) * q[i]
    <3>1. \A i \in 1 .. N : i \in 0 .. N
      OBVIOUS
    <3> QED BY <1>1, <1>3, <1>4, <1>7, <3>1, Zenon
  <2> QED BY <1>1, <1>3, <1>5, <1>8, <2>1, LaterIsDearer
<1> QED BY <1>1, <1>3, <1>9 DEF m

\* Within a slippage limit means on average within a price.
LEMMA WithinIsLinear ==
    ASSUME NEW book \in Seq(Levels), Len(book) > 0, side \in {"buy", "sell"},
           NEW lots \in Nat, NEW value \in Nat, NEW p \in Nat
    PROVE  LET h == 100 * Signed(book[1].price) + p * book[1].price
           IN /\ h \in Int
              /\ Within(book, lots, value, p) <=> 100 * Signed(value) <= h * lots
<1> DEFINE b == book[1].price
<1>1. b \in Nat
  <2>1. book[1] \in Levels
    OBVIOUS
  <2> QED BY <2>1 DEF Levels
<1> HIDE DEF b
<1> DEFINE lb == lots * b plb == p * lots * b
<1>2. lb \in Nat /\ plb \in Nat /\ p * b \in Nat
  BY <1>1
<1>3. /\ (100 * b + p * b) * lots = 100 * lb + plb
      /\ (100 * (-b) + p * b) * lots = plb - 100 * lb
  BY <1>1
<1>4. CASE side = "buy"
  <2>1. Signed(b) = b /\ Signed(value) = value
    BY <1>4 DEF Signed
  <2>2. (value - lb) * 100 <= plb <=> 100 * value <= 100 * lb + plb
    <3> HIDE DEF lb, plb
    <3> QED BY <1>2
  <2>3. Within(book, lots, value, p) <=> (value - lb) * 100 <= plb
    BY <1>4, Zenon DEF Within, b
  <2>4. 100 * b + p * b \in Int
    BY <1>1, <1>2
  <2> QED BY <1>3, <2>1, <2>2, <2>3, <2>4, Zenon DEF b
<1>5. CASE side # "buy"
  <2>1. Signed(b) = -b /\ Signed(value) = -value
    BY <1>5 DEF Signed
  <2>2. (lb - value) * 100 <= plb <=> 100 * (-value) <= plb - 100 * lb
    <3> HIDE DEF lb, plb
    <3> QED BY <1>2
  <2>3. Within(book, lots, value, p) <=> (lb - value) * 100 <= plb
    BY <1>5, Zenon DEF Within, b
  <2>4. 100 * (-b) + p * b \in Int
    BY <1>1, <1>2
  <2> QED BY <1>3, <2>1, <2>2, <2>3, <2>4, Zenon DEF b
<1> QED BY <1>4, <1>5

\* The largest size is a total, and no total up to it is too far.
LEMMA LargestFits ==
    ASSUME NEW book \in Seq(Levels), NEW p \in Nat
    PROVE  /\ MaxSizeWithinSlippage(book, p) \in Nat
           /\ \E k \in 0 .. Len(book) :
             /\ MaxSizeWithinSlippage(book, p) = Totals(book)[k].lots
             /\ \A j \in 1 .. k : Within(book, Totals(book)[j].lots, Totals(book)[j].value, p)
<1> DEFINE N == Len(book)
           fit == {i \in 0 .. N :
                     \A j \in 1 .. i : Within(book, Totals(book)[j].lots, Totals(book)[j].value, p)}
           k == CHOOSE i \in fit : \A j \in fit : j <= i
<1>1. N \in Nat /\ fit \in SUBSET (0 .. N) /\ 0 \in fit
  OBVIOUS
<1>2. k \in fit
  <2> HIDE DEF fit, N
  <2>1. \E i \in fit : \A j \in fit : j <= i
    BY <1>1, HasLargest
  <2> QED BY <2>1
<1>3. MaxSizeWithinSlippage(book, p) = Totals(book)[k].lots
  BY DEF MaxSizeWithinSlippage
<1> HIDE DEF k
<1>4. Totals(book)[k].lots \in Nat
  <2>1. k \in 0 .. N
    BY <1>1, <1>2
  <2>2. Totals(book)[k] \in Sums
    BY <2>1, TotalsGo
  <2> QED BY <2>2 DEF Sums
<1> QED BY <1>2, <1>3, <1>4

\* A leg sized within a slippage limit fills on the book it was sized on, and
\* on average within the limit.
LEMMA SizedLegsFit ==
    ASSUME NEW book \in Seq(Levels), side \in {"buy", "sell"}, NEW p \in Nat, NEW n \in Nat \ {0},
           n <= MaxSizeWithinSlippage(book, p)
    PROVE  /\ Walk(book, n).left = 0
           /\ Within(book, Walk(book, n).lots, Walk(book, n).value, p)
<1> DEFINE N == Len(book)
           L == [i \in 0 .. N |-> WalkedTo(book, n)[i].lots]
           V == [i \in 0 .. N |-> Signed(WalkedTo(book, n)[i].value)]
           q == [i \in 1 .. N |-> Signed(book[i].price)]
           total == Totals(book)
           T == [i \in 0 .. N |-> total[i].lots]
           X == [i \in 0 .. N |-> Signed(total[i].value)]
           a == [i \in 1 .. N |-> book[i].amount]
           h == 100 * Signed(book[1].price) + p * book[1].price
<1>1. PICK k \in 0 .. N :
          /\ MaxSizeWithinSlippage(book, p) = total[k].lots
          /\ \A j \in 1 .. k : Within(book, total[j].lots, total[j].value, p)
  BY LargestFits
<1>2. /\ N \in Nat /\ L \in [0 .. N -> Nat] /\ V \in [0 .. N -> Int]
      /\ q \in [1 .. N -> Int] /\ L[0] = 0 /\ V[0] = 0
      /\ \A i \in 1 .. N : L[i] = Least(L[i - 1] + book[i].amount, n)
      /\ \A i \in 1 .. N : V[i] = V[i - 1] + (L[i] - L[i - 1]) * q[i]
      /\ L[N] = Walk(book, n).lots /\ V[N] = Signed(Walk(book, n).value)
  BY SignedWalk
<1>3. /\ total \in [0 .. N -> Sums] /\ total[0] = [lots |-> 0, value |-> 0]
      /\ \A i \in 1 .. N : total[i] = [lots |-> total[i - 1].lots + book[i].amount,
                                       value |-> total[i - 1].value + book[i].amount * book[i].price]
  BY TotalsGo
<1>4. \A i \in 0 .. N : total[i].lots \in Nat /\ total[i].value \in Nat
  <2> HIDE DEF total, N
  <2> QED BY <1>3 DEF Sums
<1>5. \A i \in 1 .. N : book[i].amount \in Nat /\ book[i].price \in Nat
  <2>1. \A i \in 1 .. N : book[i] \in Levels
    OBVIOUS
  <2> HIDE DEF N
  <2> QED BY <2>1 DEF Levels
<1>6. N > 0
  <2> SUFFICES ASSUME N = 0 PROVE FALSE
    BY <1>2
  <2>1. k = 0
    OBVIOUS
  <2>2. total[k].lots = 0
    <3> HIDE DEF total
    <3> QED BY <1>3, <2>1
  <2> HIDE DEF total
  <2> QED BY <1>1, <2>2
<1>7. h \in Int /\ \A j \in 1 .. N : Within(book, total[j].lots, total[j].value, p)
                                         <=> 100 * X[j] <= h * T[j]
  <2>1. h \in Int
    <3>1. 0 \in Nat
      OBVIOUS
    <3> QED BY <1>6, <3>1, WithinIsLinear
  <2>2. ASSUME NEW j \in 1 .. N
        PROVE  Within(book, total[j].lots, total[j].value, p) <=> 100 * X[j] <= h * T[j]
    <3>1. j \in 0 .. N
      OBVIOUS
    <3> DEFINE l == total[j].lots v == total[j].value
    <3>2. l \in Nat /\ v \in Nat
      BY <1>4, <3>1
    <3>3. T[j] = l /\ X[j] = Signed(v)
      BY <3>1
    <3> HIDE DEF l, v
    <3>4. Within(book, l, v, p) <=> 100 * Signed(v) <= h * l
      BY <1>6, <3>2, WithinIsLinear
    <3> HIDE DEF h
    <3> QED BY <3>3, <3>4, Zenon DEF l, v
  <2> QED BY <2>1, <2>2
<1>8. T \in [0 .. N -> Nat] /\ X \in [0 .. N -> Int] /\ a \in [1 .. N -> Nat] /\ T[0] = 0 /\ X[0] = 0
  <2> HIDE DEF total, N
  <2> QED BY <1>2, <1>3, <1>4, <1>5 DEF Signed
<1>9. ASSUME NEW i \in 1 .. N
      PROVE  T[i] = T[i - 1] + a[i] /\ X[i] = X[i - 1] + a[i] * q[i]
  <2>1. i - 1 \in 0 .. N /\ i \in 0 .. N
    OBVIOUS
  <2> DEFINE v == total[i - 1].value p1 == book[i].price c == book[i].amount
  <2>2. total[i].lots = total[i - 1].lots + c /\ total[i].value = v + c * p1
    <3>1. total[i] = [lots |-> total[i - 1].lots + c, value |-> v + c * p1]
      BY <1>3, Zenon
    <3> HIDE DEF total, N, v, c, p1
    <3> QED BY <3>1
  <2>3. v \in Nat /\ p1 \in Nat /\ c \in Nat
    <3>1. total[i - 1].value \in Nat /\ book[i].amount \in Nat /\ book[i].price \in Nat
      <4> HIDE DEF total, N
      <4> QED BY <1>4, <1>5, <2>1
    <3> QED BY <3>1
  <2>4. /\ T[i] = total[i].lots /\ T[i - 1] = total[i - 1].lots /\ a[i] = c
        /\ X[i] = Signed(total[i].value) /\ X[i - 1] = Signed(v) /\ q[i] = Signed(p1)
    <3> HIDE DEF total, N
    <3> QED BY <2>1
  <2> HIDE DEF v, p1, c, T, X, a, q, total
  <2>5. Signed(v + c * p1) = Signed(v) + c * Signed(p1)
    <3>1. c * p1 \in Int /\ c * (-p1) = -(c * p1)
      BY <2>3
    <3> QED BY <2>3, <3>1 DEF Signed
  <2> QED BY <2>2, <2>4, <2>5, Zenon
<1>10. \A i \in 1 .. k : 100 * X[i] <= h * T[i]
  <2>1. \A i \in 1 .. k : i \in 1 .. N
    OBVIOUS
  <2> HIDE DEF N, X, T, h, total
  <2> QED BY <1>1, <1>7, <2>1, Zenon
<1>11. n <= T[k]
  BY <1>1
<1>12. \A i \in 1 .. N : T[i] = T[i - 1] + a[i] /\ L[i] = Least(L[i - 1] + a[i], n)
  <2>1. \A i \in 1 .. N : a[i] = book[i].amount
    OBVIOUS
  <2> HIDE DEF T, L, a, N
  <2> QED BY <1>2, <1>9, <2>1, Zenon
<1>13. \A i \in 1 .. N : X[i] = X[i - 1] + a[i] * q[i]
  BY <1>9, Zenon
<1>14. L[N] = n /\ 100 * V[N] <= h * L[N]
  <2> HIDE DEF N, L, V, T, X, a, q, h, total
  <2>1. /\ N \in Nat /\ L \in [0 .. N -> Nat] /\ V \in [0 .. N -> Int]
        /\ T \in [0 .. N -> Nat] /\ X \in [0 .. N -> Int]
        /\ a \in [1 .. N -> Nat] /\ q \in [1 .. N -> Int] /\ h \in Int
        /\ L[0] = 0 /\ V[0] = 0 /\ T[0] = 0 /\ X[0] = 0
    BY <1>2, <1>7, <1>8, Zenon
  <2>2. \A i \in 1 .. N : V[i] = V[i - 1] + (L[i] - L[i - 1]) * q[i]
    BY <1>2, Zenon
  <2>3. n \in Nat
    OBVIOUS
  <2>4. WalkedBesideTotals(N, L, V, T, X, a, q, h, n, k)
    BY <1>10, <1>11, <1>12, <1>13, <2>1, <2>2, <2>3, Zenon DEF WalkedBesideTotals
  <2> QED BY <2>4, WalkBetweenTotals, Zenon
<1> DEFINE w == Walk(book, n)
<1>15. w.lots = n /\ w.lots \in Nat /\ w.value \in Nat /\ w.left = 0
  <2>1. w.lots = n
    <3> HIDE DEF w, L
    <3> QED BY <1>2, <1>14 DEF w
  <2>2. N \in 0 .. N
    BY <1>2
  <2>3. w \in Walks /\ w.left = n - w.lots
    BY <2>2, WalkCounts DEF Walk
  <2> HIDE DEF w
  <2> QED BY <2>1, <2>3 DEF Walks
<1>16. 100 * Signed(w.value) <= h * w.lots
  <2> HIDE DEF L, V, h, w
  <2> QED BY <1>2, <1>14, Zenon DEF w
<1>17. Within(book, w.lots, w.value, p) <=> 100 * Signed(w.value) <= h * w.lots
  <2> HIDE DEF w
  <2> QED BY <1>6, <1>15, WithinIsLinear
<1> HIDE DEF h
<1> QED BY <1>15, <1>16, <1>17

\* What a feed delivers is sorted into a book.
LEMMA RawBooks ==
    ASSUME NEW d \in Depths, NEW book \in FromRaw(d), side \in {"buy", "sell"}
    PROVE  book \in Seq(Levels) /\ Sorted(book)
<1> DEFINE S == {l \in d : l.amount > 0}
<1>1. IsFiniteSet(d) /\ d \subseteq Levels
  BY OrderBookAssumption DEF Levels
<1>2. Cardinality(S) \in Nat
  BY <1>1, FS_Subset, FS_CardinalityType
<1>3. /\ book \in SetToSeqs(S)
      /\ \A i, j \in DOMAIN book : i < j => AsGood(book[i].price, book[j].price)
  BY DEF FromRaw
<1>4. book \in [1 .. Cardinality(S) -> S]
  <2> HIDE DEF S
  <2> QED BY <1>3 DEF SetToSeqs
<1>5. book \in Seq(Levels)
  <2>1. S \subseteq Levels
    BY <1>1
  <2> HIDE DEF S
  <2> DEFINE N == Cardinality(S)
  <2>2. N \in Nat /\ book \in [1 .. N -> Levels]
    BY <1>2, <1>4, <2>1
  <2> HIDE DEF N
  <2> QED BY <2>2
<1>6. Sorted(book)
  <2> SUFFICES ASSUME NEW i \in 1 .. Len(book), NEW j \in 1 .. Len(book), i <= j
               PROVE  AsGood(book[i].price, book[j].price)
    BY DEF Sorted
  <2>1. book[i] \in Levels /\ i \in DOMAIN book /\ j \in DOMAIN book
    BY <1>5
  <2>2. CASE i = j
    BY <2>1, <2>2 DEF AsGood, Levels
  <2>3. CASE i # j
    <3>1. i < j
      BY <2>3
    <3> QED BY <1>3, <2>1, <3>1
  <2> QED BY <2>2, <2>3
<1> QED BY <1>5, <1>6

\* The levels that a leg can take on arrival: those of the book, thinner, and
\* with an amount only where the drifted price meets the limit.
LEMMA MetIsThinner ==
    ASSUME NEW book \in Seq(Levels), NEW m \in Stresses, NEW drift \in Drifts
    PROVE  LET thin == Met(Stressed(book, m), drift)
           IN /\ thin \in Seq(Levels) /\ Len(thin) = Len(book)
              /\ \A i \in 1 .. Len(book) :
                    /\ thin[i].price = book[i].price /\ thin[i].amount <= book[i].amount
                    /\ thin[i].amount # 0 => MeetsLimit(book[i].price, drift)
<1> DEFINE N == Len(book)
           less == Stressed(book, m)
           Reached(i) == \A j \in 1 .. i : MeetsLimit(less[j].price, drift)
           thin == Met(less, drift)
<1>1. N \in Nat /\ DOMAIN book = 1 .. N /\ m \in Nat \ {0}
  BY OrderBookAssumption
<1>2. DOMAIN less = 1 .. N /\ \A i \in 1 .. N : less[i] = [book[i] EXCEPT !.amount = book[i].amount \div m]
  BY <1>1 DEF Stressed
<1>3. \A i \in 1 .. N : book[i] \in Levels
  OBVIOUS
<1> HIDE DEF N, less
<1>4. ASSUME NEW i \in 1 .. N
      PROVE  /\ less[i] \in Levels /\ less[i].price = book[i].price
             /\ less[i].amount <= book[i].amount
  <2> DEFINE a == book[i].amount
  <2>1. a \in Nat /\ book[i].price \in Nat \ {0}
    BY <1>3 DEF Levels
  <2>2. a \div m \in Nat /\ a \div m <= a
    <3> HIDE DEF a
    <3>1. a \div m \in Nat
      BY <1>1, <2>1
    <3>2. a \div m <= a
      BY <1>1, <2>1
    <3> QED BY <3>1, <3>2
  <2> QED BY <1>2, <1>3, <2>1, <2>2 DEF Levels
<1>5. thin = [i \in 1 .. N |-> IF Reached(i) THEN less[i] ELSE [less[i] EXCEPT !.amount = 0]]
  BY <1>2 DEF Met
<1> HIDE DEF thin
<1>6. ASSUME NEW i \in 1 .. N
      PROVE  /\ thin[i] \in Levels /\ thin[i].price = book[i].price
             /\ thin[i].amount <= book[i].amount
             /\ thin[i].amount # 0 => MeetsLimit(book[i].price, drift)
  <2>0. book[i].amount \in Nat
    BY <1>3 DEF Levels
  <2>1. CASE Reached(i)
    <3>1. i \in 1 .. i
      BY <1>1
    <3>2. MeetsLimit(less[i].price, drift)
      BY <2>1, <3>1
    <3>3. thin[i] = less[i]
      BY <1>5, <2>1
    <3> QED BY <1>4, <3>2, <3>3
  <2>2. CASE ~Reached(i)
    <3> HIDE DEF Reached
    <3>1. thin[i] = [less[i] EXCEPT !.amount = 0]
      BY <1>5, <2>2
    <3> QED BY <1>4, <2>0, <3>1 DEF Levels
  <2> QED BY <2>1, <2>2
<1>7. DOMAIN thin = 1 .. N /\ thin \in [1 .. N -> Levels]
  <2>1. DOMAIN thin = 1 .. N
    BY <1>5
  <2>2. thin = [i \in 1 .. N |-> thin[i]]
    <3> HIDE DEF Reached
    <3> QED BY <1>5
  <2> QED BY <1>6, <2>1, <2>2
<1>8. thin \in Seq(Levels) /\ Len(thin) = N
  BY <1>1, <1>7
<1> QED BY <1>6, <1>8 DEF N, thin, less

\* What a finished walk knows.
LEMMA WalkEnds ==
    ASSUME NEW book \in Seq(Levels), NEW n \in Nat
    PROVE  LET w == Walk(book, n)
           IN /\ w.left \in Nat /\ w.lots \in Nat /\ w.value \in Nat
              /\ w.left = n - w.lots /\ w.lots <= n
              /\ w.lots = 0 => w.value = 0
<1> DEFINE w == Walk(book, n)
<1>1. Len(book) \in 0 .. Len(book)
  OBVIOUS
<1>2. w \in Walks /\ w.left = n - w.lots /\ (w.lots = 0 => w.value = 0)
  BY <1>1, WalkCounts DEF Walk
<1> HIDE DEF w
<1>3. w.left \in Nat /\ w.lots \in Nat /\ w.value \in Nat
  BY <1>2 DEF Walks
<1>4. w.lots <= n
  <2> DEFINE x == w.left y == w.lots
  <2>1. x \in Nat /\ y \in Nat /\ x = n - y
    BY <1>2, <1>3
  <2> HIDE DEF x, y
  <2>2. y <= n
    BY <2>1
  <2> QED BY <2>2 DEF y
<1> QED BY <1>2, <1>3, <1>4 DEF w

\* The books and the leg of a state.
BookType ==
    /\ pool \in BOOLEAN /\ side \in {"buy", "sell"} /\ limit \in Nat
    /\ leg \in {"idle", "sized", "capped", "offered", "quoted", "filled"}
    /\ depth \in Seq(Levels) /\ Sorted(depth)
    /\ lastBook \in Seq(Levels)
    /\ leg = "idle" => lastBook = <<>>
    /\ leg # "idle" => size \in Nat \ {0}

\* A simulated fill on a book is honest: it walks a thinner book, and only the
\* levels that meet the limit.
LEMMA FillsAreHonest ==
    ASSUME BookType, leg # "idle", NEW m \in Stresses, NEW drift \in Drifts
    PROVE  HonestFill(SimulatedFill(Stressed(depth, m), drift), Tolerance)
<1> DEFINE thin == Met(Stressed(depth, m), drift)
           w == Walk(thin, size)
           v == w.value
           l == w.lots
           f == SimulatedFill(Stressed(depth, m), drift)
           real == Walk(depth, l)
           r == real.value
           Q == Quote.value
           z == Quote.lots
<1>1. /\ depth \in Seq(Levels) /\ Sorted(depth) /\ size \in Nat
      /\ lastBook \in Seq(Levels) /\ side \in {"buy", "sell"}
  BY DEF BookType
<1>2. drift \in 0 .. 99 /\ Tolerance \in 0 .. 99
  BY OrderBookAssumption
<1>3. /\ thin \in Seq(Levels) /\ Len(thin) = Len(depth)
      /\ \A i \in 1 .. Len(depth) :
            /\ thin[i].price = depth[i].price /\ thin[i].amount <= depth[i].amount
            /\ thin[i].amount # 0 => MeetsLimit(depth[i].price, drift)
  BY <1>1, MetIsThinner
<1>4. f.lots = l /\ f.value = 100 * (v * (IF side = "buy" THEN 100 + drift ELSE 100 - drift))
  BY DEF SimulatedFill, Worse
<1> HIDE DEF thin, f
<1>5. v \in Nat /\ l \in Nat /\ l <= size
  BY <1>1, <1>3, WalkEnds
<1>6. Q \in Nat /\ z \in Nat
  BY <1>1, WalkEnds DEF Quote
<1>7. r \in Nat
  <2> HIDE DEF l
  <2> QED BY <1>1, <1>5, WalkEnds
<1>8. Signed(r) <= Signed(v)
  BY <1>1, <1>3, ThinnerIsDearer
<1>9. ASSUME NEW i \in 1 .. Len(thin)
      PROVE  depth[i].price \in Nat /\ thin[i].price = depth[i].price
             /\ (thin[i].amount # 0 => MeetsLimit(depth[i].price, drift))
  <2>1. depth[i] \in Levels
    BY <1>1, <1>3
  <2>2. depth[i].price \in Nat
    BY <2>1 DEF Levels
  <2> QED BY <1>3, <2>2
<1>10. CASE side = "buy"
  <2> DEFINE c == (100 + drift) * z K == Q * (100 + Tolerance)
  <2>1. c \in Int /\ K \in Int
    BY <1>2, <1>6
  <2>2. ASSUME NEW i \in 1 .. Len(thin), thin[i].amount # 0
        PROVE  c * Signed(thin[i].price) <= K
    <3> DEFINE p == depth[i].price
    <3>1. p \in Nat /\ thin[i].price = p
      BY <1>9
    <3>2. p * (100 + drift) * z <= K
      BY <1>9, <1>10, <2>2, Zenon DEF MeetsLimit
    <3>3. Signed(thin[i].price) = p
      BY <1>10, <3>1 DEF Signed
    <3> HIDE DEF p, Q, z
    <3>4. p * (100 + drift) * z = c * p
      BY <1>2, <1>6, <3>1
    <3> QED BY <3>2, <3>3, <3>4, Zenon
  <2>3. c * Signed(v) <= K * l
    <3> HIDE DEF c, K
    <3> QED BY <1>1, <1>3, <2>1, <2>2, WalkStays
  <2>4. Signed(v) = v /\ Signed(r) = r
    BY <1>10 DEF Signed
  <2>5. f.value = 100 * (v * (100 + drift))
    BY <1>4, <1>10
  <2> HIDE DEF v, l, r, Q, z
  <2>6. 100 * (v * (100 + drift)) >= 10000 * r
    <3>1. v * (100 + drift) = 100 * v + drift * v /\ drift * v \in Nat
      BY <1>2, <1>5
    <3>2. r <= v
      BY <1>8, <2>4
    <3> DEFINE dv == drift * v u == v * (100 + drift)
    <3>3. dv \in Nat /\ u = 100 * v + dv
      BY <3>1
    <3> HIDE DEF dv, u
    <3>4. 100 * u >= 10000 * r
      BY <1>5, <1>7, <3>2, <3>3
    <3> QED BY <3>4 DEF u
  <2>7. 100 * (v * (100 + drift)) * z <= 100 * Q * (100 + Tolerance) * l
    <3>1. 100 * (v * (100 + drift)) * z = 100 * (c * v)
      BY <1>2, <1>5, <1>6
    <3>2. 100 * Q * (100 + Tolerance) * l = 100 * (K * l)
      BY <1>2, <1>5, <1>6
    <3>3. c * v <= K * l
      BY <2>3, <2>4, Zenon
    <3>4. c * v \in Int /\ K * l \in Int
      <4> HIDE DEF c, K
      <4> QED BY <1>5, <2>1
    <3>5. 100 * (c * v) <= 100 * (K * l)
      <4> DEFINE x == c * v y == K * l
      <4> HIDE DEF x, y
      <4>1. 100 * x <= 100 * y
        BY <3>3, <3>4 DEF x, y
      <4> QED BY <4>1 DEF x, y
    <3> QED BY <3>1, <3>2, <3>5, Zenon
  <2>8. f.lots <= size
    BY <1>4, <1>5, Zenon
  <2>9. Walk(depth, f.lots).value = r /\ f.lots = l
    BY <1>4, Zenon DEF r
  <2>10. HonestFill(f, Tolerance)
    <3>1. f.value >= 10000 * Walk(depth, f.lots).value
      <4> DEFINE e == f.value x == Walk(depth, f.lots).value u == 100 * (v * (100 + drift))
      <4>1. e = u /\ x = r /\ u >= 10000 * r
        BY <2>5, <2>6, <2>9
      <4> HIDE DEF e, x, u
      <4>2. e >= 10000 * x
        BY <4>1
      <4> QED BY <4>2 DEF e, x
    <3>2. f.value * Quote.lots <= 100 * Quote.value * (100 + Tolerance) * f.lots
      BY <2>5, <2>7, <2>9, Zenon DEF z, Q
    <3> QED BY <1>10, <2>8, <3>1, <3>2 DEF HonestFill
  <2> QED BY <2>10, Zenon DEF f
<1>11. CASE side # "buy"
  <2> DEFINE c == (100 - drift) * z K == Q * (100 - Tolerance)
  <2>1. c \in Int /\ K \in Int /\ -K \in Int
    BY <1>2, <1>6
  <2>2. ASSUME NEW i \in 1 .. Len(thin), thin[i].amount # 0
        PROVE  c * Signed(thin[i].price) <= -K
    <3> DEFINE p == depth[i].price
    <3>1. p \in Nat /\ thin[i].price = p
      BY <1>9
    <3>2. p * (100 - drift) * z >= K
      BY <1>9, <1>11, <2>2, Zenon DEF MeetsLimit
    <3>3. Signed(thin[i].price) = -p
      BY <1>11, <3>1 DEF Signed
    <3> HIDE DEF p, Q, z
    <3>4. p * (100 - drift) * z = c * p /\ c * (-p) = -(c * p) /\ c * p \in Int
      BY <1>2, <1>6, <3>1
    <3>5. -(c * p) <= -K
      <4> HIDE DEF c, K
      <4> DEFINE x == c * p
      <4>1. x >= K
        BY <3>2, <3>4, Zenon
      <4>2. x \in Int
        BY <3>4
      <4> HIDE DEF x
      <4>3. -x <= -K
        BY <2>1, <4>1, <4>2
      <4> QED BY <4>3 DEF x
    <3> QED BY <3>3, <3>4, <3>5, Zenon
  <2>3. c * Signed(v) <= (-K) * l
    <3> DEFINE J == -K
    <3>1. J \in Int /\ \A i \in 1 .. Len(thin) : thin[i].amount # 0 => c * Signed(thin[i].price) <= J
      BY <2>1, <2>2
    <3> HIDE DEF c, J
    <3>2. c * Signed(v) <= J * l
      BY <1>1, <1>3, <2>1, <3>1, WalkStays
    <3> QED BY <3>2 DEF J
  <2>4. Signed(v) = -v /\ Signed(r) = -r
    BY <1>11 DEF Signed
  <2>5. f.value = 100 * (v * (100 - drift))
    BY <1>4, <1>11
  <2> HIDE DEF v, l, r, Q, z
  <2>6. 100 * (v * (100 - drift)) <= 10000 * r
    <3>1. v * (100 - drift) = 100 * v - drift * v /\ drift * v \in Nat
      BY <1>2, <1>5
    <3>2. v <= r
      BY <1>5, <1>7, <1>8, <2>4
    <3> DEFINE dv == drift * v u == v * (100 - drift)
    <3>3. dv \in Nat /\ u = 100 * v - dv
      BY <3>1
    <3> HIDE DEF dv, u
    <3>4. 100 * u <= 10000 * r
      BY <1>5, <1>7, <3>2, <3>3
    <3> QED BY <3>4 DEF u
  <2>7. 100 * (v * (100 - drift)) * z >= 100 * Q * (100 - Tolerance) * l
    <3>1. 100 * (v * (100 - drift)) * z = 100 * (c * v)
      BY <1>2, <1>5, <1>6
    <3>2. 100 * Q * (100 - Tolerance) * l = 100 * (K * l)
      BY <1>2, <1>5, <1>6
    <3>3. c * (-v) <= (-K) * l
      BY <2>3, <2>4, Zenon
    <3>4. c * v \in Int /\ K * l \in Int /\ c * (-v) = -(c * v) /\ (-K) * l = -(K * l)
      <4> HIDE DEF c, K
      <4> QED BY <1>5, <2>1
    <3>5. 100 * (c * v) >= 100 * (K * l)
      <4> DEFINE x == c * v y == K * l
      <4>1. x \in Int /\ y \in Int /\ -x <= -y
        BY <3>3, <3>4
      <4> HIDE DEF x, y
      <4>2. 100 * x >= 100 * y
        BY <4>1
      <4> QED BY <4>2 DEF x, y
    <3> QED BY <3>1, <3>2, <3>5, Zenon
  <2>8. f.lots <= size
    BY <1>4, <1>5, Zenon
  <2>9. Walk(depth, f.lots).value = r /\ f.lots = l
    BY <1>4, Zenon DEF r
  <2>10. HonestFill(f, Tolerance)
    <3>1. f.value <= 10000 * Walk(depth, f.lots).value
      <4> DEFINE e == f.value x == Walk(depth, f.lots).value u == 100 * (v * (100 - drift))
      <4>1. e = u /\ x = r /\ u <= 10000 * r
        BY <2>5, <2>6, <2>9
      <4> HIDE DEF e, x, u
      <4>2. e <= 10000 * x
        BY <4>1
      <4> QED BY <4>2 DEF e, x
    <3>2. f.value * Quote.lots >= 100 * Quote.value * (100 - Tolerance) * f.lots
      BY <2>5, <2>7, <2>9, Zenon DEF z, Q
    <3> QED BY <1>11, <2>8, <3>1, <3>2 DEF HonestFill
  <2> QED BY <2>10, Zenon DEF f
<1> QED BY <1>10, <1>11

\* A percent off or on, and another: a value that gets worse twice.
LEMMA WorseTwice ==
    ASSUME NEW v \in Nat, NEW x \in 0 .. 99, NEW y \in Nat
    PROVE  /\ v * (100 + x) * (100 + y) >= 10000 * v
           /\ y < 100 => v * (100 - x) * (100 - y) <= 10000 * v
<1>1. v * (100 + x) * (100 + y) = 10000 * v + 100 * (v * x) + 100 * (v * y) + v * x * y
  OBVIOUS
<1>2. v * x \in Nat /\ v * y \in Nat /\ v * x * y \in Nat
  OBVIOUS
<1>3. v * (100 + x) * (100 + y) >= 10000 * v
  <2> DEFINE a == v * x b == v * y c == v * x * y d == v * (100 + x) * (100 + y)
  <2>1. /\ a \in Nat /\ b \in Nat /\ c \in Nat
        /\ d = 10000 * v + 100 * a + 100 * b + c
    BY <1>1, <1>2
  <2> HIDE DEF a, b, c, d
  <2>2. d >= 10000 * v
    BY <2>1
  <2> QED BY <2>2 DEF d
<1>4. ASSUME y < 100 PROVE v * (100 - x) * (100 - y) <= 10000 * v
  <2> DEFINE u == v * (100 - x)
  <2>1. v * (100 - x) = 100 * v - v * x
    OBVIOUS
  <2>2. v * x <= 99 * v
    <3>1. v * x <= v * 99
      BY Scaled
    <3> QED BY <3>1
  <2>3. u \in Nat /\ u <= 100 * v
    <3> DEFINE a == v * x
    <3>1. a \in Nat /\ a <= 99 * v /\ u = 100 * v - a
      BY <1>2, <2>1, <2>2
    <3> HIDE DEF a, u
    <3> QED BY <3>1
  <2> HIDE DEF u
  <2>4. u * (100 - y) = 100 * u - u * y /\ u * y \in Nat
    BY <2>3
  <2>5. u * (100 - y) <= 10000 * v
    <3> DEFINE a == u * y b == u * (100 - y)
    <3>1. a \in Nat /\ b = 100 * u - a
      BY <2>4
    <3> HIDE DEF a, b
    <3>2. b <= 10000 * v
      BY <2>3, <3>1
    <3> QED BY <3>2 DEF b
  <2> QED BY <2>5 DEF u
<1> QED BY <1>3, <1>4

\* A simulated swap is honest: it is a fresh quote made worse, or nothing.
LEMMA SwapsAreHonest ==
    ASSUME BookType, leg # "idle", Quote.left = 0,
           NEW drift \in Drifts, NEW extra \in Nat, extra < 100
    PROVE  HonestFill(SimulatedSwap(drift, extra), Floor)
<1> DEFINE fresh == Walk(depth, size)
           v == fresh.value
           f == SimulatedSwap(drift, extra)
           value == Worse(Worse(v, drift), extra)
           met == IF side = "buy" THEN value <= 100 * Quote.value * (100 + Tolerance)
                                  ELSE value >= 100 * Quote.value * (100 - Floor)
           Q == Quote.value
           z == Quote.lots
<1>1. /\ depth \in Seq(Levels) /\ size \in Nat /\ lastBook \in Seq(Levels)
      /\ side \in {"buy", "sell"}
  BY DEF BookType
<1>2. drift \in 0 .. 99 /\ Tolerance \in 0 .. 99 /\ Floor \in 0 .. 99
  BY OrderBookAssumption
<1>3. v \in Nat
  BY <1>1, WalkEnds
<1>4. Q \in Nat /\ z \in Nat /\ z = size
  <2> DEFINE w == Walk(lastBook, size) n == size
  <2>1. w.left \in Nat /\ w.lots \in Nat /\ w.value \in Nat /\ w.left = n - w.lots /\ w.left = 0
    BY <1>1, WalkEnds DEF Quote
  <2> DEFINE l == w.lots
  <2>2. l \in Nat /\ n \in Nat /\ 0 = n - l
    BY <1>1, <2>1
  <2> HIDE DEF l, n
  <2>3. l = n
    BY <2>2
  <2> HIDE DEF w
  <2> QED BY <2>1, <2>3 DEF Quote, l, n, w
<1>5. f = IF fresh.left = 0 /\ met THEN [lots |-> size, value |-> value] ELSE [lots |-> 0, value |-> 0]
  BY Zenon DEF SimulatedSwap
<1>6. value = IF side = "buy" THEN v * (100 + drift) * (100 + extra)
                              ELSE v * (100 - drift) * (100 - extra)
  BY DEF Worse
<1>7. IF side = "buy" THEN value >= 10000 * v ELSE value <= 10000 * v
  <2> HIDE DEF v, value
  <2>1. /\ v * (100 + drift) * (100 + extra) >= 10000 * v
        /\ v * (100 - drift) * (100 - extra) <= 10000 * v
    BY <1>2, <1>3, WorseTwice
  <2> QED BY <1>6, <2>1
<1>8. value \in Int
  <2> HIDE DEF v, value
  <2>1. v * (100 + drift) * (100 + extra) \in Int /\ v * (100 - drift) * (100 - extra) \in Int
    BY <1>2, <1>3
  <2> QED BY <1>6, <2>1, Zenon
<1> HIDE DEF f, value
<1>9. CASE fresh.left = 0 /\ met
  <2>1. f.lots = size /\ f.value = value
    <3>1. f = [lots |-> size, value |-> value]
      BY <1>5, <1>9, Zenon
    <3> QED BY <3>1
  <2>2. Walk(depth, f.lots).value = v
    BY <2>1, Zenon
  <2>3. f.lots <= size
    BY <1>1, <2>1
  <2>4. CASE side = "buy"
    <3>1. f.value >= 10000 * Walk(depth, f.lots).value
      <4> HIDE DEF v
      <4> QED BY <1>7, <2>1, <2>2, <2>4
    <3>2. value <= 100 * Q * (100 + Tolerance)
      BY <1>9, <2>4, Zenon
    <3>3. f.value * Quote.lots <= 100 * Quote.value * (100 + Tolerance) * f.lots
      <4> DEFINE b == 100 * Q * (100 + Tolerance) s == size
      <4>1. b \in Int /\ s \in Nat
        BY <1>1, <1>2, <1>4
      <4>2. value <= b
        BY <3>2
      <4>5. z = s
        BY <1>4
      <4> HIDE DEF b, s
      <4>3. s * value <= s * b
        BY <1>8, <4>1, <4>2, Scaled
      <4>4. value * s <= b * s
        BY <1>8, <4>1, <4>3
      <4> QED BY <2>1, <4>4, <4>5, Zenon DEF b, s
    <3> QED BY <2>3, <2>4, <3>1, <3>3 DEF HonestFill, f
  <2>5. CASE side # "buy"
    <3>1. f.value <= 10000 * Walk(depth, f.lots).value
      <4> HIDE DEF v
      <4> QED BY <1>7, <2>1, <2>2, <2>5
    <3>2. value >= 100 * Q * (100 - Floor)
      BY <1>9, <2>5, Zenon
    <3>3. f.value * Quote.lots >= 100 * Quote.value * (100 - Floor) * f.lots
      <4> DEFINE b == 100 * Q * (100 - Floor) s == size
      <4>1. b \in Int /\ s \in Nat
        BY <1>1, <1>2, <1>4
      <4>2. b <= value
        <5>1. value >= b
          BY <3>2
        <5> HIDE DEF b
        <5> QED BY <1>8, <4>1, <5>1
      <4>5. z = s
        BY <1>4
      <4> HIDE DEF b, s
      <4>3. s * b <= s * value
        BY <1>8, <4>1, <4>2, Scaled
      <4>4. value * s >= b * s
        BY <1>8, <4>1, <4>3
      <4> QED BY <2>1, <4>4, <4>5, Zenon DEF b, s
    <3> QED BY <2>3, <2>5, <3>1, <3>3 DEF HonestFill, f
  <2> QED BY <2>4, <2>5
<1>10. CASE ~(fresh.left = 0 /\ met)
  <2>1. f.lots = 0 /\ f.value = 0
    <3>1. f = [lots |-> 0, value |-> 0]
      BY <1>5, <1>10, Zenon
    <3> QED BY <3>1
  <2>2. Walk(depth, 0).lots = 0 /\ Walk(depth, 0).value = 0
    <3>1. 0 \in Nat
      OBVIOUS
    <3>2. LET w == Walk(depth, 0) IN w.lots \in Nat /\ w.lots <= 0 /\ (w.lots = 0 => w.value = 0)
      BY <1>1, <3>1, WalkEnds
    <3> QED BY <3>2
  <2>3. Walk(depth, f.lots).value = 0
    BY <2>1, <2>2
  <2>4. f.lots <= size
    BY <1>1, <2>1
  <2>5. f.value * Quote.lots = 0 /\ 100 * Quote.value * (100 + Tolerance) * f.lots = 0
        /\ 100 * Quote.value * (100 - Floor) * f.lots = 0
    <3>1. 0 * z = 0 /\ 100 * Q * (100 + Tolerance) * 0 = 0 /\ 100 * Q * (100 - Floor) * 0 = 0
      <4>1. 100 * Q * (100 + Tolerance) \in Int /\ 100 * Q * (100 - Floor) \in Int
        BY <1>2, <1>4
      <4> HIDE DEF Q, z
      <4> QED BY <1>4, <4>1
    <3> QED BY <2>1, <3>1, Zenon
  <2> QED BY <2>1, <2>3, <2>4, <2>5 DEF HonestFill, f
<1> QED BY <1>9, <1>10

\* From the evaluation on, the last quote passed the guards.
PassedGuards == leg \in {"offered", "quoted", "filled"} => Passes(lastBook, size, limit)

\* Books and legs are what the code makes of them, and nothing flatters.
BookInv == BookType /\ PassedGuards /\ SizesFitTheirBook /\ SimulationNeverFlatters

\* What the cap leaves passes the guards on the same book.
LEMMA PickSizeKeeps == BookInv /\ PickSize => BookInv'
<1> SUFFICES ASSUME BookInv, PickSize PROVE BookInv'
  OBVIOUS
<1>1. /\ depth \in Seq(Levels) /\ side \in {"buy", "sell"} /\ limit \in Nat
      /\ leg = "idle" /\ leg' \in {"sized", "capped"}
      /\ pool' = pool /\ side' = side /\ depth' = depth
  BY DEF BookInv, BookType, PickSize
<1>2. PICK n \in Sizes :
          \/ leg' = "sized" /\ size' = n /\ UNCHANGED <<lastBook, limit>>
          \/ /\ ~pool /\ lastBook' = depth /\ limit' \in Slippages
             /\ size' = Least(n, MaxSizeWithinSlippage(depth, limit')) /\ size' > 0
  BY DEF PickSize
<1>3. n \in Nat \ {0}
  BY OrderBookAssumption
<1>4. CASE size' = n /\ UNCHANGED <<lastBook, limit>>
  <2>1. BookType'
    BY <1>1, <1>3, <1>4 DEF BookInv, BookType, Sorted, AsGood
  <2>2. lastBook = <<>>
    BY <1>1 DEF BookInv, BookType
  <2>3. PassedGuards' /\ SimulationNeverFlatters' /\ SizesFitTheirBook'
    BY <1>1, <1>4, <2>2 DEF PassedGuards, SimulationNeverFlatters, SizesFitTheirBook
  <2> QED BY <2>1, <2>3 DEF BookInv
<1>5. CASE /\ lastBook' = depth /\ limit' \in Slippages
           /\ size' = Least(n, MaxSizeWithinSlippage(depth, limit')) /\ size' > 0
  <2> DEFINE most == MaxSizeWithinSlippage(depth, limit')
  <2>1. limit' \in Nat
    BY <1>5, OrderBookAssumption
  <2>2. most \in Nat
    BY <1>1, <2>1, LargestFits
  <2>3. size' = Least(n, most)
    BY <1>5
  <2> HIDE DEF most
  <2>4. size' \in Nat \ {0} /\ size' <= most
    BY <1>3, <1>5, <2>2, <2>3 DEF Least
  <2>5. /\ Walk(depth, size').left = 0
        /\ Within(depth, Walk(depth, size').lots, Walk(depth, size').value, limit')
    BY <1>1, <2>1, <2>4, SizedLegsFit DEF most
  <2>6. Passes(lastBook, size, limit)'
    BY <1>1, <1>5, <2>5 DEF Passes, Within
  <2>7. BookType'
    BY <1>1, <1>5, <2>1, <2>4 DEF BookInv, BookType, Sorted, AsGood
  <2>8. PassedGuards' /\ SimulationNeverFlatters' /\ SizesFitTheirBook'
    BY <1>1, <2>6 DEF PassedGuards, SimulationNeverFlatters, SizesFitTheirBook
  <2> QED BY <2>7, <2>8 DEF BookInv
<1> QED BY <1>2, <1>4, <1>5

\* A quote that the guards let through passed them.
LEMMA AssessKeeps ==
    ASSUME BookInv, Assess, leg \in {"sized", "offered"}, leg' \in {"offered", "quoted"}
    PROVE  BookInv'
<1>1. /\ depth \in Seq(Levels) /\ side \in {"buy", "sell"} /\ limit \in Nat /\ size \in Nat \ {0}
      /\ lastBook' = depth /\ pool' = pool /\ side' = side /\ depth' = depth /\ size' = size
  BY DEF BookInv, BookType, Assess
<1>2. limit' \in Nat
  <2>1. limit' = limit \/ limit' \in Slippages
    BY DEF Assess
  <2> QED BY <1>1, <2>1, OrderBookAssumption
<1>3. Passes(lastBook, size, limit)'
  BY <1>1 DEF Assess, Passes, Within
<1>4. BookType'
  BY <1>1, <1>2 DEF BookInv, BookType, Sorted, AsGood
<1>5. PassedGuards' /\ SimulationNeverFlatters' /\ SizesFitTheirBook'
  BY <1>3 DEF PassedGuards, SimulationNeverFlatters, SizesFitTheirBook
<1> QED BY <1>4, <1>5 DEF BookInv

\* A blocked leg is no leg.
LEMMA BlockKeeps == BookInv /\ Block => BookInv'
<1> SUFFICES ASSUME BookInv, Block PROVE BookInv'
  OBVIOUS
<1>1. BookType'
  BY DEF BookInv, BookType, Block, Sorted, AsGood
<1>2. PassedGuards' /\ SimulationNeverFlatters' /\ SizesFitTheirBook'
  BY DEF Block, PassedGuards, SimulationNeverFlatters, SizesFitTheirBook
<1> QED BY <1>1, <1>2 DEF BookInv

\* A book that moves leaves what was read of another as it was.
LEMMA BookMovesKeeps == BookInv /\ BookMoves => BookInv'
<1> SUFFICES ASSUME BookInv, BookMoves PROVE BookInv'
  OBVIOUS
<1>1. /\ leg # "filled" /\ leg' = leg /\ lastBook' = lastBook /\ size' = size /\ limit' = limit
      /\ pool' = pool /\ side' = side /\ fill' = fill
  BY DEF BookMoves
<1>2. depth' \in Seq(Levels) /\ Sorted(depth')
  <2>1. PICK d \in Depths : depth' \in FromRaw(d)
    BY DEF BookMoves
  <2>2. side \in {"buy", "sell"}
    BY DEF BookInv, BookType
  <2> QED BY <2>1, <2>2, RawBooks
<1>3. BookType'
  BY <1>1, <1>2 DEF BookInv, BookType, Sorted, AsGood
<1>4. Passes(lastBook, size, limit) <=> Passes(lastBook, size, limit)'
  BY <1>1 DEF Passes, Within
<1>5. PassedGuards' /\ SimulationNeverFlatters' /\ SizesFitTheirBook'
  BY <1>1, <1>4 DEF BookInv, PassedGuards, SimulationNeverFlatters, SizesFitTheirBook
<1> QED BY <1>3, <1>5 DEF BookInv

\* A fill that is honest leaves nothing that flatters.
LEMMA FillingKeeps ==
    ASSUME BookInv, leg = "quoted", leg' = "filled",
           UNCHANGED <<pool, side, depth, lastBook, size, limit>>,
           HonestFill(fill', IF pool THEN Floor ELSE Tolerance)
    PROVE  BookInv'
<1>1. BookType'
  BY DEF BookInv, BookType, Sorted, AsGood
<1>2. Quote' = Quote
  BY DEF Quote
<1>3. Passes(lastBook, size, limit)'
  <2>1. Passes(lastBook, size, limit)
    BY DEF BookInv, PassedGuards
  <2> QED BY <2>1 DEF Passes, Within
<1>4. side' = side /\ depth' = depth /\ size' = size
  OBVIOUS
<1>5. \A b : HonestFill(fill', b) => HonestFill(fill, b)'
  BY <1>2, <1>4 DEF HonestFill
<1>6. HonestFill(fill, IF pool THEN Floor ELSE Tolerance)'
  <2>1. CASE pool
    <3>1. pool' /\ HonestFill(fill', Floor)
      BY <2>1
    <3> QED BY <1>5, <3>1, Zenon
  <2>2. CASE ~pool
    <3>1. ~pool' /\ HonestFill(fill', Tolerance)
      BY <2>2
    <3> QED BY <1>5, <3>1, Zenon
  <2> QED BY <2>1, <2>2
<1>7. SimulationNeverFlatters'
  BY <1>3, <1>6, Zenon DEF SimulationNeverFlatters
<1>8. PassedGuards' /\ SizesFitTheirBook'
  BY <1>3 DEF PassedGuards, SizesFitTheirBook
<1> QED BY <1>1, <1>7, <1>8 DEF BookInv

\* Fills on a book and swaps are honest.
LEMMA FillsKeep == BookInv /\ (FillLeg \/ FillSwap) => BookInv'
<1>1. ASSUME BookInv, FillLeg PROVE BookInv'
  <2>1. /\ leg = "quoted" /\ leg' = "filled" /\ ~pool
        /\ UNCHANGED <<pool, side, depth, lastBook, size, limit>>
    BY <1>1 DEF FillLeg
  <2>2. PICK m \in Stresses, drift \in Drifts : fill' = SimulatedFill(Stressed(depth, m), drift)
    BY <1>1 DEF FillLeg
  <2>3. HonestFill(SimulatedFill(Stressed(depth, m), drift), Tolerance)
    BY <1>1, <2>1, FillsAreHonest DEF BookInv
  <2>4. HonestFill(fill', IF pool THEN Floor ELSE Tolerance)
    BY <2>1, <2>2, <2>3, Zenon
  <2> QED BY <1>1, <2>1, <2>4, FillingKeeps
<1>2. ASSUME BookInv, FillSwap PROVE BookInv'
  <2>1. /\ leg = "quoted" /\ leg' = "filled" /\ pool
        /\ UNCHANGED <<pool, side, depth, lastBook, size, limit>>
    BY <1>2 DEF FillSwap
  <2>2. PICK m \in Stresses, drift \in Drifts, impact \in Impacts :
            fill' = SimulatedSwap(drift, impact * (m - 1))
    BY <1>2 DEF FillSwap
  <2> DEFINE extra == impact * (m - 1)
  <2>3. extra \in Nat /\ extra < 100
    <3>1. m - 1 \in Nat /\ impact \in Nat
      BY OrderBookAssumption
    <3>2. extra \in Nat
      BY <3>1
    <3> QED BY <3>2, OrderBookAssumption
  <2> HIDE DEF extra
  <2>4. Quote.left = 0
    BY <1>2, <2>1 DEF BookInv, PassedGuards, Passes, Quote
  <2>5. HonestFill(SimulatedSwap(drift, extra), Floor)
    BY <1>2, <2>1, <2>3, <2>4, SwapsAreHonest DEF BookInv
  <2>6. HonestFill(fill', IF pool THEN Floor ELSE Tolerance)
    BY <2>1, <2>2, <2>5, Zenon DEF extra
  <2> QED BY <1>2, <2>1, <2>6, FillingKeeps
<1> QED BY <1>1, <1>2

\* Every leg, on any books of any depth, however often they move.
LEMMA BookInvariant == BookSpec => []BookInv
<1>1. BookInit => BookInv
  <2> SUFFICES ASSUME BookInit PROVE BookInv
    OBVIOUS
  <2>1. PICK d \in Depths : depth \in FromRaw(d)
    BY DEF BookInit
  <2>2. depth \in Seq(Levels) /\ Sorted(depth)
    BY <2>1, RawBooks DEF BookInit
  <2> QED BY <2>2 DEF BookInit, BookInv, BookType, PassedGuards, SizesFitTheirBook,
                      SimulationNeverFlatters
<1>2. BookInv /\ [BookNext]_bookVars => BookInv'
  <2> SUFFICES ASSUME BookInv, [BookNext]_bookVars PROVE BookInv'
    OBVIOUS
  <2>1. CASE UNCHANGED bookVars
    <3>1. /\ pool' = pool /\ side' = side /\ depth' = depth /\ lastBook' = lastBook
          /\ size' = size /\ limit' = limit /\ fill' = fill /\ leg' = leg
      BY <2>1 DEF bookVars
    <3>2. BookType'
      BY <3>1 DEF BookInv, BookType, Sorted, AsGood
    <3>3. Quote' = Quote
      BY <3>1 DEF Quote
    <3>4. \A b : HonestFill(fill, b) => HonestFill(fill, b)'
      BY <3>1, <3>3 DEF HonestFill
    <3>5. Passes(lastBook, size, limit) <=> Passes(lastBook, size, limit)'
      BY <3>1 DEF Passes, Within
    <3>6. (leg = "filled" => HonestFill(fill, IF pool THEN Floor ELSE Tolerance))'
      <4>1. CASE pool
        <5>1. pool' /\ (leg' = "filled" => HonestFill(fill, Floor))
          BY <3>1, <4>1 DEF BookInv, SimulationNeverFlatters
        <5> QED BY <3>4, <5>1, Zenon
      <4>2. CASE ~pool
        <5>1. ~pool' /\ (leg' = "filled" => HonestFill(fill, Tolerance))
          BY <3>1, <4>2 DEF BookInv, SimulationNeverFlatters
        <5> QED BY <3>4, <5>1, Zenon
      <4> QED BY <4>1, <4>2
    <3>7. PassedGuards' /\ SizesFitTheirBook'
      BY <3>1, <3>5 DEF BookInv, PassedGuards, SizesFitTheirBook
    <3>8. (leg = "filled" => Passes(lastBook, size, limit))'
      BY <3>7 DEF PassedGuards
    <3>9. SimulationNeverFlatters'
      BY <3>6, <3>8, Zenon DEF SimulationNeverFlatters
    <3> QED BY <3>2, <3>7, <3>9 DEF BookInv
  <2>2. CASE Evaluate \/ Requote
    <3>1. Assess /\ leg \in {"sized", "offered"} /\ leg' \in {"offered", "quoted"}
      BY <2>2 DEF Evaluate, Requote
    <3> QED BY <3>1, AssessKeeps
  <2> QED BY <2>1, <2>2, PickSizeKeeps, BlockKeeps, BookMovesKeeps, FillsKeep DEF BookNext
<1> QED BY <1>1, <1>2, PTL DEF BookSpec

\* The cap and the guards agree on every book (max_size_within_slippage, walk and
\* SlippageGuard.check): whole levels up to a limit leave no size whose walk,
\* which takes the last level in part, cannot be filled or slips further.
THEOREM CapsFitTheirBook == BookSpec => []SizesFitTheirBook
<1>1. BookInv => SizesFitTheirBook
  BY DEF BookInv
<1> QED BY <1>1, BookInvariant, PTL

\* A simulated leg never flatters (walk, get_quote and _simulate_fill): on
\* whatever books it was sized, evaluated and quoted again, it fills at no better
\* than a walk of the book it meets, within its size and the executor's limit.
THEOREM SimulationIsHonest == BookSpec => []SimulationNeverFlatters
<1>1. BookInv => SimulationNeverFlatters
  BY DEF BookInv
<1> QED BY <1>1, BookInvariant, PTL
=================================================================================
