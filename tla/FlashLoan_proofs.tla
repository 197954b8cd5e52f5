---------------------------- MODULE FlashLoan_proofs ----------------------------
(***************************************************************************)
(* Proofs about FlashLoan, for any finite set of trades and any amounts.   *)
(***************************************************************************)
EXTENDS FlashLoan, PaperLedger_proofs

USE DEF controls, counters, chain, books

Fates == {"unsent", "pending", "ok", "reverted", "dropped"}

\* A record of the type takes the place of a trade.
LEMMA BecomesType ==
    ASSUME trade \in [Trades -> Trade], NEW t \in Trades, NEW tr \in Trade, Becomes(t, tr)
    PROVE  trade' \in [Trades -> Trade]
  BY DEF Becomes

\* Changing the phase or the status of a trade keeps its type.
LEMMA MoveType ==
    ASSUME trade \in [Trades -> Trade], NEW t \in Trades
    PROVE  /\ \A phase \in Phases : Goes(t, phase) => trade' \in [Trades -> Trade]
           /\ \A s \in Statuses : Ends(t, s) => trade' \in [Trades -> Trade]
<1>1. trade[t] \in Trade
  OBVIOUS
<1>2. \A phase \in Phases : [trade[t] EXCEPT !.at = phase] \in Trade
  BY <1>1 DEF Trade
<1>3. \A s \in Statuses : [trade[t] EXCEPT !.at = "save", !.status = s] \in Trade
  BY <1>1 DEF Trade, Phases, Booking
<1> QED BY <1>2, <1>3, BecomesType DEF Goes, Ends

\* The decision keeps the type of a trade.
LEMMA DecideType ==
    ASSUME trade \in [Trades -> Trade], NEW t \in Trades, NEW q \in Quotes \cup {0},
           NEW simulated \in BOOLEAN, Decide(t, q, simulated)
    PROVE  trade' \in [Trades -> Trade]
<1> DEFINE go     == simulated /\ Worth(q) /\ Clear(t)
           at     == IF ~go THEN "save" ELSE IF mode = "PAPER" THEN "settle" ELSE "call"
           status == IF go THEN "PENDING" ELSE "ABORTED"
<1>1. at \in Phases /\ status \in Statuses
  BY DEF Phases, Booking, Sending, Statuses
<1>2. Becomes(t, [trade[t] EXCEPT !.at = at, !.quote = q, !.limited = FALSE, !.status = status])
  BY DEF Decide
<1> HIDE DEF at, status
<1>3. [trade[t] EXCEPT !.at = at, !.quote = q, !.limited = FALSE, !.status = status] \in Trade
  BY <1>1 DEF Trade
<1> QED BY <1>2, <1>3, BecomesType

\* The quote of a trade is an integer.
LEMMA QuoteType ==
    ASSUME NEW tr \in Trade
    PROVE  tr.quote \in Int
<1>1. tr.quote \in Quotes \/ tr.quote = 0
  BY DEF Trade
<1>2. CASE tr.quote \in Quotes
  BY <1>2, QuoteAssumption
<1>3. CASE tr.quote = 0
  BY <1>3
<1> QED BY <1>1, <1>2, <1>3

\* The net of a trade is an integer.
LEMMA NetType ==
    ASSUME NEW tr \in Trade
    PROVE  Net(tr) \in Int
<1>1. Gas \in Int /\ tr.quote \in Int
  <2>1. Gas \in Nat
    BY AmountAssumption
  <2> QED BY <2>1, QuoteType
<1>2. tr.quote - Gas \in Int /\ -Gas \in Int
  BY <1>1
<1>3. CASE tr.status = "FILLED"
  BY <1>2, <1>3 DEF Net, NetOfGas
<1>4. CASE tr.status = "FAILED"
  BY <1>2, <1>4 DEF Net, NetOfGas
<1>5. CASE tr.status \notin {"FILLED", "FAILED"}
  BY <1>5 DEF Net, NetOfGas
<1> QED BY <1>3, <1>4, <1>5

\* A step of a trade keeps the types.
LEMMA ProgressType ==
    ASSUME TypeOK, NEW t \in Trades, Progress(t)
    PROVE  TypeOK'
<1> USE DEF TypeOK
<1>0. /\ "save" \in Phases /\ "simulate" \in Phases /\ "quote" \in Phases /\ "nonce" \in Phases
      /\ "send" \in Phases /\ "wait" \in Phases /\ "book" \in Phases /\ "count" \in Phases /\ "done" \in Phases
  BY DEF Phases, Before, Sending, Booking
<1>1. CASE Start(t)
  <2>1. [trade[t] EXCEPT !.at = "quote", !.limited = (daily <= -MaxLoss)] \in Trade
    <3>1. \A b \in BOOLEAN : [trade[t] EXCEPT !.at = "quote", !.limited = b] \in Trade
      BY <1>0 DEF Trade
    <3>2. (daily <= -MaxLoss) \in BOOLEAN
      OBVIOUS
    <3> QED BY <3>1, <3>2
  <2>2. trade' \in [Trades -> Trade]
    BY <1>1, <2>1, MoveType, BecomesType DEF Start, Statuses
  <2> QED BY <1>1, <2>2 DEF Start
<1>2. CASE Quoted(t)
  <2>1. trade' \in [Trades -> Trade]
    <3>1. CASE Ends(t, "ABORTED")
      BY <3>1, MoveType DEF Statuses
    <3>2. CASE \E q \in Quotes : mode = "PAPER" /\ Decide(t, q, q >= MinProfit)
      <4>1. PICK q \in Quotes : Decide(t, q, q >= MinProfit)
        BY <3>2
      <4>2. (q >= MinProfit) \in BOOLEAN
        OBVIOUS
      <4> QED BY <4>1, <4>2, DecideType
    <3>3. CASE \E q \in Quotes : Becomes(t, [trade[t] EXCEPT !.at = "simulate", !.quote = q])
      <4>1. \A q \in Quotes : [trade[t] EXCEPT !.at = "simulate", !.quote = q] \in Trade
        BY <1>0 DEF Trade
      <4> QED BY <3>3, <4>1, BecomesType
    <3> QED BY <1>2, <3>1, <3>2, <3>3 DEF Quoted
  <2> QED BY <1>2, <2>1 DEF Quoted
<1>3. CASE Simulated(t)
  <2>1. trade[t].quote \in Quotes \cup {0}
    BY DEF Trade
  <2>2. trade' \in [Trades -> Trade]
    BY <1>3, <2>1, DecideType DEF Simulated
  <2> QED BY <1>3, <2>2 DEF Simulated
<1>4. CASE Settle(t)
  <2>1. trade' \in [Trades -> Trade]
    BY <1>4, MoveType DEF Settle, Statuses
  <2> QED BY <1>4, <2>1 DEF Settle
<1>5. CASE FinalCall(t)
  <2>1. trade' \in [Trades -> Trade]
    BY <1>0, <1>5, MoveType DEF FinalCall, Statuses
  <2> QED BY <1>5, <2>1 DEF FinalCall
<1>6. CASE ReadNonce(t)
  <2>1. [trade[t] EXCEPT !.at = "send", !.nonce = mined] \in Trade
    BY <1>0 DEF Trade
  <2>2. trade' \in [Trades -> Trade]
    BY <1>6, <2>1, BecomesType DEF ReadNonce
  <2> QED BY <1>6, <2>2 DEF ReadNonce
<1>7. CASE Send(t)
  <2>1. trade' \in [Trades -> Trade]
    BY <1>0, <1>7, MoveType DEF Send
  <2>2. lost' \subseteq Trades
    BY <1>7 DEF Send
  <2>3. fate' \in [Trades -> {"unsent", "pending", "ok", "reverted", "dropped"}]
    BY <1>7 DEF Send
  <2> QED BY <1>7, <2>1, <2>2, <2>3 DEF Send
<1>8. CASE Fails(t)
  <2>1. trade' \in [Trades -> Trade]
    BY <1>0, <1>8, MoveType DEF Fails
  <2> QED BY <1>8, <2>1 DEF Fails
<1>9. CASE Receipt(t)
  <2>1. trade' \in [Trades -> Trade]
    BY <1>0, <1>9, MoveType DEF Receipt, StatusOf, StatusOfReceipt, Statuses
  <2>2. caught' \subseteq Trades /\ tripped' \in BOOLEAN
    BY <1>9 DEF Receipt, Stopping, Passed
  <2>3. lost' \subseteq Trades
    BY <1>9 DEF Receipt
  <2> QED BY <1>9, <2>1, <2>2, <2>3 DEF Receipt
<1>10. CASE Save(t)
  <2>1. trade' \in [Trades -> Trade]
    BY <1>0, <1>10, MoveType DEF Save, Merged
  <2>2. row' \in [Trades -> Statuses \cup {"none"}]
    BY <1>10 DEF Save, Merged, Trade
  <2> QED BY <1>10, <2>1, <2>2 DEF Save, Merged
<1>11. CASE Book(t)
  <2>1. trade' \in [Trades -> Trade]
    BY <1>0, <1>11, MoveType DEF Book, Added
  <2>2. pnl' \in [Modes -> Int]
    BY <1>11, NetType DEF Book, Added
  <2> QED BY <1>11, <2>1, <2>2 DEF Book, Added
<1>12. CASE Count(t)
  <2>1. trade' \in [Trades -> Trade]
    BY <1>0, <1>12, MoveType DEF Count
  <2>2. daily' \in Int
    BY <1>12, NetType DEF Count
  <2> QED BY <1>12, <2>1, <2>2 DEF Count
<1> QED BY <1>1, <1>2, <1>3, <1>4, <1>5, <1>6, <1>7, <1>8, <1>9, <1>10, <1>11, <1>12
        DEF Progress, Refused, Timeout, WriteFails

\* A transaction that a block takes keeps the types.
LEMMA MineType ==
    ASSUME TypeOK, NEW t \in Trades, Mine(t)
    PROVE  TypeOK'
<1> USE DEF TypeOK
<1>1. PICK p \in Profits, late \in BOOLEAN :
         LET ok == ~late /\ Succeeds(trade[t].quote, p) IN
         /\ fate' = [u \in Trades |->
                IF u = t THEN IF ok THEN "ok" ELSE "reverted"
                ELSE IF fate[u] = "pending" /\ trade[u].nonce = mined THEN "dropped" ELSE fate[u]]
         /\ balance' = IF ok THEN balance + p ELSE balance
         /\ quoted'  = IF ok THEN quoted + trade[t].quote ELSE quoted
  BY DEF Mine
<1>2. MinProfit \in Nat /\ p \in Int
  BY AmountAssumption, QuoteAssumption
<1>3. trade[t].quote \in Int
  <2>1. trade[t] \in Trade
    OBVIOUS
  <2> QED BY <2>1, QuoteType
<1>4. balance' \in Nat
  BY <1>1, <1>2 DEF Succeeds, Covered
<1>5. quoted' \in Int
  BY <1>1, <1>3
<1>6. fate' \in [Trades -> Fates]
  BY <1>1 DEF Fates
<1>7. mined' \in Nat /\ UNCHANGED <<halted, rescued, controls, counters, books, trade>>
  BY DEF Mine
<1> QED BY <1>4, <1>5, <1>6, <1>7 DEF Fates

\* What the rest of the application does keeps the types.
LEMMA ApplicationType ==
    ASSUME TypeOK,
           Rescue \/ Administer \/ (\E m \in Modes : SetMode(m)) \/ Rebuild \/ Activate
           \/ Resume \/ ReadStats \/ AssignStats \/ Crash
    PROVE  TypeOK'
<1> USE DEF TypeOK
<1>1. CASE Rescue
  BY <1>1 DEF Rescue
<1>2. CASE Administer
  BY <1>2 DEF Administer, Switch
<1>3. CASE \E m \in Modes : SetMode(m)
  BY <1>3 DEF SetMode, Switch
<1>4. CASE Rebuild
  BY <1>4 DEF Rebuild
<1>5. CASE Activate
  BY <1>5 DEF Activate, Switch, Stopping, Passed
<1>6. CASE Resume
  BY <1>6 DEF Resume
<1>7. CASE ReadStats
  BY <1>7 DEF ReadStats, TodayNet
<1>8. CASE AssignStats
  BY <1>8 DEF AssignStats
<1>9. CASE Crash
  <2>1. \A t \in Trades : [trade[t] EXCEPT !.at = "done"] \in Trade
    BY DEF Trade, Phases
  <2>2. trade' \in [Trades -> Trade]
    BY <1>9, <2>1 DEF Crash, TodayNet
  <2>3. lost' \subseteq Trades
    BY <1>9 DEF Crash, TodayNet, InFlight
  <2>4. daily' \in Int /\ ledger' \in BOOLEAN /\ reading' \subseteq Int
    BY <1>9 DEF Crash, TodayNet
  <2> QED BY <1>9, <2>2, <2>3, <2>4 DEF Crash, TodayNet
<1> QED BY <1>1, <1>2, <1>3, <1>4, <1>5, <1>6, <1>7, <1>8, <1>9

\* The initial state has the types.
LEMMA InitType == Init => TypeOK
<1> SUFFICES ASSUME Init PROVE TypeOK
  OBVIOUS
<1>1. trade \in [Trades -> Trade]
  BY DEF Init, Trade, Phases, Before, Statuses
<1>2. mode \in Modes /\ {ledger, stop, tripped, halted, mixed} \subseteq BOOLEAN
  BY DEF Init
<1>3. row \in [Trades -> Statuses \cup {"none"}] /\ fate \in [Trades -> Fates] /\ pnl \in [Modes -> Int]
  BY DEF Init, Fates
<1>4. daily \in Int /\ reading \subseteq Int /\ {paid, caught, lost} \subseteq SUBSET Trades
  BY DEF Init
<1>5. mined \in Nat /\ balance \in Nat /\ rescued \in Nat /\ quoted \in Int /\ switches \in Nat
  BY DEF Init
<1> QED BY <1>1, <1>2, <1>3, <1>4, <1>5 DEF TypeOK, Fates

\* Every step keeps the types.
LEMMA StepType == TypeOK /\ [Next]_vars => TypeOK'
<1> SUFFICES ASSUME TypeOK, [Next]_vars PROVE TypeOK'
  OBVIOUS
<1>1. CASE Next
  BY <1>1, ProgressType, MineType, ApplicationType DEF Next
<1>2. CASE UNCHANGED vars
  BY <1>2 DEF vars, TypeOK
<1> QED BY <1>1, <1>2

\* Type correctness, for any trades and amounts.
THEOREM TypeCorrect == Spec => []TypeOK
  BY InitType, StepType, PTL DEF Spec

--------------------------------------------------------------------------------
(* Rows.                                                                   *)

\* Nothing was sent, paid or saved for the trade.
Untouched(t) == fate[t] = "unsent" /\ row[t] = "none" /\ t \notin paid

\* What a status says of the transaction and the paper account.
Says(t, status) ==
    /\ status = "FILLED" => fate[t] = "ok" \/ t \in paid \/ mixed
    /\ status = "FAILED" => fate[t] = "reverted"
    /\ status = "ABORTED" => fate[t] = "unsent" /\ t \notin paid

\* The invariant, for one trade: what each phase knows.
Told(t) ==
    /\ trade[t].at \in Before \cup Sending \cup {"settle"} => Untouched(t)
    /\ trade[t].at \notin {"new", "done"} => mixed \/ ledger = (mode = "PAPER")
    /\ trade[t].at = "settle" => mixed \/ mode = "PAPER"
    /\ trade[t].at = "wait" => row[t] = "none" /\ fate[t] # "unsent"
    /\ trade[t].at = "save" => row[t] = "none" /\ Says(t, trade[t].status)
    /\ trade[t].at \in {"book", "count"} => row[t] # "none"
    /\ trade[t].at = "done" /\ row[t] = "none" => t \in lost
    /\ Says(t, row[t])

RowsInv == TypeOK /\ \A t \in Trades : Told(t)

\* A step that leaves a trade alone, and mode and ledger, keeps what is known of it.
LEMMA OthersTold ==
    ASSUME NEW u \in Trades, Told(u),
           trade'[u] = trade[u], fate'[u] = fate[u], row'[u] = row[u],
           (u \in paid') = (u \in paid), u \in lost => u \in lost', mixed => mixed',
           mode' = mode, ledger' = ledger
    PROVE  Told(u)'
  BY DEF Told, Untouched, Says

\* What a step of t leaves alone: the other trades, mode and ledger.
OthersSame(t)  == \A u \in Trades : u # t => trade'[u] = trade[u]
RecordsSame(t) ==
    \A u \in Trades : u # t =>
        /\ fate'[u] = fate[u] /\ row'[u] = row[u]
        /\ (u \in paid') = (u \in paid) /\ (u \in lost => u \in lost')
ModeSame == mode' = mode /\ ledger' = ledger /\ (mixed => mixed')

\* Where the moves of a trade lead.
LEMMA Moved ==
    ASSUME trade \in [Trades -> Trade], NEW t \in Trades
    PROVE  /\ \A tr : Becomes(t, tr) => trade'[t] = tr /\ OthersSame(t)
           /\ \A phase : Goes(t, phase) => trade'[t].at = phase /\ OthersSame(t)
           /\ \A s : Ends(t, s) => trade'[t].at = "save" /\ trade'[t].status = s /\ OthersSame(t)
<1>1. \A tr : Becomes(t, tr) => trade'[t] = tr /\ OthersSame(t)
  BY DEF Becomes, OthersSame
<1>2. trade[t] \in Trade
  OBVIOUS
<1>3. \A phase : [trade[t] EXCEPT !.at = phase].at = phase
  BY <1>2 DEF Trade
<1>4. \A s : [trade[t] EXCEPT !.at = "save", !.status = s].at = "save"
  BY <1>2 DEF Trade
<1>5. \A s : [trade[t] EXCEPT !.at = "save", !.status = s].status = s
  BY <1>2 DEF Trade
<1>6. ASSUME NEW phase, Goes(t, phase)
      PROVE  trade'[t].at = phase /\ OthersSame(t)
  <2> DEFINE tr == [trade[t] EXCEPT !.at = phase]
  <2>1. Becomes(t, tr) /\ tr.at = phase
    BY <1>3, <1>6 DEF Goes
  <2> HIDE DEF tr
  <2> QED BY <1>1, <2>1
<1>7. ASSUME NEW s, Ends(t, s)
      PROVE  trade'[t].at = "save" /\ trade'[t].status = s /\ OthersSame(t)
  <2> DEFINE tr == [trade[t] EXCEPT !.at = "save", !.status = s]
  <2>1. Becomes(t, tr) /\ tr.at = "save" /\ tr.status = s
    BY <1>4, <1>5, <1>7 DEF Ends
  <2> HIDE DEF tr
  <2> QED BY <1>1, <2>1
<1> QED BY <1>1, <1>6, <1>7

\* Where the decision leads.
LEMMA Decided ==
    ASSUME trade \in [Trades -> Trade], NEW t \in Trades, NEW q, NEW simulated, Decide(t, q, simulated)
    PROVE  /\ OthersSame(t)
           /\ \/ trade'[t].at = "save" /\ trade'[t].status = "ABORTED"
              \/ trade'[t].at = "settle" /\ mode = "PAPER" /\ Clear(t)
              \/ trade'[t].at = "call" /\ Clear(t)
<1> DEFINE go     == simulated /\ Worth(q) /\ Clear(t)
           at     == IF ~go THEN "save" ELSE IF mode = "PAPER" THEN "settle" ELSE "call"
           status == IF go THEN "PENDING" ELSE "ABORTED"
           tr     == [trade[t] EXCEPT !.at = at, !.quote = q, !.limited = FALSE, !.status = status]
<1>1. Becomes(t, tr)
  BY DEF Decide
<1>2. trade[t] \in Trade
  OBVIOUS
<1>3. tr.at = at /\ tr.status = status
  <2> HIDE DEF at, status
  <2> QED BY <1>2 DEF Trade
<1>4. trade'[t] = tr /\ OthersSame(t)
  <2> HIDE DEF tr
  <2> QED BY <1>1, Moved
<1>5. trade'[t].at = at /\ trade'[t].status = status
  BY <1>3, <1>4
<1>6. CASE go
  BY <1>4, <1>5, <1>6
<1>7. CASE ~go
  BY <1>4, <1>5, <1>7
<1> QED BY <1>6, <1>7

\* Where a step of a trade leads: one fact for each action.
LEMMA StepsOf ==
    ASSUME TypeOK, NEW t \in Trades
    PROVE  /\ Start(t) => /\ OthersSame(t)
                          /\ \/ trade'[t].at = "save" /\ trade'[t].status = "ABORTED"
                             \/ trade'[t].at = "quote"
           /\ Quoted(t) => /\ OthersSame(t)
                           /\ \/ trade'[t].at = "save" /\ trade'[t].status = "ABORTED"
                              \/ trade'[t].at = "simulate"
                              \/ trade'[t].at = "settle" /\ mode = "PAPER" /\ Clear(t)
                              \/ trade'[t].at = "call" /\ Clear(t)
           /\ Simulated(t) => /\ OthersSame(t)
                              /\ \/ trade'[t].at = "save" /\ trade'[t].status = "ABORTED"
                                 \/ trade'[t].at = "settle" /\ mode = "PAPER" /\ Clear(t)
                                 \/ trade'[t].at = "call" /\ Clear(t)
           /\ Settle(t) => trade'[t].at = "save" /\ trade'[t].status = "FILLED" /\ OthersSame(t)
           /\ FinalCall(t) => /\ OthersSame(t)
                              /\ \/ trade'[t].at = "nonce"
                                 \/ trade'[t].at = "save" /\ trade'[t].status = "ABORTED"
           /\ ReadNonce(t) => trade'[t].at = "send" /\ OthersSame(t)
           /\ Send(t) => /\ OthersSame(t)
                         /\ \/ trade'[t].at = "wait"
                            \/ trade'[t].at = "done" /\ t \in lost'
           /\ Fails(t) => trade'[t].at = "done" /\ t \in lost' /\ OthersSame(t)
           /\ Receipt(t) => /\ OthersSame(t)
                            /\ \/ /\ trade'[t].at = "save"
                                  /\ trade'[t].status = IF fate[t] = "ok" THEN "FILLED" ELSE "FAILED"
                               \/ trade'[t].at = "done" /\ t \in lost'
           /\ Save(t) => trade'[t].at \in {"book", "count"} /\ OthersSame(t)
           /\ Book(t) => trade'[t].at = "count" /\ OthersSame(t)
           /\ Count(t) => trade'[t].at = "done" /\ OthersSame(t)
<1> DEFINE starting == [trade[t] EXCEPT !.at = "quote", !.limited = (daily <= -MaxLoss)]
           sending  == [trade[t] EXCEPT !.at = "send", !.nonce = mined]
<1>0. trade \in [Trades -> Trade] /\ trade[t] \in Trade
  BY DEF TypeOK
<1>1. starting.at = "quote" /\ sending.at = "send"
  BY <1>0 DEF Trade
<1>2. \A q : [trade[t] EXCEPT !.at = "simulate", !.quote = q].at = "simulate"
  BY <1>0 DEF Trade
<1> HIDE DEF starting, sending
<1>3. Start(t) => /\ OthersSame(t)
                  /\ \/ trade'[t].at = "save" /\ trade'[t].status = "ABORTED"
                     \/ trade'[t].at = "quote"
  <2>1. Start(t) => Ends(t, "ABORTED") \/ Becomes(t, starting)
    BY DEF Start, starting
  <2> QED BY <1>0, <1>1, <2>1, Moved
<1>4. Quoted(t) => /\ OthersSame(t)
                   /\ \/ trade'[t].at = "save" /\ trade'[t].status = "ABORTED"
                      \/ trade'[t].at = "simulate"
                      \/ trade'[t].at = "settle" /\ mode = "PAPER" /\ Clear(t)
                      \/ trade'[t].at = "call" /\ Clear(t)
  <2>1. Quoted(t) => \/ Ends(t, "ABORTED")
                     \/ \E q \in Quotes : Decide(t, q, q >= MinProfit)
                     \/ \E q \in Quotes : Becomes(t, [trade[t] EXCEPT !.at = "simulate", !.quote = q])
    BY DEF Quoted
  <2>2. ASSUME NEW q \in Quotes, Becomes(t, [trade[t] EXCEPT !.at = "simulate", !.quote = q])
        PROVE  trade'[t].at = "simulate" /\ OthersSame(t)
    <3> DEFINE tr == [trade[t] EXCEPT !.at = "simulate", !.quote = q]
    <3>1. Becomes(t, tr) /\ tr.at = "simulate"
      BY <1>2, <2>2
    <3> HIDE DEF tr
    <3> QED BY <1>0, <3>1, Moved
  <2> QED BY <1>0, <2>1, <2>2, Moved, Decided
<1>5. Simulated(t) => /\ OthersSame(t)
                      /\ \/ trade'[t].at = "save" /\ trade'[t].status = "ABORTED"
                         \/ trade'[t].at = "settle" /\ mode = "PAPER" /\ Clear(t)
                         \/ trade'[t].at = "call" /\ Clear(t)
  BY <1>0, Decided DEF Simulated
<1>6. Settle(t) => trade'[t].at = "save" /\ trade'[t].status = "FILLED" /\ OthersSame(t)
  BY <1>0, Moved DEF Settle
<1>7. FinalCall(t) => /\ OthersSame(t)
                      /\ \/ trade'[t].at = "nonce"
                         \/ trade'[t].at = "save" /\ trade'[t].status = "ABORTED"
  BY <1>0, Moved DEF FinalCall
<1>8. ReadNonce(t) => trade'[t].at = "send" /\ OthersSame(t)
  <2>1. ReadNonce(t) => Becomes(t, sending)
    BY DEF ReadNonce, sending
  <2> QED BY <1>0, <1>1, <2>1, Moved
<1>9. Send(t) => /\ OthersSame(t)
                 /\ \/ trade'[t].at = "wait"
                    \/ trade'[t].at = "done" /\ t \in lost'
  BY <1>0, Moved DEF Send
<1>10. Fails(t) => trade'[t].at = "done" /\ t \in lost' /\ OthersSame(t)
  BY <1>0, Moved DEF Fails
<1>11. Receipt(t) => /\ OthersSame(t)
                     /\ \/ /\ trade'[t].at = "save"
                           /\ trade'[t].status = IF fate[t] = "ok" THEN "FILLED" ELSE "FAILED"
                        \/ trade'[t].at = "done" /\ t \in lost'
  BY <1>0, Moved DEF Receipt, StatusOf, StatusOfReceipt
<1>12. Save(t) => trade'[t].at \in {"book", "count"} /\ OthersSame(t)
  BY <1>0, Moved DEF Save, Merged
<1>13. Book(t) => trade'[t].at = "count" /\ OthersSame(t)
  BY <1>0, Moved DEF Book, Added
<1>14. Count(t) => trade'[t].at = "done" /\ OthersSame(t)
  BY <1>0, Moved DEF Count
<1> QED BY <1>3, <1>4, <1>5, <1>6, <1>7, <1>8, <1>9, <1>10, <1>11, <1>12, <1>13, <1>14

\* A step of a trade keeps what is known of that trade.
LEMMA ActorTold ==
    ASSUME RowsInv, NEW t \in Trades, Progress(t)
    PROVE  Told(t)' /\ OthersSame(t) /\ RecordsSame(t) /\ ModeSame
<1> USE DEF Told, Untouched, Says, ModeSame, RecordsSame
<1>0. TypeOK /\ Told(t)
  BY DEF RowsInv
<1>1. row \in [Trades -> Statuses \cup {"none"}] /\ fate \in [Trades -> Fates] /\ trade[t].status \in Statuses
  <2>1. trade[t] \in Trade
    BY <1>0 DEF TypeOK
  <2> QED BY <1>0, <2>1 DEF TypeOK, Fates, Trade
<1>2. CASE Start(t)
  BY <1>0, <1>1, <1>2, StepsOf DEF Start, Before, Sending
<1>3. CASE Quoted(t)
  BY <1>0, <1>1, <1>3, StepsOf DEF Quoted, Before, Sending
<1>4. CASE Simulated(t)
  BY <1>0, <1>1, <1>4, StepsOf DEF Simulated, Before, Sending
<1>5. CASE Settle(t)
  <2>1. ledger \in BOOLEAN /\ trade[t].at = "settle"
    BY <1>0, <1>5 DEF TypeOK, Settle
  <2>2. mixed \/ ledger
    BY <1>0, <2>1
  <2>3. mixed \/ t \in paid'
    BY <1>5, <2>2 DEF Settle
  <2> QED BY <1>0, <1>1, <1>5, <2>3, StepsOf DEF Settle, Before, Sending
<1>6. CASE FinalCall(t)
  BY <1>0, <1>1, <1>6, StepsOf DEF FinalCall, Before, Sending
<1>7. CASE ReadNonce(t)
  BY <1>0, <1>1, <1>7, StepsOf DEF ReadNonce, Before, Sending
<1>8. CASE Send(t)
  BY <1>0, <1>1, <1>8, StepsOf DEF Send, Before, Sending
<1>9. CASE Receipt(t)
  BY <1>0, <1>1, <1>9, StepsOf DEF Receipt, Before, Sending
<1>10. CASE Save(t)
  BY <1>0, <1>1, <1>10, StepsOf DEF Save, Merged, Before, Sending, Statuses
<1>11. CASE Book(t)
  BY <1>0, <1>1, <1>11, StepsOf DEF Book, Added, Before, Sending
<1>12. CASE Count(t)
  BY <1>0, <1>1, <1>12, StepsOf DEF Count, Before, Sending
<1>13. CASE Fails(t) /\ trade[t].at # "new"
  BY <1>0, <1>1, <1>13, StepsOf DEF Fails, Before, Sending
<1> QED BY <1>2, <1>3, <1>4, <1>5, <1>6, <1>7, <1>8, <1>9, <1>10, <1>11, <1>12, <1>13
        DEF Progress, Refused, Timeout, WriteFails, GivesUp, GivesUpInTime, Sending, Booking

\* And what is known of every other.
LEMMA ProgressTold ==
    ASSUME RowsInv, NEW t \in Trades, Progress(t), NEW u \in Trades
    PROVE  Told(u)'
<1>1. CASE u = t
  BY <1>1, ActorTold
<1>2. CASE u # t
  BY <1>2, ActorTold, OthersTold DEF RowsInv, OthersSame, RecordsSame, ModeSame
<1> QED BY <1>1, <1>2

\* So do the chain and the rest of the application.
LEMMA RestTold ==
    ASSUME RowsInv, NEW u \in Trades, Next,
           \A t \in Trades : ~Progress(t)
    PROVE  Told(u)'
<1> USE DEF RowsInv
<1>0. TypeOK /\ Told(u) /\ trade \in [Trades -> Trade] /\ trade[u] \in Trade
  BY DEF TypeOK
<1>1. CASE \E t \in Trades : Mine(t)
  <2>1. PICK t \in Trades : Mine(t)
    BY <1>1
  <2>2. \/ fate'[u] = fate[u]
        \/ fate[u] = "pending" /\ fate'[u] \in {"ok", "reverted", "dropped"}
    BY <2>1 DEF Mine
  <2>3. UNCHANGED <<trade, row, paid, lost, mixed, mode, ledger>>
    BY <2>1 DEF Mine
  <2> QED BY <1>0, <2>2, <2>3 DEF Told, Untouched, Says
<1>2. CASE (\E m \in Modes : SetMode(m)) \/ Rebuild
  <2>1. UNCHANGED <<trade, row, paid, lost, fate>> /\ (mixed => mixed')
    BY <1>2 DEF SetMode, Rebuild
  <2>2. trade[u].at \notin {"new", "done"} => mixed'
    BY <1>2 DEF SetMode, Rebuild, InFlight
  <2> QED BY <1>0, <2>1, <2>2 DEF Told, Untouched, Says
<1>3. CASE Rescue \/ Administer \/ Activate \/ Resume \/ ReadStats \/ AssignStats
  <2>1. UNCHANGED <<trade, row, paid, lost, fate, mixed, mode, ledger>>
    BY <1>3 DEF Rescue, Administer, Activate, Resume, ReadStats, TodayNet, AssignStats
  <2> QED BY <1>0, <2>1 DEF Told, Untouched, Says
<1>4. CASE Crash
  <2>1. UNCHANGED <<row, paid, fate, mixed, mode>> /\ lost' = lost \cup InFlight
    BY <1>4 DEF Crash
  <2>2. CASE u \in InFlight
    <3>1. trade'[u].at = "done"
      BY <1>0, <1>4, <2>2 DEF Crash, Trade
    <3> QED BY <1>0, <2>1, <2>2, <3>1 DEF Told, Untouched, Says, Before, Sending
  <2>3. CASE u \notin InFlight
    <3>1. trade'[u] = trade[u] /\ trade[u].at \in {"new", "done"}
      BY <1>0, <1>4, <2>3 DEF Crash, InFlight
    <3> QED BY <1>0, <2>1, <3>1 DEF Told, Untouched, Says, Before, Sending
  <2> QED BY <2>2, <2>3
<1> QED BY <1>1, <1>2, <1>3, <1>4 DEF Next

\* The invariant of the rows holds from the start and is kept.
LEMMA RowsInductive == (Init => RowsInv) /\ (RowsInv /\ [Next]_vars => RowsInv')
<1>1. Init => RowsInv
  BY InitType DEF Init, RowsInv, Told, Untouched, Says, Before, Sending
<1>2. RowsInv /\ [Next]_vars => RowsInv'
  <2> SUFFICES ASSUME RowsInv, [Next]_vars PROVE RowsInv'
    OBVIOUS
  <2>1. TypeOK'
    BY StepType DEF RowsInv
  <2>2. CASE Next
    BY <2>1, <2>2, ProgressTold, RestTold DEF RowsInv
  <2>3. CASE UNCHANGED vars
    BY <2>1, <2>3 DEF vars, RowsInv, Told, Untouched, Says
  <2> QED BY <2>2, <2>3
<1> QED BY <1>1, <1>2

\* Rows tell what happened to the transaction, whatever crashes, loses or reverts.
THEOREM RowsCorrect == Spec => []RowsTellTheTruth
<1>1. RowsInv => RowsTellTheTruth
  BY DEF RowsInv, Told, Says, RowsTellTheTruth
<1> QED BY <1>1, RowsInductive, PTL DEF Spec

--------------------------------------------------------------------------------
(* The stop.                                                               *)

\* Whoever is past its checks while trading is stopped was so when it was stopped.
StopInv == TypeOK /\ (stop \/ tripped => Passed \subseteq caught)

\* A step of a trade keeps that.
LEMMA ProgressStops ==
    ASSUME StopInv, NEW t \in Trades, Progress(t)
    PROVE  stop' \/ tripped' => Passed' \subseteq caught'
<1> USE DEF Passed, Sending, OthersSame
<1>0. TypeOK /\ (stop \/ tripped => Passed \subseteq caught)
  BY DEF StopInv
<1>1. CASE Start(t)
  BY <1>0, <1>1, StepsOf DEF Start
<1>2. CASE Quoted(t)
  BY <1>0, <1>2, StepsOf DEF Quoted, Clear, ClearNow
<1>3. CASE Simulated(t)
  BY <1>0, <1>3, StepsOf DEF Simulated, Clear, ClearNow
<1>4. CASE Settle(t)
  BY <1>0, <1>4, StepsOf DEF Settle
<1>5. CASE FinalCall(t)
  BY <1>0, <1>5, StepsOf DEF FinalCall
<1>6. CASE ReadNonce(t)
  BY <1>0, <1>6, StepsOf DEF ReadNonce
<1>7. CASE Send(t)
  BY <1>0, <1>7, StepsOf DEF Send
<1>8. CASE Receipt(t)
  <2>1. Passed' \subseteq Passed
    BY <1>0, <1>8, StepsOf DEF Receipt
  <2>2. CASE fate[t] = "ok"
    <3>1. UNCHANGED <<stop, tripped, caught>>
      BY <1>8, <2>2 DEF Receipt
    <3> QED BY <1>0, <2>1, <3>1
  <2>3. CASE fate[t] # "ok"
    BY <1>8, <2>1, <2>3 DEF Receipt, Stopping
  <2> QED BY <2>2, <2>3
<1>9. CASE Save(t)
  BY <1>0, <1>9, StepsOf DEF Save, Merged
<1>10. CASE Book(t)
  BY <1>0, <1>10, StepsOf DEF Book, Added
<1>11. CASE Count(t)
  BY <1>0, <1>11, StepsOf DEF Count
<1>12. CASE Fails(t)
  BY <1>0, <1>12, StepsOf DEF Fails
<1> QED BY <1>1, <1>2, <1>3, <1>4, <1>5, <1>6, <1>7, <1>8, <1>9, <1>10, <1>11, <1>12
        DEF Progress, Refused, Timeout, WriteFails

\* So does every step.
LEMMA StopInductive == (Init => StopInv) /\ (StopInv /\ [Next]_vars => StopInv')
<1>1. Init => StopInv
  BY InitType DEF Init, StopInv
<1>2. StopInv /\ [Next]_vars => StopInv'
  <2> SUFFICES ASSUME StopInv, [Next]_vars PROVE StopInv'
    OBVIOUS
  <2>1. TypeOK'
    BY StepType DEF StopInv
  <2>2. CASE \E t \in Trades : Progress(t)
    BY <2>1, <2>2, ProgressStops DEF StopInv
  <2>3. CASE \E t \in Trades : Mine(t)
    <3>1. UNCHANGED <<stop, tripped, caught, trade>>
      BY <2>3 DEF Mine
    <3> QED BY <2>1, <3>1 DEF StopInv, Passed
  <2>4. CASE Rescue \/ Administer \/ (\E m \in Modes : SetMode(m)) \/ Rebuild \/ ReadStats \/ AssignStats
    <3>1. UNCHANGED <<stop, tripped, caught, trade>>
      BY <2>4 DEF Rescue, Administer, SetMode, Rebuild, ReadStats, TodayNet, AssignStats
    <3> QED BY <2>1, <3>1 DEF StopInv, Passed
  <2>5. CASE Activate
    BY <2>1, <2>5 DEF Activate, Stopping, StopInv, Passed
  <2>6. CASE Resume
    BY <2>1, <2>6 DEF Resume, StopInv
  <2>7. CASE Crash
    <3>1. \A t \in Trades : trade'[t] = trade[t] \/ trade'[t].at = "done"
      <4>1. \A t \in Trades : [trade[t] EXCEPT !.at = "done"].at = "done"
        BY DEF StopInv, TypeOK, Trade
      <4> QED BY <2>7, <4>1 DEF Crash
    <3>2. Passed' \subseteq Passed
      BY <3>1 DEF Passed, Sending
    <3> QED BY <2>1, <2>7, <3>2 DEF Crash, StopInv
  <2>8. CASE UNCHANGED vars
    BY <2>1, <2>8 DEF vars, StopInv, Passed
  <2> QED BY <2>2, <2>3, <2>4, <2>5, <2>6, <2>7, <2>8 DEF Next
<1> QED BY <1>1, <1>2

\* A stop, or a reverted transaction, lets only those be sent that had passed before it.
THEOREM StopObeyed == Spec => NothingNewIsSent
<1>1. StopInv /\ [Next]_vars => [\A t \in Trades : Sends(t) /\ (stop \/ tripped) => t \in caught]_vars
  <2> SUFFICES ASSUME StopInv, Next, NEW t \in Trades, Sends(t), stop \/ tripped
               PROVE  t \in caught
    BY DEF vars
  <2>1. CASE \E u \in Trades : Send(u)
    <3>1. PICK u \in Trades : Send(u)
      BY <2>1
    <3>2. u = t
      BY <3>1 DEF Send, Sends, StopInv, TypeOK
    <3> QED BY <3>1, <3>2 DEF Send, StopInv, Passed, Sending
  <2>2. CASE \E u \in Trades : Mine(u)
    <3>1. fate'[t] = fate[t] \/ fate[t] = "pending"
      BY <2>2 DEF Mine
    <3> QED BY <3>1 DEF Sends
  <2>3. CASE \A u \in Trades : ~Send(u) /\ ~Mine(u)
    <3>1. fate' = fate
      BY <2>3 DEF Next, Progress, Start, Quoted, Simulated, Settle, FinalCall, ReadNonce, Refused, Receipt,
           Timeout, Save, Book, Count, WriteFails, Fails, Rescue, Administer, SetMode, Rebuild, Activate,
           Resume, ReadStats, AssignStats, Crash
    <3> QED BY <3>1 DEF Sends
  <2> QED BY <2>1, <2>2, <2>3
<1> QED BY <1>1, StopInductive, PTL DEF Spec, NothingNewIsSent

--------------------------------------------------------------------------------
(* The contract's gains.                                                   *)

Won == {t \in Trades : fate[t] = "ok"}

\* One more trade has succeeded, or none.
LEMMA SuccessesCount ==
    ASSUME NEW S, IsFiniteSet(S), NEW t, t \notin S
    PROVE  Cardinality(S \cup {t}) = Cardinality(S) + 1
  BY FS_AddElement

GainsInv == RowsInv /\ GainsCoverQuotes

\* A block adds what the swaps made, at least the quote less the slippage, or nothing.
LEMMA MineGains ==
    ASSUME GainsInv, NEW t \in Trades, Mine(t)
    PROVE  GainsCoverQuotes'
<1>1. PICK p \in Profits, late \in BOOLEAN :
         LET ok == ~late /\ Succeeds(trade[t].quote, p) IN
         /\ fate' = [u \in Trades |->
                IF u = t THEN IF ok THEN "ok" ELSE "reverted"
                ELSE IF fate[u] = "pending" /\ trade[u].nonce = mined THEN "dropped" ELSE fate[u]]
         /\ balance' = IF ok THEN balance + p ELSE balance
         /\ quoted'  = IF ok THEN quoted + trade[t].quote ELSE quoted
  BY DEF Mine
<1>2. TypeOK /\ fate[t] = "pending" /\ rescued' = rescued
  BY DEF Mine, GainsInv, RowsInv
<1>3. trade[t].quote \in Int /\ p \in Int /\ Shortfall \in Int
  <2>1. trade[t] \in Trade
    BY <1>2 DEF TypeOK
  <2> QED BY <2>1, QuoteType, QuoteAssumption, AmountAssumption DEF Shortfall
<1>4. IsFiniteSet(Won)
  <2>1. Won \subseteq Trades
    BY DEF Won
  <2> QED BY <2>1, FS_Subset, TradeAssumption
<1>5. Successes = Cardinality(Won) /\ Successes' = Cardinality(Won') /\ Successes \in Nat
  BY <1>4, FS_CardinalityType DEF Successes, Won
<1>6. CASE ~late /\ Succeeds(trade[t].quote, p)
  <2>1. Won' = Won \cup {t} /\ t \notin Won
    BY <1>1, <1>2, <1>6 DEF Won
  <2>2. Successes' = Successes + 1
    BY <1>4, <1>5, <2>1, SuccessesCount
  <2>3. balance' = balance + p /\ quoted' = quoted + trade[t].quote
    BY <1>1, <1>6
  <2>4. p >= trade[t].quote - Shortfall
    BY <1>6 DEF Succeeds, MinOut, MinOutAsQuoted
  <2>5. balance \in Int /\ rescued \in Int /\ quoted \in Int /\ balance + rescued >= quoted - Shortfall * Successes
    BY <1>2 DEF TypeOK, GainsInv, GainsCoverQuotes
  <2>6. Shortfall * (Successes + 1) = Shortfall * Successes + Shortfall /\ Shortfall * Successes \in Int
    BY <1>3, <1>5
  <2>7. (balance + p) + rescued >= (quoted + trade[t].quote) - (Shortfall * Successes + Shortfall)
    <3> DEFINE q == trade[t].quote
               k == Shortfall * Successes
    <3>1. q \in Int /\ k \in Int /\ p >= q - Shortfall /\ balance + rescued >= quoted - k
      BY <1>3, <2>4, <2>5, <2>6
    <3> HIDE DEF q, k
    <3>2. (balance + p) + rescued >= (quoted + q) - (k + Shortfall)
      BY <1>3, <2>5, <3>1
    <3> QED BY <3>2 DEF q, k
  <2> QED BY <1>2, <2>2, <2>3, <2>6, <2>7 DEF GainsCoverQuotes
<1>7. CASE ~(~late /\ Succeeds(trade[t].quote, p))
  <2>1. Won' = Won
    BY <1>1, <1>2, <1>7 DEF Won
  <2>2. Successes' = Successes /\ balance' = balance /\ quoted' = quoted
    BY <1>1, <1>5, <1>7, <2>1
  <2> QED BY <1>2, <2>2 DEF GainsInv, GainsCoverQuotes
<1> QED BY <1>6, <1>7

\* The bound on the gains holds from the start and is kept.
LEMMA GainsInductive == (Init => GainsInv) /\ (GainsInv /\ [Next]_vars => GainsInv')
<1>1. Init => GainsInv
  <2> SUFFICES ASSUME Init PROVE GainsInv
    OBVIOUS
  <2>1. Won = {} /\ Successes = Cardinality(Won)
    BY DEF Init, Won, Successes
  <2>2. Successes = 0
    BY <2>1, FS_EmptySet
  <2>3. Shortfall * 0 = 0
    BY AmountAssumption DEF Shortfall
  <2> QED BY <2>2, <2>3, RowsInductive DEF Init, GainsInv, GainsCoverQuotes
<1>2. GainsInv /\ [Next]_vars => GainsInv'
  <2> SUFFICES ASSUME GainsInv, [Next]_vars PROVE GainsInv'
    OBVIOUS
  <2>1. RowsInv'
    BY RowsInductive DEF GainsInv
  <2>2. CASE \E t \in Trades : Mine(t)
    BY <2>1, <2>2, MineGains DEF GainsInv
  <2>3. CASE \E t \in Trades : Send(t)
    <3>1. PICK t \in Trades : Send(t)
      BY <2>3
    <3>2. fate[t] = "unsent" /\ fate \in [Trades -> Fates]
      BY <3>1 DEF Send, GainsInv, RowsInv, Told, Untouched, Sending, TypeOK, Fates
    <3>3. Won' = Won
      BY <3>1, <3>2 DEF Send, Won
    <3>4. Successes' = Successes
      BY <3>3 DEF Won, Successes
    <3>5. UNCHANGED <<balance, rescued, quoted>>
      BY <3>1 DEF Send
    <3> QED BY <2>1, <3>4, <3>5 DEF GainsInv, GainsCoverQuotes
  <2>4. CASE Rescue
    <3>1. Successes' = Successes /\ quoted' = quoted /\ rescued' = rescued + balance /\ balance' = 0
      BY <2>4 DEF Rescue, Successes
    <3>2. balance \in Nat /\ rescued \in Nat
      BY DEF GainsInv, RowsInv, TypeOK
    <3>3. balance' + rescued' = balance + rescued
      BY <3>1, <3>2
    <3> QED BY <2>1, <3>1, <3>3 DEF GainsInv, GainsCoverQuotes
  <2>5. CASE UNCHANGED <<fate, balance, rescued, quoted>>
    BY <2>1, <2>5 DEF GainsInv, GainsCoverQuotes, Successes
  <2>6. CASE Next /\ (\A t \in Trades : ~Send(t) /\ ~Mine(t)) /\ ~Rescue
    <3>1. UNCHANGED <<fate, balance, rescued, quoted>>
      BY <2>6 DEF Next, Progress, Start, Quoted, Simulated, Settle, FinalCall, ReadNonce, Refused, Receipt,
           Timeout, Save, Book, Count, WriteFails, Fails, Administer, SetMode, Rebuild, Activate,
           Resume, ReadStats, AssignStats, Crash
    <3> QED BY <2>5, <3>1
  <2>7. CASE UNCHANGED vars
    BY <2>5, <2>7 DEF vars
  <2> QED BY <2>2, <2>3, <2>4, <2>6, <2>7
<1> QED BY <1>1, <1>2

\* The contract's gains cover the quotes less the slippage, for any number of trades.
THEOREM GainsCovered == Spec => []GainsCoverQuotes
<1>1. GainsInv => GainsCoverQuotes
  BY DEF GainsInv
<1> QED BY <1>1, GainsInductive, PTL DEF Spec

--------------------------------------------------------------------------------
(* The books.  What a won transaction will still add to the day's LIVE net *)
(* is due; net and dues never exceed what the quotes of the won            *)
(* transactions leave after gas.                                           *)

\* Trades that can still be booked for a transaction that was won.
Due(t) ==
    IF fate[t] = "ok" /\ trade[t].at \in {"wait", "save", "book"} THEN trade[t].quote - Gas ELSE 0
AllDue == SumFunctionOnSet([t \in Trades |-> Due(t)], Trades)

\* A transaction is only sent for a quote that pays, and what is to be booked as
\* filled in LIVE has been won, unless a trade met a change of the mode.
Priced(t) ==
    /\ trade[t].at \in Sending \cup {"wait"} \/ fate[t] # "unsent" => Worth(trade[t].quote)
    /\ trade[t].at \in {"save", "book"} /\ trade[t].status = "FILLED" =>
           fate[t] = "ok" \/ mixed \/ mode = "PAPER"
    /\ trade[t].at = "book" => trade[t].status = "FILLED"

\* The net amounts booked and due are those of transactions that were won.
NetIsDue == ~mixed => pnl["LIVE"] + AllDue <= quoted - Gas * Successes

BooksInv == GainsInv /\ (\A t \in Trades : Priced(t)) /\ NetIsDue

\* A trade keeps its quote, and its status too, while it only moves on.
LEMMA QuoteKept ==
    ASSUME trade \in [Trades -> Trade], NEW t \in Trades
    PROVE  /\ \A phase : Goes(t, phase) => trade'[t].quote = trade[t].quote /\ trade'[t].status = trade[t].status
           /\ \A s : Ends(t, s) => trade'[t].quote = trade[t].quote
<1>1. trade[t] \in Trade
  OBVIOUS
<1>2. ASSUME NEW phase, Goes(t, phase)
      PROVE  trade'[t].quote = trade[t].quote /\ trade'[t].status = trade[t].status
  <2> DEFINE tr == [trade[t] EXCEPT !.at = phase]
  <2>1. Becomes(t, tr) /\ tr.quote = trade[t].quote /\ tr.status = trade[t].status
    BY <1>1, <1>2 DEF Goes, Trade
  <2> HIDE DEF tr
  <2> QED BY <2>1, Moved
<1>3. ASSUME NEW s, Ends(t, s) PROVE trade'[t].quote = trade[t].quote
  <2> DEFINE tr == [trade[t] EXCEPT !.at = "save", !.status = s]
  <2>1. Becomes(t, tr) /\ tr.quote = trade[t].quote
    BY <1>1, <1>3 DEF Ends, Trade
  <2> HIDE DEF tr
  <2> QED BY <2>1, Moved
<1> QED BY <1>2, <1>3

\* Only a quote that pays is decided to be sent.
LEMMA SentIsWorth ==
    ASSUME trade \in [Trades -> Trade], NEW t \in Trades, NEW q, NEW simulated, Decide(t, q, simulated),
           trade'[t].at = "call"
    PROVE  Worth(trade'[t].quote)
<1> DEFINE go     == simulated /\ Worth(q) /\ Clear(t)
           at     == IF ~go THEN "save" ELSE IF mode = "PAPER" THEN "settle" ELSE "call"
           status == IF go THEN "PENDING" ELSE "ABORTED"
           tr     == [trade[t] EXCEPT !.at = at, !.quote = q, !.limited = FALSE, !.status = status]
<1>1. Becomes(t, tr)
  BY DEF Decide
<1>2. trade[t] \in Trade
  OBVIOUS
<1>3. tr.at = at /\ tr.quote = q
  <2> HIDE DEF at, status
  <2> QED BY <1>2 DEF Trade
<1>4. trade'[t] = tr
  <2> HIDE DEF tr
  <2> QED BY <1>1, Moved
<1>5. trade'[t].at = at /\ trade'[t].quote = q
  <2> HIDE DEF at
  <2> QED BY <1>3, <1>4
<1> QED BY <1>5

\* What the steps of a trade do to its quote.
LEMMA QuotesOf ==
    ASSUME TypeOK, NEW t \in Trades
    PROVE  /\ Quoted(t) \/ Simulated(t) => (trade'[t].at = "call" => Worth(trade'[t].quote))
           /\ Settle(t) \/ FinalCall(t) \/ ReadNonce(t) \/ Send(t) \/ Fails(t) \/ Receipt(t)
                \/ Save(t) \/ Book(t) \/ Count(t)
              => trade'[t].quote = trade[t].quote
           /\ Save(t) => trade'[t].status = trade[t].status
                         /\ (trade'[t].at = "book" <=> trade[t].status = "FILLED")
<1>0. trade \in [Trades -> Trade] /\ trade[t] \in Trade
  BY DEF TypeOK
<1>1. Simulated(t) => (trade'[t].at = "call" => Worth(trade'[t].quote))
  BY <1>0, SentIsWorth DEF Simulated
<1>2. Quoted(t) => (trade'[t].at = "call" => Worth(trade'[t].quote))
  <2>1. Quoted(t) => \/ Ends(t, "ABORTED")
                     \/ \E q \in Quotes : Decide(t, q, q >= MinProfit)
                     \/ \E q \in Quotes : Becomes(t, [trade[t] EXCEPT !.at = "simulate", !.quote = q])
    BY DEF Quoted
  <2>2. ASSUME NEW q \in Quotes, Becomes(t, [trade[t] EXCEPT !.at = "simulate", !.quote = q])
        PROVE  trade'[t].at = "simulate"
    <3> DEFINE tr == [trade[t] EXCEPT !.at = "simulate", !.quote = q]
    <3>1. Becomes(t, tr) /\ tr.at = "simulate"
      BY <1>0, <2>2 DEF Trade
    <3> HIDE DEF tr
    <3> QED BY <1>0, <3>1, Moved
  <2>3. ASSUME NEW q \in Quotes, Decide(t, q, q >= MinProfit), trade'[t].at = "call"
        PROVE  Worth(trade'[t].quote)
    BY <1>0, <2>3, SentIsWorth
  <2>4. Ends(t, "ABORTED") => trade'[t].at = "save"
    BY <1>0, Moved
  <2> QED BY <2>1, <2>2, <2>3, <2>4
<1>3. ReadNonce(t) => trade'[t].quote = trade[t].quote
  <2> DEFINE tr == [trade[t] EXCEPT !.at = "send", !.nonce = mined]
  <2>1. tr.quote = trade[t].quote
    BY <1>0 DEF Trade
  <2>2. ReadNonce(t) => Becomes(t, tr)
    BY DEF ReadNonce
  <2> HIDE DEF tr
  <2> QED BY <1>0, <2>1, <2>2, Moved
<1>4. Settle(t) \/ FinalCall(t) \/ Send(t) \/ Fails(t) \/ Receipt(t) \/ Save(t) \/ Book(t) \/ Count(t)
        => trade'[t].quote = trade[t].quote
  BY <1>0, QuoteKept DEF Settle, FinalCall, Send, Fails, Receipt, Save, Book, Count, Merged, Added
<1>5. Save(t) => trade'[t].status = trade[t].status
                 /\ (trade'[t].at = "book" <=> trade[t].status = "FILLED")
  BY <1>0, QuoteKept, Moved DEF Save, Merged
<1> QED BY <1>1, <1>2, <1>3, <1>4, <1>5

\* A step of a trade keeps what is known of its price.
LEMMA ActorPriced ==
    ASSUME RowsInv, NEW t \in Trades, Progress(t), Priced(t)
    PROVE  Priced(t)'
<1> USE DEF Priced, Sending
<1>0. TypeOK /\ Told(t) /\ mixed \in BOOLEAN /\ UNCHANGED mode /\ (mixed => mixed')
  BY ActorTold DEF RowsInv, TypeOK, ModeSame
<1>1. CASE Start(t)
  <2>1. fate[t] = "unsent" /\ fate' = fate
    BY <1>0, <1>1 DEF Start, Told, Untouched, Before
  <2> QED BY <1>0, <1>1, <2>1, StepsOf
<1>2. CASE Quoted(t) \/ Simulated(t)
  <2>1. fate[t] = "unsent" /\ fate' = fate
    BY <1>0, <1>2 DEF Quoted, Simulated, Told, Untouched, Before
  <2> QED BY <1>0, <1>2, <2>1, StepsOf, QuotesOf
<1>3. CASE Settle(t)
  <2>1. fate[t] = "unsent" /\ fate' = fate /\ (mixed \/ mode = "PAPER")
    BY <1>0, <1>3 DEF Settle, Told, Untouched
  <2> QED BY <1>0, <1>3, <2>1, StepsOf
<1>4. CASE FinalCall(t)
  <2>1. fate' = fate /\ trade[t].at = "call"
    BY <1>4 DEF FinalCall
  <2> QED BY <1>0, <1>4, <2>1, StepsOf, QuotesOf
<1>5. CASE ReadNonce(t)
  <2>1. fate' = fate /\ trade[t].at = "nonce"
    BY <1>5 DEF ReadNonce
  <2> QED BY <1>0, <1>5, <2>1, StepsOf, QuotesOf
<1>6. CASE Send(t)
  <2>1. trade[t].at = "send"
    BY <1>6 DEF Send
  <2> QED BY <1>0, <1>6, <2>1, StepsOf, QuotesOf
<1>7. CASE Receipt(t)
  <2>1. fate' = fate /\ trade[t].at = "wait"
    BY <1>7 DEF Receipt
  <2> QED BY <1>0, <1>7, <2>1, StepsOf, QuotesOf
<1>8. CASE Save(t)
  <2>1. fate' = fate /\ trade[t].at = "save"
    BY <1>8 DEF Save, Merged
  <2> QED BY <1>0, <1>8, <2>1, StepsOf, QuotesOf
<1>9. CASE Book(t)
  <2>1. fate' = fate
    BY <1>9 DEF Book, Added
  <2> QED BY <1>0, <1>9, <2>1, StepsOf, QuotesOf
<1>10. CASE Count(t)
  <2>1. fate' = fate
    BY <1>10 DEF Count
  <2> QED BY <1>0, <1>10, <2>1, StepsOf, QuotesOf
<1>11. CASE Fails(t)
  <2>1. fate' = fate
    BY <1>11 DEF Fails
  <2> QED BY <1>0, <1>11, <2>1, StepsOf, QuotesOf
<1> QED BY <1>1, <1>2, <1>3, <1>4, <1>5, <1>6, <1>7, <1>8, <1>9, <1>10, <1>11
        DEF Progress, Refused, Timeout, WriteFails

\* So does every step, for every trade.
LEMMA StepPriced ==
    ASSUME RowsInv, \A t \in Trades : Priced(t), Next, NEW u \in Trades
    PROVE  Priced(u)'
<1>0. Priced(u) /\ TypeOK /\ mixed \in BOOLEAN
  BY DEF RowsInv, TypeOK
<1>1. CASE \E t \in Trades : Progress(t)
  <2>1. PICK t \in Trades : Progress(t)
    BY <1>1
  <2>2. CASE u = t
    BY <1>0, <2>1, <2>2, ActorPriced
  <2>3. CASE u # t
    <3>1. trade'[u] = trade[u] /\ fate'[u] = fate[u] /\ mode' = mode /\ (mixed => mixed')
      BY <2>1, <2>3, ActorTold DEF OthersSame, RecordsSame, ModeSame
    <3> QED BY <1>0, <3>1 DEF Priced
  <2> QED BY <2>2, <2>3
<1>2. CASE \E t \in Trades : Mine(t)
  <2>1. UNCHANGED <<trade, mode, mixed>>
    BY <1>2 DEF Mine
  <2>2. fate'[u] = fate[u] \/ fate[u] = "pending"
    BY <1>2 DEF Mine
  <2> QED BY <1>0, <2>1, <2>2 DEF Priced
<1>3. CASE (\E m \in Modes : SetMode(m)) \/ Rebuild
  <2>1. UNCHANGED <<trade, fate>> /\ (mixed => mixed')
    BY <1>3 DEF SetMode, Rebuild
  <2>2. trade[u].at \notin {"new", "done"} => mixed'
    BY <1>3 DEF SetMode, Rebuild, InFlight
  <2> QED BY <1>0, <2>1, <2>2 DEF Priced
<1>4. CASE Rescue \/ Administer \/ Activate \/ Resume \/ ReadStats \/ AssignStats
  <2>1. UNCHANGED <<trade, fate, mixed, mode>>
    BY <1>4 DEF Rescue, Administer, Activate, Resume, ReadStats, TodayNet, AssignStats
  <2> QED BY <1>0, <2>1 DEF Priced
<1>5. CASE Crash
  <2>1. UNCHANGED <<fate, mixed, mode>>
    BY <1>5 DEF Crash
  <2>2. CASE u \in InFlight
    <3>1. trade[u] \in Trade
      BY <1>0 DEF TypeOK
    <3>2. trade'[u].at = "done" /\ trade'[u].quote = trade[u].quote
      BY <1>5, <2>2, <3>1 DEF Crash, Trade
    <3> QED BY <1>0, <2>1, <3>2 DEF Priced, Sending
  <2>3. CASE u \notin InFlight
    <3>1. trade'[u] = trade[u]
      BY <1>5, <2>3 DEF Crash
    <3> QED BY <1>0, <2>1, <3>1 DEF Priced
  <2> QED BY <2>2, <2>3
<1> QED BY <1>1, <1>2, <1>3, <1>4, <1>5 DEF Next

\* Dues are numbers, and none of them is negative.
DueTypes == \A t \in Trades : Due(t) \in Nat
LEMMA DueIsNat == TypeOK /\ (\A t \in Trades : Priced(t)) => DueTypes
<1> SUFFICES ASSUME TypeOK, NEW t \in Trades, Priced(t) PROVE Due(t) \in Nat
  BY DEF DueTypes
<1>1. trade[t].quote \in Int /\ Gas \in Nat /\ MinProfit \in Nat
  BY QuoteType, AmountAssumption DEF TypeOK
<1>2. CASE fate[t] = "ok"
  <2>1. trade[t].quote - Gas >= MinProfit
    BY <1>2 DEF Priced, Worth
  <2>2. trade[t].quote - Gas \in Nat
    BY <1>1, <2>1
  <2> QED BY <2>2 DEF Due
<1>3. CASE fate[t] # "ok"
  BY <1>3 DEF Due
<1> QED BY <1>2, <1>3

\* The sum of the dues is a number.
LEMMA AllDueIsNat == DueTypes => AllDue \in Nat
<1> SUFFICES ASSUME DueTypes PROVE AllDue \in Nat
  OBVIOUS
<1> DEFINE f == [t \in Trades |-> Due(t)]
<1>1. f \in [Trades -> Int] /\ Trades \in SUBSET Trades /\ IsFiniteSet(Trades) /\ \A t \in Trades : f[t] >= 0
  BY TradeAssumption DEF DueTypes
<1>2. AllDue = SumFunctionOnSet(f, Trades)
  BY DEF AllDue
<1> HIDE DEF f
<1> QED BY <1>1, <1>2, SumBounds

\* When one due changes, so does their sum.
LEMMA DueChanges ==
    ASSUME DueTypes, DueTypes', NEW t \in Trades, \A u \in Trades \ {t} : Due(u)' = Due(u)
    PROVE  AllDue' = AllDue + (Due(t)' - Due(t))
<1> DEFINE f == [u \in Trades |-> Due(u)]
           g == [u \in Trades |-> Due(u)']
<1>1. /\ f \in [Trades -> Int] /\ g \in [Trades -> Int] /\ f[t] = Due(t) /\ g[t] = Due(t)'
      /\ Trades \in SUBSET Trades /\ IsFiniteSet(Trades)
  BY TradeAssumption DEF DueTypes
<1>2. \A u \in Trades \ {t} : f[u] = g[u]
  OBVIOUS
<1>3. AllDue = SumFunctionOnSet(f, Trades) /\ AllDue' = SumFunctionOnSet(g, Trades)
  BY DEF AllDue
<1> HIDE DEF f, g
<1>4. SumFunctionOnSet(g, Trades) = SumFunctionOnSet(f, Trades) + (g[t] - f[t])
  BY <1>1, <1>2, SumChanges
<1> QED BY <1>1, <1>3, <1>4

\* Without a due there is nothing to sum.
LEMMA NothingDue == (\A t \in Trades : Due(t) = 0) => AllDue = 0
<1> SUFFICES ASSUME \A t \in Trades : Due(t) = 0 PROVE AllDue = 0
  OBVIOUS
<1> DEFINE f == [t \in Trades |-> Due(t)]
<1>1. /\ f \in [Trades -> Int] /\ Trades \in SUBSET Trades /\ IsFiniteSet(Trades)
      /\ \A t \in Trades : f[t] >= 0 /\ f[t] = 0
  BY TradeAssumption
<1>2. AllDue = SumFunctionOnSet(f, Trades)
  BY DEF AllDue
<1> HIDE DEF f
<1> QED BY <1>1, <1>2, SumBounds

\* A step of a trade books no more than what falls due no longer.
LEMMA ActorNet ==
    ASSUME BooksInv, DueTypes, DueTypes', NEW t \in Trades, Progress(t), ~mixed
    PROVE  pnl'["LIVE"] + Due(t)' <= pnl["LIVE"] + Due(t)
<1>0. /\ TypeOK /\ Told(t) /\ Priced(t) /\ RowsInv
      /\ Due(t) \in Nat /\ Due(t)' \in Nat
      /\ pnl["LIVE"] \in Int
  BY DEF BooksInv, GainsInv, RowsInv, DueTypes, TypeOK, Modes
<1>1. CASE pnl' = pnl /\ Due(t)' = 0
  BY <1>0, <1>1
<1>2. CASE pnl' = pnl /\ Due(t)' = Due(t)
  BY <1>0, <1>2
<1>3. CASE Start(t) \/ Quoted(t) \/ Simulated(t) \/ Settle(t) \/ FinalCall(t) \/ ReadNonce(t)
  <2>1. fate[t] = "unsent" /\ fate' = fate /\ pnl' = pnl
    BY <1>0, <1>3 DEF Start, Quoted, Simulated, Settle, FinalCall, ReadNonce, Told, Untouched, Before, Sending
  <2>2. Due(t)' = 0
    BY <2>1 DEF Due
  <2> QED BY <1>1, <2>1, <2>2
<1>4. CASE Send(t)
  <2>1. fate'[t] = "pending" /\ pnl' = pnl
    BY <1>0, <1>4 DEF Send, TypeOK
  <2>2. Due(t)' = 0
    BY <2>1 DEF Due
  <2> QED BY <1>1, <2>1, <2>2
<1>5. CASE Receipt(t) \/ Save(t)
  <2>1. /\ UNCHANGED <<fate, pnl>> /\ trade[t].at \in {"wait", "save"}
        /\ trade'[t].quote = trade[t].quote
    BY <1>0, <1>5, QuotesOf DEF Receipt, Save, Merged
  <2>2. Due(t)' = Due(t) \/ Due(t)' = 0
    BY <2>1 DEF Due
  <2> QED BY <1>1, <1>2, <2>1, <2>2
<1>6. CASE Count(t) \/ Fails(t)
  <2>1. trade'[t].at = "done" /\ pnl' = pnl
    BY <1>0, <1>6, StepsOf DEF Count, Fails
  <2>2. Due(t)' = 0
    BY <2>1 DEF Due
  <2> QED BY <1>1, <2>1, <2>2
<1>7. CASE Book(t)
  <2>1. /\ trade[t].at = "book" /\ trade[t].status = "FILLED" /\ trade'[t].at = "count"
        /\ pnl' = [pnl EXCEPT ![mode] = pnl[mode] + Net(trade[t])]
    BY <1>0, <1>7, StepsOf DEF Book, Added, Priced
  <2>2. Due(t)' = 0
    BY <2>1 DEF Due
  <2>3. CASE mode = "PAPER"
    <3>1. pnl'["LIVE"] = pnl["LIVE"]
      BY <1>0, <2>1, <2>3 DEF TypeOK
    <3> QED BY <1>0, <2>2, <3>1
  <2>4. CASE mode # "PAPER"
    <3>1. fate[t] = "ok" /\ mode = "LIVE"
      BY <1>0, <2>1, <2>4 DEF Priced, TypeOK, Modes
    <3>2. Due(t) = Net(trade[t])
      BY <2>1, <3>1 DEF Due, Net, NetOfGas
    <3>3. pnl'["LIVE"] = pnl["LIVE"] + Net(trade[t])
      BY <1>0, <2>1, <3>1 DEF TypeOK, Modes
    <3> QED BY <1>0, <2>2, <3>2, <3>3
  <2> QED BY <2>3, <2>4
<1> QED BY <1>3, <1>4, <1>5, <1>6, <1>7 DEF Progress, Refused, Timeout, WriteFails

\* A block adds to the dues no more than it adds to what was won.
LEMMA MineNet ==
    ASSUME BooksInv, TypeOK', DueTypes, DueTypes', NEW t \in Trades, Mine(t), NetIsDue, ~mixed
    PROVE  pnl'["LIVE"] + AllDue' <= quoted' - Gas * Successes'
<1>1. PICK p \in Profits, late \in BOOLEAN :
         LET ok == ~late /\ Succeeds(trade[t].quote, p) IN
         /\ fate' = [u \in Trades |->
                IF u = t THEN IF ok THEN "ok" ELSE "reverted"
                ELSE IF fate[u] = "pending" /\ trade[u].nonce = mined THEN "dropped" ELSE fate[u]]
         /\ balance' = IF ok THEN balance + p ELSE balance
         /\ quoted'  = IF ok THEN quoted + trade[t].quote ELSE quoted
  BY DEF Mine
<1>2. /\ TypeOK /\ Priced(t) /\ fate[t] = "pending" /\ UNCHANGED <<pnl, trade>>
      /\ pnl["LIVE"] + AllDue <= quoted - Gas * Successes
  BY DEF Mine, BooksInv, GainsInv, RowsInv, NetIsDue
<1>3. /\ trade[t].quote \in Int /\ Gas \in Nat /\ MinProfit \in Nat
      /\ pnl["LIVE"] \in Int /\ quoted \in Int
  BY <1>2, QuoteType, AmountAssumption DEF TypeOK, Modes
<1>4. \A u \in Trades \ {t} : Due(u)' = Due(u)
  <2> SUFFICES ASSUME NEW u \in Trades \ {t} PROVE Due(u)' = Due(u)
    OBVIOUS
  <2>1. (fate'[u] = "ok") = (fate[u] = "ok")
    BY <1>1
  <2> QED BY <1>2, <2>1 DEF Due
<1>5. AllDue' = AllDue + (Due(t)' - Due(t)) /\ Due(t) = 0 /\ AllDue \in Nat /\ Due(t)' \in Nat
  BY <1>2, <1>4, DueChanges, AllDueIsNat DEF Due, DueTypes
<1>6. IsFiniteSet(Won) /\ Successes = Cardinality(Won) /\ Successes' = Cardinality(Won') /\ Successes \in Nat
  <2>1. Won \subseteq Trades
    BY DEF Won
  <2>2. IsFiniteSet(Won)
    BY <2>1, FS_Subset, TradeAssumption
  <2> QED BY <2>2, FS_CardinalityType DEF Successes, Won
<1>7. CASE ~late /\ Succeeds(trade[t].quote, p)
  <2>1. Won' = Won \cup {t} /\ t \notin Won
    BY <1>1, <1>2, <1>7 DEF Won
  <2>2. Successes' = Successes + 1
    BY <1>6, <2>1, SuccessesCount
  <2>3. quoted' = quoted + trade[t].quote
    BY <1>1, <1>7
  <2>4. Due(t)' <= trade[t].quote - Gas
    <3>1. trade[t].quote - Gas >= MinProfit
      BY <1>2 DEF Priced, Worth
    <3>2. Due(t)' = trade[t].quote - Gas \/ Due(t)' = 0
      BY <1>2 DEF Due
    <3> QED BY <1>3, <3>1, <3>2
  <2>5. Gas * (Successes + 1) = Gas * Successes + Gas /\ Gas * Successes \in Int
    BY <1>3, <1>6
  <2> DEFINE q == trade[t].quote
             k == Gas * Successes
             d == Due(t)'
  <2>6. /\ q \in Int /\ k \in Int /\ d \in Int /\ d <= q - Gas
        /\ pnl["LIVE"] + AllDue <= quoted - k
    BY <1>2, <1>3, <1>5, <2>4, <2>5
  <2> HIDE DEF q, k, d
  <2>7. pnl["LIVE"] + (AllDue + d) <= (quoted + q) - (k + Gas)
    BY <1>3, <1>5, <2>6
  <2>8. AllDue' = AllDue + d /\ Gas * Successes' = k + Gas /\ quoted' = quoted + q /\ pnl' = pnl
    BY <1>2, <1>5, <2>2, <2>3, <2>5 DEF q, k, d
  <2> QED BY <2>7, <2>8
<1>8. CASE ~(~late /\ Succeeds(trade[t].quote, p))
  <2>1. Won' = Won /\ fate'[t] = "reverted"
    BY <1>1, <1>2, <1>8 DEF Won
  <2>2. Successes' = Successes /\ quoted' = quoted /\ Due(t)' = 0
    BY <1>1, <1>6, <1>8, <2>1 DEF Due
  <2> QED BY <1>2, <1>5, <2>2
<1> QED BY <1>7, <1>8

\* Only a block changes which transactions were won.
LEMMA WonKept ==
    ASSUME RowsInv, NEW t \in Trades, Progress(t)
    PROVE  Successes' = Successes /\ quoted' = quoted
<1>1. CASE Send(t)
  <2>1. fate[t] = "unsent" /\ fate \in [Trades -> Fates]
    BY <1>1 DEF Send, RowsInv, Told, Untouched, Sending, TypeOK, Fates
  <2>2. Won' = Won /\ quoted' = quoted
    BY <1>1, <2>1 DEF Send, Won
  <2> QED BY <2>2 DEF Won, Successes
<1>2. CASE ~Send(t)
  <2>1. UNCHANGED <<fate, quoted>>
    BY <1>2 DEF Progress, Start, Quoted, Simulated, Settle, FinalCall, ReadNonce, Refused, Receipt,
       Timeout, Save, Book, Count, WriteFails, Fails
  <2> QED BY <2>1 DEF Successes
<1> QED BY <1>1, <1>2

\* The books keep within what was won, from the start and in every step.
LEMMA BooksInductive == (Init => BooksInv) /\ (BooksInv /\ [Next]_vars => BooksInv')
<1>1. Init => BooksInv
  <2> SUFFICES ASSUME Init PROVE BooksInv
    OBVIOUS
  <2>1. GainsInv /\ \A t \in Trades : Priced(t)
    BY GainsInductive DEF Init, Priced, Sending
  <2>2. AllDue = 0
    BY NothingDue DEF Init, Due
  <2>3. Won = {} /\ Successes = Cardinality(Won)
    BY DEF Init, Won, Successes
  <2>4. Gas * Successes = 0 /\ pnl["LIVE"] = 0 /\ quoted = 0
    BY <2>3, FS_EmptySet, AmountAssumption DEF Init, Modes
  <2> QED BY <2>1, <2>2, <2>4 DEF BooksInv, NetIsDue
<1>2. BooksInv /\ [Next]_vars => BooksInv'
  <2> SUFFICES ASSUME BooksInv, [Next]_vars PROVE BooksInv'
    OBVIOUS
  <2>1. GainsInv' /\ RowsInv /\ TypeOK /\ TypeOK'
    BY GainsInductive DEF BooksInv, GainsInv, RowsInv
  <2>2. \A t \in Trades : Priced(t)'
    <3>1. CASE Next
      BY <2>1, <3>1, StepPriced DEF BooksInv
    <3>2. CASE UNCHANGED vars
      BY <3>2 DEF BooksInv, vars, Priced
    <3> QED BY <3>1, <3>2
  <2>3. DueTypes
    BY <2>1, DueIsNat DEF BooksInv
  <2>4. DueTypes'
    <3>1. TypeOK' /\ (\A t \in Trades : Priced(t))' => DueTypes'
      BY DueIsNat, PTL
    <3> QED BY <2>1, <2>2, <3>1
  <2>5. /\ AllDue \in Nat /\ Gas * Successes \in Int
        /\ pnl["LIVE"] \in Int /\ quoted \in Int
    <3>1. Won \subseteq Trades /\ Successes = Cardinality(Won)
      BY DEF Won, Successes
    <3>2. Successes \in Nat
      BY <3>1, FS_Subset, FS_CardinalityType, TradeAssumption
    <3>3. Gas \in Nat
      BY AmountAssumption
    <3> QED BY <2>1, <2>3, <3>2, <3>3, AllDueIsNat DEF TypeOK, Modes
  <2> SUFFICES ASSUME ~mixed' PROVE pnl'["LIVE"] + AllDue' <= quoted' - Gas * Successes'
    BY <2>1, <2>2 DEF BooksInv, NetIsDue
  <2>6. CASE \E t \in Trades : Progress(t)
    <3>1. PICK t \in Trades : Progress(t)
      BY <2>6
    <3>2. ~mixed /\ OthersSame(t) /\ RecordsSame(t)
      BY <2>1, <3>1, ActorTold DEF ModeSame
    <3>3. \A u \in Trades \ {t} : Due(u)' = Due(u)
      BY <3>2 DEF OthersSame, RecordsSame, Due
    <3>4. AllDue' = AllDue + (Due(t)' - Due(t)) /\ Due(t) \in Nat /\ Due(t)' \in Nat
      BY <2>3, <2>4, <3>3, DueChanges DEF DueTypes
    <3>5. pnl'["LIVE"] + Due(t)' <= pnl["LIVE"] + Due(t) /\ pnl'["LIVE"] \in Int
      BY <2>1, <2>3, <2>4, <3>1, <3>2, ActorNet DEF TypeOK, Modes
    <3>6. Successes' = Successes /\ quoted' = quoted
      BY <2>1, <3>1, WonKept
    <3>7. pnl["LIVE"] + AllDue <= quoted - Gas * Successes
      BY <3>2 DEF BooksInv, NetIsDue
    <3> QED BY <2>5, <3>4, <3>5, <3>6, <3>7
  <2>7. CASE \E t \in Trades : Mine(t)
    <3>1. PICK t \in Trades : Mine(t)
      BY <2>7
    <3>2. ~mixed
      BY <3>1 DEF Mine
    <3> QED BY <2>1, <2>3, <2>4, <3>1, <3>2, MineNet DEF BooksInv
  <2>8. CASE UNCHANGED <<fate, pnl, quoted, trade>> /\ ~mixed
    BY <2>8 DEF BooksInv, NetIsDue, AllDue, Due, Successes
  <2>9. CASE Crash
    <3>1. \A t \in Trades : trade'[t].at \in {"new", "done"}
      <4>1. \A t \in Trades : [trade[t] EXCEPT !.at = "done"].at = "done"
        BY <2>1 DEF TypeOK, Trade
      <4> QED BY <2>9, <4>1 DEF Crash, InFlight
    <3>2. \A t \in Trades : Due(t)' = 0
      BY <3>1 DEF Due
    <3>3. AllDue' = 0
      <4>1. (\A t \in Trades : Due(t) = 0)' => (AllDue = 0)'
        BY NothingDue, PTL
      <4> QED BY <3>2, <4>1
    <3>4. UNCHANGED <<fate, pnl, quoted, mixed>>
      BY <2>9 DEF Crash
    <3>5. Successes' = Successes /\ pnl["LIVE"] + AllDue <= quoted - Gas * Successes
      BY <3>4 DEF Successes, BooksInv, NetIsDue
    <3> QED BY <2>5, <3>3, <3>4, <3>5
  <2>10. CASE (\E m \in Modes : SetMode(m)) \/ Rebuild
    BY <2>8, <2>10 DEF SetMode, Rebuild
  <2>11. CASE Rescue \/ Administer \/ Activate \/ Resume \/ ReadStats \/ AssignStats
    BY <2>8, <2>11 DEF Rescue, Administer, Activate, Resume, ReadStats, TodayNet, AssignStats
  <2>12. CASE UNCHANGED vars
    BY <2>8, <2>12 DEF vars
  <2> QED BY <2>6, <2>7, <2>9, <2>10, <2>11, <2>12 DEF Next
<1> QED BY <1>1, <1>2

\* The day's LIVE net is ahead of what the transactions made, after gas, by no more than
\* what each of them may fall short of its quote.
THEOREM BooksCovered == Spec => []BooksAreCovered
<1>1. BooksInv => BooksAreCovered
  <2> SUFFICES ASSUME BooksInv, ~mixed
               PROVE  pnl["LIVE"] <= balance + rescued - Gas * Successes + Shortfall * Successes
    BY DEF BooksAreCovered, Realized
  <2>1. TypeOK /\ pnl["LIVE"] + AllDue <= quoted - Gas * Successes /\ AllDue \in Nat
    BY DueIsNat, AllDueIsNat DEF BooksInv, GainsInv, RowsInv, NetIsDue
  <2>2. balance + rescued >= quoted - Shortfall * Successes
    BY DEF BooksInv, GainsInv, GainsCoverQuotes
  <2>3. Successes \in Nat /\ Gas \in Nat /\ Shortfall \in Int
    <3>1. Won \subseteq Trades /\ Successes = Cardinality(Won)
      BY DEF Won, Successes
    <3> QED BY <3>1, FS_Subset, FS_CardinalityType, TradeAssumption, AmountAssumption DEF Shortfall
  <2> DEFINE k == Shortfall * Successes
             m == Gas * Successes
  <2>5. k \in Int /\ m \in Int /\ pnl["LIVE"] + AllDue <= quoted - m /\ balance + rescued >= quoted - k
    BY <2>1, <2>2, <2>3
  <2>6. balance \in Nat /\ rescued \in Nat /\ quoted \in Int /\ pnl["LIVE"] \in Int
    BY <2>1 DEF TypeOK, Modes
  <2> HIDE DEF k, m
  <2>7. pnl["LIVE"] <= balance + rescued - m + k
    BY <2>1, <2>5, <2>6
  <2> QED BY <2>7 DEF k, m
<1> QED BY <1>1, BooksInductive, PTL DEF Spec
================================================================================
