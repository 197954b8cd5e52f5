---------------------------- MODULE VenueOrders ----------------------------
(***************************************************************************)
(* One order from the engine's request to the connector's answer, at an    *)
(* exchange (ccxt: create, poll, cancel, fetch again) or through the       *)
(* gateway (one POST, then polls of the transaction), while the venue      *)
(* executes it and answers get lost.  The answer is what a trade is booked *)
(* with; the order is what really happened.                                *)
(***************************************************************************)
EXTENDS Naturals

CONSTANTS
    Size,      \* what is ordered, in lots
    MaxLost    \* bound: calls that fail

ASSUME VenueOrdersAssumption == Size \in Nat \ {0} /\ MaxLost \in Nat

VARIABLES
    venue,     \* "ccxt", or a gateway connector: "router", "pool"
    order,     \* at the venue: how often accepted, state, executed, IOC or not
    result,    \* OrderResult: status, filled, and the lots its fills record
    pc,        \* where place_order() is
    plain,     \* ccxt: create again without timeInForce
    requoted,  \* router: the engine asked for a second quote
    blind,     \* a call failed and left the connector without the truth
    lostAnswers       \* calls that failed so far

orderVars == <<venue, order, result, pc, plain, requoted, blind, lostAnswers>>

\* OrderResult.is_terminal; a partial fill is not.
Terminal(r) == r.status \in {"filled", "cancelled", "rejected", "failed"}

Larger(a, b) == IF a > b THEN a ELSE b

\* The call in progress fails.
Lose == lostAnswers < MaxLost /\ lostAnswers' = lostAnswers + 1

\* An answer the caller gets, or an exception it turns into "failed".
Answer(status, filled) ==
    /\ result' = [status |-> status, filled |-> filled, fills |-> filled]
    /\ pc' = "done"

\* --- The venue ---------------------------------------------------------------

\* What a venue may have done with an order it just accepted.  An exchange may
\* call an immediate-or-cancel order closed although it is partly filled.
Accepted(ioc) ==
    {o \in [accepted : {order.accepted + 1}, state : {"open", "closed", "cancelled"},
            executed : 0 .. Size, ioc : {ioc}] :
        /\ o.executed = Size => o.state = "closed"
        /\ o.state = "closed" => o.executed = Size \/ (ioc /\ o.executed > 0)
        /\ o.state = "cancelled" => ioc}

\* A swap is included as a whole or fails.
Swapped == {[accepted |-> order.accepted + 1, state |-> "open", executed |-> 0,
             ioc |-> FALSE]}

\* An exchange fills an open order lot by lot, a chain at once.
Executes ==
    /\ order.state = "open"
    /\ \E n \in (order.executed + 1) .. Size :
          /\ venue # "ccxt" => n = Size
          /\ order' = [order EXCEPT !.executed = n,
                                    !.state = IF n = Size THEN "closed" ELSE "open"]
    /\ UNCHANGED <<venue, result, pc, plain, requoted, blind, lostAnswers>>

\* The rest of an immediate-or-cancel order expires, or the transaction fails.
Expires ==
    /\ order.state = "open"
    /\ venue = "ccxt" => order.ioc
    /\ order' = [order EXCEPT !.state = "cancelled"]
    /\ UNCHANGED <<venue, result, pc, plain, requoted, blind, lostAnswers>>

\* --- ccxt -----------------------------------------------------------------------

\* Fills are taken from the first report that lists any; it may list some only.
FillsTold(r, o) == IF r.fills = 0 THEN 0 .. o.executed ELSE {r.fills}

\* A result that will not change any more, but for the fills of what is filled.
Leaves(r) == IF r.filled > 0 /\ r.fills = 0 THEN "fills" ELSE "done"

\* (Mutant: closed is taken for filled.)
ApplyClosedIsFilled(r, o) ==
    {[filled |-> IF o.state = "closed" THEN Size ELSE Larger(r.filled, o.executed),
      status |-> IF o.state = "closed" THEN "filled" ELSE o.state,
      fills |-> n] : n \in FillsTold(r, o)}

\* _apply_order() of the order as the exchange reports it: what may follow.
Apply(r, o) ==
    LET filled == Larger(r.filled, o.executed)
    IN {[filled |-> filled,
         status |-> IF o.state = "closed" \/ o.executed = Size THEN "filled"
                    ELSE IF filled > 0 THEN "partially_filled"
                    ELSE o.state,
         fills |-> n] : n \in FillsTold(r, o)}

\* The checks before anything is sent: credentials, wallet, minimum amounts.
Refuse ==
    /\ pc = "create" /\ ~plain /\ ~requoted
    /\ Answer("failed", 0)
    /\ UNCHANGED <<venue, order, plain, requoted, blind, lostAnswers>>

\* create_order() is accepted and answered; the answer may be the id alone.
CreateAnswered ==
    /\ venue = "ccxt" /\ pc = "create"
    /\ order' \in Accepted(~plain)
    /\ result' \in {result} \cup Apply(result, order')
    /\ pc' = IF Terminal(result') THEN Leaves(result') ELSE "poll"
    /\ UNCHANGED <<venue, plain, requoted, blind, lostAnswers>>

\* It is refused: once more without timeInForce when that is the complaint.
CreateRefused ==
    /\ venue = "ccxt" /\ pc = "create"
    /\ \/ ~plain /\ plain' = TRUE /\ UNCHANGED <<result, pc>>
       \/ Answer("rejected", 0) /\ UNCHANGED plain
    /\ UNCHANGED <<venue, order, requoted, blind, lostAnswers>>

\* (Mutant: created again after a timeout.)
CreateLostRetried ==
    /\ venue = "ccxt" /\ pc = "create" /\ Lose
    /\ order' \in {order} \cup Accepted(~plain)
    /\ UNCHANGED <<venue, result, pc, plain, requoted, blind>>

\* No answer: VenueUnavailable is raised, whether the order arrived or not.
CreateLost ==
    /\ venue = "ccxt" /\ pc = "create" /\ Lose
    /\ order' \in {order} \cup Accepted(~plain)
    /\ Answer("failed", 0) /\ blind' = TRUE
    /\ UNCHANGED <<venue, plain, requoted>>

\* The order is fetched every quarter of a second; failures are left at that.
Poll ==
    /\ pc = "poll"
    /\ \/ /\ result' \in Apply(result, order)
          /\ pc' = IF Terminal(result') THEN Leaves(result') ELSE "poll"
          /\ UNCHANGED lostAnswers
       \/ Lose /\ UNCHANGED <<result, pc>>
    /\ UNCHANGED <<venue, order, plain, requoted, blind>>

\* The order once a cancellation reached the venue.
Withdrawn == IF order.state = "open" THEN [order EXCEPT !.state = "cancelled"]
                                     ELSE order

\* The deadline passed: cancel what is open (OrderNotFound says that nothing
\* is), and fetch once more whatever the cancellation said.
Cancel ==
    /\ pc = "poll" /\ pc' = "refetch"
    /\ \/ order' = Withdrawn /\ UNCHANGED <<blind, lostAnswers>>
       \/ /\ Lose
          /\ order' \in {order, Withdrawn}
          /\ blind' = (order'.state = "open")
    /\ UNCHANGED <<venue, result, plain, requoted>>

\* What is not final by now is given out as cancelled or partly filled.
GivenOut(r) ==
    IF Terminal(r) THEN r
    ELSE [r EXCEPT !.status = IF r.filled = 0 THEN "cancelled" ELSE "partially_filled"]

\* (Mutant: what the last poll said is given out.)
RefetchSkipped ==
    /\ pc = "refetch"
    /\ result' = GivenOut(result) /\ pc' = Leaves(result')
    /\ UNCHANGED <<venue, order, plain, requoted, blind, lostAnswers>>

Refetch ==
    /\ pc = "refetch"
    /\ \/ /\ \E r \in Apply(result, order) : result' = GivenOut(r)
          /\ UNCHANGED <<blind, lostAnswers>>
       \/ Lose /\ result' = GivenOut(result) /\ blind' = TRUE
    /\ pc' = Leaves(result')
    /\ UNCHANGED <<venue, order, plain, requoted>>

\* _load_fills(): the account's trades that name the order, as far as listed.
LoadFills ==
    /\ pc = "fills" /\ pc' = "done"
    /\ \/ /\ \E n \in 0 .. order.executed : result' = [result EXCEPT !.fills = n]
          /\ UNCHANGED lostAnswers
       \/ Lose /\ UNCHANGED result
    /\ UNCHANGED <<venue, order, plain, requoted, blind>>

\* --- Gateway ----------------------------------------------------------------------

\* A router's quote is older than eight seconds: nothing is sent.  The engine
\* asks for another, once, and gives up when it is worse or cannot be had.
QuoteExpires ==
    /\ venue = "router" /\ pc = "create"
    /\ \/ ~requoted /\ requoted' = TRUE /\ UNCHANGED <<result, pc>>
       \/ ~requoted /\ Answer("rejected", 0) /\ UNCHANGED requoted
       \/ Answer("failed", 0) /\ UNCHANGED requoted
    /\ UNCHANGED <<venue, order, plain, blind, lostAnswers>>

\* The one POST is answered: confirmed, failed, pending (or timed out with a
\* signature to ask for), or refused before anything was sent.
SwapAnswered ==
    /\ venue # "ccxt" /\ pc = "create"
    /\ \/ \E o \in Swapped :
             \/ /\ order' = [o EXCEPT !.state = "closed", !.executed = Size]
                /\ Answer("filled", Size)
             \/ /\ order' = [o EXCEPT !.state = "cancelled"]
                /\ Answer("failed", 0)
             \/ order' = o /\ pc' = "confirm" /\ UNCHANGED result
       \/ \E status \in {"rejected", "failed"} :
             Answer(status, 0) /\ UNCHANGED order
    /\ UNCHANGED <<venue, plain, requoted, blind, lostAnswers>>

\* The POST times out without a signature (an exception), or the gateway does
\* not answer at all, which is read as a refusal.
SwapLost ==
    /\ venue # "ccxt" /\ pc = "create" /\ Lose
    /\ order' \in {order} \cup Swapped
    /\ \E status \in {"rejected", "failed"} : Answer(status, 0)
    /\ blind' = TRUE
    /\ UNCHANGED <<venue, plain, requoted>>

\* poll() tells that the transaction is included, or that it failed.
Confirm ==
    /\ pc = "confirm" /\ order.state # "open"
    /\ IF order.state = "closed" THEN Answer("filled", Size) ELSE Answer("failed", 0)
    /\ UNCHANGED <<venue, order, plain, requoted, blind, lostAnswers>>

\* The polls find nothing, or fail, until the deadline: left open.
ConfirmTimesOut ==
    /\ pc = "confirm"
    /\ Answer("open", 0)
    /\ UNCHANGED <<venue, order, plain, requoted, blind, lostAnswers>>

\* ------------------------------------------------------------------------------

OrderInit ==
    /\ venue \in {"ccxt", "router", "pool"}
    /\ order = [accepted |-> 0, state |-> "none", executed |-> 0, ioc |-> FALSE]
    /\ result = [status |-> "new", filled |-> 0, fills |-> 0]
    /\ pc = "create" /\ plain = FALSE /\ requoted = FALSE
    /\ blind = FALSE /\ lostAnswers = 0

PlaceOrder ==
    \/ Refuse \/ CreateAnswered \/ CreateRefused \/ CreateLost
    \/ Poll \/ Cancel \/ Refetch \/ LoadFills
    \/ QuoteExpires \/ SwapAnswered \/ SwapLost \/ Confirm \/ ConfirmTimesOut

OrderNext == PlaceOrder \/ Executes \/ Expires

OrderSpec == OrderInit /\ [][OrderNext]_orderVars

\* --- Properties -----------------------------------------------------------------

\* At no point the connector reports more than the venue executed, so a trade
\* is never booked or hedged for lots that do not exist, and no lot is counted
\* twice among its fills (_apply_order over several reports, _load_fills,
\* _apply_confirmed).
NeverOverstated == result.filled <= order.executed /\ result.fills <= order.executed

\* A final answer is the whole truth unless a call failed that left the
\* connector blind: nothing can be executed any more and all that was is in
\* the answer, however the fills fell between the polls, the cancellation and
\* the last fetch (ccxt place_order, gateway _await_confirmation).
AnswerIsTrue ==
    pc = "done" /\ ~blind /\ result.status # "open" =>
        order.state # "open" /\ result.filled = order.executed

\* One request is accepted by a venue at most once, over the second create
\* without timeInForce, the second quote and the lost answers ("a POST is sent
\* exactly once", gateway_client._request).
SentOnce == order.accepted <= 1
=============================================================================
