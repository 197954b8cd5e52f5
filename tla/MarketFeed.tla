----------------------------- MODULE MarketFeed -----------------------------
(***************************************************************************)
(* The market data of one venue and the breakers that depend on it: the    *)
(* feed task of every symbol (web socket, REST while it reconnects), the   *)
(* quality gate whose state the symbols share, the cached books, and the   *)
(* health loop, which asks for breakers under their FIFO lock, as the      *)
(* operator does, who resets them.  What makes a snapshot unsound          *)
(* (one-sided, crossed, too old, too wide, far from the other venues) is a *)
(* choice of the environment, and so is a price that jumps.  Snapshots     *)
(* carry a number of their own symbol, or none at all on a venue that      *)
(* gives none, where an older one may pass within a second.                *)
(***************************************************************************)
EXTENDS Naturals, Sequences

CONSTANTS
    Symbols,          \* symbols of the venue that have a feed
    Exchanges,        \* what the exchange may offer, as sets of Abilities
    Base,             \* where the numbers of a symbol's snapshots start
    MaxVersion,       \* bound: snapshots of a symbol that differ
    UnhealthyAfter,   \* quality.consecutive_rejections_unhealthy (5)
    RateLimitHits,    \* rate-limited health checks that pause the venue (3)
    MaxFaults         \* bound: what goes wrong outside the program, and resets by
                      \* the operator

\* fetchStatus, watchOrderBook, and a number in every snapshot.
Abilities == {"status", "sockets", "numbers"}

ASSUME MarketFeedAssumption ==
    /\ Exchanges \subseteq SUBSET Abilities
    /\ Base \in [Symbols -> Nat]
    /\ {UnhealthyAfter, RateLimitHits} \subseteq Nat \ {0}
    /\ {MaxVersion, MaxFaults} \subseteq Nat
    /\ {"health", "operator"} \cap Symbols = {}

VARIABLES
    offers,       \* abilities of this exchange, exchange.has; never changes
    cache,        \* hub.books: the version cached of each symbol, 0 when none
    quality,      \* VenueQuality: last number accepted, rejections in a row
    watching,     \* what each symbol's task reads: "ws", "rest" while it
                  \* reconnects, or "poll" when there are no sockets
    wsUp,         \* hub.stats[venue]["ws"], one for all symbols
    tracker,      \* HealthTracker: data_unhealthy, maintenance, rate limited
    maintenance,  \* whether the exchange is down for maintenance
    rateHits,     \* the counter rate_limit:<venue>
    inForce,      \* breakers in force for this venue, by reason
    queue,        \* callers of trip and reset in the order of the lock
    lastWord,     \* history: who decided last on the breaker for bad data, a
                  \* "rejection" that trips it or the "operator" who lifts it
    step,         \* the health loop's next step
    faults        \* what went wrong so far, the operator's resets included

feedVars == <<offers, cache, quality, watching, wsUp, tracker, maintenance, rateHits,
              inForce, queue, lastWord, step, faults>>
breakerVars == <<inForce, queue, lastWord>>

Reasons == {"data", "rapid_move", "rate_limit", "maintenance", "ws"}

\* --- Classification of a venue ---------------------------------------------

Healths == <<"healthy", "degraded", "unhealthy", "blocked">>

\* Position of a verdict among the healths, the worst one last.
Rank(h) == CHOOSE i \in DOMAIN Healths : Healths[i] = h

\* The worst of a set of verdicts.
Worst(S) == CHOOSE h \in S : \A g \in S : Rank(g) <= Rank(h)

\* HealthTracker.classify(): the marks, and what ages, latency, drift and
\* failures of calls add to them.
Classify(tr, statistics) ==
    Worst({"healthy", statistics}
          \cup (IF tr.maint THEN {"blocked"} ELSE {})
          \cup (IF tr.bad THEN {"unhealthy"} ELSE {})
          \cup (IF tr.rate THEN {"degraded"} ELSE {}))

\* --- Breakers: one lock, held across the write, served in order -------------

\* What a call does to the breakers of the venue; "any" resets all of them.
After(breakers, call) ==
    CASE call.op = "trip" -> breakers \cup {call.reason}
      [] call.op = "reset" /\ call.reason # "any" -> breakers \ {call.reason}
      [] OTHER -> {}

\* A call takes effect when it gets the lock: at once when nobody has it.
Ask(who, op, reason) ==
    LET call == [by |-> who, op |-> op, reason |-> reason]
    IN /\ queue' = Append(queue, call)
       /\ inForce' = IF queue = <<>> THEN After(inForce, call) ELSE inForce

\* A call of the program's own, which is no override of the operator's.
AskOwn(who, op, reason) == Ask(who, op, reason) /\ UNCHANGED lastWord

\* A task that does not wait for the lock or for its write.
Free(who) == \A i \in DOMAIN queue : queue[i].by # who

\* The callers behind the holder of the lock that ask for a breaker.
Asking(reason) == {i \in DOMAIN queue \ {1} : queue[i].reason \in {reason, "any"}}

\* A breaker is in force once everybody in the queue had the lock: the last that
\* asks for it trips it, or nobody asks and it is in force.
InForceAtLast(reason) ==
    IF Asking(reason) = {} THEN reason \in inForce
    ELSE \E i \in Asking(reason) :
            queue[i].op = "trip" /\ \A j \in Asking(reason) : j <= i

\* The holder's write ends, or raises and ends the health loop's pass; the
\* next caller gets the lock.
Saved(ok) ==
    /\ queue # <<>>
    /\ ok \/ faults < MaxFaults
    /\ queue' = Tail(queue)
    /\ inForce' = IF Len(queue) > 1 THEN After(inForce, queue[2]) ELSE inForce
    /\ step' = IF ~ok /\ queue[1].by = "health" THEN "status" ELSE step
    /\ faults' = IF ok THEN faults ELSE faults + 1
    /\ UNCHANGED <<offers, cache, quality, watching, wsUp, tracker, maintenance,
                   rateHits, lastWord>>

\* POST /system/breakers/reset: one reason or all of them.  Whether the next
\* rejection trips the breaker for bad data again is the feed's business.
OperatorResets ==
    /\ Free("operator")
    /\ \E reason \in Reasons \cup {"any"} :
          /\ Ask("operator", "reset", reason)
          /\ lastWord' = IF reason \in {"data", "any"} THEN "operator" ELSE lastWord
    /\ faults < MaxFaults /\ faults' = faults + 1
    /\ UNCHANGED <<offers, cache, quality, watching, wsUp, tracker, maintenance,
                   rateHits, step>>

\* --- The quality gate -------------------------------------------------------

Snapshots == [version : 1 .. MaxVersion, sound : BOOLEAN, jumps : BOOLEAN]

\* The number a snapshot carries.
Number(s, b) == Base[s] + b.version

\* MarketDataQuality._check(): numbers are compared with the last one accepted
\* from the venue, of whatever symbol.  Without numbers an older snapshot passes
\* when it is late by a second at most.
\* (Mutant: snapshots out of order pass.)
AcceptableUnordered(s, b) == b.sound
Acceptable(s, b) ==
    b.sound /\ ("numbers" \in offers => Number(s, b) > quality.last)

\* MarketDataQuality.is_unhealthy() of a state of the gate.
Unhealthy(q) == q.rejections >= UnhealthyAfter

\* What feeds mostly deliver: the next sound snapshot at a price near the last.
Ordinary(s, b) == b.sound /\ ~b.jumps /\ b.version > cache[s]

\* A price far from one in the window before it trips RAPID_MARKET_MOVE.
CheckRapidMove(s, b) ==
    IF b.jumps /\ cache[s] # 0 THEN AskOwn(s, "trip", "rapid_move")
                               ELSE UNCHANGED breakerVars

\* An accepted book replaces the cached one.
Accept(s, b) ==
    /\ quality' = [last |-> IF "numbers" \in offers THEN Number(s, b) ELSE quality.last,
                   rejections |-> 0]
    /\ cache' = [cache EXCEPT ![s] = b.version]
    /\ CheckRapidMove(s, b)
    /\ UNCHANGED tracker

\* A rejected one is counted, and on_reject marks the venue as the count says
\* and pauses it when it is bad.  (The mark goes when the count is below the
\* limit again; the breaker does not.)
Reject(s) ==
    LET q == [quality EXCEPT !.rejections = IF @ < UnhealthyAfter THEN @ + 1
                                                                  ELSE @]
    IN /\ quality' = q
       /\ tracker' = [tracker EXCEPT !.bad = Unhealthy(q)]
       /\ IF Unhealthy(q) THEN Ask(s, "trip", "data") /\ lastWord' = "rejection"
                          ELSE UNCHANGED breakerVars
       /\ UNCHANGED cache

\* hub.ingest(): no suspension between the verdict and the call of the lock.
Ingest(s, b) ==
    /\ Free(s)
    /\ Ordinary(s, b) \/ faults < MaxFaults
    /\ faults' = IF Ordinary(s, b) THEN faults ELSE faults + 1
    /\ IF Acceptable(s, b) THEN Accept(s, b) ELSE Reject(s)
    /\ UNCHANGED <<offers, watching, wsUp, maintenance, rateHits, step>>

\* --- Feed tasks -------------------------------------------------------------

\* watch_order_book() yields a snapshot.
WatchYields(s) ==
    watching[s] = "ws" /\ "sockets" \in offers /\ \E b \in Snapshots : Ingest(s, b)

\* watch_order_book() raises NotSupportedError: _rest_loop() for ever.
WatchUnsupported(s) ==
    /\ watching[s] = "ws" /\ "sockets" \notin offers
    /\ watching' = [watching EXCEPT ![s] = "poll"]
    /\ wsUp' = FALSE
    /\ UNCHANGED <<offers, cache, quality, tracker, maintenance, rateHits, step, faults>>
    /\ UNCHANGED breakerVars

\* The socket fails: REST until the backoff ends.
WatchFails(s) ==
    /\ watching[s] = "ws" /\ "sockets" \in offers /\ Free(s)
    /\ faults < MaxFaults /\ faults' = faults + 1
    /\ watching' = [watching EXCEPT ![s] = "rest"]
    /\ wsUp' = FALSE
    /\ UNCHANGED <<offers, cache, quality, tracker, maintenance, rateHits, step>>
    /\ UNCHANGED breakerVars

\* _poll_once() fetches a snapshot; during maintenance there is none.
PollAnswers(s) ==
    watching[s] \in {"rest", "poll"} /\ ~maintenance /\ \E b \in Snapshots : Ingest(s, b)

\* What _note_rate_limit() makes of a failing call.
Noted == IF maintenance THEN {[tracker EXCEPT !.maint = TRUE]}
                        ELSE {tracker, [tracker EXCEPT !.rate = TRUE]}

PollFails(s) ==
    /\ watching[s] \in {"rest", "poll"} /\ Free(s)
    /\ faults < MaxFaults /\ faults' = faults + 1
    /\ tracker' \in Noted
    /\ UNCHANGED <<offers, cache, quality, watching, wsUp, maintenance, rateHits, step>>
    /\ UNCHANGED breakerVars

\* The loop starts to watch again and says so before it is connected.
Reconnect(s) ==
    /\ watching[s] = "rest" /\ Free(s)
    /\ watching' = [watching EXCEPT ![s] = "ws"]
    /\ wsUp' = TRUE
    /\ UNCHANGED <<offers, cache, quality, tracker, maintenance, rateHits, step, faults>>
    /\ UNCHANGED breakerVars

\* --- The health loop, one action between two awaits --------------------------

\* health_check(): fetch_status answers, or fails, or its 15 s run out.  Where
\* there is none, nothing takes back a maintenance that a call once met.
CheckStatus ==
    /\ step = "status" /\ Free("health")
    /\ step' = "rate"
    /\ \/ /\ tracker' = IF "status" \in offers THEN [tracker EXCEPT !.maint = maintenance]
                                               ELSE tracker
          /\ UNCHANGED faults
       \/ /\ faults < MaxFaults /\ faults' = faults + 1
          /\ tracker' \in Noted \cup {tracker}
    /\ UNCHANGED <<offers, cache, quality, watching, wsUp, maintenance, rateHits>>
    /\ UNCHANGED breakerVars

\* Hits are counted in a window of five minutes: older ones may be gone.
CheckRate ==
    /\ step = "rate" /\ Free("health")
    /\ step' = "data"
    /\ IF tracker.rate
       THEN \E n \in 1 .. (rateHits + 1) :
                /\ rateHits' = IF n > RateLimitHits THEN RateLimitHits ELSE n
                /\ IF n >= RateLimitHits THEN AskOwn("health", "trip", "rate_limit")
                                         ELSE UNCHANGED breakerVars
       ELSE AskOwn("health", "reset", "rate_limit") /\ UNCHANGED rateHits
    /\ UNCHANGED <<offers, cache, quality, watching, wsUp, tracker, maintenance, faults>>

\* (Mutant: the mark goes whatever the feed delivers by now.)
CheckDataUnseen ==
    /\ step = "data" /\ Free("health")
    /\ step' = "maintenance"
    /\ IF tracker.bad
       THEN tracker' = [tracker EXCEPT !.bad = FALSE] /\ AskOwn("health", "reset", "data")
       ELSE UNCHANGED tracker /\ UNCHANGED breakerVars
    /\ UNCHANGED <<offers, cache, quality, watching, wsUp, maintenance, rateHits, faults>>

\* The feed is clean again: the mark goes and the breaker is lifted.
CheckData ==
    /\ step = "data" /\ Free("health")
    /\ step' = "maintenance"
    /\ IF tracker.bad /\ ~Unhealthy(quality)
       THEN tracker' = [tracker EXCEPT !.bad = FALSE] /\ AskOwn("health", "reset", "data")
       ELSE UNCHANGED tracker /\ UNCHANGED breakerVars
    /\ UNCHANGED <<offers, cache, quality, watching, wsUp, maintenance, rateHits, faults>>

\* (Mutant: the breaker is never lifted.)
CheckMaintenanceTripOnly ==
    /\ step = "maintenance" /\ Free("health")
    /\ step' = "ws"
    /\ IF tracker.maint THEN AskOwn("health", "trip", "maintenance")
                        ELSE UNCHANGED breakerVars
    /\ UNCHANGED <<offers, cache, quality, watching, wsUp, tracker, maintenance,
                   rateHits, faults>>

CheckMaintenance ==
    /\ step = "maintenance" /\ Free("health")
    /\ step' = "ws"
    /\ AskOwn("health", IF tracker.maint THEN "trip" ELSE "reset", "maintenance")
    /\ UNCHANGED <<offers, cache, quality, watching, wsUp, tracker, maintenance,
                   rateHits, faults>>

\* A lost socket degrades the venue; it does not pause it.
CheckWs ==
    /\ step = "ws" /\ Free("health")
    /\ step' = "status"
    /\ AskOwn("health", IF wsUp THEN "reset" ELSE "trip", "ws")
    /\ UNCHANGED <<offers, cache, quality, watching, wsUp, tracker, maintenance,
                   rateHits, faults>>

Check == CheckStatus \/ CheckRate \/ CheckData \/ CheckMaintenance \/ CheckWs

\* --- The exchange and time ----------------------------------------------------

MaintenanceStarts ==
    /\ ~maintenance /\ maintenance' = TRUE
    /\ faults < MaxFaults /\ faults' = faults + 1
    /\ UNCHANGED <<offers, cache, quality, watching, wsUp, tracker, rateHits, step>>
    /\ UNCHANGED breakerVars

MaintenanceEnds ==
    /\ maintenance /\ maintenance' = FALSE
    /\ UNCHANGED <<offers, cache, quality, watching, wsUp, tracker, rateHits, step, faults>>
    /\ UNCHANGED breakerVars

\* The 30 seconds of a rate limit are over.
RateLimitEnds ==
    /\ tracker.rate /\ tracker' = [tracker EXCEPT !.rate = FALSE]
    /\ UNCHANGED <<offers, cache, quality, watching, wsUp, maintenance, rateHits,
                   step, faults>>
    /\ UNCHANGED breakerVars

\* ------------------------------------------------------------------------------

FeedInit ==
    /\ offers \in Exchanges
    /\ cache = [s \in Symbols |-> 0]
    /\ quality = [last |-> 0, rejections |-> 0]
    /\ watching = [s \in Symbols |-> "ws"] /\ wsUp = TRUE
    /\ tracker = [bad |-> FALSE, maint |-> FALSE, rate |-> FALSE]
    /\ maintenance = FALSE /\ rateHits = 0
    /\ inForce = {} /\ queue = <<>> /\ lastWord = "rejection"
    /\ step = "status" /\ faults = 0

FeedNext ==
    \/ \E s \in Symbols :
          \/ WatchYields(s) \/ WatchFails(s) \/ WatchUnsupported(s)
          \/ PollAnswers(s) \/ PollFails(s) \/ Reconnect(s)
    \/ \E ok \in BOOLEAN : Saved(ok)
    \/ Check \/ OperatorResets
    \/ MaintenanceStarts \/ MaintenanceEnds \/ RateLimitEnds

\* What holds of the feed whatever the scheduling.
FeedSpec == FeedInit /\ [][FeedNext]_feedVars

\* The loops are scheduled, a lock's writes end, rate limits pass, and a backoff
\* ends however often its polls waited for the lock: strong fairness.  Nothing
\* is asked of the exchange.
FeedFairness ==
    /\ \A s \in Symbols : SF_feedVars(Reconnect(s))
    /\ WF_feedVars(Check)
    /\ WF_feedVars(\E ok \in BOOLEAN : Saved(ok))
    /\ WF_feedVars(RateLimitEnds)

\* --- Properties -----------------------------------------------------------------

\* A venue whose books keep being rejected is out of use: it is classified
\* unhealthy or worse, and its breaker is in force once the calls that wait for
\* the lock had it, unless the operator lifted it and no book was rejected since
\* (app._on_market_data_reject against the health loop's recovery, which may run
\* between two rejections, and against the resets of the API).
UnhealthyIsPaused ==
    Unhealthy(quality) =>
        /\ lastWord = "operator" \/ InForceAtLast("data")
        /\ \A h \in {"healthy", "degraded", "unhealthy"} :
              Rank(Classify(tracker, h)) >= Rank("unhealthy")

\* Where snapshots have numbers, a cached book is never replaced by an older one
\* of its symbol, over sockets, REST fallbacks and late snapshots
\* (quality._check, hub.ingest).
BooksGoForward ==
    [][\A s \in Symbols : "numbers" \in offers => cache'[s] >= cache[s]]_feedVars

\* Breakers that nothing but the operator lifts: for maintenance when the exchange
\* has no fetchStatus and a call met it, for the socket when there is none.
Lasting ==
    {r \in {"maintenance", "ws"} :
        \/ r = "maintenance" /\ tracker.maint /\ "status" \notin offers
        \/ r = "ws" /\ "sockets" \notin offers}

\* When the exchange stays out of maintenance, the breakers for rate limits,
\* maintenance and the socket are lifted for good (the health loop's else
\* branches), the lasting ones apart, although a pass may be cut short by a
\* failing write and the operator resets what he likes.
QuietVenueRecovers ==
    <>[]~maintenance =>
        <>[](inForce \cap ({"rate_limit", "maintenance", "ws"} \ Lasting) = {})
=============================================================================
