------------------------------ MODULE MCVenues ------------------------------
(***************************************************************************)
(* The connectors' side for TLC.  Feed, orders and books share no state,   *)
(* so a run takes one of them at a time: the behaviours of each are those  *)
(* it has beside the others.                                               *)
(***************************************************************************)
EXTENDS MarketFeed, VenueOrders, OrderBook

VARIABLE part

TheSymbols == {"a", "b"}

\* An exchange that offers everything, and two that lack most of it.
TheExchanges == {Abilities, {"numbers"}, {"sockets"}}

\* Each symbol has numbers of its own, and they overlap.
TheBase == [s \in TheSymbols |-> IF s = "a" THEN 0 ELSE 1]

Level(p, a) == [price |-> p, amount |-> a]

\* Flat, steep, thin, with an empty level, and cheaper books.
TheDepths ==
    {{Level(100, 2), Level(101, 2), Level(103, 4)},
     {Level(100, 2), Level(110, 4)},
     {Level(102, 2), Level(101, 0), Level(104, 2)},
     {Level(98, 2), Level(99, 6)}}

\* The parts that are not taken stay where one of their first states is.
Init ==
    /\ part \in {"feed", "order", "book"}
    /\ FeedInit /\ OrderInit /\ BookInit
    /\ part # "feed" => offers = Abilities
    /\ part # "order" => venue = "pool"
    /\ part # "book" => ~pool /\ side = "buy" /\ Len(depth) = 3 /\ depth[1].price = 100

FeedStep == part = "feed" /\ FeedNext /\ UNCHANGED <<orderVars, bookVars>>
OrderStep == part = "order" /\ OrderNext /\ UNCHANGED <<feedVars, bookVars>>
BookStep == part = "book" /\ BookNext /\ UNCHANGED <<feedVars, orderVars>>

vars == <<part, feedVars, orderVars, bookVars>>

Spec ==
    /\ Init
    /\ [][(FeedStep \/ OrderStep \/ BookStep) /\ UNCHANGED part]_vars
    /\ part = "feed" => FeedFairness
=============================================================================
