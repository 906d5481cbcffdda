---------------------------- MODULE MCRouteTable ----------------------------
(* RouteTable for TLC: in one gateway the listener, the health check and    *)
(* two handlers refresh one table.                                          *)
EXTENDS RouteTable, TLC

CONSTANTS g1, h1, h2, p1

AllInOne == h1 :> g1 @@ h2 :> g1

(* What a gateway does with its table is no matter of steps: Router holds   *)
(* for all the tables of up to three routes, in all orders, and all paths.  *)
Small == INSTANCE Router WITH
            Names <- {"a", "b"}, MaxPrefix <- 2, MaxPath <- 3, MaxRoutes <- 3

ASSUME Matching == Small!LongestWins
ASSUME Forwarding == Small!NothingLost
=============================================================================
