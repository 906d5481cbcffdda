---------------------------- MODULE MCTelemetry ----------------------------
(* A small instance of Telemetry: what happens where.                       *)
EXTENDS Telemetry, TLC
CONSTANTS g1, g2, e1, e2, e3, e4, a1
Homes == e1 :> g1 @@ e2 :> g1 @@ e3 :> g1 @@ e4 :> g2 @@ a1 :> g1
=============================================================================
