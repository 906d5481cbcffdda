------------------------------ MODULE MCPortal ------------------------------
(* A small instance of Portal: who has which key at the start.              *)
EXTENDS Portal, TLC
CONSTANTS u1, u2, k1, k2, k3, k4, k5, k6
OneEach == u1 :> k1 @@ u2 :> k2
Spares == Permutations({k3, k4, k5, k6})
=============================================================================
