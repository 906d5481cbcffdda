----------------------------- MODULE MCGateway ------------------------------
(* Gateway for TLC: two handler slots, r1 and r2, that serve one user.      *)
EXTENDS Gateway, TLC

CONSTANTS r1, r2, k1

OneEach == r1 :> 1 @@ r2 :> 1     \* two keys, each with a quota of one
SameKey == r1 :> k1 @@ r2 :> k1   \* both send the same idempotent request
=============================================================================
