---------------------------- MODULE MCTierStore -----------------------------
(* TierStore on a small instance: one tier, one key, two gateways with a    *)
(* handler each.                                                            *)
EXTENDS TierStore, TLC

CONSTANTS t1, k1, g1, g2, h1, h2, v1, v2

MCTierOf == k1 :> t1
MCHome == h1 :> g1 @@ h2 :> g2

(* The versions are alike, and so are the gateways with their handlers.     *)
Swapped == g1 :> g2 @@ g2 :> g1 @@ h1 :> h2 @@ h2 :> h1
Kept == g1 :> g1 @@ g2 :> g2 @@ h1 :> h1 @@ h2 :> h2
Symmetry == {p @@ q : p \in Permutations({v1, v2}), q \in {Swapped, Kept}}
=============================================================================
