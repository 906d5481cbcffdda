----------------------------- MODULE MCKeyStore -----------------------------
(* KeyStore for TLC: two gateways with a handler each, and what clients do. *)
EXTENDS KeyStore, TLC

CONSTANTS g1, g2, h1, h2

Apart == h1 :> g1 @@ h2 :> g2

(* Every operation but rotation, with one key; or rotations, with keys to   *)
(* rotate to; or a deletion among requests.                                 *)
Managing == [ops |-> {"request", "create", "update", "delete"}, keys |-> {SomeKey}]
Rotating == [ops |-> {"rotate"}, keys |-> Keys]
Deleting == [ops |-> {"request", "delete"}, keys |-> {SomeKey}]

Both == {Managing, Rotating}
DeletingOnly == {Deleting}
=============================================================================
