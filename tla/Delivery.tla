------------------------------ MODULE Delivery ------------------------------
(***************************************************************************)
(* What the consumers of a stream promise, whoever they are and however    *)
(* often they fail (gateflow/metrics_worker.py, "at-least-once delivery    *)
(* semantics"; gateflow/notifications.py, "the same consumer-group         *)
(* semantics"): an entry is ended only after one evaluation of it had all  *)
(* its effects, or after it was put aside as undeliverable.  It may be     *)
(* evaluated, and have its effects, more than once, and even later.        *)
(***************************************************************************)
EXTENDS Naturals

CONSTANTS
    Total,          \* bound: entries ever added
    Effects         \* what an entry may cause: anomalies added, webhooks called

VARIABLES
    added,          \* entries 1..added are in the stream
    owed,           \* owed[e]: for each evaluation of e, the effects it asked for
    reached,        \* the effects that took place: pairs of entry and effect
    aside,          \* entries that were put aside
    ended           \* entries that will not be delivered again

vars == <<added, owed, reached, aside, ended>>

Entries == 1..Total

Settled(e) ==
    \/ \E S \in owed[e] : \A t \in S : <<e, t>> \in reached
    \/ e \in aside

Init ==
    /\ added = 0
    /\ owed = [e \in Entries |-> {}]
    /\ reached = {}
    /\ aside = {}
    /\ ended = {}

Add ==
    /\ added < Total
    /\ added' = added + 1
    /\ UNCHANGED <<owed, reached, aside, ended>>

Evaluate(e) ==
    /\ e <= added
    /\ \E S \in SUBSET Effects : owed' = [owed EXCEPT ![e] = @ \cup {S}]
    /\ UNCHANGED <<added, reached, aside, ended>>

Reach(e) ==
    /\ \E S \in owed[e] : \E t \in S : reached' = reached \cup {<<e, t>>}
    /\ UNCHANGED <<added, owed, aside, ended>>

PutAside(e) ==
    /\ owed[e] # {}
    /\ aside' = aside \cup {e}
    /\ UNCHANGED <<added, owed, reached, ended>>

End(e) ==
    /\ Settled(e)
    /\ ended' = ended \cup {e}
    /\ UNCHANGED <<added, owed, reached, aside>>

Next ==
    \/ Add
    \/ \E e \in Entries : Evaluate(e) \/ Reach(e) \/ PutAside(e) \/ End(e)

Spec == Init /\ [][Next]_vars
=============================================================================
