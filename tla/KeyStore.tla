------------------------------ MODULE KeyStore ------------------------------
(***************************************************************************)
(* API keys across their three homes: the rows of the database, the Redis  *)
(* copies (gateflow/store.py) and the in-memory cache of each gateway      *)
(* (gateflow/cache.py), under the handlers that use them: authenticate and *)
(* the request counter (gateflow/auth.py, gateflow/proxy.py), the admin    *)
(* API (gateflow/admin/keys.py) and key rotation (gateflow/portal.py).     *)
(*                                                                         *)
(* A transaction of the database, which checks what it writes or fails, a  *)
(* Redis command and an access to the local cache are one step each: every *)
(* one of them is awaited, so that other handlers, here or in another      *)
(* gateway, run between any two.                                           *)
(*                                                                         *)
(* Of a record the model keeps whether the key may be used.  Keys are      *)
(* hashed with one secret.                                                 *)
(***************************************************************************)
EXTENDS Naturals

CONSTANTS
    Keys,           \* hashes of API keys
    Gateways,       \* gateway processes
    Handlers,       \* handlers of requests, used again and again
    Home,           \* Home[h]: the gateway handler h runs in
    Uses,           \* what clients may do: some operations, with some keys
    NoRec,
    MaxWrites,      \* bound: operations other than requests
    MaxFaults       \* bound: failures of Redis or the database that are forgiven

AllOps == {"request", "create", "update", "delete", "rotate"}

SomeKey == CHOOSE k \in Keys : TRUE

ASSUME UsesAssumption ==
    \A u \in Uses : u.ops \subseteq AllOps /\ SomeKey \in u.keys /\ u.keys \subseteq Keys
ASSUME HomeAssumption == Home \in [Handlers -> Gateways]
ASSUME BoundsAssumption == MaxWrites \in Nat /\ MaxFaults \in Nat

VARIABLES
    use,        \* what the clients of this behaviour do
    row,        \* row[k]: the record of k in the database, or NoRec
    copy,       \* copy[k]: the hash of k in Redis, or NoRec
    cache,      \* cache[g][k]: what gateway g has cached for k, or NoRec
    proc,       \* proc[h]: what handler h is doing
    writes,     \* operations other than requests so far
    faults,     \* failures forgiven so far
    gone,       \* history: keys whose deletion was answered, until created again
    shared,     \* history: keys two handlers were at work on at once
    unsaved,    \* history: keys found in a copy that could not be saved again
    writer      \* history: the gateway that wrote the row of k last, if it finished

vars == <<use, row, copy, cache, proc, writes, faults, gone, shared, unsaved, writer>>

-----------------------------------------------------------------------------
Recs == {"active", "blocked"}

(* A hash that HINCRBY made: it has a counter and no record.                *)
Partial == "partial"

ASSUME NoRecAssumption == NoRec \notin Recs \cup {Partial} \cup Gateways

(* Where a handler is: reading a key (row, copy), in authenticate (cache,   *)
(* keep, serve), counting (count), saving (commit, write, evict) or         *)
(* deleting (delete, drop, evict).                                          *)
Places == {"idle", "row", "copy", "cache", "keep", "serve", "count",
           "commit", "write", "delete", "drop", "evict"}

(* Why it is there: for the first or the second get_key_record, or for the  *)
(* work of the operation itself.                                            *)
Stages == {"resolve", "reload", "work"}

Procs == [at : Places, stage : Stages, op : AllOps, key : Keys, new : Keys,
          rec : Recs \cup {NoRec}, payload : Recs]

Resting == [at |-> "idle", stage |-> "resolve", op |-> "request", key |-> SomeKey,
            new |-> SomeKey, rec |-> NoRec, payload |-> "active"]

(* The key a handler writes: rotation saves the record under the new key    *)
(* and, with no record left in hand, deletes the old one.                   *)
TargetIsOld(h) == proc[h].key
Target(h) ==
    IF proc[h].op = "rotate" /\ proc[h].stage = "work" /\ proc[h].rec # NoRec
    THEN proc[h].new ELSE proc[h].key

TypeOK ==
    /\ use \in Uses
    /\ row \in [Keys -> Recs \cup {NoRec}]
    /\ copy \in [Keys -> Recs \cup {NoRec, Partial}]
    /\ cache \in [Gateways -> [Keys -> Recs \cup {NoRec}]]
    /\ proc \in [Handlers -> Procs]
    /\ writes \in 0..MaxWrites
    /\ gone \subseteq Keys
    /\ faults \in 0..MaxFaults
    /\ shared \subseteq Keys
    /\ unsaved \subseteq Keys
    /\ writer \in [Keys -> Gateways \cup {NoRec}]

Init ==
    /\ use \in Uses
    /\ row = [k \in Keys |-> IF k = SomeKey THEN "active" ELSE NoRec]
    /\ copy = row
    /\ cache = [g \in Gateways |-> [k \in Keys |-> NoRec]]
    /\ proc = [h \in Handlers |-> Resting]
    /\ writes = 0
    /\ faults = 0
    /\ gone = {}
    /\ shared = {}
    /\ unsaved = {}
    /\ writer = [k \in Keys |-> NoRec]

Become(h, p) == proc' = [proc EXCEPT ![h] = p]
Goto(h, place) == Become(h, [proc[h] EXCEPT !.at = place])
Stop(h) == Become(h, Resting)

stores == <<row, copy, cache>>
bounds == <<writes, faults>>
history == <<gone, shared, unsaved, writer>>

(* Some handler is at work on k.                                            *)
Busy(k) == \E h \in Handlers : proc[h].at # "idle" /\ k \in {proc[h].key, proc[h].new}

(* A request with a key, or a call of the admin API or of the portal.       *)
Begin(h) ==
    /\ proc[h].at = "idle"
    /\ \E op \in use.ops, k \in use.keys, r \in Recs :
        /\ op = "request" \/ writes < MaxWrites
        /\ r = "active" \/ op \in {"create", "update"}
        /\ Become(h, [Resting EXCEPT !.at = "row", !.op = op, !.key = k, !.new = k,
                                     !.payload = r])
        /\ writes' = IF op = "request" THEN writes ELSE writes + 1
        /\ shared' = IF Busy(k) THEN shared \cup {k} ELSE shared
    /\ UNCHANGED <<stores, faults, gone, unsaved, writer>>

-----------------------------------------------------------------------------
(* get_key_record: the database, then the Redis copy, which is saved again. *)

(* A handler that saves what it was asked to save.                          *)
Work(p) == [p EXCEPT !.at = "commit", !.stage = "work", !.rec = p.payload, !.payload = "active"]

(* The record is there: authenticate goes on to its cache or fills it, an   *)
(* update saves its own, a deletion deletes, a creation is refused.         *)
Found(h, r) ==
    LET p == [proc[h] EXCEPT !.rec = r] IN
    \/ p.stage = "reload" /\ Become(h, [p EXCEPT !.at = "keep"])
    \/ /\ p.stage = "resolve"
       /\ \/ /\ p.op \in {"request", "rotate"}
             /\ Become(h, [p EXCEPT !.at = "cache", !.rec = NoRec])
          \/ /\ p.op = "update"
             /\ Become(h, Work(p))
          \/ /\ p.op = "delete"
             /\ Become(h, [p EXCEPT !.at = "delete", !.stage = "work", !.rec = NoRec])
          \/ p.op = "create" /\ Stop(h)

(* It is not: only a creation goes on.                                      *)
Missing(h) ==
    IF proc[h].op = "create"
    THEN Become(h, Work(proc[h]))
    ELSE Stop(h)

ReadRow(h) ==
    /\ proc[h].at = "row"
    /\ IF row[proc[h].key] # NoRec THEN Found(h, row[proc[h].key]) ELSE Goto(h, "copy")
    /\ UNCHANGED <<stores, bounds, history>>

(* A hash without a record fails validation, and the handler with it.       *)
ValidIfAny(c) == c # NoRec
Valid(c) == c \in Recs

ReadCopy(h) ==
    /\ proc[h].at = "copy"
    /\ LET c == copy[proc[h].key] IN
        \/ c = NoRec /\ Missing(h)
        \/ c # NoRec /\ ~Valid(c) /\ Stop(h)
        \/ c # NoRec /\ Valid(c) /\ Become(h, [proc[h] EXCEPT !.at = "commit", !.rec = c])
    /\ UNCHANGED <<stores, bounds, history>>

-----------------------------------------------------------------------------
(* authenticate, with the cache of its gateway.                            *)

ReadCache(h) ==
    /\ proc[h].at = "cache"
    /\ LET c == cache[Home[h]][proc[h].key] IN
        IF c # NoRec
        THEN Become(h, [proc[h] EXCEPT !.at = "serve", !.rec = c])
        ELSE Become(h, [proc[h] EXCEPT !.at = "row", !.stage = "reload"])
    /\ UNCHANGED <<stores, bounds, history>>

(* The record, read some awaits ago, is cached.                             *)
Keep(h) ==
    /\ proc[h].at = "keep"
    /\ cache' = [cache EXCEPT ![Home[h]][proc[h].key] = proc[h].rec]
    /\ Become(h, [proc[h] EXCEPT !.at = "serve", !.stage = "resolve"])
    /\ UNCHANGED <<row, copy, bounds, history>>

(* A blocked key is refused.  A request is served and counted; a rotation   *)
(* saves the record under a random key, which nobody has.                   *)
Fresh(k) == k \in use.keys /\ row[k] = NoRec /\ copy[k] = NoRec /\ k \notin gone /\ ~Busy(k)

Serve(h) ==
    /\ proc[h].at = "serve"
    /\ \/ proc[h].rec = "blocked" /\ Stop(h)
       \/ /\ proc[h].rec = "active"
          /\ proc[h].op = "request"
          /\ Become(h, [proc[h] EXCEPT !.at = "count", !.stage = "work", !.rec = NoRec])
       \/ /\ proc[h].rec = "active"
          /\ proc[h].op = "rotate"
          /\ \E k \in Keys : Fresh(k) /\
                Become(h, [proc[h] EXCEPT !.at = "commit", !.stage = "work", !.new = k])
       \/ /\ proc[h].rec = "active"
          /\ proc[h].op = "rotate"
          /\ ~\E k \in Keys : Fresh(k)      \* only a small model runs out of keys
          /\ Stop(h)
    /\ UNCHANGED <<stores, bounds, history>>

(* increment_request_count: the UPDATE finds a row or does not, HINCRBY     *)
(* makes a hash where there is none.                                        *)
Count(h) ==
    /\ proc[h].at = "count"
    /\ copy' = [copy EXCEPT ![proc[h].key] = IF @ = NoRec THEN Partial ELSE @]
    /\ Goto(h, "evict")
    /\ UNCHANGED <<row, cache, bounds, history>>

-----------------------------------------------------------------------------
(* save_key_record and delete_key_record.                                  *)

CommitRow(h) ==
    /\ proc[h].at = "commit"
    /\ row' = [row EXCEPT ![Target(h)] = proc[h].rec]
    /\ gone' = IF proc[h].op = "create" /\ proc[h].stage = "work"
               THEN gone \ {Target(h)} ELSE gone
    /\ writer' = [writer EXCEPT ![Target(h)] = Home[h]]
    /\ Goto(h, "write")
    /\ UNCHANGED <<copy, cache, bounds, shared, unsaved>>

WriteCopy(h) ==
    /\ proc[h].at = "write"
    /\ copy' = [copy EXCEPT ![Target(h)] = proc[h].rec]
    /\ Goto(h, "evict")
    /\ UNCHANGED <<row, cache, bounds, history>>

(* With no row to delete the copy is left alone, and the caller, which does *)
(* not look at what came of it, answers that the key is deleted.            *)
DeleteRow(h) ==
    /\ proc[h].at = "delete"
    /\ \/ /\ row[proc[h].key] = NoRec
          /\ gone' = gone \cup {proc[h].key}
          /\ Stop(h)
          /\ UNCHANGED <<row, writer>>
       \/ /\ row[proc[h].key] # NoRec
          /\ row' = [row EXCEPT ![proc[h].key] = NoRec]
          /\ writer' = [writer EXCEPT ![proc[h].key] = Home[h]]
          /\ Goto(h, "drop")
          /\ UNCHANGED gone
    /\ UNCHANGED <<copy, cache, bounds, shared, unsaved>>

(* The key of the copy is deleted, counter and all.                         *)
WithoutNothing(k) == copy
Without(k) == [copy EXCEPT ![k] = NoRec]

DropCopy(h) ==
    /\ proc[h].at = "drop"
    /\ copy' = Without(proc[h].key)
    /\ Goto(h, "evict")
    /\ UNCHANGED <<row, cache, bounds, history>>

(* invalidate_key: the cache of this process, and of no other.              *)
ForgetNothing(g, k) == cache
Forget(g, k) == [cache EXCEPT ![g][k] = NoRec]

(* The invalidation, and what comes after it: the get_key_record that saved *)
(* its find goes on, a rotation deletes the old key, the others are over.   *)
Evict(h) ==
    /\ proc[h].at = "evict"
    /\ \/ proc[h].stage # "work" /\ Found(h, proc[h].rec) /\ UNCHANGED gone
       \/ /\ proc[h].stage = "work"
          /\ proc[h].op = "rotate" /\ proc[h].rec # NoRec
          /\ Become(h, [proc[h] EXCEPT !.at = "delete", !.rec = NoRec])
          /\ UNCHANGED gone
       \/ /\ proc[h].stage = "work"
          /\ ~(proc[h].op = "rotate" /\ proc[h].rec # NoRec)
          /\ Stop(h)
          /\ gone' = IF proc[h].op \in {"delete", "rotate"}
                     THEN gone \cup {proc[h].key} ELSE gone
    /\ cache' = Forget(Home[h], Target(h))
    /\ UNCHANGED <<row, copy, bounds, shared, unsaved, writer>>

-----------------------------------------------------------------------------
(* An entry of a cache outlives its TTL, or is pushed out by others.        *)
ExpirableNever(g, k) == FALSE
Expirable(g, k) == cache[g][k] # NoRec

Expire(g, k) ==
    /\ Expirable(g, k)
    /\ cache' = [cache EXCEPT ![g][k] = NoRec]
    /\ UNCHANGED <<row, copy, proc, bounds, history>>

(* The client goes away, or a call fails: the handler leaves its work where *)
(* it is.  A call that fails without effect leaves it before the step, one  *)
(* that had its effect and fails all the same leaves it after.              *)
BrokenOff(h) ==
    writer' = IF proc[h].at \in {"write", "drop", "evict"}
              THEN [writer EXCEPT ![Target(h)] = NoRec] ELSE writer

Cancel(h) ==
    /\ proc[h].at # "idle"
    /\ Stop(h)
    /\ BrokenOff(h)
    /\ UNCHANGED <<stores, bounds, gone, shared, unsaved>>

(* get_key_record forgives Redis and the database: with no copy to read     *)
(* there is no record, and a find that could not be saved is a find, where  *)
(* the copy's write may have had its effect ("evict") or not ("write").     *)
Forgive(h) ==
    /\ faults < MaxFaults
    /\ \/ proc[h].at = "copy" /\ Missing(h)
       \/ /\ proc[h].at \in {"commit", "write", "evict"} /\ proc[h].stage # "work"
          /\ Found(h, proc[h].rec)
    /\ faults' = faults + 1
    /\ unsaved' = IF proc[h].at = "commit" THEN unsaved \cup {proc[h].key} ELSE unsaved
    /\ BrokenOff(h)
    /\ UNCHANGED <<stores, writes, gone, shared>>

Step(h) ==
    \/ ReadRow(h) \/ ReadCopy(h) \/ ReadCache(h) \/ Keep(h) \/ Serve(h) \/ Count(h)
    \/ CommitRow(h) \/ WriteCopy(h) \/ DeleteRow(h) \/ DropCopy(h) \/ Evict(h)

Next ==
    /\ \/ \E h \in Handlers : Begin(h) \/ Step(h) \/ Cancel(h) \/ Forgive(h)
       \/ \E g \in Gateways, k \in Keys : Expire(g, k)
    /\ UNCHANGED use

Spec == Init /\ [][Next]_vars

(* The event loops run the handlers, and time passes for the caches.        *)
FairSpec ==
    /\ Spec
    /\ \A h \in Handlers : WF_vars(Step(h) /\ UNCHANGED use)
    /\ \A g \in Gateways, k \in Keys : WF_vars(Expire(g, k) /\ UNCHANGED use)

-----------------------------------------------------------------------------
(* Safety.                                                                 *)

(* A rotation never locks its customer out: where nobody asks for deletions *)
(* there is a key in the database at every moment, wherever rotations stop  *)
(* and however many run at once.                                            *)
NoLockout == "delete" \notin use.ops => \E k \in Keys : row[k] # NoRec

(* The gateway that wrote the row of a key last, and finished, has nothing  *)
(* older in its cache, as long as no two handlers were at work on the key   *)
(* at once: save and delete invalidate the cache of their own process.      *)
SeenAtHome ==
    \A g \in Gateways, k \in Keys :
        writer[k] = g /\ k \notin shared /\ ~Busy(k) => cache[g][k] \in {NoRec, row[k]}

(* A deletion that was answered, by an admin or a rotation, is for good     *)
(* when no two handlers were at work on the key at once, whatever was       *)
(* broken off before: no request brings the row back from a copy of it.     *)
(* Keys found in a copy that the database then would not take are excepted: *)
(* a deletion of such a key finds no row, leaves the copy and is answered.  *)
DeletedAloneStaysDeleted == \A k \in gone \ (shared \cup unsaved) : row[k] = NoRec

-----------------------------------------------------------------------------
(* Liveness.                                                               *)

(* Whatever the caches missed, they come to agree with the database once    *)
(* nobody writes any more.                                                  *)
CachesConverge ==
    <>[](\A g \in Gateways, k \in Keys : cache[g][k] \in {NoRec, row[k]})

-----------------------------------------------------------------------------
(* What the documents say and the code does not do.                        *)

(* store.py, "Delete an API key record from the database and Redis cache":  *)
(* a deleted key is not in the database again until someone creates it.     *)
DeletedStaysDeleted == \A k \in gone : row[k] = NoRec
=============================================================================
