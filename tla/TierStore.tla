----------------------------- MODULE TierStore ------------------------------
(***************************************************************************)
(* Tiers across their four homes: the rows of the database, the Redis      *)
(* copies (gateflow/store.py), and two in-memory caches of each gateway    *)
(* (gateflow/cache.py): one of tiers, and one that keeps the tier of a key *)
(* beside the record of the key.  They are read by authenticate            *)
(* (gateflow/auth.py) and written by the admin API (gateflow/admin/        *)
(* tiers.py), which tells the other gateways by a message.                 *)
(*                                                                         *)
(* A transaction, a Redis command and an access to a cache are one step    *)
(* each, and every one of them is awaited.  Of a tier the model keeps      *)
(* which version of it is meant.                                           *)
(***************************************************************************)
EXTENDS Naturals

CONSTANTS
    Tiers,
    Keys,           \* API keys
    TierOf,         \* TierOf[k]: the tier the record of key k names
    Versions,       \* what the configuration of a tier may be
    Default,        \* the limits of a tier nobody configured, from the settings
    None,
    Gateways,
    Handlers,       \* handlers, used again and again
    Home,           \* Home[h]: the gateway handler h runs in
    TTL,            \* cache_ttl_seconds, in ticks
    Lag,            \* bound: ticks a handler may take
    MaxWrites,      \* bound: operations that write
    MaxFaults       \* bound: failures that are forgiven

ASSUME TierOfAssumption == TierOf \in [Keys -> Tiers]
ASSUME HomeAssumption == Home \in [Handlers -> Gateways]
ASSUME SomeAssumption == Tiers # {} /\ Keys # {}
ASSUME NoneAssumption ==
    /\ None \notin Versions \cup {Default}
    /\ None \notin [val : Versions \cup {Default}, left : 0..TTL]
ASSUME BoundsAssumption == {TTL, Lag, MaxWrites, MaxFaults} \subseteq Nat

VARIABLES
    row,        \* row[t]: tier t in the database, or None
    copy,       \* copy[t]: its hash in Redis, or None
    tierCache,  \* tierCache[g][t]: what gateway g has cached of t
    keyCache,   \* keyCache[g][k]: the tier gateway g has cached with key k
    subscribed, \* gateways whose listener is subscribed
    inbox,      \* inbox[g][t]: messages about t that wait for the listener of g
    proc,       \* proc[h]: what handler h is doing
    writes,     \* operations that write, so far
    faults,     \* failures forgiven so far
    since,      \* history: ticks since the row of a tier changed, up to Horizon
    shared,     \* history: tiers two handlers were at work on at once
    broken,     \* history: tiers a write of which was broken off
    unsaved,    \* history: tiers used from a copy that could not be saved
    deaf        \* history: gateways that were not subscribed at some time

stores == <<row, copy>>
caches == <<tierCache, keyCache>>
channel == <<subscribed, inbox>>
bounds == <<writes, faults>>
history == <<shared, broken, unsaved, deaf>>
vars == <<stores, caches, channel, proc, bounds, since, history>>

-----------------------------------------------------------------------------
Values == Versions \cup {Default}
Configs == [Tiers -> Versions \cup {None}]
Unconfigured == [t \in Tiers |-> None]
Present(c) == {t \in Tiers : c[t] # None}

(* An entry of a cache and the ticks for which it is good.                  *)
Entries == [val : Values, left : 0..TTL] \cup {None}
Entry(v) == [val |-> v, left |-> TTL]
OlderForGood(c) == IF c = None THEN None ELSE [c EXCEPT !.left = @ - 1]
Older(c) ==
    IF c = None THEN None
    ELSE IF c.left = 0 THEN None ELSE [c EXCEPT !.left = @ - 1]

(* An entry that is read stays as it is.                                    *)
UsedRenewed(c) == Entry(c.val)
Used(c) == c

(* The longest time after a change for which an older version may be used.  *)
Stale == 2 * (TTL + Lag)
Horizon == Stale + 1

(* Where a handler is: in authenticate (key, tier, keep, keepkey), in       *)
(* get_tier_config or list_tier_configs (row, copy, fill, fillcopy), saving *)
(* or deleting (commit, write, delete, drop), telling the others (publish,  *)
(* evict).                                                                  *)
Places == {"idle", "key", "tier", "row", "copy", "fill", "fillcopy", "keep", "keepkey",
           "commit", "write", "delete", "drop", "publish", "evict"}

Ops == {"request", "read", "list", "create", "update", "delete"}
WriteOps == {"create", "update", "delete"}

Procs == [at : Places, op : Ops, tier : Tiers, key : Keys, val : Values \cup {None},
          got : Configs, todo : SUBSET Tiers, lag : 0..Lag]

Resting == [at |-> "idle", op |-> "request", tier |-> CHOOSE t \in Tiers : TRUE,
            key |-> CHOOSE k \in Keys : TRUE, val |-> None,
            got |-> Unconfigured, todo |-> {}, lag |-> 0]

TypeOK ==
    /\ row \in Configs
    /\ copy \in Configs
    /\ tierCache \in [Gateways -> [Tiers -> Entries]]
    /\ keyCache \in [Gateways -> [Keys -> Entries]]
    /\ subscribed \subseteq Gateways
    /\ inbox \in [Gateways -> [Tiers -> Nat]]
    /\ proc \in [Handlers -> Procs]
    /\ writes \in 0..MaxWrites
    /\ faults \in 0..MaxFaults
    /\ since \in [Tiers -> 0..Horizon]
    /\ shared \subseteq Tiers
    /\ broken \subseteq Tiers
    /\ unsaved \subseteq Tiers
    /\ deaf \subseteq Gateways

(* The gateways have connected and their listeners have subscribed.         *)
Init ==
    /\ row \in Configs
    /\ copy = row
    /\ tierCache = [g \in Gateways |-> Unconfigured]
    /\ keyCache = [g \in Gateways |-> [k \in Keys |-> None]]
    /\ subscribed = Gateways
    /\ inbox = [g \in Gateways |-> [t \in Tiers |-> 0]]
    /\ proc = [h \in Handlers |-> Resting]
    /\ writes = 0
    /\ faults = 0
    /\ since = [t \in Tiers |-> 0]
    /\ shared = {}
    /\ broken = {}
    /\ unsaved = {}
    /\ deaf = {}

Become(h, p) == proc' = [proc EXCEPT ![h] = p]
Goto(h, place) == Become(h, [proc[h] EXCEPT !.at = place])
Stop(h) == Become(h, Resting)

(* The row of t is written, and that may be a change.                       *)
SetRow(t, v) ==
    /\ row' = [row EXCEPT ![t] = v]
    /\ since' = IF v = row[t] THEN since ELSE [since EXCEPT ![t] = 0]

(* Handler h is at work on t; a list is at work on all.                     *)
WorksOn(h, t) ==
    proc[h].at # "idle" /\ (proc[h].op = "list" \/ t = proc[h].tier)

Busy(t) == \E h \in Handlers : WorksOn(h, t)

Begin(h) ==
    /\ proc[h].at = "idle"
    /\ \E op \in Ops, t \in Tiers, k \in Keys, v \in Versions :
        LET p == [Resting EXCEPT !.op = op, !.tier = t]
            touched == IF op = "list" THEN Tiers ELSE {t}
        IN
        /\ op \in WriteOps => writes < MaxWrites
        /\ \/ op = "request" /\ t = TierOf[k] /\ Become(h, [p EXCEPT !.at = "key", !.key = k])
           \/ op \in {"read", "list"} /\ Become(h, [p EXCEPT !.at = "row"])
           \/ op \in {"create", "update"} /\ Become(h, [p EXCEPT !.at = "row", !.val = v])
           \/ op = "delete" /\ Become(h, [p EXCEPT !.at = "delete"])
        /\ writes' = IF op \in WriteOps THEN writes + 1 ELSE writes
        /\ shared' = shared \cup {u \in touched : Busy(u)}
    /\ UNCHANGED <<stores, caches, channel, faults, since, broken, unsaved, deaf>>

-----------------------------------------------------------------------------
(* authenticate, once the key is known to exist: its cached tier is used,   *)
(* or that of the tier cache goes into the cache of keys.                   *)

ReadKeyCache(h) ==
    /\ proc[h].at = "key"
    /\ IF keyCache[Home[h]][proc[h].key] # None THEN Stop(h) ELSE Goto(h, "tier")
    /\ UNCHANGED <<stores, caches, channel, bounds, since, history>>

ReadTierCache(h) ==
    /\ proc[h].at = "tier"
    /\ LET g == Home[h]
           c == tierCache[g][proc[h].tier]
       IN
       IF c = None
       THEN Goto(h, "row") /\ UNCHANGED tierCache
       ELSE /\ Become(h, [proc[h] EXCEPT !.at = "keepkey", !.val = c.val])
            /\ tierCache' = [tierCache EXCEPT ![g][proc[h].tier] = Used(c)]
    /\ UNCHANGED <<stores, keyCache, channel, bounds, since, history>>

Keep(h) ==
    /\ proc[h].at = "keep"
    /\ tierCache' = [tierCache EXCEPT ![Home[h]][proc[h].tier] = Entry(proc[h].val)]
    /\ Goto(h, "keepkey")
    /\ UNCHANGED <<stores, keyCache, channel, bounds, since, history>>

KeepKey(h) ==
    /\ proc[h].at = "keepkey"
    /\ keyCache' = [keyCache EXCEPT ![Home[h]][proc[h].key] = Entry(proc[h].val)]
    /\ Stop(h)
    /\ UNCHANGED <<stores, tierCache, channel, bounds, since, history>>

-----------------------------------------------------------------------------
(* get_tier_config and list_tier_configs: the rows, or, when there are      *)
(* none, the copies, which are saved again without telling anybody.         *)

(* The tier is there: a request uses it, an update saves its own version, a *)
(* creation is refused.                                                     *)
Found(h, v) ==
    \/ proc[h].op = "request" /\ Become(h, [proc[h] EXCEPT
                                    !.at = "keep", !.val = v, !.got = Unconfigured])
    \/ proc[h].op = "update" /\ Become(h, [proc[h] EXCEPT !.at = "commit", !.got = Unconfigured])
    \/ proc[h].op \in {"read", "list", "create"} /\ Stop(h)

(* It is not: a request uses the default, a creation goes on.               *)
Missing(h) ==
    \/ proc[h].op = "request" /\ Become(h, [proc[h] EXCEPT !.at = "keep", !.val = Default])
    \/ proc[h].op = "create" /\ Goto(h, "commit")
    \/ proc[h].op \in {"read", "list", "update"} /\ Stop(h)

(* The tiers a handler asks for.                                            *)
Asked(h) == IF proc[h].op = "list" THEN Tiers ELSE {proc[h].tier}

ReadRow(h) ==
    /\ proc[h].at = "row"
    /\ IF Present(row) \cap Asked(h) # {} THEN Found(h, row[proc[h].tier]) ELSE Goto(h, "copy")
    /\ UNCHANGED <<stores, caches, channel, bounds, since, history>>

ReadCopy(h) ==
    /\ proc[h].at = "copy"
    /\ LET there == Present(copy) \cap Asked(h) IN
        IF there = {}
        THEN Missing(h)
        ELSE Become(h, [proc[h] EXCEPT !.at = "fill", !.got = copy, !.todo = there])
    /\ UNCHANGED <<stores, caches, channel, bounds, since, history>>

(* The copies found are saved one after the other, row and copy.            *)
Fill(h) ==
    /\ proc[h].at = "fill"
    /\ \E t \in proc[h].todo :
        /\ SetRow(t, proc[h].got[t])
        /\ Become(h, [proc[h] EXCEPT !.at = "fillcopy", !.tier = t, !.todo = @ \ {t}])
    /\ UNCHANGED <<copy, caches, channel, bounds, history>>

FillCopy(h) ==
    /\ proc[h].at = "fillcopy"
    /\ copy' = [copy EXCEPT ![proc[h].tier] = proc[h].got[proc[h].tier]]
    /\ IF proc[h].todo = {} THEN Found(h, proc[h].got[proc[h].tier]) ELSE Goto(h, "fill")
    /\ UNCHANGED <<row, caches, channel, bounds, since, history>>

-----------------------------------------------------------------------------
(* save_tier_config and delete_tier_config.                                *)

Commit(h) ==
    /\ proc[h].at \in {"commit", "delete"}
    /\ SetRow(proc[h].tier, proc[h].val)
    /\ Goto(h, IF proc[h].at = "commit" THEN "write" ELSE "drop")
    /\ UNCHANGED <<copy, caches, channel, bounds, history>>

WriteCopy(h) ==
    /\ proc[h].at \in {"write", "drop"}
    /\ copy' = [copy EXCEPT ![proc[h].tier] = proc[h].val]
    /\ Goto(h, "publish")
    /\ UNCHANGED <<row, caches, channel, bounds, since, history>>

(* A message reaches who is subscribed, its sender too.                     *)
ToldNobody(t) == inbox
Told(t) ==
    [g \in Gateways |-> IF g \in subscribed
                        THEN [inbox[g] EXCEPT ![t] = @ + 1] ELSE inbox[g]]

Publish(h) ==
    /\ proc[h].at = "publish"
    /\ inbox' = Told(proc[h].tier)
    /\ Goto(h, "evict")
    /\ UNCHANGED <<stores, caches, subscribed, bounds, since, history>>

(* invalidate_tier: an entry of the tier cache goes, and no other.          *)
Without(g, t) == [tierCache EXCEPT ![g][t] = None]

Evict(h) ==
    /\ proc[h].at = "evict"
    /\ tierCache' = Without(Home[h], proc[h].tier)
    /\ Stop(h)
    /\ UNCHANGED <<stores, keyCache, channel, bounds, since, history>>

(* The listener of g hears of t.                                            *)
Hear(g, t) ==
    /\ inbox[g][t] > 0
    /\ inbox' = [inbox EXCEPT ![g][t] = @ - 1]
    /\ tierCache' = Without(g, t)
    /\ UNCHANGED <<stores, keyCache, subscribed, proc, bounds, since, history>>

Subscribe(g) ==
    /\ g \notin subscribed
    /\ subscribed' = subscribed \cup {g}
    /\ UNCHANGED <<stores, caches, inbox, proc, bounds, since, history>>

-----------------------------------------------------------------------------
(* The clock, and entries that are pushed out by others.                   *)

Tick ==
    /\ \A h \in Handlers : proc[h].at # "idle" => proc[h].lag < Lag
    /\ proc' = [h \in Handlers |-> IF proc[h].at = "idle" THEN proc[h]
                                   ELSE [proc[h] EXCEPT !.lag = @ + 1]]
    /\ tierCache' = [g \in Gateways |-> [t \in Tiers |-> Older(tierCache[g][t])]]
    /\ keyCache' = [g \in Gateways |-> [k \in Keys |-> Older(keyCache[g][k])]]
    /\ since' = [t \in Tiers |-> IF since[t] = Horizon THEN Horizon ELSE since[t] + 1]
    /\ UNCHANGED <<stores, channel, bounds, history>>

PushOut(g) ==
    /\ \/ /\ \E t \in Tiers : tierCache' = Without(g, t)
          /\ UNCHANGED keyCache
       \/ /\ \E k \in Keys : keyCache' = [keyCache EXCEPT ![g][k] = None]
          /\ UNCHANGED tierCache
    /\ UNCHANGED <<stores, channel, proc, bounds, since, history>>

-----------------------------------------------------------------------------
(* Failures.                                                               *)

Unfinished == {"write", "drop", "publish", "evict"}
BrokenOff(h) ==
    broken' = IF proc[h].at \in Unfinished THEN broken \cup {proc[h].tier} ELSE broken

(* A handler is broken off by an error or with its client.                  *)
Cancel(h) ==
    /\ proc[h].at # "idle"
    /\ Stop(h)
    /\ BrokenOff(h)
    /\ UNCHANGED <<stores, caches, channel, bounds, since, shared, unsaved, deaf>>

(* No copy to be read is none, a find that could not be saved is a find,    *)
(* and a message that could not be sent takes the local invalidation with   *)
(* it.                                                                      *)
Forgive(h) ==
    /\ \/ proc[h].at = "copy" /\ Missing(h) /\ UNCHANGED unsaved
       \/ /\ proc[h].at \in {"fill", "fillcopy"}
          /\ Found(h, proc[h].got[proc[h].tier])
          /\ unsaved' = unsaved \cup {proc[h].tier}
       \/ proc[h].at = "publish" /\ Stop(h) /\ UNCHANGED unsaved
    /\ BrokenOff(h)
    /\ UNCHANGED <<channel, deaf>>

(* A subscription breaks, and what waits in it is lost.                     *)
Disconnect(g) ==
    /\ g \in subscribed
    /\ subscribed' = subscribed \ {g}
    /\ inbox' = [inbox EXCEPT ![g] = [t \in Tiers |-> 0]]
    /\ deaf' = deaf \cup {g}
    /\ UNCHANGED <<proc, broken, unsaved>>

Fault ==
    /\ faults < MaxFaults
    /\ faults' = faults + 1
    /\ (\E h \in Handlers : Forgive(h)) \/ (\E g \in Gateways : Disconnect(g))
    /\ UNCHANGED <<stores, caches, writes, since, shared>>

-----------------------------------------------------------------------------
Step(h) ==
    \/ ReadKeyCache(h) \/ ReadTierCache(h) \/ Keep(h) \/ KeepKey(h)
    \/ ReadRow(h) \/ ReadCopy(h) \/ Fill(h) \/ FillCopy(h)
    \/ Commit(h) \/ WriteCopy(h) \/ Publish(h) \/ Evict(h)

Next ==
    \/ \E h \in Handlers : Begin(h) \/ Step(h) \/ Cancel(h)
    \/ \E g \in Gateways : Subscribe(g) \/ PushOut(g) \/ \E t \in Tiers : Hear(g, t)
    \/ Tick
    \/ Fault

Spec == Init /\ [][Next]_vars

-----------------------------------------------------------------------------
(* Safety.                                                                 *)

InForce(t) == IF row[t] = None THEN Default ELSE row[t]

Right(c, t) == c = None \/ c.val = InForce(t)

(* A change of a tier is in force everywhere after twice the life of an     *)
(* entry, whatever messages were lost and writes broken off: a version may  *)
(* live in the cache of tiers, and from there once more in the cache of     *)
(* keys.  What handlers take between reading a value and caching it comes   *)
(* on top.  A copy that could not be saved may be used again and again.     *)
ChangesTakeHold ==
    \A g \in Gateways, k \in Keys :
        ~Right(keyCache[g][k], TierOf[k]) /\ TierOf[k] \notin unsaved
            => since[TierOf[k]] <= Stale

(* Nothing in the way: no two handlers at work on t at once, no write of it *)
(* broken off, all messages heard.                                          *)
Settled(g, t) ==
    g \notin deaf /\ t \notin shared \cup broken /\ ~Busy(t) /\ inbox[g][t] = 0

(* Then no gateway has anything older than the database in its cache of     *)
(* tiers, the default of a tier that was created since included.            *)
TierCachesHear ==
    \A g \in Gateways, t \in Tiers : Settled(g, t) => Right(tierCache[g][t], t)
=============================================================================
