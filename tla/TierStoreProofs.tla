--------------------------- MODULE TierStoreProofs --------------------------
(***************************************************************************)
(* Proofs about TierStore, for any tiers, keys, gateways and handlers, any *)
(* life of the entries and any lag of the handlers.                        *)
(*                                                                         *)
(* Two invariants: one on the ages of what is cached, which needs no       *)
(* message to arrive, and one on the messages, which needs no clock.       *)
(***************************************************************************)
EXTENDS TierStore, TLAPS

(* What a handler has in hand at each place.                                *)
Shape(p) ==
    /\ p.at \in {"key", "tier", "keep", "keepkey"} => p.op = "request"
    /\ p.at \in {"commit", "delete", "write", "drop", "publish", "evict"} => p.op \in WriteOps
    /\ p.at \in {"row", "copy", "fill", "fillcopy"} => p.op # "delete"
    /\ p.at # "idle" /\ p.op = "request" => p.tier = TierOf[p.key]
    /\ p.op \in {"create", "update"} => p.val \in Versions
    /\ p.op = "delete" => p.val = None
    /\ p.at \in {"keep", "keepkey"} => p.val \in Values
    /\ p.at \in {"fill", "fillcopy"} =>
          /\ \A t \in p.todo : p.got[t] # None
          /\ p.op # "list" => p.todo \subseteq {p.tier} /\ p.got[p.tier] # None
    /\ p.at = "fillcopy" => p.got[p.tier] # None

Shapes == \A h \in Handlers : Shape(proc[h])

(* A request that has in hand something other than what is in force read it *)
(* no longer ago than it is at work; or, from the cache of tiers, not much  *)
(* longer.                                                                  *)
Hand(h) ==
    LET p == proc[h] IN
    p.op = "request" /\ p.tier \notin unsaved =>
        /\ p.at = "copy" /\ row[p.tier] # None => since[p.tier] <= p.lag
        /\ p.at = "fillcopy" /\ p.got[p.tier] # InForce(p.tier) => since[p.tier] <= p.lag
        /\ p.at = "keep" /\ p.val # InForce(p.tier) => since[p.tier] <= p.lag
        /\ p.at = "keepkey" /\ p.val # InForce(p.tier) => since[p.tier] <= Lag + TTL + p.lag

Hands == \A h \in Handlers : Hand(h)

(* The age of a change and the rest of the life of an entry made before it. *)
TierAges ==
    \A g \in Gateways, t \in Tiers :
        t \notin unsaved /\ ~Right(tierCache[g][t], t)
            => since[t] + tierCache[g][t].left <= Lag + TTL

KeyAges ==
    \A g \in Gateways, k \in Keys :
        TierOf[k] \notin unsaved /\ ~Right(keyCache[g][k], TierOf[k])
            => since[TierOf[k]] + keyCache[g][k].left <= Stale

IInv == TypeOK /\ Shapes /\ Hands /\ TierAges /\ KeyAges

(* The row of a tier stays what it is, or has just changed.                 *)
Steady ==
    /\ row' \in Configs
    /\ since' \in [Tiers -> 0..Horizon]
    /\ \A t \in Tiers : since'[t] = 0 \/ (row'[t] = row[t] /\ since'[t] = since[t])
    /\ unsaved \subseteq unsaved' /\ unsaved' \subseteq Tiers

-----------------------------------------------------------------------------
LEMMA Becomes ==
    ASSUME TypeOK, Shapes, NEW h \in Handlers, NEW p \in Procs, Shape(p), Become(h, p)
    PROVE  /\ proc' \in [Handlers -> Procs]
           /\ Shapes'
           /\ proc'[h] = p
           /\ \A i \in Handlers \ {h} : proc'[i] = proc[i]
<1>1. /\ proc' \in [Handlers -> Procs]
      /\ proc'[h] = p
      /\ \A i \in Handlers \ {h} : proc'[i] = proc[i]
  BY DEF TypeOK, Become
<1>2. Shapes'
  <2> SUFFICES ASSUME NEW i \in Handlers PROVE Shape(proc'[i]) BY DEF Shapes
  <2> QED BY <1>1 DEF Shapes
<1> QED BY <1>1, <1>2

LEMMA RestingOK == Resting \in Procs /\ Shape(Resting) /\ Resting.at = "idle"
<1>1. (CHOOSE t \in Tiers : TRUE) \in Tiers /\ (CHOOSE k \in Keys : TRUE) \in Keys
  BY SomeAssumption
<1>2. Unconfigured \in Configs BY DEF Unconfigured, Configs
<1>3. 0 \in 0..Lag BY BoundsAssumption
<1>4. Resting \in Procs BY <1>1, <1>2, <1>3 DEF Resting, Procs, Places, Ops
<1> QED BY <1>4 DEF Resting, Shape, WriteOps

(* What SMT needs of the types.                                             *)
LEMMA Types ==
    ASSUME TypeOK
    PROVE  /\ row \in [Tiers -> Versions \cup {None}] /\ copy \in [Tiers -> Versions \cup {None}]
           /\ None \notin Values /\ Default \in Values /\ Versions \subseteq Values
           /\ since \in [Tiers -> Nat] /\ TTL \in Nat /\ Lag \in Nat
           /\ \A h \in Handlers :
                 /\ proc[h] \in Procs
                 /\ proc[h].at \in Places /\ proc[h].op \in Ops
                 /\ proc[h].tier \in Tiers /\ proc[h].key \in Keys
                 /\ proc[h].got \in [Tiers -> Versions \cup {None}]
                 /\ proc[h].todo \subseteq Tiers /\ proc[h].lag \in 0..Lag
                 /\ proc[h].val \in Values \cup {None}
BY NoneAssumption, BoundsAssumption DEF TypeOK, Procs, Configs, Values, Horizon, Stale

LEMMA Entered ==
    ASSUME NEW v \in Values
    PROVE  Entry(v) \in Entries /\ Entry(v) # None /\ Entry(v).val = v /\ Entry(v).left = TTL
BY NoneAssumption, BoundsAssumption DEF Entry, Entries, Values

LEMMA OlderOK ==
    ASSUME NEW c \in Entries
    PROVE  /\ Older(c) \in Entries
           /\ Older(c) # None => /\ c # None /\ Older(c).val = c.val
                                 /\ Older(c).left = c.left - 1
<1>1. CASE c = None BY <1>1 DEF Older, Entries
<1>2. CASE c # None
  <2>1. c \in [val : Values, left : 0..TTL] BY <1>2 DEF Entries
  <2>2. CASE c.left = 0 BY <1>2, <2>2 DEF Older, Entries
  <2>3. CASE c.left # 0
    <3>1. c.left - 1 \in 0..TTL BY <2>1, <2>3, BoundsAssumption
    <3>2. Older(c) = [c EXCEPT !.left = @ - 1] BY <1>2, <2>3 DEF Older
    <3> QED BY <2>1, <3>1, <3>2, <1>2 DEF Entries
  <2> QED BY <2>2, <2>3
<1> QED BY <1>1, <1>2

(* A handler whose place changes.                                           *)
LEMMA Goes ==
    ASSUME TypeOK, Shapes, NEW h \in Handlers, NEW place \in Places,
           Goto(h, place), Shape([proc[h] EXCEPT !.at = place])
    PROVE  /\ proc' \in [Handlers -> Procs] /\ Shapes'
           /\ proc'[h] = [proc[h] EXCEPT !.at = place]
           /\ proc'[h].at = place /\ proc'[h].op = proc[h].op /\ proc'[h].tier = proc[h].tier
           /\ proc'[h].key = proc[h].key /\ proc'[h].val = proc[h].val
           /\ proc'[h].got = proc[h].got /\ proc'[h].todo = proc[h].todo
           /\ proc'[h].lag = proc[h].lag
           /\ \A i \in Handlers \ {h} : proc'[i] = proc[i]
<1> DEFINE q == [proc[h] EXCEPT !.at = place]
<1>1. /\ q \in Procs /\ q.at = place /\ q.op = proc[h].op /\ q.tier = proc[h].tier
      /\ q.key = proc[h].key /\ q.val = proc[h].val /\ q.got = proc[h].got
      /\ q.todo = proc[h].todo /\ q.lag = proc[h].lag
  BY Types DEF Procs
<1>2. Become(h, q) BY DEF Goto
<1>3. Shape(q) OBVIOUS
<1> HIDE DEF q
<1>4. /\ proc' \in [Handlers -> Procs] /\ Shapes' /\ proc'[h] = q
      /\ \A i \in Handlers \ {h} : proc'[i] = proc[i]
  BY <1>1, <1>2, <1>3, Becomes
<1> QED BY <1>1, <1>4 DEF q

LEMMA Stops ==
    ASSUME TypeOK, Shapes, NEW h \in Handlers, Stop(h)
    PROVE  /\ proc' \in [Handlers -> Procs] /\ Shapes'
           /\ proc'[h] = Resting /\ proc'[h].at = "idle"
           /\ \A i \in Handlers \ {h} : proc'[i] = proc[i]
BY RestingOK, Becomes DEF Stop

(* A tier that was found.                                                   *)
LEMMA Finds ==
    ASSUME TypeOK, Shapes, NEW h \in Handlers, NEW v, Found(h, v),
           proc[h].op = "request" => v \in Values,
           proc[h].at \in {"row", "fill", "fillcopy"}
    PROVE  /\ proc' \in [Handlers -> Procs] /\ Shapes'
           /\ \A i \in Handlers \ {h} : proc'[i] = proc[i]
           /\ \/ proc'[h].at = "idle"
              \/ /\ proc[h].op = "request" /\ proc'[h].op = "request" /\ proc'[h].at = "keep"
                 /\ proc'[h].val = v /\ proc'[h].tier = proc[h].tier /\ proc'[h].lag = proc[h].lag
                 /\ proc'[h].key = proc[h].key
              \/ /\ proc[h].op = "update" /\ proc'[h].op = "update" /\ proc'[h].at = "commit"
                 /\ proc'[h].tier = proc[h].tier
<1> USE Types
<1>0. Unconfigured \in Configs BY DEF Unconfigured, Configs
<1>1. CASE proc[h].op = "request"
  <2> DEFINE q == [proc[h] EXCEPT !.at = "keep", !.val = v, !.got = Unconfigured]
  <2>1. /\ q \in Procs /\ q.at = "keep" /\ q.val = v /\ q.op = proc[h].op /\ q.tier = proc[h].tier
        /\ q.lag = proc[h].lag /\ q.key = proc[h].key
    BY <1>0, <1>1 DEF Procs, Places
  <2>2. Become(h, q) BY <1>1 DEF Found
  <2>3. Shape(q) BY <1>1, <2>1 DEF Shapes, Shape
  <2> HIDE DEF q
  <2> QED BY <1>1, <2>1, <2>2, <2>3, Becomes
<1>2. CASE proc[h].op = "update"
  <2> DEFINE q == [proc[h] EXCEPT !.at = "commit", !.got = Unconfigured]
  <2>1. q \in Procs /\ q.at = "commit" /\ q.op = "update" /\ q.tier = proc[h].tier /\ q.val = proc[h].val
    BY <1>0, <1>2 DEF Procs, Places
  <2>2. Become(h, q) BY <1>2 DEF Found
  <2>3. Shape(q) BY <1>2, <2>1 DEF Shapes, Shape, WriteOps
  <2> HIDE DEF q
  <2> QED BY <1>2, <2>1, <2>2, <2>3, Becomes
<1>3. CASE proc[h].op \in {"read", "list", "create"}
  <2>1. Stop(h) BY <1>3 DEF Found
  <2> QED BY <2>1, Stops
<1> QED BY <1>1, <1>2, <1>3 DEF Found

(* A tier that is not there.                                                *)
LEMMA Misses ==
    ASSUME TypeOK, Shapes, NEW h \in Handlers, Missing(h), proc[h].at = "copy"
    PROVE  /\ proc' \in [Handlers -> Procs] /\ Shapes'
           /\ \A i \in Handlers \ {h} : proc'[i] = proc[i]
           /\ \/ proc'[h].at = "idle"
              \/ /\ proc[h].op = "request" /\ proc'[h].op = "request" /\ proc'[h].at = "keep"
                 /\ proc'[h].val = Default /\ proc'[h].tier = proc[h].tier
                 /\ proc'[h].lag = proc[h].lag /\ proc'[h].key = proc[h].key
              \/ /\ proc[h].op = "create" /\ proc'[h].op = "create" /\ proc'[h].at = "commit"
                 /\ proc'[h].tier = proc[h].tier
<1> USE Types
<1>1. CASE proc[h].op = "request"
  <2> DEFINE q == [proc[h] EXCEPT !.at = "keep", !.val = Default]
  <2>1. /\ q \in Procs /\ q.at = "keep" /\ q.val = Default /\ q.op = proc[h].op
        /\ q.tier = proc[h].tier /\ q.lag = proc[h].lag /\ q.key = proc[h].key
    BY <1>1 DEF Procs, Places
  <2>2. Become(h, q) BY <1>1 DEF Missing
  <2>3. Shape(q) BY <1>1, <2>1 DEF Shapes, Shape
  <2> HIDE DEF q
  <2> QED BY <1>1, <2>1, <2>2, <2>3, Becomes
<1>2. CASE proc[h].op = "create"
  <2> DEFINE q == [proc[h] EXCEPT !.at = "commit"]
  <2>1. q \in Procs /\ q.at = "commit" /\ q.op = "create" /\ q.tier = proc[h].tier /\ q.val = proc[h].val
    BY <1>2 DEF Procs, Places
  <2>2. Become(h, q) BY <1>2 DEF Missing, Goto
  <2>3. Shape(q) BY <1>2, <2>1 DEF Shapes, Shape, WriteOps
  <2> HIDE DEF q
  <2> QED BY <1>2, <2>1, <2>2, <2>3, Becomes
<1>3. CASE proc[h].op \in {"read", "list", "update"}
  <2>1. Stop(h) BY <1>3 DEF Missing
  <2> QED BY <2>1, Stops
<1> QED BY <1>1, <1>2, <1>3 DEF Missing

-----------------------------------------------------------------------------
(* What does not get older by a step.                                       *)

LEMMA HandsKept ==
    ASSUME IInv, Steady, NEW h \in Handlers, Hand(h)',
           \A i \in Handlers \ {h} : proc'[i] = proc[i]
    PROVE  Hands'
<1> SUFFICES ASSUME NEW i \in Handlers PROVE Hand(i)' BY DEF Hands
<1> USE Types DEF IInv
<1>1. CASE i = h BY <1>1
<1>2. CASE i # h
  <2>1. proc'[i] = proc[i] /\ Hand(i) BY <1>2 DEF Hands
  <2>2. 0 <= proc[i].lag /\ 0 <= Lag + TTL + proc[i].lag OBVIOUS
  <2>3. since'[proc[i].tier] = 0 \/ (row'[proc[i].tier] = row[proc[i].tier]
                                     /\ since'[proc[i].tier] = since[proc[i].tier])
    BY DEF Steady
  <2> QED BY <2>1, <2>2, <2>3 DEF Hand, InForce, Steady
<1> QED BY <1>1, <1>2

LEMMA HandsSame == ASSUME IInv, Steady, proc' = proc PROVE Hands'
<1> SUFFICES ASSUME NEW i \in Handlers PROVE Hand(i)' BY DEF Hands
<1> USE Types DEF IInv
<1>1. proc'[i] = proc[i] /\ Hand(i) BY DEF Hands
<1>2. 0 <= proc[i].lag /\ 0 <= Lag + TTL + proc[i].lag OBVIOUS
<1>3. since'[proc[i].tier] = 0 \/ (row'[proc[i].tier] = row[proc[i].tier]
                                   /\ since'[proc[i].tier] = since[proc[i].tier])
  BY DEF Steady
<1> QED BY <1>1, <1>2, <1>3 DEF Hand, InForce, Steady

LEMMA Idle == ASSUME NEW h \in Handlers, proc'[h].at = "idle" PROVE Hand(h)'
BY DEF Hand

LEMMA TierAgesKept ==
    ASSUME IInv, Steady,
           tierCache' \in [Gateways -> [Tiers -> Entries]],
           \A g \in Gateways, t \in Tiers :
               \/ tierCache'[g][t] = tierCache[g][t]
               \/ tierCache'[g][t] = None
               \/ t \notin unsaved' /\ ~Right(tierCache[g][t], t)'
                    => since'[t] + tierCache'[g][t].left <= Lag + TTL
    PROVE  TierAges'
<1> SUFFICES ASSUME NEW g \in Gateways, NEW t \in Tiers,
                    t \notin unsaved' /\ ~Right(tierCache[g][t], t)'
             PROVE  since'[t] + tierCache'[g][t].left <= Lag + TTL
  BY DEF TierAges
<1> USE Types DEF IInv
<1>1. tierCache'[g][t] # None BY DEF Right
<1>2. CASE tierCache'[g][t] = tierCache[g][t]
  <2>1. tierCache[g][t] \in [val : Values, left : 0..TTL] BY <1>1, <1>2 DEF Entries
  <2>2. tierCache[g][t].left \in 0..TTL BY <2>1
  <2>3. CASE since'[t] = 0 BY <1>2, <2>2, <2>3
  <2>4. CASE row'[t] = row[t] /\ since'[t] = since[t]
    <3>1. ~Right(tierCache[g][t], t) BY <1>2, <2>4 DEF Right, InForce
    <3>2. t \notin unsaved BY DEF Steady
    <3> QED BY <1>2, <2>4, <3>1, <3>2 DEF TierAges
  <2> QED BY <2>3, <2>4 DEF Steady
<1> QED BY <1>1, <1>2

LEMMA KeyAgesKept ==
    ASSUME IInv, Steady,
           keyCache' \in [Gateways -> [Keys -> Entries]],
           \A g \in Gateways, k \in Keys :
               \/ keyCache'[g][k] = keyCache[g][k]
               \/ keyCache'[g][k] = None
               \/ TierOf[k] \notin unsaved' /\ ~Right(keyCache[g][k], TierOf[k])'
                    => since'[TierOf[k]] + keyCache'[g][k].left <= Stale
    PROVE  KeyAges'
<1> SUFFICES ASSUME NEW g \in Gateways, NEW k \in Keys,
                    TierOf[k] \notin unsaved' /\ ~Right(keyCache[g][k], TierOf[k])'
             PROVE  since'[TierOf[k]] + keyCache'[g][k].left <= Stale
  BY DEF KeyAges
<1> DEFINE t == TierOf[k]
<1> USE Types DEF IInv
<1>0. t \in Tiers BY TierOfAssumption
<1>1. keyCache'[g][k] # None BY DEF Right
<1>2. CASE keyCache'[g][k] = keyCache[g][k]
  <2>1. keyCache[g][k] \in [val : Values, left : 0..TTL] BY <1>1, <1>2 DEF Entries
  <2>2. keyCache[g][k].left \in 0..TTL BY <2>1
  <2>3. CASE since'[t] = 0 BY <1>2, <2>2, <2>3 DEF Stale
  <2>4. CASE row'[t] = row[t] /\ since'[t] = since[t]
    <3>1. ~Right(keyCache[g][k], t) BY <1>2, <2>4 DEF Right, InForce
    <3>2. t \notin unsaved BY DEF Steady
    <3> QED BY <1>2, <2>4, <3>1, <3>2 DEF KeyAges
  <2> QED BY <1>0, <2>3, <2>4 DEF Steady
<1> QED BY <1>1, <1>2

LEMMA CachesSame == ASSUME IInv, Steady, UNCHANGED caches PROVE TierAges' /\ KeyAges'
<1>1. tierCache' = tierCache /\ keyCache' = keyCache BY DEF caches
<1>2. TierAges' BY <1>1, TierAgesKept DEF IInv, TypeOK
<1>3. KeyAges' BY <1>1, KeyAgesKept DEF IInv, TypeOK
<1> QED BY <1>2, <1>3

LEMMA SteadySame == ASSUME IInv, UNCHANGED <<row, since>>, unsaved' = unsaved PROVE Steady
BY DEF Steady, IInv, TypeOK

LEMMA SetRowSteady ==
    ASSUME IInv, NEW t \in Tiers, NEW v \in Versions \cup {None}, SetRow(t, v), unsaved' = unsaved
    PROVE  Steady /\ row'[t] = v
<1> USE Types DEF IInv
<1>1. row' \in Configs /\ row'[t] = v /\ \A u \in Tiers : u # t => row'[u] = row[u]
  BY DEF SetRow, Configs
<1>2. 0 \in 0..Horizon BY DEF Horizon, Stale
<1>3. since' \in [Tiers -> 0..Horizon] /\ \A u \in Tiers : u # t => since'[u] = since[u]
  BY <1>2 DEF SetRow, TypeOK
<1>4. since'[t] = 0 \/ (row'[t] = row[t] /\ since'[t] = since[t])
  <2>1. CASE v = row[t] BY <1>1, <2>1 DEF SetRow
  <2>2. CASE v # row[t] BY <2>2 DEF SetRow, TypeOK
  <2> QED BY <2>1, <2>2
<1> QED BY <1>1, <1>3, <1>4 DEF Steady, TypeOK

-----------------------------------------------------------------------------
(* One lemma for each action.                                               *)

LEMMA InitIInv == Init => IInv
<1> SUFFICES ASSUME Init PROVE IInv OBVIOUS
<1>1. TypeOK
  <2>1. Resting \in Procs BY RestingOK
  <2>2. 0 \in 0..Horizon /\ 0 \in 0..MaxWrites /\ 0 \in 0..MaxFaults
    BY BoundsAssumption DEF Horizon, Stale
  <2>3. None \in Entries BY DEF Entries
  <2>4. Unconfigured \in [Tiers -> Entries] BY <2>3 DEF Unconfigured
  <2> QED BY <2>1, <2>2, <2>3, <2>4 DEF Init, TypeOK
<1>2. Shapes BY RestingOK DEF Init, Shapes
<1>3. Hands BY RestingOK DEF Init, Hands, Hand
<1>4. TierAges BY DEF Init, TierAges, Right, Unconfigured
<1>5. KeyAges BY DEF Init, KeyAges, Right
<1> QED BY <1>1, <1>2, <1>3, <1>4, <1>5 DEF IInv

LEMMA BeginKeeps == ASSUME IInv, NEW h \in Handlers, Begin(h) PROVE IInv'
<1> USE Types DEF IInv
<1>1. PICK op \in Ops, t \in Tiers, k \in Keys, v \in Versions :
        LET p == [Resting EXCEPT !.op = op, !.tier = t] IN
        /\ op \in WriteOps => writes < MaxWrites
        /\ \/ op = "request" /\ t = TierOf[k] /\ Become(h, [p EXCEPT !.at = "key", !.key = k])
           \/ op \in {"read", "list"} /\ Become(h, [p EXCEPT !.at = "row"])
           \/ op \in {"create", "update"} /\ Become(h, [p EXCEPT !.at = "row", !.val = v])
           \/ op = "delete" /\ Become(h, [p EXCEPT !.at = "delete"])
        /\ writes' = IF op \in WriteOps THEN writes + 1 ELSE writes
        /\ shared' = shared \cup {u \in IF op = "list" THEN Tiers ELSE {t} : Busy(u)}
  BY DEF Begin
<1> DEFINE p == [Resting EXCEPT !.op = op, !.tier = t]
<1>2. /\ p \in Procs /\ p.at = "idle" /\ p.op = op /\ p.tier = t /\ p.val = None
      /\ p.todo = {}
  BY RestingOK DEF Resting, Procs
<1>3. PICK q \in Procs : /\ Become(h, q) /\ Shape(q)
                         /\ q.at \in {"key", "row", "delete"}
  <2>1. CASE op = "request" /\ t = TierOf[k] /\ Become(h, [p EXCEPT !.at = "key", !.key = k])
    <3> DEFINE q == [p EXCEPT !.at = "key", !.key = k]
    <3>1. q \in Procs /\ q.at = "key" /\ q.op = "request" /\ q.tier = TierOf[q.key]
      BY <1>2, <2>1 DEF Procs, Places
    <3>2. Shape(q) BY <3>1 DEF Shape
    <3> QED BY <2>1, <3>1, <3>2
  <2>2. CASE op \in {"read", "list"} /\ Become(h, [p EXCEPT !.at = "row"])
    <3> DEFINE q == [p EXCEPT !.at = "row"]
    <3>1. q \in Procs /\ q.at = "row" /\ q.op = op BY <1>2 DEF Procs, Places
    <3>2. Shape(q) BY <2>2, <3>1 DEF Shape
    <3> QED BY <2>2, <3>1, <3>2
  <2>3. CASE op \in {"create", "update"} /\ Become(h, [p EXCEPT !.at = "row", !.val = v])
    <3> DEFINE q == [p EXCEPT !.at = "row", !.val = v]
    <3>1. q \in Procs /\ q.at = "row" /\ q.op = op /\ q.val = v BY <1>2 DEF Procs, Places
    <3>2. Shape(q) BY <2>3, <3>1 DEF Shape
    <3> QED BY <2>3, <3>1, <3>2
  <2>4. CASE op = "delete" /\ Become(h, [p EXCEPT !.at = "delete"])
    <3> DEFINE q == [p EXCEPT !.at = "delete"]
    <3>1. q \in Procs /\ q.at = "delete" /\ q.op = op /\ q.val = None BY <1>2 DEF Procs, Places
    <3>2. Shape(q) BY <2>4, <3>1 DEF Shape, WriteOps
    <3> QED BY <2>4, <3>1, <3>2
  <2> QED BY <1>1, <2>1, <2>2, <2>3, <2>4
<1>4. /\ proc' \in [Handlers -> Procs] /\ Shapes' /\ proc'[h] = q
      /\ \A i \in Handlers \ {h} : proc'[i] = proc[i]
  BY <1>3, Becomes
<1>5. writes' \in 0..MaxWrites /\ shared' \subseteq Tiers
  BY <1>1, BoundsAssumption DEF TypeOK, WriteOps
<1>6. TypeOK' BY <1>4, <1>5 DEF Begin, TypeOK, stores, caches, channel
<1>7. Steady BY SteadySame DEF Begin, stores
<1>8. Hands' BY <1>3, <1>4, <1>7, HandsKept DEF Hand
<1>9. TierAges' /\ KeyAges' BY <1>7, CachesSame DEF Begin
<1> QED BY <1>4, <1>6, <1>8, <1>9

LEMMA ReadKeyCacheKeeps == ASSUME IInv, NEW h \in Handlers, ReadKeyCache(h) PROVE IInv'
<1> USE Types DEF IInv
<1>1. /\ proc' \in [Handlers -> Procs] /\ Shapes' /\ proc'[h].at \in {"idle", "tier"}
      /\ \A i \in Handlers \ {h} : proc'[i] = proc[i]
  <2>1. CASE Stop(h) BY <2>1, Stops
  <2>2. CASE Goto(h, "tier")
    <3>1. Shape([proc[h] EXCEPT !.at = "tier"])
      BY DEF ReadKeyCache, Shapes, Shape, Procs
    <3>2. "tier" \in Places BY DEF Places
    <3> QED BY <2>2, <3>1, <3>2, Goes
  <2> QED BY <2>1, <2>2 DEF ReadKeyCache
<1>2. TypeOK' BY <1>1 DEF ReadKeyCache, TypeOK, stores, caches, channel, bounds, history
<1>3. Steady BY SteadySame DEF ReadKeyCache, stores, history
<1>4. Hands' BY <1>1, <1>3, HandsKept DEF Hand
<1>5. TierAges' /\ KeyAges' BY <1>3, CachesSame DEF ReadKeyCache
<1> QED BY <1>1, <1>2, <1>4, <1>5

(* An entry that is used comes from a change that is not too long ago.      *)
LEMMA ReadTierCacheKeeps == ASSUME IInv, NEW h \in Handlers, ReadTierCache(h) PROVE IInv'
<1> USE Types DEF IInv
<1> DEFINE g == Home[h]
           t == proc[h].tier
           c == tierCache[g][t]
<1>0. g \in Gateways /\ t \in Tiers /\ c \in Entries BY HomeAssumption DEF TypeOK
<1>1. tierCache' = tierCache /\ keyCache' = keyCache
  <2>1. [tierCache[g] EXCEPT ![t] = c] = tierCache[g] BY <1>0 DEF TypeOK
  <2>2. [tierCache EXCEPT ![g][t] = c] = tierCache BY <1>0, <2>1 DEF TypeOK
  <2> QED BY <2>2 DEF ReadTierCache, Used
<1>2. CASE c = None
  <2>1. Goto(h, "row") BY <1>2 DEF ReadTierCache
  <2>2. Shape([proc[h] EXCEPT !.at = "row"]) BY DEF ReadTierCache, Shapes, Shape, Procs
  <2>3. "row" \in Places BY DEF Places
  <2>4. /\ proc' \in [Handlers -> Procs] /\ Shapes' /\ proc'[h].at = "row"
        /\ \A i \in Handlers \ {h} : proc'[i] = proc[i]
    BY <2>1, <2>2, <2>3, Goes
  <2>5. TypeOK' BY <1>1, <2>4 DEF ReadTierCache, TypeOK, stores, channel, bounds, history
  <2>6. Steady BY SteadySame DEF ReadTierCache, stores, history
  <2>7. Hands' BY <2>4, <2>6, HandsKept DEF Hand
  <2>8. TierAges' /\ KeyAges' BY <1>1, <2>6, CachesSame DEF caches
  <2> QED BY <2>4, <2>5, <2>7, <2>8
<1>3. CASE c # None
  <2> DEFINE q == [proc[h] EXCEPT !.at = "keepkey", !.val = c.val]
  <2>1. c \in [val : Values, left : 0..TTL] BY <1>0, <1>3 DEF Entries
  <2>2. c.val \in Values /\ c.left \in 0..TTL BY <2>1
  <2>3. /\ q \in Procs /\ q.at = "keepkey" /\ q.val = c.val /\ q.tier = t /\ q.lag = proc[h].lag
        /\ q.op = proc[h].op /\ q.key = proc[h].key
    BY <2>2 DEF Procs, Places
  <2>4. Shape(q) BY <2>2, <2>3 DEF ReadTierCache, Shapes, Shape
  <2>5. Become(h, q) BY <1>3 DEF ReadTierCache
  <2>6. c.val # InForce(t) /\ t \notin unsaved => since[t] + c.left <= Lag + TTL
    BY <1>0, <1>3 DEF TierAges, Right
  <2> HIDE DEF q
  <2>7. /\ proc' \in [Handlers -> Procs] /\ Shapes' /\ proc'[h] = q
        /\ \A i \in Handlers \ {h} : proc'[i] = proc[i]
    BY <2>3, <2>4, <2>5, Becomes
  <2>8. TypeOK' BY <1>1, <2>7 DEF ReadTierCache, TypeOK, stores, channel, bounds, history
  <2>9. Steady BY SteadySame DEF ReadTierCache, stores, history
  <2>10. Hand(h)'
    <3>1. since[t] \in Nat /\ proc[h].lag \in Nat BY <1>0
    <3>2. row' = row /\ since' = since /\ unsaved' = unsaved BY DEF ReadTierCache, stores, history
    <3> QED BY <2>2, <2>3, <2>6, <2>7, <3>1, <3>2 DEF Hand, InForce
  <2>11. Hands' BY <2>7, <2>9, <2>10, HandsKept
  <2>12. TierAges' /\ KeyAges' BY <1>1, <2>9, CachesSame DEF caches
  <2> QED BY <2>7, <2>8, <2>11, <2>12
<1> QED BY <1>2, <1>3

LEMMA KeepKeeps == ASSUME IInv, NEW h \in Handlers, Keep(h) PROVE IInv'
<1> USE Types DEF IInv
<1> PICK t \in Tiers : t = proc[h].tier OBVIOUS
<1>0. Home[h] \in Gateways /\ t \in Tiers /\ proc[h].val \in Values /\ proc[h].op = "request"
  BY HomeAssumption DEF Keep, Shapes, Shape
<1>1. /\ proc' \in [Handlers -> Procs] /\ Shapes'
      /\ proc'[h].at = "keepkey" /\ proc'[h].op = "request" /\ proc'[h].tier = t
      /\ proc'[h].val = proc[h].val /\ proc'[h].lag = proc[h].lag
      /\ \A i \in Handlers \ {h} : proc'[i] = proc[i]
  <2>1. Shape([proc[h] EXCEPT !.at = "keepkey"])
    BY DEF Keep, Shapes, Shape, Procs
  <2>2. "keepkey" \in Places BY DEF Places
  <2> QED BY <1>0, <2>1, <2>2, Goes DEF Keep
<1>2. /\ tierCache' \in [Gateways -> [Tiers -> Entries]]
      /\ tierCache'[Home[h]][t] = Entry(proc[h].val)
      /\ \A g \in Gateways, u \in Tiers :
            (g = Home[h] /\ u = t) \/ tierCache'[g][u] = tierCache[g][u]
  BY <1>0, Entered DEF Keep, TypeOK
<1>3. TypeOK' BY <1>1, <1>2 DEF Keep, TypeOK, stores, channel, bounds, history
<1>4. Steady BY SteadySame DEF Keep, stores, history
<1>5. row' = row /\ since' = since /\ unsaved' = unsaved BY DEF Keep, stores, history
<1>6. t \notin unsaved /\ proc[h].val # InForce(t) => since[t] <= proc[h].lag
  BY <1>0 DEF Hands, Hand, Keep
<1>7. Hands'
  <2>1. since[t] \in Nat /\ proc[h].lag \in Nat BY <1>0
  <2>2. Hand(h)' BY <1>1, <1>5, <1>6, <2>1 DEF Hand, InForce
  <2> QED BY <1>1, <1>4, <2>2, HandsKept
<1>8. TierAges'
  <2>1. t \notin unsaved' /\ ~Right(tierCache[Home[h]][t], t)'
          => since'[t] + tierCache'[Home[h]][t].left <= Lag + TTL
    <3>1. since[t] \in Nat /\ proc[h].lag \in 0..Lag BY <1>0
    <3>2. Entry(proc[h].val) # None /\ Entry(proc[h].val).val = proc[h].val
          /\ Entry(proc[h].val).left = TTL
      BY <1>0, Entered
    <3> QED BY <1>2, <1>5, <1>6, <3>1, <3>2 DEF Right, InForce
  <2> QED BY <1>2, <1>4, <2>1, TierAgesKept
<1>9. KeyAges' BY <1>4, KeyAgesKept DEF Keep, TypeOK
<1> QED BY <1>1, <1>3, <1>7, <1>8, <1>9

LEMMA KeepKeyKeeps == ASSUME IInv, NEW h \in Handlers, KeepKey(h) PROVE IInv'
<1> USE Types DEF IInv
<1> PICK t \in Tiers : t = proc[h].tier OBVIOUS
<1> PICK k \in Keys : k = proc[h].key OBVIOUS
<1>0. /\ Home[h] \in Gateways /\ k \in Keys /\ t = TierOf[k] /\ t \in Tiers
      /\ proc[h].val \in Values /\ proc[h].op = "request"
  BY HomeAssumption DEF KeepKey, Shapes, Shape
<1>1. /\ proc' \in [Handlers -> Procs] /\ Shapes' /\ proc'[h].at = "idle"
      /\ \A i \in Handlers \ {h} : proc'[i] = proc[i]
  BY Stops DEF KeepKey
<1>2. /\ keyCache' \in [Gateways -> [Keys -> Entries]]
      /\ keyCache'[Home[h]][k] = Entry(proc[h].val)
      /\ \A g \in Gateways, l \in Keys :
            (g = Home[h] /\ l = k) \/ keyCache'[g][l] = keyCache[g][l]
  BY <1>0, Entered DEF KeepKey, TypeOK
<1>3. TypeOK' BY <1>1, <1>2 DEF KeepKey, TypeOK, stores, channel, bounds, history
<1>4. Steady BY SteadySame DEF KeepKey, stores, history
<1>5. row' = row /\ since' = since /\ unsaved' = unsaved BY DEF KeepKey, stores, history
<1>6. t \notin unsaved /\ proc[h].val # InForce(t) => since[t] <= Lag + TTL + proc[h].lag
  BY <1>0 DEF Hands, Hand, KeepKey
<1>7. Hands' BY <1>1, <1>4, Idle, HandsKept
<1>8. TierAges' BY <1>4, TierAgesKept DEF KeepKey, TypeOK
<1>9. KeyAges'
  <2>1. t \notin unsaved' /\ ~Right(keyCache[Home[h]][k], t)'
          => since'[t] + keyCache'[Home[h]][k].left <= Stale
    <3>1. since[t] \in Nat /\ proc[h].lag \in 0..Lag BY <1>0
    <3>2. Entry(proc[h].val) # None /\ Entry(proc[h].val).val = proc[h].val
          /\ Entry(proc[h].val).left = TTL
      BY <1>0, Entered
    <3>3. t \notin unsaved /\ proc[h].val # InForce(t) => since[t] + TTL <= 2 * (TTL + Lag)
      BY <1>6, <3>1
    <3> QED BY <1>2, <1>5, <3>2, <3>3 DEF Right, InForce, Stale
  <2> QED BY <1>0, <1>2, <1>4, <2>1, KeyAgesKept
<1> QED BY <1>1, <1>3, <1>7, <1>8, <1>9

LEMMA ReadRowKeeps == ASSUME IInv, NEW h \in Handlers, ReadRow(h) PROVE IInv'
<1> USE Types DEF IInv
<1>0. row' = row /\ since' = since /\ unsaved' = unsaved BY DEF ReadRow, stores, history
<1>1. /\ proc' \in [Handlers -> Procs] /\ Shapes' /\ Hand(h)'
      /\ \A i \in Handlers \ {h} : proc'[i] = proc[i]
  <2>1. CASE Present(row) \cap Asked(h) # {}
    <3>1. Found(h, row[proc[h].tier]) /\ proc[h].at = "row" BY <2>1 DEF ReadRow
    <3>2. proc[h].op = "request" => row[proc[h].tier] # None
      BY <2>1 DEF Asked, Present
    <3>3. proc[h].op = "request" => row[proc[h].tier] \in Values BY <3>2
    <3>4. /\ proc' \in [Handlers -> Procs] /\ Shapes'
          /\ \A i \in Handlers \ {h} : proc'[i] = proc[i]
          /\ \/ proc'[h].at \in {"idle", "commit"}
             \/ /\ proc'[h].at = "keep" /\ proc'[h].val = row[proc[h].tier]
                /\ proc[h].op = "request" /\ proc'[h].tier = proc[h].tier
      BY <3>1, <3>3, Finds
    <3> QED BY <1>0, <3>2, <3>4 DEF Hand, InForce
  <2>2. CASE ~(Present(row) \cap Asked(h) # {})
    <3>1. Goto(h, "copy") /\ proc[h].at = "row" BY <2>2 DEF ReadRow
    <3>2. Shape([proc[h] EXCEPT !.at = "copy"]) BY <3>1 DEF Shapes, Shape, Procs
    <3>3. "copy" \in Places BY DEF Places
    <3>4. /\ proc' \in [Handlers -> Procs] /\ Shapes' /\ proc'[h].at = "copy"
          /\ proc'[h].op = proc[h].op /\ proc'[h].tier = proc[h].tier
          /\ \A i \in Handlers \ {h} : proc'[i] = proc[i]
      BY <3>1, <3>2, <3>3, Goes
    <3>5. proc[h].op = "request" => row[proc[h].tier] = None
      BY <2>2 DEF Asked, Present
    <3> QED BY <1>0, <3>4, <3>5 DEF Hand
  <2> QED BY <2>1, <2>2
<1>2. TypeOK' BY <1>1 DEF ReadRow, TypeOK, stores, caches, channel, bounds, history
<1>3. Steady BY <1>0, SteadySame
<1>4. Hands' BY <1>1, <1>3, HandsKept
<1>5. TierAges' /\ KeyAges' BY <1>3, CachesSame DEF ReadRow
<1> QED BY <1>1, <1>2, <1>4, <1>5

LEMMA ReadCopyKeeps == ASSUME IInv, NEW h \in Handlers, ReadCopy(h) PROVE IInv'
<1> USE Types DEF IInv
<1>0. /\ row' = row /\ since' = since /\ unsaved' = unsaved /\ proc[h].at = "copy"
      /\ Hand(h)
  BY DEF ReadCopy, stores, history, Hands
<1>1. /\ proc' \in [Handlers -> Procs] /\ Shapes' /\ Hand(h)'
      /\ \A i \in Handlers \ {h} : proc'[i] = proc[i]
  <2>1. CASE Missing(h)
    <3>1. /\ proc' \in [Handlers -> Procs] /\ Shapes'
          /\ \A i \in Handlers \ {h} : proc'[i] = proc[i]
          /\ \/ proc'[h].at \in {"idle", "commit"}
             \/ /\ proc'[h].at = "keep" /\ proc'[h].val = Default /\ proc[h].op = "request"
                /\ proc'[h].tier = proc[h].tier /\ proc'[h].lag = proc[h].lag
      BY <1>0, <2>1, Misses
    <3> QED BY <1>0, <3>1 DEF Hand, InForce
  <2>2. CASE /\ Present(copy) \cap Asked(h) # {}
             /\ Become(h, [proc[h] EXCEPT !.at = "fill", !.got = copy,
                                          !.todo = Present(copy) \cap Asked(h)])
    <3> DEFINE q == [proc[h] EXCEPT !.at = "fill", !.got = copy,
                                    !.todo = Present(copy) \cap Asked(h)]
    <3>1. copy \in Configs /\ Present(copy) \cap Asked(h) \subseteq Tiers
      BY DEF Configs, Present
    <3>2. /\ q \in Procs /\ q.at = "fill" /\ q.got = copy /\ q.op = proc[h].op
          /\ q.todo = Present(copy) \cap Asked(h) /\ q.tier = proc[h].tier
          /\ q.key = proc[h].key /\ q.val = proc[h].val
      BY <3>1 DEF Procs, Places
    <3>3. /\ \A t \in q.todo : q.got[t] # None
          /\ q.op # "list" => q.todo \subseteq {q.tier} /\ q.got[q.tier] # None
      BY <2>2, <3>2 DEF Present, Asked
    <3>4. Shape(q) BY <1>0, <3>2, <3>3 DEF Shapes, Shape
    <3> HIDE DEF q
    <3>5. Become(h, q) BY <2>2 DEF q
    <3>6. /\ proc' \in [Handlers -> Procs] /\ Shapes' /\ proc'[h] = q
          /\ \A i \in Handlers \ {h} : proc'[i] = proc[i]
      BY <3>2, <3>4, <3>5, Becomes
    <3> QED BY <3>2, <3>6 DEF Hand
  <2> QED BY <2>1, <2>2 DEF ReadCopy
<1>2. TypeOK' BY <1>1 DEF ReadCopy, TypeOK, stores, caches, channel, bounds, history
<1>3. Steady BY <1>0, SteadySame
<1>4. Hands' BY <1>1, <1>3, HandsKept
<1>5. TierAges' /\ KeyAges' BY <1>3, CachesSame DEF ReadCopy
<1> QED BY <1>1, <1>2, <1>4, <1>5

LEMMA FillKeeps == ASSUME IInv, NEW h \in Handlers, Fill(h) PROVE IInv'
<1> USE Types DEF IInv
<1>1. PICK t \in proc[h].todo :
        /\ SetRow(t, proc[h].got[t])
        /\ Become(h, [proc[h] EXCEPT !.at = "fillcopy", !.tier = t, !.todo = @ \ {t}])
  BY DEF Fill
<1>2. /\ t \in Tiers /\ proc[h].got[t] \in Versions \cup {None} /\ proc[h].got[t] # None
      /\ proc[h].op # "list" => t = proc[h].tier
  BY DEF Fill, Shapes, Shape
<1> DEFINE q == [proc[h] EXCEPT !.at = "fillcopy", !.tier = t, !.todo = @ \ {t}]
<1>3. /\ q \in Procs /\ q.at = "fillcopy" /\ q.tier = t /\ q.todo = proc[h].todo \ {t}
      /\ q.op = proc[h].op /\ q.got = proc[h].got /\ q.key = proc[h].key /\ q.val = proc[h].val
  BY <1>2 DEF Procs, Places
<1>4. Shape(q) BY <1>2, <1>3 DEF Fill, Shapes, Shape
<1> HIDE DEF q
<1>5. Become(h, q) BY <1>1 DEF q
<1>6. /\ proc' \in [Handlers -> Procs] /\ Shapes' /\ proc'[h] = q
      /\ \A i \in Handlers \ {h} : proc'[i] = proc[i]
  BY <1>3, <1>4, <1>5, Becomes
<1>7. Steady /\ row'[t] = proc[h].got[t] BY <1>1, <1>2, SetRowSteady DEF Fill, history
<1>8. TypeOK' BY <1>6, <1>7 DEF Fill, TypeOK, caches, channel, bounds, history, Steady
<1>9. Hand(h)' BY <1>2, <1>3, <1>6, <1>7 DEF Hand, InForce
<1>10. Hands' BY <1>6, <1>7, <1>9, HandsKept
<1>11. TierAges' /\ KeyAges' BY <1>7, CachesSame DEF Fill
<1> QED BY <1>6, <1>8, <1>10, <1>11

LEMMA FillCopyKeeps == ASSUME IInv, NEW h \in Handlers, FillCopy(h) PROVE IInv'
<1> USE Types DEF IInv
<1>0. /\ row' = row /\ since' = since /\ unsaved' = unsaved /\ proc[h].at = "fillcopy"
      /\ Hand(h) /\ proc[h].got[proc[h].tier] \in Values
  BY DEF FillCopy, history, Hands, Shapes, Shape
<1>1. /\ proc' \in [Handlers -> Procs] /\ Shapes' /\ Hand(h)'
      /\ \A i \in Handlers \ {h} : proc'[i] = proc[i]
  <2>1. CASE Found(h, proc[h].got[proc[h].tier])
    <3>1. /\ proc' \in [Handlers -> Procs] /\ Shapes'
          /\ \A i \in Handlers \ {h} : proc'[i] = proc[i]
          /\ \/ proc'[h].at \in {"idle", "commit"}
             \/ /\ proc'[h].at = "keep" /\ proc'[h].val = proc[h].got[proc[h].tier]
                /\ proc[h].op = "request"
                /\ proc'[h].tier = proc[h].tier /\ proc'[h].lag = proc[h].lag
      BY <1>0, <2>1, Finds
    <3> QED BY <1>0, <3>1 DEF Hand, InForce
  <2>2. CASE Goto(h, "fill")
    <3>1. Shape([proc[h] EXCEPT !.at = "fill"]) BY <1>0 DEF Shapes, Shape, Procs
    <3>2. "fill" \in Places BY DEF Places
    <3>3. /\ proc' \in [Handlers -> Procs] /\ Shapes' /\ proc'[h].at = "fill"
          /\ \A i \in Handlers \ {h} : proc'[i] = proc[i]
      BY <2>2, <3>1, <3>2, Goes
    <3> QED BY <3>3 DEF Hand
  <2> QED BY <2>1, <2>2 DEF FillCopy
<1>2. copy' \in Configs BY DEF FillCopy, Configs
<1>3. TypeOK' BY <1>0, <1>1, <1>2 DEF FillCopy, TypeOK, caches, channel, bounds, history
<1>4. Steady BY <1>0, SteadySame
<1>5. Hands' BY <1>1, <1>4, HandsKept
<1>6. TierAges' /\ KeyAges' BY <1>4, CachesSame DEF FillCopy
<1> QED BY <1>1, <1>3, <1>5, <1>6

(* A handler that saves or deletes.                                         *)
LEMMA WorkGoes ==
    ASSUME IInv, NEW h \in Handlers, NEW place \in {"write", "drop", "publish", "evict"},
           proc[h].at \in {"commit", "delete", "write", "drop", "publish", "evict"},
           Goto(h, place)
    PROVE  /\ proc' \in [Handlers -> Procs] /\ Shapes' /\ Hand(h)'
           /\ \A i \in Handlers \ {h} : proc'[i] = proc[i]
<1> USE Types DEF IInv
<1>1. Shape([proc[h] EXCEPT !.at = place]) BY DEF Shapes, Shape, Procs, WriteOps
<1>2. place \in Places BY DEF Places
<1>3. /\ proc' \in [Handlers -> Procs] /\ Shapes' /\ proc'[h].at = place
      /\ \A i \in Handlers \ {h} : proc'[i] = proc[i]
  BY <1>1, <1>2, Goes
<1> QED BY <1>3 DEF Hand

LEMMA CommitKeeps == ASSUME IInv, NEW h \in Handlers, Commit(h) PROVE IInv'
<1> USE Types DEF IInv
<1>1. proc[h].val \in Versions \cup {None}
  BY DEF Commit, Shapes, Shape, WriteOps
<1>2. Steady BY <1>1, SetRowSteady DEF Commit, history
<1>3. /\ proc' \in [Handlers -> Procs] /\ Shapes' /\ Hand(h)'
      /\ \A i \in Handlers \ {h} : proc'[i] = proc[i]
  BY WorkGoes DEF Commit
<1>4. TypeOK' BY <1>2, <1>3 DEF Commit, TypeOK, caches, channel, bounds, history, Steady
<1>5. Hands' BY <1>2, <1>3, HandsKept
<1>6. TierAges' /\ KeyAges' BY <1>2, CachesSame DEF Commit
<1> QED BY <1>3, <1>4, <1>5, <1>6

LEMMA WriteCopyKeeps == ASSUME IInv, NEW h \in Handlers, WriteCopy(h) PROVE IInv'
<1> USE Types DEF IInv
<1>1. proc[h].val \in Versions \cup {None}
  BY DEF WriteCopy, Shapes, Shape, WriteOps
<1>2. copy' \in Configs BY <1>1 DEF WriteCopy, Configs
<1>3. /\ proc' \in [Handlers -> Procs] /\ Shapes' /\ Hand(h)'
      /\ \A i \in Handlers \ {h} : proc'[i] = proc[i]
  BY WorkGoes DEF WriteCopy
<1>4. TypeOK' BY <1>2, <1>3 DEF WriteCopy, TypeOK, caches, channel, bounds, history
<1>5. Steady BY SteadySame DEF WriteCopy, history
<1>6. Hands' BY <1>3, <1>5, HandsKept
<1>7. TierAges' /\ KeyAges' BY <1>5, CachesSame DEF WriteCopy
<1> QED BY <1>3, <1>4, <1>6, <1>7

LEMMA PublishKeeps == ASSUME IInv, NEW h \in Handlers, Publish(h) PROVE IInv'
<1> USE Types DEF IInv
<1>1. /\ proc' \in [Handlers -> Procs] /\ Shapes' /\ Hand(h)'
      /\ \A i \in Handlers \ {h} : proc'[i] = proc[i]
  BY WorkGoes DEF Publish
<1>2. inbox' \in [Gateways -> [Tiers -> Nat]] BY DEF Publish, Told, TypeOK
<1>3. TypeOK' BY <1>1, <1>2 DEF Publish, TypeOK, stores, caches, bounds, history
<1>4. Steady BY SteadySame DEF Publish, stores, history
<1>5. Hands' BY <1>1, <1>4, HandsKept
<1>6. TierAges' /\ KeyAges' BY <1>4, CachesSame DEF Publish
<1> QED BY <1>1, <1>3, <1>5, <1>6

LEMMA WithoutOK ==
    ASSUME TypeOK, NEW g \in Gateways, NEW t \in Tiers
    PROVE  /\ Without(g, t) \in [Gateways -> [Tiers -> Entries]]
           /\ \A f \in Gateways, u \in Tiers : Without(g, t)[f][u] \in {tierCache[f][u], None}
BY DEF Without, TypeOK, Entries

LEMMA EvictKeeps == ASSUME IInv, NEW h \in Handlers, Evict(h) PROVE IInv'
<1> USE Types DEF IInv
<1>1. /\ proc' \in [Handlers -> Procs] /\ Shapes' /\ proc'[h].at = "idle"
      /\ \A i \in Handlers \ {h} : proc'[i] = proc[i]
  BY Stops DEF Evict
<1>2. /\ tierCache' \in [Gateways -> [Tiers -> Entries]]
      /\ \A f \in Gateways, u \in Tiers : tierCache'[f][u] \in {tierCache[f][u], None}
  BY HomeAssumption, WithoutOK DEF Evict
<1>3. TypeOK' BY <1>1, <1>2 DEF Evict, TypeOK, stores, channel, bounds, history
<1>4. Steady BY SteadySame DEF Evict, stores, history
<1>5. Hands' BY <1>1, <1>4, Idle, HandsKept
<1>6. TierAges' BY <1>2, <1>4, TierAgesKept
<1>7. KeyAges' BY <1>4, KeyAgesKept DEF Evict, TypeOK
<1> QED BY <1>1, <1>3, <1>5, <1>6, <1>7

LEMMA HearKeeps == ASSUME IInv, NEW g \in Gateways, NEW t \in Tiers, Hear(g, t) PROVE IInv'
<1> USE Types DEF IInv
<1>1. /\ tierCache' \in [Gateways -> [Tiers -> Entries]]
      /\ \A f \in Gateways, u \in Tiers : tierCache'[f][u] \in {tierCache[f][u], None}
  BY WithoutOK DEF Hear
<1>2. inbox' \in [Gateways -> [Tiers -> Nat]] BY DEF Hear, TypeOK
<1>3. TypeOK' BY <1>1, <1>2 DEF Hear, TypeOK, stores, bounds, history
<1>4. Steady BY SteadySame DEF Hear, stores, history
<1>5. Hands' BY <1>4, HandsSame DEF Hear
<1>6. TierAges' BY <1>1, <1>4, TierAgesKept
<1>7. KeyAges' BY <1>4, KeyAgesKept DEF Hear, TypeOK
<1>8. Shapes' BY DEF Hear, Shapes
<1> QED BY <1>3, <1>5, <1>6, <1>7, <1>8

LEMMA SubscribeKeeps == ASSUME IInv, NEW g \in Gateways, Subscribe(g) PROVE IInv'
<1> USE Types DEF IInv
<1>1. TypeOK' BY DEF Subscribe, TypeOK, stores, caches, bounds, history
<1>2. Steady BY SteadySame DEF Subscribe, stores, history
<1>3. Hands' BY <1>2, HandsSame DEF Subscribe
<1>4. TierAges' /\ KeyAges' BY <1>2, CachesSame DEF Subscribe
<1>5. Shapes' BY DEF Subscribe, Shapes
<1> QED BY <1>1, <1>3, <1>4, <1>5

LEMMA PushOutKeeps == ASSUME IInv, NEW g \in Gateways, PushOut(g) PROVE IInv'
<1> USE Types DEF IInv
<1>1. /\ tierCache' \in [Gateways -> [Tiers -> Entries]]
      /\ \A f \in Gateways, u \in Tiers : tierCache'[f][u] \in {tierCache[f][u], None}
  <2>1. CASE \E t \in Tiers : tierCache' = Without(g, t) BY <2>1, WithoutOK
  <2>2. CASE UNCHANGED tierCache BY <2>2 DEF TypeOK
  <2> QED BY <2>1, <2>2 DEF PushOut
<1>2. /\ keyCache' \in [Gateways -> [Keys -> Entries]]
      /\ \A f \in Gateways, l \in Keys : keyCache'[f][l] \in {keyCache[f][l], None}
  <2>1. CASE \E k \in Keys : keyCache' = [keyCache EXCEPT ![g][k] = None]
    BY <2>1 DEF TypeOK, Entries
  <2>2. CASE UNCHANGED keyCache BY <2>2 DEF TypeOK
  <2> QED BY <2>1, <2>2 DEF PushOut
<1>3. TypeOK' BY <1>1, <1>2 DEF PushOut, TypeOK, stores, channel, bounds, history
<1>4. Steady BY SteadySame DEF PushOut, stores, history
<1>5. Hands' BY <1>4, HandsSame DEF PushOut
<1>6. TierAges' BY <1>1, <1>4, TierAgesKept
<1>7. KeyAges' BY <1>2, <1>4, KeyAgesKept
<1>8. Shapes' BY DEF PushOut, Shapes
<1> QED BY <1>3, <1>5, <1>6, <1>7, <1>8

(* With every tick a change, a handler and an entry get older by one.       *)
LEMMA TickKeeps == ASSUME IInv, Tick PROVE IInv'
<1> USE Types DEF IInv
<1>0. row' = row /\ unsaved' = unsaved BY DEF Tick, stores, history
<1>1. ASSUME NEW h \in Handlers
      PROVE  /\ proc'[h] \in Procs /\ Shape(proc'[h])
             /\ proc'[h].at = proc[h].at /\ proc'[h].op = proc[h].op
             /\ proc'[h].tier = proc[h].tier /\ proc'[h].val = proc[h].val
             /\ proc'[h].got = proc[h].got
             /\ proc[h].at # "idle" => proc'[h].lag = proc[h].lag + 1
  <2>1. CASE proc[h].at = "idle"
    <3>1. proc'[h] = proc[h] BY <2>1 DEF Tick
    <3> QED BY <2>1, <3>1 DEF Shapes
  <2>2. CASE proc[h].at # "idle"
    <3> DEFINE q == [proc[h] EXCEPT !.lag = @ + 1]
    <3>1. proc'[h] = q /\ proc[h].lag < Lag BY <2>2 DEF Tick
    <3>2. proc[h].lag + 1 \in 0..Lag BY <3>1
    <3>3. /\ q \in Procs /\ q.at = proc[h].at /\ q.op = proc[h].op /\ q.tier = proc[h].tier
          /\ q.val = proc[h].val /\ q.got = proc[h].got /\ q.todo = proc[h].todo
          /\ q.key = proc[h].key /\ q.lag = proc[h].lag + 1
      BY <3>2 DEF Procs
    <3> HIDE DEF q
    <3>4. Shape(q) BY <3>3 DEF Shapes, Shape
    <3> QED BY <3>1, <3>3, <3>4
  <2> QED BY <2>1, <2>2
<1>2. proc' \in [Handlers -> Procs] /\ Shapes' BY <1>1 DEF Tick, Shapes
<1>3. /\ tierCache' \in [Gateways -> [Tiers -> Entries]]
      /\ keyCache' \in [Gateways -> [Keys -> Entries]]
  BY OlderOK DEF Tick, TypeOK
<1>4. /\ since' \in [Tiers -> 0..Horizon]
      /\ \A t \in Tiers : since'[t] <= since[t] + 1
  <2>1. Horizon \in Nat BY DEF Horizon, Stale
  <2>2. ASSUME NEW t \in Tiers PROVE since'[t] \in 0..Horizon /\ since'[t] <= since[t] + 1
    <3>1. since'[t] = IF since[t] = Horizon THEN Horizon ELSE since[t] + 1 BY DEF Tick
    <3>2. since[t] \in 0..Horizon BY DEF TypeOK
    <3> QED BY <2>1, <3>1, <3>2
  <2>3. since' = [t \in Tiers |-> since'[t]] BY DEF Tick
  <2> QED BY <2>2, <2>3
<1>5. TypeOK' BY <1>2, <1>3, <1>4 DEF Tick, TypeOK, stores, channel, bounds, history
<1>6. Hands'
  <2> SUFFICES ASSUME NEW h \in Handlers PROVE Hand(h)' BY DEF Hands
  <2>1. since'[proc[h].tier] <= since[proc[h].tier] + 1 /\ since'[proc[h].tier] \in Nat
        /\ since[proc[h].tier] \in Nat /\ proc[h].lag \in Nat
    BY <1>4
  <2>2. Hand(h) BY DEF Hands
  <2> QED BY <1>0, <1>1, <2>1, <2>2 DEF Hand, InForce
<1>7. TierAges'
  <2> SUFFICES ASSUME NEW g \in Gateways, NEW t \in Tiers,
                      t \notin unsaved, ~Right(tierCache[g][t], t)'
               PROVE  since'[t] + tierCache'[g][t].left <= Lag + TTL
    BY <1>0 DEF TierAges
  <2> DEFINE c == tierCache[g][t]
  <2>1. tierCache'[g][t] = Older(c) /\ c \in Entries BY DEF Tick, TypeOK
  <2>2. Older(c) # None BY <2>1 DEF Right
  <2>3. c # None /\ Older(c).val = c.val /\ Older(c).left = c.left - 1
    BY <2>1, <2>2, OlderOK
  <2>4. c \in [val : Values, left : 0..TTL] BY <2>1, <2>3 DEF Entries
  <2>5. ~Right(c, t) BY <1>0, <2>1, <2>3 DEF Right, InForce
  <2>6. since[t] + c.left <= Lag + TTL BY <2>5 DEF TierAges
  <2>7. c.left \in Nat /\ since[t] \in Nat /\ since'[t] \in Nat /\ since'[t] <= since[t] + 1
    BY <1>4, <2>4
  <2> QED BY <2>1, <2>3, <2>6, <2>7
<1>8. KeyAges'
  <2> SUFFICES ASSUME NEW g \in Gateways, NEW k \in Keys, NEW t \in Tiers, t = TierOf[k],
                      t \notin unsaved, ~Right(keyCache[g][k], t)'
               PROVE  since'[t] + keyCache'[g][k].left <= Stale
    BY <1>0, TierOfAssumption DEF KeyAges
  <2> DEFINE c == keyCache[g][k]
  <2>1. keyCache'[g][k] = Older(c) /\ c \in Entries BY DEF Tick, TypeOK
  <2>2. Older(c) # None BY <2>1 DEF Right
  <2>3. c # None /\ Older(c).val = c.val /\ Older(c).left = c.left - 1
    BY <2>1, <2>2, OlderOK
  <2>4. c \in [val : Values, left : 0..TTL] BY <2>1, <2>3 DEF Entries
  <2>5. ~Right(c, t) BY <1>0, <2>1, <2>3 DEF Right, InForce
  <2>6. since[t] + c.left <= Stale BY <2>5 DEF KeyAges
  <2>7. c.left \in Nat /\ since[t] \in Nat /\ since'[t] \in Nat /\ since'[t] <= since[t] + 1
        /\ Stale \in Nat
    BY <1>4, <2>4 DEF Stale
  <2> QED BY <2>1, <2>3, <2>6, <2>7
<1> QED BY <1>2, <1>5, <1>6, <1>7, <1>8

LEMMA CancelKeeps == ASSUME IInv, NEW h \in Handlers, Cancel(h) PROVE IInv'
<1> USE Types DEF IInv
<1>1. /\ proc' \in [Handlers -> Procs] /\ Shapes' /\ proc'[h].at = "idle"
      /\ \A i \in Handlers \ {h} : proc'[i] = proc[i]
  BY Stops DEF Cancel
<1>2. broken' \subseteq Tiers BY DEF Cancel, BrokenOff, TypeOK
<1>3. TypeOK' BY <1>1, <1>2 DEF Cancel, TypeOK, stores, caches, channel, bounds
<1>4. Steady BY SteadySame DEF Cancel, stores
<1>5. Hands' BY <1>1, <1>4, Idle, HandsKept
<1>6. TierAges' /\ KeyAges' BY <1>4, CachesSame DEF Cancel
<1> QED BY <1>1, <1>3, <1>5, <1>6

(* A copy that could not be saved is used all the same: its tier is one of  *)
(* which nothing is said any more.                                          *)
LEMMA FaultKeeps == ASSUME IInv, Fault PROVE IInv'
<1> USE Types DEF IInv
<1>0. /\ row' = row /\ copy' = copy /\ since' = since /\ UNCHANGED caches
      /\ faults' \in 0..MaxFaults /\ writes' = writes /\ shared' = shared
  BY BoundsAssumption DEF Fault, stores, TypeOK
<1>1. ASSUME NEW h \in Handlers, Forgive(h) PROVE IInv'
  <2>1. /\ unsaved \subseteq unsaved' /\ unsaved' \subseteq Tiers
        /\ proc' \in [Handlers -> Procs] /\ Shapes' /\ Hand(h)'
        /\ \A i \in Handlers \ {h} : proc'[i] = proc[i]
    <3>1. CASE proc[h].at = "copy" /\ Missing(h) /\ UNCHANGED unsaved
      <4>1. /\ proc' \in [Handlers -> Procs] /\ Shapes'
            /\ \A i \in Handlers \ {h} : proc'[i] = proc[i]
            /\ \/ proc'[h].at \in {"idle", "commit"}
               \/ /\ proc'[h].at = "keep" /\ proc'[h].val = Default /\ proc[h].op = "request"
                  /\ proc'[h].tier = proc[h].tier /\ proc'[h].lag = proc[h].lag
        BY <3>1, Misses
      <4>2. Hand(h) BY DEF Hands
      <4> QED BY <1>0, <3>1, <4>1, <4>2 DEF Hand, InForce, TypeOK
    <3>2. CASE /\ proc[h].at \in {"fill", "fillcopy"}
               /\ Found(h, proc[h].got[proc[h].tier])
               /\ unsaved' = unsaved \cup {proc[h].tier}
      <4>1. proc[h].op = "request" => proc[h].got[proc[h].tier] \in Values
        BY <3>2 DEF Shapes, Shape, Values
      <4>2. /\ proc' \in [Handlers -> Procs] /\ Shapes'
            /\ \A i \in Handlers \ {h} : proc'[i] = proc[i]
            /\ \/ proc'[h].at \in {"idle", "commit"}
               \/ proc'[h].tier = proc[h].tier
        BY <3>2, <4>1, Finds
      <4> QED BY <3>2, <4>2 DEF Hand, TypeOK
    <3>3. CASE proc[h].at = "publish" /\ Stop(h) /\ UNCHANGED unsaved
      BY <3>3, Stops, Idle DEF TypeOK
    <3> QED BY <1>1, <3>1, <3>2, <3>3 DEF Forgive
  <2>2. broken' \subseteq Tiers BY <1>1 DEF Forgive, BrokenOff, TypeOK
  <2>3. TypeOK' BY <1>0, <1>1, <2>1, <2>2 DEF Forgive, TypeOK, caches, channel
  <2>4. Steady BY <1>0, <2>1 DEF Steady, TypeOK
  <2>5. Hands' BY <2>1, <2>4, HandsKept
  <2>6. TierAges' /\ KeyAges' BY <1>0, <2>4, CachesSame
  <2> QED BY <2>1, <2>3, <2>5, <2>6
<1>2. ASSUME NEW g \in Gateways, Disconnect(g) PROVE IInv'
  <2>1. TypeOK' BY <1>0, <1>2 DEF Disconnect, TypeOK, caches
  <2>2. Steady BY <1>0, <1>2, SteadySame DEF Disconnect
  <2>3. Hands' BY <1>2, <2>2, HandsSame DEF Disconnect
  <2>4. TierAges' /\ KeyAges' BY <1>0, <2>2, CachesSame
  <2>5. Shapes' BY <1>2 DEF Disconnect, Shapes
  <2> QED BY <2>1, <2>3, <2>4, <2>5
<1> QED BY <1>1, <1>2 DEF Fault

LEMMA NextKeeps == ASSUME IInv, [Next]_vars PROVE IInv'
<1>1. ASSUME NEW h \in Handlers, Begin(h) PROVE IInv' BY <1>1, BeginKeeps
<1>2. ASSUME NEW h \in Handlers, Step(h) PROVE IInv'
  BY <1>2, ReadKeyCacheKeeps, ReadTierCacheKeeps, KeepKeeps, KeepKeyKeeps, ReadRowKeeps,
     ReadCopyKeeps, FillKeeps, FillCopyKeeps, CommitKeeps, WriteCopyKeeps, PublishKeeps,
     EvictKeeps DEF Step
<1>3. ASSUME NEW h \in Handlers, Cancel(h) PROVE IInv' BY <1>3, CancelKeeps
<1>4. ASSUME NEW g \in Gateways,
             Subscribe(g) \/ PushOut(g) \/ \E t \in Tiers : Hear(g, t)
      PROVE  IInv'
  BY <1>4, SubscribeKeeps, PushOutKeeps, HearKeeps
<1>5. CASE UNCHANGED vars
  <2> USE <1>5 DEF vars, stores, caches, channel, bounds, history
  <2>1. TypeOK' BY DEF IInv, TypeOK
  <2>2. Shapes' BY DEF IInv, Shapes
  <2>3. Steady BY SteadySame
  <2>4. Hands' BY <2>3, HandsSame
  <2>5. TierAges' /\ KeyAges' BY <2>3, CachesSame
  <2> QED BY <2>1, <2>2, <2>4, <2>5 DEF IInv
<1> QED BY <1>1, <1>2, <1>3, <1>4, <1>5, TickKeeps, FaultKeeps DEF Next

LEMMA Invariance == Spec => []IInv
<1>1. Init => IInv BY InitIInv
<1>2. IInv /\ [Next]_vars => IInv' BY NextKeeps
<1> QED BY <1>1, <1>2, PTL DEF Spec

-----------------------------------------------------------------------------
(* Messages.  A tier is clean as long as no two handlers were at work on it *)
(* at once and no write of it was broken off.                               *)
Clean(t) == t \notin shared \cup broken

(* Handler h writes t and has come to one of these places.                  *)
Writes(h, t, places) == proc[h].tier = t /\ proc[h].at \in places

(* What the only handler at work on t knows of it.                          *)
Knows(h, t) ==
    LET p == proc[h] IN
    /\ p.at \in {"copy", "fill", "fillcopy"} => row[t] = None
    /\ p.at \in {"fill", "fillcopy"} => p.got[t] = None
    /\ p.at = "keep" => p.val = InForce(t)
    /\ p.at \in {"write", "drop", "publish"} => row[t] = p.val

(* A clean tier has one handler at work on it; its copy is like its row, or *)
(* about to be; and a gateway that has an older version of it in its cache  *)
(* has a message to come.                                                   *)
Alone(t) == \A h, i \in Handlers : WorksOn(h, t) /\ WorksOn(i, t) => h = i
Known(t) == \A h \in Handlers : WorksOn(h, t) => Knows(h, t)
Copied(t) == copy[t] = row[t] \/ \E h \in Handlers : Writes(h, t, {"write", "drop"})
Rumoured(t) ==
    \A g \in Gateways \ deaf :
        \/ Right(tierCache[g][t], t) \/ inbox[g][t] > 0
        \/ \E h \in Handlers : Writes(h, t, {"write", "drop", "publish"})

Fine(t) == Alone(t) /\ Known(t) /\ Copied(t) /\ Rumoured(t)

Heard ==
    /\ Gateways \ deaf \subseteq subscribed
    /\ \A t \in Tiers : Clean(t) => Fine(t)

(* What a step of handler h does not disturb.  Others go on as they were;   *)
(* h is at work on t only if it was, or nobody was; its place says as much  *)
(* as before of writes to come; and a cache gets no older version of t.     *)
LEMMA FineKept ==
    ASSUME IInv, NEW t \in Tiers, Fine(t), NEW h \in Handlers,
           \A i \in Handlers \ {h} : proc'[i] = proc[i],
           row'[t] = row[t], copy'[t] = copy[t],
           WorksOn(h, t)' => (WorksOn(h, t) \/ ~Busy(t)) /\ Knows(h, t)',
           Writes(h, t, {"write", "drop"}) => Writes(h, t, {"write", "drop"})',
           Writes(h, t, {"write", "drop", "publish"}) => Writes(h, t, {"write", "drop", "publish"})',
           deaf \subseteq deaf',
           \A g \in Gateways : ~Right(tierCache[g][t], t)' =>
               ~Right(tierCache[g][t], t) /\ (inbox[g][t] > 0 => inbox'[g][t] > 0)
    PROVE  Fine(t)'
<1>1. \A i \in Handlers : i # h => WorksOn(i, t)' = WorksOn(i, t) BY DEF WorksOn
<1>2. Alone(t)' BY <1>1 DEF Fine, Alone, Busy
<1>3. Known(t)'
  <2> SUFFICES ASSUME NEW i \in Handlers, WorksOn(i, t)', i # h PROVE Knows(i, t)'
    BY DEF Known
  <2>1. Knows(i, t) /\ proc'[i] = proc[i] BY <1>1 DEF Fine, Known
  <2> QED BY <2>1 DEF Knows, InForce
<1>4. ASSUME NEW P, NEW i \in Handlers, Writes(i, t, P), Writes(h, t, P) => Writes(h, t, P)'
      PROVE  Writes(i, t, P)'
  BY <1>4 DEF Writes
<1>5. Copied(t)' BY <1>4 DEF Fine, Copied
<1>6. Rumoured(t)'
  <2> SUFFICES ASSUME NEW g \in Gateways \ deaf', ~Right(tierCache[g][t], t)', ~(inbox'[g][t] > 0)
               PROVE  \E i \in Handlers : Writes(i, t, {"write", "drop", "publish"})'
    BY DEF Rumoured
  <2>1. g \in Gateways \ deaf /\ ~Right(tierCache[g][t], t) /\ (inbox[g][t] > 0 => inbox'[g][t] > 0)
    OBVIOUS
  <2>2. ~(inbox[g][t] > 0) BY <2>1
  <2>3. PICK i \in Handlers : Writes(i, t, {"write", "drop", "publish"})
    BY <2>1, <2>2 DEF Fine, Rumoured
  <2> QED BY <1>4, <2>3
<1> QED BY <1>2, <1>3, <1>5, <1>6 DEF Fine

(* A handler that changes nothing of the tiers.                             *)
LEMMA FineQuiet ==
    ASSUME IInv, NEW t \in Tiers, Fine(t), NEW h \in Handlers,
           \A i \in Handlers \ {h} : proc'[i] = proc[i],
           row' = row, copy' = copy, tierCache' = tierCache, inbox' = inbox, deaf' = deaf,
           WorksOn(h, t)' => (WorksOn(h, t) \/ ~Busy(t)) /\ Knows(h, t)',
           ~Writes(h, t, {"write", "drop", "publish"})
    PROVE  Fine(t)'
<1>1. ~Writes(h, t, {"write", "drop"}) BY DEF Writes
<1>2. \A g \in Gateways : ~Right(tierCache[g][t], t)' =>
          ~Right(tierCache[g][t], t) /\ (inbox[g][t] > 0 => inbox'[g][t] > 0)
  BY DEF Right, InForce, IInv, TypeOK
<1> QED BY <1>1, <1>2, FineKept

LEMMA InitHeard == Init => Heard
<1> SUFFICES ASSUME Init PROVE Heard OBVIOUS
<1>1. \A h \in Handlers : proc[h].at = "idle" BY RestingOK DEF Init
<1>2. ASSUME NEW t \in Tiers PROVE Fine(t)
  <2>1. \A h \in Handlers : ~WorksOn(h, t) BY <1>1 DEF WorksOn
  <2>2. \A g \in Gateways : tierCache[g][t] = None BY DEF Init, Unconfigured
  <2>3. copy[t] = row[t] BY DEF Init
  <2> QED BY <2>1, <2>2, <2>3 DEF Fine, Alone, Known, Copied, Rumoured, Right
<1> QED BY <1>2 DEF Heard, Init

-----------------------------------------------------------------------------
(* Fine(t) after each action that leaves t clean.                           *)

LEMMA BeginFine ==
    ASSUME IInv, NEW t \in Tiers, Fine(t), NEW h \in Handlers, Begin(h), Clean(t)'
    PROVE  Fine(t)'
<1> USE Types DEF IInv
<1>1. PICK op \in Ops, u \in Tiers, k \in Keys, v \in Versions :
        LET p == [Resting EXCEPT !.op = op, !.tier = u] IN
        /\ \/ op = "request" /\ u = TierOf[k] /\ Become(h, [p EXCEPT !.at = "key", !.key = k])
           \/ op \in {"read", "list"} /\ Become(h, [p EXCEPT !.at = "row"])
           \/ op \in {"create", "update"} /\ Become(h, [p EXCEPT !.at = "row", !.val = v])
           \/ op = "delete" /\ Become(h, [p EXCEPT !.at = "delete"])
        /\ shared' = shared \cup {w \in IF op = "list" THEN Tiers ELSE {u} : Busy(w)}
  BY DEF Begin
<1>2. /\ proc'[h].at \in {"key", "row", "delete"} /\ proc'[h].op = op /\ proc'[h].tier = u
      /\ \A i \in Handlers \ {h} : proc'[i] = proc[i]
  <2> DEFINE p == [Resting EXCEPT !.op = op, !.tier = u]
  <2>1. p \in Procs /\ p.op = op /\ p.tier = u BY RestingOK DEF Procs
  <2>2. PICK q : /\ Become(h, q) /\ q.at \in {"key", "row", "delete"}
                 /\ q.op = op /\ q.tier = u
    <3> HIDE DEF p
    <3>1. /\ [p EXCEPT !.at = "key", !.key = k].at = "key"
          /\ [p EXCEPT !.at = "key", !.key = k].op = op
          /\ [p EXCEPT !.at = "key", !.key = k].tier = u
          /\ [p EXCEPT !.at = "row"].at = "row"
          /\ [p EXCEPT !.at = "row"].op = op /\ [p EXCEPT !.at = "row"].tier = u
          /\ [p EXCEPT !.at = "row", !.val = v].at = "row"
          /\ [p EXCEPT !.at = "row", !.val = v].op = op
          /\ [p EXCEPT !.at = "row", !.val = v].tier = u
          /\ [p EXCEPT !.at = "delete"].at = "delete"
          /\ [p EXCEPT !.at = "delete"].op = op /\ [p EXCEPT !.at = "delete"].tier = u
      BY <2>1 DEF Procs
    <3> QED BY <1>1, <3>1 DEF p
  <2> QED BY <2>2 DEF Become, TypeOK
<1>3. proc[h].at = "idle" BY DEF Begin
<1>4. WorksOn(h, t)' => ~Busy(t) /\ Knows(h, t)'
  BY <1>1, <1>2 DEF WorksOn, Clean, Knows
<1>5. UNCHANGED <<row, copy, tierCache, inbox, deaf>>
  BY DEF Begin, stores, caches, channel
<1>6. ~Writes(h, t, {"write", "drop", "publish"}) BY <1>3 DEF Writes
<1> QED BY <1>2, <1>4, <1>5, <1>6, FineQuiet

LEMMA ReadKeyCacheFine ==
    ASSUME IInv, NEW t \in Tiers, Fine(t), NEW h \in Handlers, ReadKeyCache(h) \/ KeepKey(h)
    PROVE  Fine(t)'
<1> USE Types DEF IInv
<1>1. /\ proc'[h].at \in {"idle", "tier"} /\ (proc'[h].at = "tier" => WorksOn(h, t)' = WorksOn(h, t))
      /\ \A i \in Handlers \ {h} : proc'[i] = proc[i]
  <2>1. CASE Stop(h) BY <2>1, Stops
  <2>2. CASE Goto(h, "tier") /\ proc[h].at = "key"
    BY <2>2 DEF Goto, Become, Procs, WorksOn, TypeOK
  <2> QED BY <2>1, <2>2 DEF ReadKeyCache, KeepKey
<1>2. UNCHANGED <<row, copy, tierCache, inbox, deaf>>
  BY DEF ReadKeyCache, KeepKey, stores, caches, channel, history
<1>3. WorksOn(h, t)' => WorksOn(h, t) /\ Knows(h, t)' BY <1>1 DEF WorksOn, Knows
<1>4. ~Writes(h, t, {"write", "drop", "publish"}) BY DEF Writes, ReadKeyCache, KeepKey
<1> QED BY <1>1, <1>2, <1>3, <1>4, FineQuiet

LEMMA ReadTierCacheFine ==
    ASSUME IInv, NEW t \in Tiers, Fine(t), NEW h \in Handlers, ReadTierCache(h)
    PROVE  Fine(t)'
<1> USE Types DEF IInv
<1>1. /\ proc'[h].at \in {"row", "keepkey"} /\ proc'[h].op = proc[h].op
      /\ proc'[h].tier = proc[h].tier /\ proc[h].at = "tier"
      /\ \A i \in Handlers \ {h} : proc'[i] = proc[i]
  <2>1. proc[h].at = "tier" BY DEF ReadTierCache
  <2>2. PICK v \in {proc[h].val, tierCache[Home[h]][proc[h].tier].val} :
           \/ Become(h, [proc[h] EXCEPT !.at = "row"])
           \/ Become(h, [proc[h] EXCEPT !.at = "keepkey", !.val = v])
    BY DEF ReadTierCache, Goto
  <2>3. CASE Become(h, [proc[h] EXCEPT !.at = "row"])
    BY <2>1, <2>3 DEF Become, Procs, TypeOK
  <2>4. CASE Become(h, [proc[h] EXCEPT !.at = "keepkey", !.val = v])
    BY <2>1, <2>4 DEF Become, Procs, TypeOK
  <2> QED BY <2>2, <2>3, <2>4
<1>2. \A g \in Gateways : tierCache'[g][t] = tierCache[g][t]
  <2>1. CASE tierCache[Home[h]][proc[h].tier] = None BY <2>1 DEF ReadTierCache
  <2>2. CASE tierCache[Home[h]][proc[h].tier] # None
    <3>1. tierCache' = [tierCache EXCEPT ![Home[h]][proc[h].tier] =
                                            tierCache[Home[h]][proc[h].tier]]
      BY <2>2, Zenon DEF ReadTierCache, Used
    <3> QED BY <3>1, HomeAssumption DEF TypeOK
  <2> QED BY <2>1, <2>2
<1>3. UNCHANGED <<row, copy, inbox, deaf>>
  BY DEF ReadTierCache, stores, channel, history
<1>4. WorksOn(h, t)' => WorksOn(h, t) /\ Knows(h, t)' BY <1>1 DEF WorksOn, Knows
<1>5. /\ ~Writes(h, t, {"write", "drop", "publish"}) /\ ~Writes(h, t, {"write", "drop"})
  BY <1>1 DEF Writes
<1>6. \A g \in Gateways : ~Right(tierCache[g][t], t)' =>
          ~Right(tierCache[g][t], t) /\ (inbox[g][t] > 0 => inbox'[g][t] > 0)
  BY <1>2, <1>3 DEF Right, InForce, TypeOK
<1> QED BY <1>1, <1>3, <1>4, <1>5, <1>6, FineKept

(* What is kept is what is in force.                                        *)
LEMMA KeepFine ==
    ASSUME IInv, NEW t \in Tiers, Fine(t), NEW h \in Handlers, Keep(h)
    PROVE  Fine(t)'
<1> USE Types DEF IInv
<1>1. /\ proc'[h].at = "keepkey" /\ proc'[h].op = proc[h].op
      /\ proc'[h].tier = proc[h].tier /\ proc[h].at = "keep"
      /\ \A i \in Handlers \ {h} : proc'[i] = proc[i]
  BY DEF Keep, Goto, Become, Procs, TypeOK
<1>2. UNCHANGED <<row, copy, inbox, deaf>>
  BY DEF Keep, stores, channel, history
<1>3. WorksOn(h, t)' => WorksOn(h, t) /\ Knows(h, t)' BY <1>1 DEF WorksOn, Knows
<1>4. /\ ~Writes(h, t, {"write", "drop", "publish"}) /\ ~Writes(h, t, {"write", "drop"})
  BY <1>1 DEF Writes
<1>5. ASSUME NEW g \in Gateways, ~Right(tierCache[g][t], t)'
      PROVE  ~Right(tierCache[g][t], t) /\ (inbox[g][t] > 0 => inbox'[g][t] > 0)
  <2>1. CASE proc[h].tier = t /\ g = Home[h]
    <3>1. proc[h].val \in Values /\ tierCache'[g][t] = Entry(proc[h].val)
      BY <1>1, <2>1 DEF Keep, Shapes, Shape, TypeOK
    <3>2. tierCache'[g][t].val = proc[h].val BY <3>1, Entered
    <3>3. WorksOn(h, t) BY <1>1, <2>1 DEF WorksOn
    <3>4. proc[h].val = InForce(t) BY <1>1, <3>3 DEF Fine, Known, Knows
    <3> QED BY <1>2, <1>5, <3>2, <3>4 DEF Right, InForce
  <2>2. CASE ~(proc[h].tier = t /\ g = Home[h])
    <3>1. tierCache'[g][t] = tierCache[g][t] BY <2>2, HomeAssumption DEF Keep, TypeOK
    <3> QED BY <1>2, <1>5, <3>1 DEF Right, InForce, TypeOK
  <2> QED BY <2>1, <2>2
<1> QED BY <1>1, <1>2, <1>3, <1>4, <1>5, FineKept

(* What the only handler at work on a tier reads of it stays true.          *)
LEMMA ReadRowFine ==
    ASSUME IInv, NEW t \in Tiers, Fine(t), NEW h \in Handlers, ReadRow(h)
    PROVE  Fine(t)'
<1> USE Types DEF IInv
<1>1. proc[h].at = "row" /\ UNCHANGED <<row, copy, tierCache, inbox, deaf>>
  BY DEF ReadRow, stores, caches, channel, history
<1>2. /\ \A i \in Handlers \ {h} : proc'[i] = proc[i]
      /\ WorksOn(h, t)' => WorksOn(h, t) /\ Knows(h, t)'
  <2>1. CASE Present(row) \cap Asked(h) # {}
    <3>1. Found(h, row[proc[h].tier]) BY <2>1 DEF ReadRow
    <3>2. proc[h].op = "request" => row[proc[h].tier] # None
      BY <2>1 DEF Asked, Present
    <3>3. proc[h].op = "request" => row[proc[h].tier] \in Values BY <3>2
    <3>4. /\ \A i \in Handlers \ {h} : proc'[i] = proc[i]
          /\ \/ proc'[h].at = "idle"
             \/ /\ proc[h].op = "request" /\ proc'[h].op = "request" /\ proc'[h].at = "keep"
                /\ proc'[h].val = row[proc[h].tier] /\ proc'[h].tier = proc[h].tier
             \/ /\ proc'[h].op = "update" /\ proc'[h].at = "commit"
                /\ proc'[h].tier = proc[h].tier
      BY <1>1, <3>1, <3>3, Finds
    <3> QED BY <1>1, <3>2, <3>4 DEF WorksOn, Knows, InForce
  <2>2. CASE ~(Present(row) \cap Asked(h) # {})
    <3>1. Goto(h, "copy") BY <2>2 DEF ReadRow
    <3>2. /\ proc'[h].at = "copy" /\ proc'[h].op = proc[h].op /\ proc'[h].tier = proc[h].tier
          /\ \A i \in Handlers \ {h} : proc'[i] = proc[i]
      BY <3>1 DEF Goto, Become, Procs, TypeOK
    <3>3. WorksOn(h, t) => row[t] = None BY <2>2 DEF WorksOn, Asked, Present
    <3> QED BY <1>1, <3>2, <3>3 DEF WorksOn, Knows
  <2> QED BY <2>1, <2>2
<1>3. ~Writes(h, t, {"write", "drop", "publish"}) BY <1>1 DEF Writes
<1> QED BY <1>1, <1>2, <1>3, FineQuiet

(* No row, and so no copy.                                                  *)
LEMMA MissesFine ==
    ASSUME IInv, NEW t \in Tiers, Fine(t), NEW h \in Handlers, Missing(h), proc[h].at = "copy",
           UNCHANGED <<row, copy, tierCache, inbox, deaf>>
    PROVE  Fine(t)'
<1> USE Types DEF IInv
<1>1. /\ \A i \in Handlers \ {h} : proc'[i] = proc[i]
      /\ \/ proc'[h].at = "idle"
         \/ /\ proc[h].op = "request" /\ proc'[h].op = "request" /\ proc'[h].at = "keep"
            /\ proc'[h].val = Default /\ proc'[h].tier = proc[h].tier
         \/ /\ proc'[h].op = "create" /\ proc'[h].at = "commit"
            /\ proc'[h].tier = proc[h].tier
  BY Misses
<1>2. WorksOn(h, t) => row[t] = None BY DEF Fine, Known, Knows
<1>3. WorksOn(h, t)' => WorksOn(h, t) /\ Knows(h, t)'
  BY <1>1, <1>2 DEF WorksOn, Knows, InForce
<1>4. ~Writes(h, t, {"write", "drop", "publish"}) BY DEF Writes
<1> QED BY <1>1, <1>3, <1>4, FineQuiet

LEMMA ReadCopyFine ==
    ASSUME IInv, NEW t \in Tiers, Fine(t), NEW h \in Handlers, ReadCopy(h)
    PROVE  Fine(t)'
<1> USE Types DEF IInv
<1>1. proc[h].at = "copy" /\ UNCHANGED <<row, copy, tierCache, inbox, deaf>>
  BY DEF ReadCopy, stores, caches, channel, history
<1>2. CASE Missing(h) BY <1>1, <1>2, MissesFine
<1>3. CASE Become(h, [proc[h] EXCEPT !.at = "fill", !.got = copy,
                                     !.todo = Present(copy) \cap Asked(h)])
  <2>1. /\ proc'[h].at = "fill" /\ proc'[h].op = proc[h].op /\ proc'[h].tier = proc[h].tier
        /\ proc'[h].got = copy
        /\ \A i \in Handlers \ {h} : proc'[i] = proc[i]
    BY <1>3 DEF Become, Procs, TypeOK
  <2>2. WorksOn(h, t) => row[t] = None /\ copy[t] = None
    <3> SUFFICES ASSUME WorksOn(h, t) PROVE row[t] = None /\ copy[t] = None OBVIOUS
    <3>1. row[t] = None BY <1>1 DEF Fine, Known, Knows
    <3>2. ASSUME NEW i \in Handlers, Writes(i, t, {"write", "drop"}) PROVE FALSE
      <4>1. WorksOn(i, t) BY <3>2 DEF Writes, WorksOn
      <4> QED BY <1>1, <3>2, <4>1 DEF Fine, Alone, Writes
    <3> QED BY <3>1, <3>2 DEF Fine, Copied
  <2>3. WorksOn(h, t)' => WorksOn(h, t) /\ Knows(h, t)'
    BY <1>1, <2>1, <2>2 DEF WorksOn, Knows
  <2>4. ~Writes(h, t, {"write", "drop", "publish"}) BY <1>1 DEF Writes
  <2> QED BY <1>1, <2>1, <2>3, <2>4, FineQuiet
<1> QED BY <1>2, <1>3 DEF ReadCopy

(* Of a clean tier nothing is ever restored from its copy.                  *)
LEMMA FillFine ==
    ASSUME IInv, NEW t \in Tiers, Fine(t), NEW h \in Handlers, Fill(h)
    PROVE  Fine(t)'
<1> USE Types DEF IInv
<1>1. PICK u \in proc[h].todo :
        /\ SetRow(u, proc[h].got[u])
        /\ Become(h, [proc[h] EXCEPT !.at = "fillcopy", !.tier = u, !.todo = @ \ {u}])
  BY DEF Fill
<1>2. /\ u \in Tiers /\ proc[h].got[u] # None /\ proc[h].at = "fill"
      /\ proc[h].op # "list" => u = proc[h].tier
  BY DEF Fill, Shapes, Shape
<1>3. /\ proc'[h].at = "fillcopy" /\ proc'[h].op = proc[h].op /\ proc'[h].tier = u
      /\ proc'[h].got = proc[h].got
      /\ \A i \in Handlers \ {h} : proc'[i] = proc[i]
  BY <1>1 DEF Become, Procs, TypeOK
<1>4. t # u
  <2> SUFFICES ASSUME t = u PROVE FALSE OBVIOUS
  <2>1. WorksOn(h, t) BY <1>2 DEF WorksOn
  <2> QED BY <1>2, <2>1 DEF Fine, Known, Knows
<1>5. row'[t] = row[t] BY <1>1, <1>4 DEF SetRow
<1>6. UNCHANGED <<copy, tierCache, inbox, deaf>> BY DEF Fill, caches, channel, history
<1>7. WorksOn(h, t)' => WorksOn(h, t) /\ Knows(h, t)'
  <2> SUFFICES ASSUME WorksOn(h, t)' PROVE WorksOn(h, t) /\ Knows(h, t)' OBVIOUS
  <2>1. WorksOn(h, t) BY <1>2, <1>3 DEF WorksOn
  <2>2. Knows(h, t) BY <2>1 DEF Fine, Known
  <2> QED BY <1>2, <1>3, <1>5, <2>1, <2>2 DEF Knows
<1>8. /\ ~Writes(h, t, {"write", "drop", "publish"}) /\ ~Writes(h, t, {"write", "drop"})
  BY <1>2 DEF Writes
<1>9. \A g \in Gateways : ~Right(tierCache[g][t], t)' =>
          ~Right(tierCache[g][t], t) /\ (inbox[g][t] > 0 => inbox'[g][t] > 0)
  BY <1>5, <1>6 DEF Right, InForce
<1> QED BY <1>3, <1>5, <1>6, <1>7, <1>8, <1>9, FineKept

(* A handler that found a tier in its copy: it was not this one.            *)
LEMMA FindsFine ==
    ASSUME IInv, NEW t \in Tiers, Fine(t), NEW h \in Handlers,
           proc[h].at \in {"fill", "fillcopy"}, Found(h, proc[h].got[proc[h].tier])
    PROVE  /\ \A i \in Handlers \ {h} : proc'[i] = proc[i]
           /\ ~WorksOn(h, t)'
<1> USE Types DEF IInv
<1>1. proc[h].op = "request" => proc[h].got[proc[h].tier] \in Values
  BY DEF Shapes, Shape
<1>2. /\ \A i \in Handlers \ {h} : proc'[i] = proc[i]
      /\ \/ proc'[h].at = "idle"
         \/ /\ proc[h].op \in {"request", "update"} /\ proc'[h].op = proc[h].op
            /\ proc'[h].tier = proc[h].tier
  BY <1>1, Finds
<1>3. ASSUME proc[h].op \in {"request", "update"} PROVE proc[h].tier # t
  <2> SUFFICES ASSUME proc[h].tier = t PROVE FALSE OBVIOUS
  <2>1. proc[h].got[t] # None BY <1>3 DEF Shapes, Shape
  <2>2. WorksOn(h, t) BY DEF WorksOn
  <2> QED BY <2>1, <2>2 DEF Fine, Known, Knows
<1> QED BY <1>2, <1>3 DEF WorksOn

LEMMA FillCopyFine ==
    ASSUME IInv, NEW t \in Tiers, Fine(t), NEW h \in Handlers, FillCopy(h)
    PROVE  Fine(t)'
<1> USE Types DEF IInv
<1>1. /\ proc[h].at = "fillcopy" /\ proc[h].got[proc[h].tier] # None
      /\ UNCHANGED <<row, tierCache, inbox, deaf>>
  BY DEF FillCopy, caches, channel, history, Shapes, Shape
<1>2. t # proc[h].tier
  <2> SUFFICES ASSUME t = proc[h].tier PROVE FALSE OBVIOUS
  <2>1. WorksOn(h, t) BY <1>1 DEF WorksOn
  <2> QED BY <1>1, <2>1 DEF Fine, Known, Knows
<1>3. copy'[t] = copy[t] BY <1>2 DEF FillCopy
<1>4. /\ \A i \in Handlers \ {h} : proc'[i] = proc[i]
      /\ WorksOn(h, t)' => WorksOn(h, t) /\ Knows(h, t)'
  <2>1. CASE Found(h, proc[h].got[proc[h].tier]) BY <1>1, <2>1, FindsFine
  <2>2. CASE Goto(h, "fill")
    <3>1. /\ proc'[h].at = "fill" /\ proc'[h].op = proc[h].op /\ proc'[h].tier = proc[h].tier
          /\ proc'[h].got = proc[h].got
          /\ \A i \in Handlers \ {h} : proc'[i] = proc[i]
      BY <2>2 DEF Goto, Become, Procs, TypeOK
    <3>2. WorksOn(h, t)' = WorksOn(h, t) BY <1>1, <3>1 DEF WorksOn
    <3>3. WorksOn(h, t) => Knows(h, t) BY DEF Fine, Known
    <3> QED BY <1>1, <3>1, <3>2, <3>3 DEF Knows
  <2> QED BY <2>1, <2>2 DEF FillCopy
<1>5. /\ ~Writes(h, t, {"write", "drop", "publish"}) /\ ~Writes(h, t, {"write", "drop"})
  BY <1>1 DEF Writes
<1>6. \A g \in Gateways : ~Right(tierCache[g][t], t)' =>
          ~Right(tierCache[g][t], t) /\ (inbox[g][t] > 0 => inbox'[g][t] > 0)
  BY <1>1 DEF Right, InForce
<1> QED BY <1>1, <1>3, <1>4, <1>5, <1>6, FineKept

(* A handler that saves or deletes a tier: its row, its copy, the message.  *)
LEMMA WritesOn ==
    ASSUME TypeOK, NEW h \in Handlers, NEW place, Goto(h, place)
    PROVE  /\ proc'[h].at = place /\ proc'[h].op = proc[h].op /\ proc'[h].tier = proc[h].tier
           /\ proc'[h].val = proc[h].val
           /\ \A i \in Handlers \ {h} : proc'[i] = proc[i]
BY DEF Goto, Become, Procs, TypeOK

(* The others are not at work on a tier on which h is at work before and    *)
(* after its step.                                                          *)
LEMMA StaysAlone ==
    ASSUME NEW t \in Tiers, Fine(t), NEW h \in Handlers, WorksOn(h, t), WorksOn(h, t)',
           \A i \in Handlers \ {h} : proc'[i] = proc[i],
           Knows(h, t)'
    PROVE  Alone(t)' /\ Known(t)'
<1>1. \A i \in Handlers : i # h => ~WorksOn(i, t) /\ ~WorksOn(i, t)'
  BY DEF Fine, Alone, WorksOn
<1> QED BY <1>1 DEF Alone, Known

LEMMA CommitFine ==
    ASSUME IInv, NEW t \in Tiers, Fine(t), NEW h \in Handlers, Commit(h)
    PROVE  Fine(t)'
<1> USE Types DEF IInv
<1>1. /\ proc[h].at \in {"commit", "delete"} /\ proc'[h].at \in {"write", "drop"}
      /\ proc'[h].op = proc[h].op /\ proc'[h].tier = proc[h].tier /\ proc'[h].val = proc[h].val
      /\ \A i \in Handlers \ {h} : proc'[i] = proc[i]
  BY WritesOn DEF Commit
<1>2. UNCHANGED <<copy, tierCache, inbox, deaf>> BY DEF Commit, caches, channel, history
<1>3. proc[h].op # "list" BY <1>1 DEF Shapes, Shape, WriteOps
<1>4. CASE proc[h].tier = t
  <2>1. WorksOn(h, t) /\ WorksOn(h, t)' BY <1>1, <1>4 DEF WorksOn
  <2>2. row'[t] = proc[h].val BY <1>4 DEF Commit, SetRow
  <2>3. Knows(h, t)' BY <1>1, <2>2 DEF Knows
  <2>4. Writes(h, t, {"write", "drop"})' /\ Writes(h, t, {"write", "drop", "publish"})'
    BY <1>1, <1>4 DEF Writes
  <2>5. Copied(t)' /\ Rumoured(t)' BY <2>4 DEF Copied, Rumoured
  <2> QED BY <1>1, <2>1, <2>3, <2>5, StaysAlone DEF Fine
<1>5. CASE proc[h].tier # t
  <2>1. row'[t] = row[t] BY <1>5 DEF Commit, SetRow
  <2>2. ~WorksOn(h, t)' BY <1>1, <1>3, <1>5 DEF WorksOn
  <2>3. /\ ~Writes(h, t, {"write", "drop", "publish"}) /\ ~Writes(h, t, {"write", "drop"})
    BY <1>5 DEF Writes
  <2>4. \A g \in Gateways : ~Right(tierCache[g][t], t)' =>
            ~Right(tierCache[g][t], t) /\ (inbox[g][t] > 0 => inbox'[g][t] > 0)
    BY <1>2, <2>1 DEF Right, InForce
  <2> QED BY <1>1, <1>2, <2>1, <2>2, <2>3, <2>4, FineKept
<1> QED BY <1>4, <1>5

LEMMA WriteCopyFine ==
    ASSUME IInv, NEW t \in Tiers, Fine(t), NEW h \in Handlers, WriteCopy(h)
    PROVE  Fine(t)'
<1> USE Types DEF IInv
<1>1. /\ proc[h].at \in {"write", "drop"} /\ proc'[h].at = "publish"
      /\ proc'[h].op = proc[h].op /\ proc'[h].tier = proc[h].tier /\ proc'[h].val = proc[h].val
      /\ \A i \in Handlers \ {h} : proc'[i] = proc[i]
  BY WritesOn DEF WriteCopy
<1>2. UNCHANGED <<row, tierCache, inbox, deaf>> BY DEF WriteCopy, caches, channel, history
<1>3. proc[h].op # "list" BY <1>1 DEF Shapes, Shape, WriteOps
<1>4. CASE proc[h].tier = t
  <2>1. WorksOn(h, t) /\ WorksOn(h, t)' BY <1>1, <1>4 DEF WorksOn
  <2>2. row[t] = proc[h].val BY <1>1, <2>1 DEF Fine, Known, Knows
  <2>3. copy'[t] = proc[h].val BY <1>4 DEF WriteCopy
  <2>4. Knows(h, t)' BY <1>1, <1>2, <2>2 DEF Knows
  <2>5. Writes(h, t, {"write", "drop", "publish"})' BY <1>1, <1>4 DEF Writes
  <2>6. Copied(t)' /\ Rumoured(t)' BY <1>2, <2>2, <2>3, <2>5 DEF Copied, Rumoured
  <2> QED BY <1>1, <2>1, <2>4, <2>6, StaysAlone DEF Fine
<1>5. CASE proc[h].tier # t
  <2>1. copy'[t] = copy[t] BY <1>5 DEF WriteCopy
  <2>2. ~WorksOn(h, t)' BY <1>1, <1>3, <1>5 DEF WorksOn
  <2>3. /\ ~Writes(h, t, {"write", "drop", "publish"}) /\ ~Writes(h, t, {"write", "drop"})
    BY <1>5 DEF Writes
  <2>4. \A g \in Gateways : ~Right(tierCache[g][t], t)' =>
            ~Right(tierCache[g][t], t) /\ (inbox[g][t] > 0 => inbox'[g][t] > 0)
    BY <1>2 DEF Right, InForce
  <2> QED BY <1>1, <1>2, <2>1, <2>2, <2>3, <2>4, FineKept
<1> QED BY <1>4, <1>5

(* The message reaches every gateway that is not deaf.                      *)
LEMMA PublishFine ==
    ASSUME IInv, Heard, NEW t \in Tiers, Fine(t), NEW h \in Handlers, Publish(h)
    PROVE  Fine(t)'
<1> USE Types DEF IInv
<1>1. /\ proc[h].at = "publish" /\ proc'[h].at = "evict"
      /\ proc'[h].op = proc[h].op /\ proc'[h].tier = proc[h].tier
      /\ \A i \in Handlers \ {h} : proc'[i] = proc[i]
  BY WritesOn DEF Publish
<1>2. UNCHANGED <<row, copy, tierCache, deaf>> BY DEF Publish, stores, caches, history
<1>3. proc[h].op # "list" BY <1>1 DEF Shapes, Shape, WriteOps
<1>4. \A g \in Gateways : /\ proc[h].tier # t => inbox'[g][t] = inbox[g][t]
                          /\ proc[h].tier = t /\ g \notin deaf => inbox'[g][t] > 0
  <2> SUFFICES ASSUME NEW g \in Gateways
               PROVE  /\ proc[h].tier # t => inbox'[g][t] = inbox[g][t]
                      /\ proc[h].tier = t /\ g \notin deaf => inbox'[g][t] > 0
    OBVIOUS
  <2>1. inbox'[g] = IF g \in subscribed
                    THEN [inbox[g] EXCEPT ![proc[h].tier] = @ + 1] ELSE inbox[g]
    BY DEF Publish, Told
  <2>2. inbox[g] \in [Tiers -> Nat] /\ inbox[g][t] \in Nat BY DEF TypeOK
  <2>3. g \notin deaf => g \in subscribed BY DEF Heard
  <2> QED BY <2>1, <2>2, <2>3
<1>5. CASE proc[h].tier = t
  <2>1. WorksOn(h, t) /\ WorksOn(h, t)' BY <1>1, <1>5 DEF WorksOn
  <2>2. Knows(h, t)' BY <1>1 DEF Knows
  <2>3. ASSUME NEW i \in Handlers, Writes(i, t, {"write", "drop"}) PROVE FALSE
    <3>1. WorksOn(i, t) BY <2>3 DEF Writes, WorksOn
    <3> QED BY <1>1, <2>1, <2>3, <3>1 DEF Fine, Alone, Writes
  <2>4. Copied(t)' BY <1>2, <2>3 DEF Fine, Copied
  <2>5. Rumoured(t)' BY <1>2, <1>4, <1>5 DEF Rumoured
  <2> QED BY <1>1, <2>1, <2>2, <2>4, <2>5, StaysAlone DEF Fine
<1>6. CASE proc[h].tier # t
  <2>1. ~WorksOn(h, t)' BY <1>1, <1>3, <1>6 DEF WorksOn
  <2>2. /\ ~Writes(h, t, {"write", "drop", "publish"}) /\ ~Writes(h, t, {"write", "drop"})
    BY <1>6 DEF Writes
  <2>3. \A g \in Gateways : ~Right(tierCache[g][t], t)' =>
            ~Right(tierCache[g][t], t) /\ (inbox[g][t] > 0 => inbox'[g][t] > 0)
    BY <1>2, <1>4, <1>6 DEF Right, InForce
  <2> QED BY <1>1, <1>2, <2>1, <2>2, <2>3, FineKept
<1> QED BY <1>5, <1>6

(* A handler that ends.                                                     *)
LEMMA EndsFine ==
    ASSUME IInv, NEW t \in Tiers, Fine(t), NEW h \in Handlers, Stop(h),
           ~Writes(h, t, {"write", "drop", "publish"}),
           UNCHANGED <<row, copy, inbox, deaf>>,
           \A g \in Gateways : tierCache'[g][t] \in {tierCache[g][t], None}
    PROVE  Fine(t)'
<1> USE DEF IInv
<1>1. /\ proc'[h].at = "idle"
      /\ \A i \in Handlers \ {h} : proc'[i] = proc[i]
  BY Stops
<1>2. ~WorksOn(h, t)' BY <1>1 DEF WorksOn
<1>3. ~Writes(h, t, {"write", "drop"}) BY DEF Writes
<1>4. \A g \in Gateways : ~Right(tierCache[g][t], t)' =>
          ~Right(tierCache[g][t], t) /\ (inbox[g][t] > 0 => inbox'[g][t] > 0)
  BY DEF Right, InForce
<1> QED BY <1>1, <1>2, <1>3, <1>4, FineKept

LEMMA EvictFine ==
    ASSUME IInv, NEW t \in Tiers, Fine(t), NEW h \in Handlers, Evict(h)
    PROVE  Fine(t)'
<1>1. Stop(h) /\ UNCHANGED <<row, copy, inbox, deaf>>
      /\ ~Writes(h, t, {"write", "drop", "publish"})
  BY DEF Evict, stores, channel, history, Writes
<1>2. \A g \in Gateways : tierCache'[g][t] \in {tierCache[g][t], None}
  BY HomeAssumption, Types, WithoutOK DEF Evict, IInv
<1> QED BY <1>1, <1>2, EndsFine

(* A write that is broken off leaves its tier no longer clean.              *)
LEMMA CancelFine ==
    ASSUME IInv, NEW t \in Tiers, Fine(t), NEW h \in Handlers, Clean(t)',
           Stop(h), BrokenOff(h), UNCHANGED <<row, copy, tierCache, inbox, deaf>>
    PROVE  Fine(t)'
<1>1. ~Writes(h, t, {"write", "drop", "publish"})
  BY DEF BrokenOff, Unfinished, Writes, Clean
<1> QED BY <1>1, EndsFine

-----------------------------------------------------------------------------
(* Steps that are no handler's.                                             *)
LEMMA FineStill ==
    ASSUME IInv, NEW t \in Tiers, Fine(t),
           \A h \in Handlers : /\ proc'[h].at = proc[h].at /\ proc'[h].op = proc[h].op
                               /\ proc'[h].tier = proc[h].tier /\ proc'[h].val = proc[h].val
                               /\ proc'[h].got = proc[h].got,
           UNCHANGED <<row, copy>>, deaf \subseteq deaf',
           \A g \in Gateways : g \notin deaf' /\ ~Right(tierCache[g][t], t)' =>
               ~Right(tierCache[g][t], t) /\ (inbox[g][t] > 0 => inbox'[g][t] > 0)
    PROVE  Fine(t)'
<1>1. \A h \in Handlers : WorksOn(h, t)' = WorksOn(h, t) BY DEF WorksOn
<1>2. Alone(t)' BY <1>1 DEF Fine, Alone
<1>3. Known(t)' BY <1>1 DEF Fine, Known, Knows, InForce
<1>4. \A h \in Handlers : \A P : Writes(h, t, P)' = Writes(h, t, P) BY DEF Writes
<1>5. Copied(t)' BY <1>4 DEF Fine, Copied
<1>6. Rumoured(t)' BY <1>4 DEF Fine, Rumoured
<1> QED BY <1>2, <1>3, <1>5, <1>6 DEF Fine

(* Who has heard has no older version, and messages are lost only by the    *)
(* deaf.                                                                    *)
LEMMA OthersFine ==
    ASSUME IInv, NEW t \in Tiers, Fine(t),
           \E g \in Gateways : \/ Subscribe(g) \/ PushOut(g) \/ \E u \in Tiers : Hear(g, u)
                               \/ Disconnect(g) /\ UNCHANGED <<stores, caches>>
    PROVE  Fine(t)'
<1> USE Types DEF IInv
<1> PICK g \in Gateways : \/ Subscribe(g) \/ PushOut(g) \/ \E u \in Tiers : Hear(g, u)
                          \/ Disconnect(g) /\ UNCHANGED <<stores, caches>>
  OBVIOUS
<1>1. UNCHANGED <<row, copy, proc>> /\ deaf \subseteq deaf'
  BY DEF Subscribe, PushOut, Hear, Disconnect, stores, history
<1>2. ASSUME NEW f \in Gateways, f \notin deaf', ~Right(tierCache[f][t], t)'
      PROVE  ~Right(tierCache[f][t], t) /\ (inbox[f][t] > 0 => inbox'[f][t] > 0)
  <2>1. CASE Subscribe(g)
    BY <1>1, <1>2, <2>1 DEF Subscribe, caches, Right, InForce
  <2>2. CASE PushOut(g)
    <3>1. tierCache'[f][t] \in {tierCache[f][t], None} BY <2>2, WithoutOK DEF PushOut
    <3> QED BY <1>1, <1>2, <2>2, <3>1 DEF PushOut, channel, Right, InForce
  <2>3. ASSUME NEW u \in Tiers, Hear(g, u)
        PROVE  ~Right(tierCache[f][t], t) /\ (inbox[f][t] > 0 => inbox'[f][t] > 0)
    <3>1. tierCache'[f][t] \in {tierCache[f][t], None} BY <2>3, WithoutOK DEF Hear
    <3>2. ~(f = g /\ t = u) BY <1>2, <2>3 DEF Hear, Without, Right, TypeOK
    <3>3. inbox'[f][t] = inbox[f][t] BY <2>3, <3>2 DEF Hear, TypeOK
    <3> QED BY <1>1, <1>2, <3>1, <3>3 DEF Right, InForce
  <2>4. CASE Disconnect(g) /\ UNCHANGED <<stores, caches>>
    <3>1. f # g BY <1>2, <2>4 DEF Disconnect
    <3>2. inbox'[f] = inbox[f] BY <2>4, <3>1 DEF Disconnect, TypeOK
    <3> QED BY <1>1, <1>2, <2>4, <3>2 DEF caches, Right, InForce
  <2> QED BY <2>1, <2>2, <2>3, <2>4
<1> QED BY <1>1, <1>2, FineStill

LEMMA TickFine ==
    ASSUME IInv, NEW t \in Tiers, Fine(t), Tick
    PROVE  Fine(t)'
<1> USE Types DEF IInv
<1>1. UNCHANGED <<row, copy, inbox, deaf>> BY DEF Tick, stores, channel, history
<1>2. \A h \in Handlers : /\ proc'[h].at = proc[h].at /\ proc'[h].op = proc[h].op
                          /\ proc'[h].tier = proc[h].tier /\ proc'[h].val = proc[h].val
                          /\ proc'[h].got = proc[h].got
  BY DEF Tick, Procs
<1>3. ASSUME NEW g \in Gateways, ~Right(tierCache[g][t], t)'
      PROVE  ~Right(tierCache[g][t], t)
  <2>1. tierCache'[g][t] = Older(tierCache[g][t]) BY DEF Tick
  <2>2. tierCache[g][t] \in Entries BY DEF TypeOK
  <2> QED BY <1>1, <1>3, <2>1, <2>2, OlderOK DEF Right, InForce
<1> QED BY <1>1, <1>2, <1>3, FineStill

(* Every step.                                                              *)
LEMMA HeardKept == ASSUME IInv, Heard, [Next]_vars PROVE Heard'
<1> USE Types DEF IInv
<1>1. /\ shared \subseteq shared' /\ broken \subseteq broken'
      /\ Gateways \ deaf' \subseteq subscribed'
  <2>1. ASSUME NEW h \in Handlers, Begin(h) \/ Step(h) \/ Cancel(h)
        PROVE  /\ shared \subseteq shared' /\ broken \subseteq broken' /\ deaf' = deaf
               /\ subscribed' = subscribed
    BY <2>1 DEF Begin, Step, Cancel, BrokenOff, ReadKeyCache, ReadTierCache, Keep, KeepKey,
                ReadRow, ReadCopy, Fill, FillCopy, Commit, WriteCopy, Publish, Evict,
                history, channel
  <2>2. ASSUME NEW g \in Gateways,
               Subscribe(g) \/ PushOut(g) \/ \E t \in Tiers : Hear(g, t)
        PROVE  UNCHANGED history /\ subscribed \subseteq subscribed'
    BY <2>2 DEF Subscribe, PushOut, Hear, channel
  <2>3. CASE Tick BY <2>3 DEF Tick, history, channel, Heard
  <2>4. CASE Fault
    <3>1. shared' = shared BY <2>4 DEF Fault
    <3>2. ASSUME NEW h \in Handlers, Forgive(h)
          PROVE  broken \subseteq broken' /\ deaf' = deaf /\ subscribed' = subscribed
      BY <3>2 DEF Forgive, BrokenOff, channel
    <3>3. ASSUME NEW g \in Gateways, Disconnect(g)
          PROVE  broken' = broken /\ deaf' = deaf \cup {g} /\ subscribed' = subscribed \ {g}
      BY <3>3 DEF Disconnect
    <3> QED BY <2>4, <3>1, <3>2, <3>3 DEF Fault, Heard
  <2>5. CASE UNCHANGED vars BY <2>5 DEF vars, history, channel, Heard
  <2> QED BY <2>1, <2>2, <2>3, <2>4, <2>5 DEF Next, Heard, history
<1>2. ASSUME NEW t \in Tiers, Clean(t)' PROVE Fine(t)'
  <2>1. Fine(t) BY <1>1, <1>2 DEF Heard, Clean
  <2>2. ASSUME NEW h \in Handlers, Begin(h) PROVE Fine(t)'
    BY <1>2, <2>1, <2>2, BeginFine
  <2>3. ASSUME NEW h \in Handlers, Step(h) PROVE Fine(t)'
    BY <2>1, <2>3, ReadKeyCacheFine, ReadTierCacheFine, KeepFine, ReadRowFine, ReadCopyFine,
       FillFine, FillCopyFine, CommitFine, WriteCopyFine, PublishFine, EvictFine DEF Step
  <2>4. ASSUME NEW h \in Handlers, Cancel(h) PROVE Fine(t)'
    BY <1>2, <2>1, <2>4, CancelFine DEF Cancel, stores, caches, channel
  <2>5. ASSUME NEW g \in Gateways,
               Subscribe(g) \/ PushOut(g) \/ \E u \in Tiers : Hear(g, u)
        PROVE  Fine(t)'
    BY <2>1, <2>5, OthersFine
  <2>6. CASE Fault
    <3>1. UNCHANGED <<stores, caches>> BY <2>6 DEF Fault
    <3>2. ASSUME NEW h \in Handlers, Forgive(h) PROVE Fine(t)'
      <4>1. UNCHANGED <<row, copy, tierCache, inbox, deaf>>
        BY <3>1, <3>2 DEF stores, caches, Forgive, channel
      <4>2. CASE proc[h].at = "copy" /\ Missing(h) BY <2>1, <4>1, <4>2, MissesFine
      <4>3. CASE proc[h].at \in {"fill", "fillcopy"} /\ Found(h, proc[h].got[proc[h].tier])
        <5>1. /\ \A i \in Handlers \ {h} : proc'[i] = proc[i]
              /\ ~WorksOn(h, t)'
          BY <2>1, <4>3, FindsFine
        <5>2. ~Writes(h, t, {"write", "drop", "publish"}) BY <4>3 DEF Writes
        <5> QED BY <2>1, <4>1, <5>1, <5>2, FineQuiet
      <4>4. CASE proc[h].at = "publish" /\ Stop(h)
        BY <1>2, <2>1, <3>2, <4>1, <4>4, CancelFine DEF Forgive
      <4> QED BY <3>2, <4>2, <4>3, <4>4 DEF Forgive
    <3>3. ASSUME NEW g \in Gateways, Disconnect(g) PROVE Fine(t)'
      BY <2>1, <3>1, <3>3, OthersFine
    <3> QED BY <2>6, <3>2, <3>3 DEF Fault
  <2>7. CASE UNCHANGED vars
    <3>1. UNCHANGED <<row, copy, tierCache, inbox, deaf, proc>>
      BY <2>7 DEF vars, stores, caches, channel, history
    <3> QED BY <2>1, <3>1, FineStill DEF Right, InForce
  <2> QED BY <2>1, <2>2, <2>3, <2>4, <2>5, <2>6, <2>7, TickFine DEF Next
<1> QED BY <1>1, <1>2 DEF Heard

-----------------------------------------------------------------------------
(* Every variable has its type.                                             *)
THEOREM TiersTypeCorrect == Spec => []TypeOK
<1>1. IInv => TypeOK BY DEF IInv
<1> QED BY <1>1, Invariance, PTL

(* A change of a tier is in force everywhere after twice the life of an     *)
(* entry and of a handler: no cache of keys has an older version by then.   *)
THEOREM TiersTakeHold == Spec => []ChangesTakeHold
<1>1. IInv => ChangesTakeHold
  <2> SUFFICES ASSUME IInv, NEW g \in Gateways, NEW k \in Keys,
                      ~Right(keyCache[g][k], TierOf[k]), TierOf[k] \notin unsaved
               PROVE  since[TierOf[k]] <= Stale
    BY DEF ChangesTakeHold
  <2> USE DEF IInv
  <2>1. since[TierOf[k]] + keyCache[g][k].left <= Stale BY DEF KeyAges
  <2>2. keyCache[g][k] \in Entries /\ keyCache[g][k] # None BY DEF TypeOK, Right
  <2>3. keyCache[g][k] \in [val : Values, left : 0..TTL] BY <2>2 DEF Entries
  <2>4. keyCache[g][k].left \in 0..TTL BY <2>3
  <2>5. TierOf[k] \in Tiers BY TierOfAssumption
  <2> QED BY <2>1, <2>4, <2>5, Types DEF Stale
<1> QED BY <1>1, Invariance, PTL

(* When no two handlers were at work on a tier at once, no write of it was  *)
(* broken off, and a gateway was never without its subscription and has     *)
(* heard every message, it has nothing older than the database in its cache *)
(* of tiers (the messages of save_tier_config and delete_tier_config in     *)
(* store.py, and the listener of redis_client.py).                          *)
THEOREM TiersAreHeard == Spec => []TierCachesHear
<1>1. IInv /\ Heard => TierCachesHear
  <2> SUFFICES ASSUME IInv, Heard, NEW g \in Gateways, NEW t \in Tiers, Settled(g, t)
               PROVE  Right(tierCache[g][t], t)
    BY DEF TierCachesHear
  <2>1. Fine(t) /\ g \in Gateways \ deaf BY DEF Settled, Heard, Clean
  <2>2. ~(inbox[g][t] > 0) BY DEF Settled
  <2>3. ASSUME NEW h \in Handlers, Writes(h, t, {"write", "drop", "publish"}) PROVE FALSE
    BY <2>3 DEF Settled, Busy, WorksOn, Writes
  <2> QED BY <2>1, <2>2, <2>3 DEF Fine, Rumoured
<1>2. Spec => [](IInv /\ Heard)
  <2>1. Init => IInv /\ Heard BY InitIInv, InitHeard
  <2>2. (IInv /\ Heard) /\ [Next]_vars => (IInv /\ Heard)' BY NextKeeps, HeardKept
  <2> QED BY <2>1, <2>2, PTL DEF Spec
<1> QED BY <1>1, <1>2, PTL
=============================================================================
