----------------------------- MODULE RouteTable -----------------------------
(***************************************************************************)
(* The route table: rows in the database, a hash in Redis, and the table   *)
(* each gateway serves from memory (gateflow/redis_client.py and           *)
(* gateflow/store.py), under the admin API (gateflow/admin/routes.py) and  *)
(* the two background tasks of each gateway: the listener, which refreshes *)
(* the table when told to, and the health check.  Both may reconnect.      *)
(*                                                                         *)
(* A transaction, a Redis command and an assignment of the table are one   *)
(* step each.  A message says nothing but "refresh", so a subscription is  *)
(* the number of messages waiting in it.  The end of a gateway (close) and *)
(* messages about tiers are left out.                                      *)
(***************************************************************************)
EXTENDS Naturals, FiniteSets

CONSTANTS
    Prefixes,       \* prefixes of routes
    Versions,       \* what a route may be
    NoRoute,
    Gateways,
    Handlers,       \* handlers of the admin API, used again and again
    Home,           \* Home[h]: the gateway handler h runs in
    Known,          \* the prefixes that have a route at the start
    MaxWrites,      \* bound: calls of the admin API
    MaxFaults       \* bound: failures, and handlers broken off

ASSUME KnownAssumption == Prefixes # {} /\ Known \subseteq Prefixes
ASSUME HomeAssumption == Home \in [Handlers -> Gateways]
ASSUME VersionsAssumption == NoRoute \notin Versions
ASSUME BoundsAssumption == MaxWrites \in Nat /\ MaxFaults \in Nat

Listener(g) == <<g, "listener">>
Health(g) == <<g, "health">>
Listeners == {Listener(g) : g \in Gateways}
Healths == {Health(g) : g \in Gateways}
Tasks == Handlers \cup Listeners \cup Healths

GatewayOf(x) == IF x \in Handlers THEN Home[x] ELSE x[1]

VARIABLES
    row,            \* row[p]: the route of p in the database, or NoRoute
    hash,           \* hash[p]: the same in Redis
    table,          \* table[g]: what gateway g serves
    subscribed,     \* the gateways whose listener is subscribed
    inbox,          \* inbox[g]: messages waiting there
    proc,           \* proc[x]: what handler, listener or health check x is doing
    writes,         \* calls of the admin API so far
    faults,         \* failures so far
    asked           \* history: the prefixes whose deletion was asked for

stores == <<row, hash>>
channel == <<subscribed, inbox>>
bounds == <<writes, faults>>
vars == <<stores, table, channel, proc, bounds, asked>>

-----------------------------------------------------------------------------
Tables == [Prefixes -> Versions \cup {NoRoute}]
Empty == [p \in Prefixes |-> NoRoute]
Present(t) == {p \in Prefixes : t[p] # NoRoute}

(* Where a task is: waiting for work (idle; rest and subscribe are the      *)
(* listener's), in get_route (get, getcopy, keep, keepcopy), saving or      *)
(* deleting (commit, copy, delete, drop), telling the others (publish), in  *)
(* _refresh_routes (load, hash, fill, fillcopy, cold, assign), or           *)
(* reconnecting (wait, ping).  A task that raised out of its loop is dead.  *)
Places == {"idle", "rest", "subscribe",
           "get", "getcopy", "keep", "keepcopy",
           "commit", "copy", "delete", "drop", "publish",
           "load", "hash", "fill", "fillcopy", "cold", "assign",
           "wait", "ping", "dead"}

Refreshing == {"load", "hash", "fill", "fillcopy", "cold", "assign"}

Ops == {"create", "update", "delete", "reload", "reconnect"}

Procs == [at : Places, op : Ops, prefix : Prefixes, route : Versions \cup {NoRoute},
          got : Tables, todo : SUBSET Prefixes]

Resting == [at |-> "idle", op |-> "reload", prefix |-> CHOOSE p \in Prefixes : TRUE,
            route |-> NoRoute, got |-> Empty, todo |-> {}]

TypeOK ==
    /\ row \in Tables
    /\ hash \in Tables
    /\ table \in [Gateways -> Tables]
    /\ subscribed \subseteq Gateways
    /\ inbox \in [Gateways -> Nat]
    /\ \A g \in Gateways : g \notin subscribed => inbox[g] = 0
    /\ proc \in [Tasks -> Procs]
    /\ writes \in 0..MaxWrites
    /\ faults \in 0..MaxFaults
    /\ asked \subseteq Prefixes

(* The gateways have connected, which refreshed their tables; their         *)
(* listeners have not subscribed yet.                                       *)
Init ==
    /\ \E v \in Versions : row = [p \in Prefixes |-> IF p \in Known THEN v ELSE NoRoute]
    /\ hash = row
    /\ table = [g \in Gateways |-> row]
    /\ subscribed = {}
    /\ inbox = [g \in Gateways |-> 0]
    /\ proc = [x \in Tasks |->
                IF x \in Listeners THEN [Resting EXCEPT !.at = "subscribe"] ELSE Resting]
    /\ writes = 0
    /\ faults = 0
    /\ asked = {}

Become(x, p) == proc' = [proc EXCEPT ![x] = p]
Goto(x, place) == Become(x, [proc[x] EXCEPT !.at = place])
Stop(x) == Become(x, Resting)

-----------------------------------------------------------------------------
(* The admin API: create_route, update_route, remove_route.                *)

Begin(h) ==
    /\ proc[h].at = "idle"
    /\ writes < MaxWrites
    /\ writes' = writes + 1
    /\ \E p \in Prefixes :
        \/ /\ \E op \in {"create", "update"}, v \in Versions :
                Become(h, [Resting EXCEPT !.at = "get", !.op = op, !.prefix = p, !.route = v])
           /\ UNCHANGED asked
        \/ /\ Become(h, [Resting EXCEPT !.at = "delete", !.op = "delete", !.prefix = p])
           /\ asked' = asked \cup {p}
    /\ UNCHANGED <<stores, table, channel, faults>>

(* get_route answered whether there is a route.                             *)
Answered(h, found) ==
    IF found = (proc[h].op = "update")
    THEN Become(h, [proc[h] EXCEPT !.at = "commit", !.got = Empty])
    ELSE Stop(h)

(* get_route: the row, then the hash, whose route is saved again.           *)
GetRow(h) ==
    /\ proc[h].at = "get"
    /\ IF row[proc[h].prefix] # NoRoute THEN Answered(h, TRUE) ELSE Goto(h, "getcopy")
    /\ UNCHANGED <<stores, table, channel, bounds, asked>>

GetCopy(h) ==
    /\ proc[h].at = "getcopy"
    /\ IF hash[proc[h].prefix] # NoRoute
       THEN Become(h, [proc[h] EXCEPT !.at = "keep", !.got = hash])
       ELSE Answered(h, FALSE)
    /\ UNCHANGED <<stores, table, channel, bounds, asked>>

Keep(h) ==
    /\ proc[h].at = "keep"
    /\ row' = [row EXCEPT ![proc[h].prefix] = proc[h].got[proc[h].prefix]]
    /\ Goto(h, "keepcopy")
    /\ UNCHANGED <<hash, table, channel, bounds, asked>>

KeepCopy(h) ==
    /\ proc[h].at = "keepcopy"
    /\ hash' = [hash EXCEPT ![proc[h].prefix] = proc[h].got[proc[h].prefix]]
    /\ Answered(h, TRUE)
    /\ UNCHANGED <<row, table, channel, bounds, asked>>

(* What reload_routes does after the stores were written: it refreshes the  *)
(* table here, and then tells everybody.                                    *)
AfterPublishFirst(place) ==
    CASE place = "write" -> "publish" [] place = "publish" -> "load" [] place = "refresh" -> "idle"
After(place) ==
    CASE place = "write" -> "load" [] place = "refresh" -> "publish" [] place = "publish" -> "idle"

(* save_route and delete_route.                                             *)
Commit(h) ==
    /\ proc[h].at \in {"commit", "delete"}
    /\ row' = [row EXCEPT ![proc[h].prefix] = proc[h].route]
    /\ Goto(h, IF proc[h].at = "commit" THEN "copy" ELSE "drop")
    /\ UNCHANGED <<hash, table, channel, bounds, asked>>

Copy(h) ==
    /\ proc[h].at \in {"copy", "drop"}
    /\ hash' = [hash EXCEPT ![proc[h].prefix] = proc[h].route]
    /\ Become(h, [Resting EXCEPT !.at = After("write")])
    /\ UNCHANGED <<row, table, channel, bounds, asked>>

(* A message reaches who is subscribed, its sender too, and nobody later.   *)
ReceiversEver == Gateways
Receivers == subscribed

Publish(h) ==
    /\ proc[h].at = "publish"
    /\ inbox' = [g \in Gateways |-> IF g \in Receivers THEN inbox[g] + 1 ELSE inbox[g]]
    /\ Goto(h, After("publish"))
    /\ UNCHANGED <<stores, table, subscribed, bounds, asked>>

-----------------------------------------------------------------------------
(* _refresh_routes, wherever it is called from.                            *)

(* list_routes: all rows, or, when there are none, the hash.                *)
Load(x) ==
    /\ proc[x].at = "load"
    /\ IF Present(row) # {}
       THEN Become(x, [proc[x] EXCEPT !.at = "assign", !.got = row])
       ELSE Goto(x, "hash")
    /\ UNCHANGED <<stores, table, channel, bounds, asked>>

LoadHash(x) ==
    /\ proc[x].at = "hash"
    /\ Become(x, [proc[x] EXCEPT !.got = hash, !.todo = Present(hash),
                                 !.at = IF Present(hash) = {} THEN "assign" ELSE "fill"])
    /\ UNCHANGED <<stores, table, channel, bounds, asked>>

(* The routes found in the hash are saved, one after the other.             *)
Fill(x) ==
    /\ proc[x].at = "fill"
    /\ \E p \in proc[x].todo :
        /\ row' = [row EXCEPT ![p] = proc[x].got[p]]
        /\ Become(x, [proc[x] EXCEPT !.at = "fillcopy", !.prefix = p, !.todo = @ \ {p}])
    /\ UNCHANGED <<hash, table, channel, bounds, asked>>

FillCopy(x) ==
    /\ proc[x].at = "fillcopy"
    /\ hash' = [hash EXCEPT ![proc[x].prefix] = proc[x].got[proc[x].prefix]]
    /\ Become(x, [proc[x] EXCEPT !.prefix = Resting.prefix,
                                 !.at = IF proc[x].todo = {} THEN "assign" ELSE "fill"])
    /\ UNCHANGED <<row, table, channel, bounds, asked>>

(* When the database fails, the hash is the table.                          *)
LoadCold(x) ==
    /\ proc[x].at = "cold"
    /\ Become(x, [proc[x] EXCEPT !.at = "assign", !.got = hash])
    /\ UNCHANGED <<stores, table, channel, bounds, asked>>

(* The table is assigned.  A handler goes on; a listener listens again, and *)
(* subscribes first after a reconnection, which closes the client before    *)
(* it and with it the subscription of a listener that uses it.              *)
Assign(x) ==
    /\ proc[x].at = "assign"
    /\ table' = [table EXCEPT ![GatewayOf(x)] = proc[x].got]
    /\ \/ x \in Handlers /\ Become(x, [Resting EXCEPT !.at = After("refresh")])
       \/ x \in Listeners /\ proc[x].op = "reload" /\ Stop(x)
       \/ x \in Listeners /\ proc[x].op = "reconnect"
          /\ Become(x, [Resting EXCEPT !.at = "subscribe"])
       \/ x \in Healths /\ Stop(x)
    /\ IF proc[x].op = "reconnect"
       THEN /\ subscribed' = subscribed \ {GatewayOf(x)}
            /\ inbox' = [inbox EXCEPT ![GatewayOf(x)] = 0]
       ELSE UNCHANGED channel
    /\ UNCHANGED <<stores, bounds, asked>>

-----------------------------------------------------------------------------
(* The listener and the health check.                                      *)

Subscribe(g) ==
    /\ proc[Listener(g)].at = "subscribe"
    /\ subscribed' = subscribed \cup {g}
    /\ Stop(Listener(g))
    /\ UNCHANGED <<stores, table, inbox, bounds, asked>>

Hear(g) ==
    /\ proc[Listener(g)].at = "idle"
    /\ inbox[g] > 0
    /\ inbox' = [inbox EXCEPT ![g] = @ - 1]
    /\ Goto(Listener(g), "load")
    /\ UNCHANGED <<stores, table, subscribed, bounds, asked>>

(* The listener finds its connection closed.                                *)
Notice(g) ==
    /\ proc[Listener(g)].at = "idle"
    /\ g \notin subscribed
    /\ Become(Listener(g), [Resting EXCEPT !.at = "wait", !.op = "reconnect"])
    /\ UNCHANGED <<stores, table, channel, bounds, asked>>

(* After an error of another kind it sleeps and subscribes again.           *)
Wake(g) ==
    /\ proc[Listener(g)].at = "rest"
    /\ Goto(Listener(g), "subscribe")
    /\ UNCHANGED <<stores, table, channel, bounds, asked>>

(* _reconnect, under its lock: a new client, a ping, the scripts, the table. *)
Locked(g) ==
    \E x \in {Listener(g), Health(g)} :
        proc[x].op = "reconnect" /\ proc[x].at \in {"ping"} \cup Refreshing

Enter(x) ==
    /\ proc[x].at = "wait"
    /\ ~Locked(GatewayOf(x))
    /\ Goto(x, "ping")
    /\ UNCHANGED <<stores, table, channel, bounds, asked>>

Pinged(x) ==
    /\ proc[x].at = "ping"
    /\ Goto(x, "load")
    /\ UNCHANGED <<stores, table, channel, bounds, asked>>

-----------------------------------------------------------------------------
(* Failures.                                                               *)

(* The connection of a subscription breaks, and what waits in it is lost.   *)
Disconnect(g) ==
    /\ g \in subscribed
    /\ subscribed' = subscribed \ {g}
    /\ inbox' = [inbox EXCEPT ![g] = 0]
    /\ UNCHANGED <<stores, table, proc, asked>>

(* The health check's ping fails.                                           *)
PingFails(g) ==
    /\ proc[Health(g)].at = "idle"
    /\ Become(Health(g), [Resting EXCEPT !.at = "wait", !.op = "reconnect"])
    /\ UNCHANGED <<stores, table, channel, asked>>

(* Redis refuses the new client, or its table cannot be had at all: the     *)
(* exception leaves _reconnect, and with it the loop that called it.        *)
ReconnectFails(x) ==
    /\ x \notin Handlers
    /\ proc[x].op = "reconnect" /\ proc[x].at \in {"ping", "cold"}
    /\ Goto(x, "dead")
    /\ UNCHANGED <<stores, table, channel, asked>>

(* Neither store answers a listener that was told to refresh: the table     *)
(* stays as it is, and the listener reconnects if it was the connection, or *)
(* rests after an error of another kind.                                    *)
RefreshFails(g) ==
    /\ proc[Listener(g)].op = "reload" /\ proc[Listener(g)].at = "cold"
    /\ \/ Become(Listener(g), [Resting EXCEPT !.at = "wait", !.op = "reconnect"])
       \/ Become(Listener(g), [Resting EXCEPT !.at = "rest"])
    /\ subscribed' = subscribed \ {g}
    /\ inbox' = [inbox EXCEPT ![g] = 0]
    /\ UNCHANGED <<stores, table, asked>>

(* A failure that list_routes or get_route swallows: no hash to be read is  *)
(* an empty one, a find that could not be saved is a find, and a database   *)
(* that fails sends _refresh_routes to the hash.                            *)
SwallowedAsEmpty(x) ==
    \/ proc[x].at = "load" /\ Goto(x, "assign")
    \/ proc[x].at = "hash" /\ Goto(x, "assign")
    \/ proc[x].at \in {"fill", "fillcopy"} /\ Goto(x, "assign")
    \/ proc[x].at = "getcopy" /\ Answered(x, FALSE)
    \/ proc[x].at \in {"keep", "keepcopy"} /\ Answered(x, TRUE)
Swallowed(x) ==
    \/ proc[x].at = "load" /\ Goto(x, "cold")
    \/ proc[x].at = "hash" /\ Goto(x, "assign")
    \/ proc[x].at \in {"fill", "fillcopy"} /\ Goto(x, "assign")
    \/ proc[x].at = "getcopy" /\ Answered(x, FALSE)
    \/ proc[x].at \in {"keep", "keepcopy"} /\ Answered(x, TRUE)

Swallow(x) == Swallowed(x) /\ UNCHANGED <<stores, table, channel, asked>>

(* A handler is broken off by an error or with its client.                  *)
Cancel(h) ==
    /\ proc[h].at # "idle"
    /\ Stop(h)
    /\ UNCHANGED <<stores, table, channel, asked>>

Fault ==
    /\ faults < MaxFaults
    /\ faults' = faults + 1
    /\ UNCHANGED writes
    /\ \/ \E g \in Gateways : Disconnect(g) \/ PingFails(g) \/ RefreshFails(g)
       \/ \E x \in Tasks : Swallow(x) \/ ReconnectFails(x)
       \/ \E h \in Handlers : Cancel(h)

-----------------------------------------------------------------------------
Refresh(x) == Load(x) \/ LoadHash(x) \/ Fill(x) \/ FillCopy(x) \/ LoadCold(x) \/ Assign(x)

Handle(h) ==
    \/ GetRow(h) \/ GetCopy(h) \/ Keep(h) \/ KeepCopy(h)
    \/ Commit(h) \/ Copy(h) \/ Publish(h) \/ Refresh(h)

Listen(g) == Subscribe(g) \/ Hear(g) \/ Notice(g) \/ Wake(g)

Watch(x) == Enter(x) \/ Pinged(x) \/ Refresh(x)

Next ==
    \/ \E h \in Handlers : Begin(h) \/ Handle(h)
    \/ \E g \in Gateways : Listen(g)
    \/ \E x \in Listeners \cup Healths : Watch(x)
    \/ Fault

Spec == Init /\ [][Next]_vars

(* The event loops run the handlers and the tasks.                          *)
FairSpec ==
    /\ Spec
    /\ \A h \in Handlers : WF_vars(Handle(h))
    /\ \A g \in Gateways : WF_vars(Listen(g))
    /\ \A x \in Listeners \cup Healths : WF_vars(Watch(x))

-----------------------------------------------------------------------------
(* Safety.                                                                 *)

(* A route nobody asked to delete is served by every gateway at all times,  *)
(* whatever fails on the way to a table: the database, Redis, both, or a    *)
(* reconnection.                                                            *)
RoutesStay == \A g \in Gateways : Known \ asked \subseteq Present(table[g])

-----------------------------------------------------------------------------
(* Liveness.                                                               *)

(* A deletion overlaps a read that repairs the rows from the hash.          *)
Repairing == \E x \in Tasks : proc[x].at \in {"keep", "fill"}

(* When nothing fails, nothing is repaired and every gateway was subscribed *)
(* before the first write, all come to serve the table in the database,     *)
(* although refreshes may finish in another order than they began: each one *)
(* of a handler is followed by a message.                                   *)
TablesConverge ==
    [](faults = 0 /\ ~Repairing /\ (writes > 0 => subscribed = Gateways))
        => <>[](\A g \in Gateways : table[g] = row)

-----------------------------------------------------------------------------
(* What the documents say and the code does not do.                        *)

(* docs/REDIS_HA.md, "The RedisManager health check pings the master every  *)
(* GATEFLOW_REDIS_HEALTH_CHECK_INTERVAL seconds": it never stops.           *)
HealthCheckRuns == \A g \in Gateways : proc[Health(g)].at # "dead"
=============================================================================
