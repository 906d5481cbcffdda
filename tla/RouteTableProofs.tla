-------------------------- MODULE RouteTableProofs --------------------------
(***************************************************************************)
(* Proofs about RouteTable, for any prefixes, gateways and handlers and    *)
(* any number of writes and failures.                                      *)
(*                                                                         *)
(* RoutesStay speaks of the tables that are served.  What makes it true is *)
(* that a route nobody asked to delete is in both stores and in every      *)
(* table a task has in hand, and that the one place where a table may be   *)
(* taken for empty is reached only when no such route is left.             *)
(***************************************************************************)
EXTENDS RouteTable, TLAPS

(* The routes nobody asked to delete are everywhere.                        *)
Rooted ==
    \A p \in Known \ asked :
        /\ row[p] # NoRoute
        /\ hash[p] # NoRoute
        /\ \A g \in Gateways : table[g][p] # NoRoute

(* What a task with record q has in hand, when the deletions of the         *)
(* prefixes a have been asked for.                                          *)
InHand(q, a) ==
    /\ q.at \in {"get", "getcopy", "keep", "keepcopy", "commit", "copy"} => q.route \in Versions
    /\ q.at \in {"delete", "drop"} => q.prefix \in a
    /\ q.at \in {"keep", "keepcopy", "fillcopy"} => q.got[q.prefix] # NoRoute
    /\ q.at \in {"fill", "fillcopy"} => q.todo \subseteq Present(q.got)
    /\ q.at = "hash" => Known \subseteq a
    /\ q.at \in {"fill", "fillcopy", "assign"} => Known \ a \subseteq Present(q.got)

Stored ==
    /\ row \in Tables
    /\ hash \in Tables
    /\ table \in [Gateways -> Tables]
    /\ asked \subseteq Prefixes
    /\ Rooted

Tasked ==
    /\ proc \in [Tasks -> Procs]
    /\ \A x \in Tasks : InHand(proc[x], asked)

Channelled ==
    /\ subscribed \subseteq Gateways
    /\ inbox \in [Gateways -> Nat]
    /\ \A g \in Gateways : g \notin subscribed => inbox[g] = 0
    /\ writes \in 0..MaxWrites
    /\ faults \in 0..MaxFaults

(* The inductive invariant: TypeOK, and what is rooted and in hand.         *)
IInv == Stored /\ Tasked /\ Channelled

-----------------------------------------------------------------------------
(* The record of a task at rest.                                           *)
LEMMA RestingType == Resting \in Procs /\ Empty \in Tables
BY KnownAssumption DEF Resting, Procs, Places, Ops, Tables, Empty

(* A step of one task leaves the others what they have in hand.            *)
LEMMA OneMoves ==
    ASSUME Tasked, NEW x \in Tasks, NEW q \in Procs, Become(x, q),
           asked \subseteq asked', InHand(q, asked')
    PROVE  Tasked'
<1>1. proc' \in [Tasks -> Procs]
  BY DEF Tasked, Become
<1>2. ASSUME NEW y \in Tasks
      PROVE  InHand(proc'[y], asked')
  <2>1. CASE y = x
    BY <2>1 DEF Tasked, Become
  <2>2. CASE y # x
    <3>1. proc'[y] = proc[y] /\ InHand(proc[y], asked)
      BY <2>2 DEF Tasked, Become
    <3> QED BY <3>1 DEF InHand
  <2> QED BY <2>1, <2>2
<1> QED BY <1>1, <1>2 DEF Tasked

(* A task that rests, or takes up one of these places, has nothing in hand. *)
Free == {"idle", "rest", "subscribe", "publish", "load", "cold", "wait", "ping", "dead"}

(* Going to such a place.                                                   *)
LEMMA FreeMoves ==
    ASSUME Tasked, NEW x \in Tasks, NEW place \in Free, asked' = asked,
           \/ Goto(x, place)
           \/ \E op \in Ops : Become(x, [Resting EXCEPT !.at = place, !.op = op])
           \/ Become(x, [Resting EXCEPT !.at = place])
           \/ Stop(x)
    PROVE  Tasked'
<1>1. ASSUME NEW q \in Procs, q.at \in Free, Become(x, q)
      PROVE  Tasked'
  <2>1. InHand(q, asked')
    BY <1>1 DEF InHand, Free
  <2> QED BY <1>1, <2>1, OneMoves
<1>2. CASE Goto(x, place)
  <2>1. [proc[x] EXCEPT !.at = place] \in Procs /\ [proc[x] EXCEPT !.at = place].at = place
    BY DEF Tasked, Procs, Free, Places
  <2> QED BY <1>1, <1>2, <2>1 DEF Goto
<1>3. ASSUME NEW op \in Ops, Become(x, [Resting EXCEPT !.at = place, !.op = op])
      PROVE  Tasked'
  <2>1. /\ [Resting EXCEPT !.at = place, !.op = op] \in Procs
        /\ [Resting EXCEPT !.at = place, !.op = op].at = place
    BY RestingType DEF Procs, Free, Places
  <2> QED BY <1>1, <1>3, <2>1
<1>4. CASE Become(x, [Resting EXCEPT !.at = place])
  <2>1. [Resting EXCEPT !.at = place] \in Procs /\ [Resting EXCEPT !.at = place].at = place
    BY RestingType DEF Procs, Free, Places
  <2> QED BY <1>1, <1>4, <2>1
<1>5. CASE Stop(x)
  <2>1. Resting.at \in Free
    BY DEF Resting, Free
  <2> QED BY <1>1, <1>5, <2>1, RestingType DEF Stop
<1> QED BY <1>2, <1>3, <1>4, <1>5

(* What get_route answers decides what the handler does.                    *)
LEMMA AnsweredMoves ==
    ASSUME Tasked, NEW h \in Tasks, NEW found \in BOOLEAN, Answered(h, found), asked' = asked,
           proc[h].at \in {"get", "getcopy", "keep", "keepcopy"}
    PROVE  Tasked'
<1>1. CASE found = (proc[h].op = "update")
  <2> DEFINE q == [proc[h] EXCEPT !.at = "commit", !.got = Empty]
  <2>1. q \in Procs /\ q.at = "commit" /\ q.route = proc[h].route
    BY RestingType DEF Tasked, Procs, Places
  <2>2. proc[h].route \in Versions
    BY DEF Tasked, InHand
  <2>3. InHand(q, asked')
    BY <2>1, <2>2 DEF InHand
  <2> QED BY <1>1, <2>1, <2>3, OneMoves DEF Answered
<1>2. CASE found # (proc[h].op = "update")
  <2>1. Stop(h) /\ "idle" \in Free
    BY <1>2 DEF Answered, Free
  <2> QED BY <2>1, FreeMoves
<1> QED BY <1>1, <1>2

-----------------------------------------------------------------------------
(* The handlers.                                                           *)

(* A call of the admin API: a deletion asks for the end of its prefix.      *)
LEMMA BeginKeeps == ASSUME IInv, NEW h \in Handlers, Begin(h) PROVE Stored' /\ Tasked'
<1> USE DEF Tasks
<1>1. asked \subseteq asked' /\ asked' \subseteq Prefixes
  BY DEF Begin, IInv, Stored
<1>2. Stored'
  BY <1>1 DEF Begin, IInv, Stored, Rooted, stores
<1>3. ASSUME NEW p \in Prefixes, NEW op \in {"create", "update"}, NEW v \in Versions,
             Become(h, [Resting EXCEPT !.at = "get", !.op = op, !.prefix = p, !.route = v])
      PROVE  Tasked'
  <2> DEFINE q == [Resting EXCEPT !.at = "get", !.op = op, !.prefix = p, !.route = v]
  <2>1. q \in Procs /\ q.at = "get" /\ q.route = v
    BY RestingType DEF Procs, Places, Ops
  <2>2. InHand(q, asked')
    BY <2>1 DEF InHand
  <2> QED BY <1>1, <1>3, <2>1, <2>2, OneMoves DEF IInv
<1>4. ASSUME NEW p \in Prefixes, asked' = asked \cup {p},
             Become(h, [Resting EXCEPT !.at = "delete", !.op = "delete", !.prefix = p])
      PROVE  Tasked'
  <2> DEFINE q == [Resting EXCEPT !.at = "delete", !.op = "delete", !.prefix = p]
  <2>1. q \in Procs /\ q.at = "delete" /\ q.prefix = p
    BY RestingType DEF Procs, Places, Ops
  <2>2. InHand(q, asked')
    BY <1>4, <2>1 DEF InHand
  <2> QED BY <1>1, <1>4, <2>1, <2>2, OneMoves DEF IInv
<1> QED BY <1>2, <1>3, <1>4 DEF Begin

(* get_route reads, and saves what it finds only in the hash.               *)
LEMMA GetKeeps ==
    ASSUME IInv, NEW h \in Handlers, GetRow(h) \/ GetCopy(h) \/ Keep(h) \/ KeepCopy(h)
    PROVE  Stored' /\ Tasked'
<1> USE DEF Tasks
<1>1. Tasked /\ Stored /\ asked' = asked /\ proc[h] \in Procs /\ InHand(proc[h], asked)
  BY DEF IInv, Tasked, GetRow, GetCopy, Keep, KeepCopy
<1>2. CASE GetRow(h)
  <2>1. Stored'
    BY <1>1, <1>2 DEF GetRow, Stored, Rooted, stores
  <2>2. CASE row[proc[h].prefix] # NoRoute
    BY <1>1, <1>2, <2>1, <2>2, AnsweredMoves DEF GetRow
  <2>3. CASE row[proc[h].prefix] = NoRoute
    <3> DEFINE q == [proc[h] EXCEPT !.at = "getcopy"]
    <3>1. q \in Procs /\ q.at = "getcopy" /\ q.route = proc[h].route
      BY <1>1 DEF Procs, Places
    <3>2. InHand(q, asked')
      BY <1>1, <1>2, <3>1 DEF InHand, GetRow
    <3> QED BY <1>1, <1>2, <2>1, <2>3, <3>1, <3>2, OneMoves DEF GetRow, Goto
  <2> QED BY <2>1, <2>2, <2>3
<1>3. CASE GetCopy(h)
  <2>1. Stored'
    BY <1>1, <1>3 DEF GetCopy, Stored, Rooted, stores
  <2>2. CASE hash[proc[h].prefix] # NoRoute
    <3> DEFINE q == [proc[h] EXCEPT !.at = "keep", !.got = hash]
    <3>1. /\ q \in Procs /\ q.at = "keep" /\ q.route = proc[h].route
          /\ q.got = hash /\ q.prefix = proc[h].prefix
      BY <1>1 DEF Procs, Places, Stored
    <3>2. InHand(q, asked')
      BY <1>1, <1>3, <2>2, <3>1 DEF InHand, GetCopy
    <3> QED BY <1>1, <1>3, <2>1, <2>2, <3>1, <3>2, OneMoves DEF GetCopy
  <2>3. CASE hash[proc[h].prefix] = NoRoute
    BY <1>1, <1>3, <2>1, <2>3, AnsweredMoves DEF GetCopy
  <2> QED BY <2>1, <2>2, <2>3
<1>4. CASE Keep(h)
  <2>1. proc[h].got \in Tables /\ proc[h].prefix \in Prefixes /\ proc[h].got[proc[h].prefix] # NoRoute
    BY <1>1, <1>4 DEF Keep, InHand, Procs
  <2>2. Stored'
    BY <1>1, <1>4, <2>1 DEF Keep, Stored, Rooted, Tables
  <2> DEFINE q == [proc[h] EXCEPT !.at = "keepcopy"]
  <2>3. /\ q \in Procs /\ q.at = "keepcopy" /\ q.route = proc[h].route
        /\ q.got = proc[h].got /\ q.prefix = proc[h].prefix
    BY <1>1 DEF Procs, Places
  <2>4. InHand(q, asked')
    BY <1>1, <1>4, <2>1, <2>3 DEF InHand, Keep
  <2> QED BY <1>1, <1>4, <2>2, <2>3, <2>4, OneMoves DEF Keep, Goto
<1>5. CASE KeepCopy(h)
  <2>1. proc[h].got \in Tables /\ proc[h].prefix \in Prefixes /\ proc[h].got[proc[h].prefix] # NoRoute
    BY <1>1, <1>5 DEF KeepCopy, InHand, Procs
  <2>2. Stored'
    BY <1>1, <1>5, <2>1 DEF KeepCopy, Stored, Rooted, Tables
  <2> QED BY <1>1, <1>5, <2>2, AnsweredMoves DEF KeepCopy
<1> QED BY <1>2, <1>3, <1>4, <1>5

(* save_route and delete_route, and the message at the end.                 *)
LEMMA WriteKeeps ==
    ASSUME IInv, NEW h \in Handlers, Commit(h) \/ Copy(h) \/ Publish(h)
    PROVE  Stored' /\ Tasked'
<1> USE DEF Tasks
<1>1. Tasked /\ Stored /\ asked' = asked /\ proc[h] \in Procs /\ InHand(proc[h], asked)
  BY DEF IInv, Tasked, Commit, Copy, Publish
<1>2. proc[h].prefix \in Prefixes /\ proc[h].route \in Versions \cup {NoRoute}
  BY <1>1 DEF Procs
<1>3. CASE Commit(h)
  <2>1. proc[h].route # NoRoute \/ proc[h].prefix \in asked
    BY <1>1, <1>3, VersionsAssumption DEF Commit, InHand
  <2>2. Stored'
    BY <1>1, <1>2, <1>3, <2>1 DEF Commit, Stored, Rooted, Tables
  <2> DEFINE q == [proc[h] EXCEPT !.at = IF proc[h].at = "commit" THEN "copy" ELSE "drop"]
  <2>3. /\ q \in Procs /\ q.at = IF proc[h].at = "commit" THEN "copy" ELSE "drop"
        /\ q.route = proc[h].route /\ q.prefix = proc[h].prefix
    BY <1>1 DEF Procs, Places
  <2>4. InHand(q, asked')
    BY <1>1, <1>3, <2>3 DEF InHand, Commit
  <2> QED BY <1>1, <1>3, <2>2, <2>3, <2>4, OneMoves DEF Commit, Goto
<1>4. CASE Copy(h)
  <2>1. proc[h].route # NoRoute \/ proc[h].prefix \in asked
    BY <1>1, <1>4, VersionsAssumption DEF Copy, InHand
  <2>2. Stored'
    BY <1>1, <1>2, <1>4, <2>1 DEF Copy, Stored, Rooted, Tables
  <2>3. After("write") \in Free
    BY DEF After, Free
  <2> QED BY <1>1, <1>4, <2>2, <2>3, FreeMoves DEF Copy
<1>5. CASE Publish(h)
  <2>1. Stored'
    BY <1>1, <1>5 DEF Publish, Stored, Rooted, stores
  <2>2. After("publish") \in Free
    BY DEF After, Free
  <2> QED BY <1>1, <1>5, <2>1, <2>2, FreeMoves DEF Publish
<1> QED BY <1>3, <1>4, <1>5

-----------------------------------------------------------------------------
(* _refresh_routes.                                                        *)

(* Reading a table: one with rows has those that are rooted, and one        *)
(* without them is read only when none is left.                             *)
LEMMA LoadKeeps ==
    ASSUME IInv, NEW x \in Tasks, Load(x) \/ LoadHash(x) \/ LoadCold(x)
    PROVE  Stored' /\ Tasked'
<1>1. Tasked /\ Stored /\ asked' = asked /\ proc[x] \in Procs /\ InHand(proc[x], asked)
  BY DEF IInv, Tasked, Load, LoadHash, LoadCold
<1>2. Stored'
  BY <1>1 DEF Load, LoadHash, LoadCold, Stored, Rooted, stores
<1>3. Known \ asked \subseteq Present(row) /\ Known \ asked \subseteq Present(hash)
  BY <1>1, KnownAssumption DEF Stored, Rooted, Present
<1>4. row \in Tables /\ hash \in Tables
  BY <1>1 DEF Stored
<1>5. ASSUME NEW t \in {row, hash}, Become(x, [proc[x] EXCEPT !.at = "assign", !.got = t])
      PROVE  Tasked'
  <2> DEFINE q == [proc[x] EXCEPT !.at = "assign", !.got = t]
  <2>1. q \in Procs /\ q.at = "assign" /\ q.got = t
    BY <1>1, <1>4 DEF Procs, Places
  <2>2. InHand(q, asked')
    BY <1>1, <1>3, <2>1 DEF InHand
  <2> QED BY <1>1, <1>5, <2>1, <2>2, OneMoves
<1>6. CASE Load(x)
  <2>1. CASE Present(row) # {}
    BY <1>2, <1>5, <1>6, <2>1 DEF Load
  <2>2. CASE Present(row) = {}
    <3> DEFINE q == [proc[x] EXCEPT !.at = "hash"]
    <3>1. q \in Procs /\ q.at = "hash"
      BY <1>1 DEF Procs, Places
    <3>2. InHand(q, asked')
      BY <1>1, <1>3, <2>2, <3>1 DEF InHand
    <3> QED BY <1>1, <1>2, <1>6, <2>2, <3>1, <3>2, OneMoves DEF Load, Goto
  <2> QED BY <2>1, <2>2
<1>7. CASE LoadHash(x)
  <2> DEFINE place == IF Present(hash) = {} THEN "assign" ELSE "fill"
             q == [proc[x] EXCEPT !.got = hash, !.todo = Present(hash), !.at = place]
  <2>1. q \in Procs /\ q.at = place /\ q.got = hash /\ q.todo = Present(hash)
    BY <1>1, <1>4 DEF Procs, Places, Present
  <2>2. InHand(q, asked')
    BY <1>1, <1>3, <2>1 DEF InHand
  <2> QED BY <1>1, <1>2, <1>7, <2>1, <2>2, OneMoves DEF LoadHash
<1>8. CASE LoadCold(x)
  BY <1>2, <1>5, <1>8 DEF LoadCold
<1> QED BY <1>6, <1>7, <1>8

(* Saving what was found in the hash.                                       *)
LEMMA FillKeeps ==
    ASSUME IInv, NEW x \in Tasks, Fill(x) \/ FillCopy(x)
    PROVE  Stored' /\ Tasked'
<1>1. Tasked /\ Stored /\ asked' = asked /\ proc[x] \in Procs /\ InHand(proc[x], asked)
  BY DEF IInv, Tasked, Fill, FillCopy
<1>2. proc[x].got \in Tables /\ proc[x].prefix \in Prefixes /\ proc[x].todo \subseteq Prefixes
  BY <1>1 DEF Procs
<1>3. CASE Fill(x)
  <2>1. PICK p \in proc[x].todo :
            /\ row' = [row EXCEPT ![p] = proc[x].got[p]]
            /\ Become(x, [proc[x] EXCEPT !.at = "fillcopy", !.prefix = p, !.todo = @ \ {p}])
    BY <1>3 DEF Fill
  <2>2. /\ p \in Prefixes /\ proc[x].got[p] # NoRoute
        /\ proc[x].todo \subseteq Present(proc[x].got) /\ Known \ asked \subseteq Present(proc[x].got)
    BY <1>1, <1>2, <1>3 DEF Fill, InHand, Present
  <2>3. Stored'
    <3>1. UNCHANGED <<hash, table, asked>>
      BY <1>3 DEF Fill
    <3>2. row' \in Tables /\ row'[p] # NoRoute /\ \A r \in Prefixes \ {p} : row'[r] = row[r]
      BY <1>1, <1>2, <2>1, <2>2 DEF Stored, Tables
    <3> QED BY <1>1, <3>1, <3>2, KnownAssumption DEF Stored, Rooted
  <2> DEFINE q == [proc[x] EXCEPT !.at = "fillcopy", !.prefix = p, !.todo = @ \ {p}]
  <2>4. /\ q \in Procs /\ q.at = "fillcopy" /\ q.prefix = p
        /\ q.todo \subseteq proc[x].todo /\ q.got = proc[x].got
    BY <1>1, <2>2 DEF Procs, Places
  <2>5. InHand(q, asked')
    BY <1>1, <2>2, <2>4 DEF InHand
  <2> QED BY <1>1, <2>1, <2>3, <2>4, <2>5, OneMoves
<1>4. CASE FillCopy(x)
  <2>1. /\ proc[x].got[proc[x].prefix] # NoRoute
        /\ proc[x].todo \subseteq Present(proc[x].got) /\ Known \ asked \subseteq Present(proc[x].got)
    BY <1>1, <1>4 DEF FillCopy, InHand
  <2>2. Stored'
    BY <1>1, <1>2, <1>4, <2>1 DEF FillCopy, Stored, Rooted, Tables
  <2> DEFINE place == IF proc[x].todo = {} THEN "assign" ELSE "fill"
             q == [proc[x] EXCEPT !.prefix = Resting.prefix, !.at = place]
  <2>3. Resting.prefix \in Prefixes
    BY RestingType DEF Procs
  <2>4. q \in Procs /\ q.at = place /\ q.todo = proc[x].todo /\ q.got = proc[x].got
    BY <1>1, <2>3 DEF Procs, Places
  <2>5. InHand(q, asked')
    BY <1>1, <2>1, <2>4 DEF InHand
  <2> QED BY <1>1, <1>4, <2>2, <2>4, <2>5, OneMoves DEF FillCopy
<1> QED BY <1>3, <1>4

(* The assignment, with all that is rooted in hand.                         *)
LEMMA AssignKeeps == ASSUME IInv, NEW x \in Tasks, Assign(x) PROVE Stored' /\ Tasked'
<1>1. Tasked /\ Stored /\ asked' = asked /\ proc[x] \in Procs /\ InHand(proc[x], asked)
  BY DEF IInv, Tasked, Assign
<1>2. proc[x].got \in Tables /\ Known \ asked \subseteq Present(proc[x].got)
  BY <1>1 DEF Assign, InHand, Procs
<1>3. Stored'
  BY <1>1, <1>2 DEF Assign, Stored, Rooted, Present, stores
<1>4. After("refresh") \in Free /\ "subscribe" \in Free /\ "idle" \in Free
  BY DEF After, Free
<1>5. Tasked'
  BY <1>1, <1>4, FreeMoves DEF Assign
<1> QED BY <1>3, <1>5

-----------------------------------------------------------------------------
(* The listener, the health check and the failures.                        *)

(* Nothing of it touches a store or a table.                                *)
LEMMA WatchKeeps ==
    ASSUME IInv,
           \/ \E g \in Gateways : Listen(g) \/ Disconnect(g) \/ PingFails(g) \/ RefreshFails(g)
           \/ \E x \in Tasks : Enter(x) \/ Pinged(x) \/ ReconnectFails(x)
           \/ \E h \in Handlers : Cancel(h)
    PROVE  Stored' /\ Tasked'
<1>1. Tasked /\ Stored
  BY DEF IInv
<1>2. /\ UNCHANGED <<stores, table, asked>>
      /\ \/ UNCHANGED proc
         \/ \E x \in Tasks, place \in Free :
                \/ Goto(x, place)
                \/ \E op \in Ops : Become(x, [Resting EXCEPT !.at = place, !.op = op])
                \/ Become(x, [Resting EXCEPT !.at = place])
                \/ Stop(x)
  <2>1. ASSUME NEW g \in Gateways
        PROVE  Listener(g) \in Tasks /\ Health(g) \in Tasks
    BY DEF Tasks, Listeners, Healths
  <2>2. "idle" \in Free /\ "subscribe" \in Free /\ "rest" \in Free /\ "load" \in Free
        /\ "wait" \in Free /\ "ping" \in Free /\ "dead" \in Free /\ "reconnect" \in Ops
    BY DEF Free, Ops
  <2>3. CASE \E g \in Gateways : Listen(g)
    BY <2>1, <2>2, <2>3 DEF Listen, Subscribe, Hear, Notice, Wake
  <2>4. CASE \E g \in Gateways : Disconnect(g) \/ PingFails(g) \/ RefreshFails(g)
    BY <2>1, <2>2, <2>4 DEF Disconnect, PingFails, RefreshFails
  <2>5. CASE \E x \in Tasks : Enter(x) \/ Pinged(x) \/ ReconnectFails(x)
    BY <2>2, <2>5 DEF Enter, Pinged, ReconnectFails
  <2>6. CASE \E h \in Handlers : Cancel(h)
    BY <2>2, <2>6 DEF Cancel, Tasks
  <2> QED BY <2>3, <2>4, <2>5, <2>6
<1>3. Stored'
  BY <1>1, <1>2 DEF Stored, Rooted, stores
<1>4. CASE UNCHANGED proc
  BY <1>1, <1>2, <1>3, <1>4 DEF Tasked
<1>5. ASSUME NEW x \in Tasks, NEW place \in Free,
             \/ Goto(x, place)
             \/ \E op \in Ops : Become(x, [Resting EXCEPT !.at = place, !.op = op])
             \/ Become(x, [Resting EXCEPT !.at = place])
             \/ Stop(x)
      PROVE  Tasked'
  BY <1>1, <1>2, <1>5, FreeMoves
<1> QED BY <1>2, <1>3, <1>4, <1>5

(* A failure that is swallowed: an empty table is taken only at "hash".     *)
LEMMA SwallowKeeps == ASSUME IInv, NEW x \in Tasks, Swallow(x) PROVE Stored' /\ Tasked'
<1>1. Tasked /\ Stored /\ asked' = asked /\ proc[x] \in Procs /\ InHand(proc[x], asked)
  BY DEF IInv, Tasked, Swallow
<1>2. Stored'
  BY <1>1 DEF Swallow, Stored, Rooted, stores
<1>3. ASSUME Goto(x, "assign"), proc[x].at \in {"hash", "fill", "fillcopy"}
      PROVE  Tasked'
  <2> DEFINE q == [proc[x] EXCEPT !.at = "assign"]
  <2>1. q \in Procs /\ q.at = "assign" /\ q.got = proc[x].got
    BY <1>1 DEF Procs, Places
  <2>2. InHand(q, asked')
    BY <1>1, <1>3, <2>1 DEF InHand
  <2> QED BY <1>1, <1>3, <2>1, <2>2, OneMoves DEF Goto
<1>4. CASE proc[x].at = "load" /\ Goto(x, "cold")
  <2>1. "cold" \in Free
    BY DEF Free
  <2> QED BY <1>1, <1>2, <1>4, <2>1, FreeMoves
<1>5. ASSUME NEW found \in BOOLEAN, Answered(x, found),
             proc[x].at \in {"getcopy", "keep", "keepcopy"}
      PROVE  Tasked'
  BY <1>1, <1>5, AnsweredMoves
<1> QED BY <1>2, <1>3, <1>4, <1>5 DEF Swallow, Swallowed

-----------------------------------------------------------------------------
(* Subscriptions and bounds keep their types.                               *)
LEMMA ChannelKeeps == IInv /\ [Next]_vars => Channelled'
<1> SUFFICES ASSUME IInv, [Next]_vars PROVE Channelled'
  OBVIOUS
<1>1. Channelled
  BY DEF IInv
<1>2. /\ UNCHANGED <<subscribed, inbox, faults>>
      /\ writes' \in {writes} \/ (writes < MaxWrites /\ writes' = writes + 1)
      => Channelled'
  BY <1>1, BoundsAssumption DEF Channelled
<1>3. ASSUME NEW g \in Gateways, subscribed' = subscribed \ {g},
             inbox' = [inbox EXCEPT ![g] = 0], UNCHANGED writes,
             faults' = faults \/ (faults < MaxFaults /\ faults' = faults + 1)
      PROVE  Channelled'
  BY <1>1, <1>3, BoundsAssumption DEF Channelled
<1>4. ASSUME faults < MaxFaults, faults' = faults + 1, UNCHANGED <<writes, subscribed, inbox>>
      PROVE  Channelled'
  BY <1>1, <1>4, BoundsAssumption DEF Channelled
<1>5. ASSUME NEW x \in Tasks, Refresh(x)
      PROVE  Channelled'
  <2>1. GatewayOf(x) \in Gateways
    BY HomeAssumption DEF GatewayOf, Tasks, Listeners, Healths, Listener, Health
  <2>2. CASE Assign(x)
    BY <1>2, <1>3, <2>1, <2>2 DEF Assign, channel, bounds
  <2>3. CASE ~Assign(x)
    BY <1>2, <1>5, <2>3 DEF Refresh, Load, LoadHash, Fill, FillCopy, LoadCold, channel, bounds
  <2> QED BY <2>2, <2>3
<1>6. ASSUME NEW h \in Handlers, Begin(h) \/ Handle(h)
      PROVE  Channelled'
  <2>1. CASE Begin(h)
    BY <1>2, <2>1 DEF Begin, channel
  <2>2. CASE Publish(h)
    BY <1>1, <2>2 DEF Publish, Receivers, Channelled, bounds
  <2>3. CASE Refresh(h)
    BY <1>5, <2>3 DEF Tasks
  <2>4. CASE GetRow(h) \/ GetCopy(h) \/ Keep(h) \/ KeepCopy(h) \/ Commit(h) \/ Copy(h)
    BY <1>2, <2>4 DEF GetRow, GetCopy, Keep, KeepCopy, Commit, Copy, channel, bounds
  <2> QED BY <1>6, <2>1, <2>2, <2>3, <2>4 DEF Handle
<1>7. ASSUME NEW g \in Gateways, Listen(g)
      PROVE  Channelled'
  <2>1. CASE Subscribe(g)
    BY <1>1, <2>1 DEF Subscribe, Channelled, bounds
  <2>2. CASE Hear(g)
    BY <1>1, <2>2 DEF Hear, Channelled, bounds
  <2>3. CASE Notice(g) \/ Wake(g)
    BY <1>2, <2>3 DEF Notice, Wake, channel, bounds
  <2> QED BY <1>7, <2>1, <2>2, <2>3 DEF Listen
<1>8. ASSUME NEW x \in Listeners \cup Healths, Watch(x)
      PROVE  Channelled'
  <2>1. CASE Refresh(x)
    BY <1>5, <2>1 DEF Tasks
  <2>2. CASE Enter(x) \/ Pinged(x)
    BY <1>2, <2>2 DEF Enter, Pinged, channel, bounds
  <2> QED BY <1>8, <2>1, <2>2 DEF Watch
<1>9. CASE Fault
  <2>1. faults < MaxFaults /\ faults' = faults + 1 /\ UNCHANGED writes
    BY <1>9 DEF Fault
  <2>2. CASE \E g \in Gateways : Disconnect(g) \/ RefreshFails(g)
    BY <1>3, <2>1, <2>2 DEF Disconnect, RefreshFails
  <2>3. CASE \/ \E g \in Gateways : PingFails(g)
             \/ \E x \in Tasks : Swallow(x) \/ ReconnectFails(x)
             \/ \E h \in Handlers : Cancel(h)
    BY <1>4, <2>1, <2>3 DEF PingFails, Swallow, ReconnectFails, Cancel, channel
  <2> QED BY <1>9, <2>2, <2>3 DEF Fault
<1>10. CASE UNCHANGED vars
  BY <1>2, <1>10 DEF vars, channel, bounds
<1> QED BY <1>6, <1>7, <1>8, <1>9, <1>10 DEF Next

-----------------------------------------------------------------------------
(* It holds at the start.                                                   *)
LEMMA InitIInv == Init => IInv
<1> SUFFICES ASSUME Init PROVE IInv
  OBVIOUS
<1>1. row \in Tables /\ \A p \in Known : row[p] # NoRoute
  BY KnownAssumption, VersionsAssumption DEF Init, Tables
<1>2. Stored
  BY <1>1, KnownAssumption DEF Init, Stored, Rooted
<1>3. [Resting EXCEPT !.at = "subscribe"] \in Procs
  BY RestingType DEF Procs, Places
<1>4. proc \in [Tasks -> Procs]
  BY <1>3, RestingType DEF Init
<1>5. ASSUME NEW x \in Tasks
      PROVE  InHand(proc[x], asked)
  <2>1. proc[x].at \in {"idle", "subscribe"}
    BY RestingType DEF Init, Resting, Procs
  <2> QED BY <2>1 DEF InHand
<1>6. Channelled
  BY BoundsAssumption DEF Init, Channelled
<1> QED BY <1>2, <1>4, <1>5, <1>6 DEF IInv, Tasked

(* Every step keeps it.                                                     *)
LEMMA NextIInv == IInv /\ [Next]_vars => IInv'
<1> SUFFICES ASSUME IInv, [Next]_vars PROVE Stored' /\ Tasked'
  BY ChannelKeeps DEF IInv
<1>1. ASSUME NEW x \in Tasks, Refresh(x)
      PROVE  Stored' /\ Tasked'
  BY <1>1, LoadKeeps, FillKeeps, AssignKeeps DEF Refresh
<1>2. ASSUME NEW h \in Handlers, Begin(h) \/ Handle(h)
      PROVE  Stored' /\ Tasked'
  <2>1. h \in Tasks
    BY DEF Tasks
  <2> QED BY <1>1, <1>2, <2>1, BeginKeeps, GetKeeps, WriteKeeps DEF Handle
<1>3. ASSUME NEW x \in Listeners \cup Healths, Watch(x)
      PROVE  Stored' /\ Tasked'
  <2>1. x \in Tasks
    BY DEF Tasks
  <2> QED BY <1>1, <1>3, <2>1, WatchKeeps DEF Watch
<1>4. CASE \E g \in Gateways : Listen(g)
  BY <1>4, WatchKeeps
<1>5. CASE Fault
  BY <1>5, WatchKeeps, SwallowKeeps DEF Fault
<1>6. CASE UNCHANGED vars
  BY <1>6 DEF vars, IInv, Stored, Rooted, Tasked, stores
<1> QED BY <1>2, <1>3, <1>4, <1>5, <1>6 DEF Next

(* The variables of the route table keep their types.                       *)
THEOREM TableTypeCorrect == Spec => []TypeOK
<1>1. IInv => TypeOK
  BY DEF IInv, Stored, Tasked, Channelled, TypeOK
<1> QED BY <1>1, InitIInv, NextIInv, PTL DEF Spec

(* A route nobody asked to delete is served by every gateway at all times.  *)
THEOREM RoutesAreKept == Spec => []RoutesStay
<1>1. IInv => RoutesStay
  BY KnownAssumption DEF IInv, Stored, Rooted, RoutesStay, Present
<1> QED BY <1>1, InitIInv, NextIInv, PTL DEF Spec
=============================================================================
