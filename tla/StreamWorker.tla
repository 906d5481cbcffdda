---------------------------- MODULE StreamWorker ----------------------------
(***************************************************************************)
(* The workers that consume a Redis stream with a consumer group: the      *)
(* metrics worker (gateflow/metrics_worker.py), which adds the anomalies   *)
(* it finds to another stream, and the notification worker                 *)
(* (gateflow/notifications.py), which calls webhooks, with retries, and    *)
(* puts what it cannot deliver into a dead-letter stream.  Both have the   *)
(* same loop; kind says which of the two the behaviour is about.           *)
(*                                                                         *)
(* Redis keeps the entries that were delivered to a consumer name and not  *)
(* acknowledged (pending).  naming says what a process calls itself: by    *)
(* its process id, a name of its own that survives a restart, or a name    *)
(* all processes share (GATEFLOW_CONSUMER_NAME).                           *)
(*                                                                         *)
(* The trimming of streams to their maximal length is left out.            *)
(***************************************************************************)
EXTENDS Naturals, FiniteSets

CONSTANTS
    Total,          \* bound: entries ever added
    Anomalies,      \* anomalies an entry may show: numbers
    Webhooks,       \* webhooks that are configured: numbers
    Workers,        \* gateway processes
    Count,          \* entries read at once
    Attempts,       \* MAX_RETRIES
    MaxCrashes,     \* bound: crashes and restarts
    MaxFaults       \* bound: Redis commands that fail

ASSUME NumbersAssumption ==
    Anomalies \cup Webhooks \subseteq Nat /\ IsFiniteSet(Anomalies \cup Webhooks)
ASSUME CountAssumption == Count \in Nat \ {0} /\ Attempts \in Nat \ {0}
ASSUME BoundsAssumption == Total \in Nat /\ MaxCrashes \in Nat /\ MaxFaults \in Nat

VARIABLES
    kind,           \* which worker this is about
    naming,         \* how processes are named
    added,          \* entries 1..added are in the stream
    last,           \* the group has delivered 1..last
    pending,        \* pending[n]: delivered to name n and not acknowledged
    acked,          \* entries acknowledged
    reached,        \* effects that took place: pairs of entry and effect
    dead,           \* entries in the dead-letter stream
    work,           \* work[x]: what the worker of process x is doing
    life,           \* life[x]: how often x was restarted
    crashes,        \* restarts so far, of any process
    faults,         \* failures of Redis so far
    owed,           \* history: for each evaluation of an entry, what it asked for
    repeated        \* history: an entry was evaluated twice

settings == <<kind, naming>>
group == <<last, pending, acked>>
outside == <<reached, dead>>
notes == <<owed, repeated>>
restarts == <<life, crashes>>
vars == <<settings, added, group, outside, work, restarts, faults, notes>>

-----------------------------------------------------------------------------
Entries == 1..Total
Effects == Anomalies \cup Webhooks
Names == (Workers \cup {"shared"}) \X (0..MaxCrashes)

NameOf(x) ==
    CASE naming = "pid" -> <<x, life[x]>> [] naming = "own" -> <<x, 0>> [] OTHER -> <<"shared", 0>>

(* A worker creates its group (start), reads what is pending (idle) and new *)
(* (read), takes the next entry of its batch (next), has its effects (act), *)
(* puts it aside (bury), acknowledges it (ack), sleeps after an error       *)
(* (rest), or has ended with an exception (dead).                           *)
Places == {"start", "idle", "read", "next", "act", "bury", "ack", "rest", "dead"}

WorkRecords == [at : Places, batch : SUBSET Entries, found : SUBSET Effects,
                todo : SUBSET Effects, tries : 0..(Attempts - 1), errors : BOOLEAN]

Fresh == [at |-> "start", batch |-> {}, found |-> {}, todo |-> {}, tries |-> 0,
          errors |-> FALSE]

TypeOK ==
    /\ kind \in {"metrics", "notifications"}
    /\ naming \in {"pid", "own", "shared"}
    /\ added \in 0..Total
    /\ last \in 0..added
    /\ pending \in [Names -> SUBSET (1..last)]
    /\ acked \subseteq 1..last
    /\ reached \subseteq Entries \X Effects
    /\ dead \subseteq 1..last
    /\ work \in [Workers -> WorkRecords]
    /\ \A x \in Workers : work[x].at \in {"act", "bury", "ack"} => work[x].batch # {}
    /\ crashes \in 0..MaxCrashes
    /\ life \in [Workers -> 0..crashes]
    /\ faults \in 0..MaxFaults
    /\ owed \in [Entries -> SUBSET SUBSET Effects]
    /\ repeated \in BOOLEAN

Init ==
    /\ kind \in {"metrics", "notifications"}
    /\ naming \in {"pid", "own", "shared"}
    /\ added = 0 /\ last = 0
    /\ pending = [n \in Names |-> {}]
    /\ acked = {} /\ reached = {} /\ dead = {}
    /\ work = [x \in Workers |-> Fresh]
    /\ life = [x \in Workers |-> 0]
    /\ crashes = 0
    /\ faults = 0
    /\ owed = [e \in Entries |-> {}]
    /\ repeated = FALSE

Become(x, r) == work' = [work EXCEPT ![x] = r]
Goto(x, place) == Become(x, [work[x] EXCEPT !.at = place])

(* What was pending is older than what is new, and a batch is gone through  *)
(* from its oldest entry.                                                   *)
Least(S) == CHOOSE e \in S : \A f \in S : e <= f
Entry(x) == Least(work[x].batch)

-----------------------------------------------------------------------------
(* What the commands do in Redis.                                          *)

(* The first Count of what is pending under a name, and of what is new.     *)
PendingUnread(x) == {}
Pending(x) ==
    {e \in pending[NameOf(x)] : Cardinality({d \in pending[NameOf(x)] : d < e}) < Count}
NewestBeyond == last + Count
Newest == IF added - last < Count THEN added ELSE last + Count
New == (last + 1)..Newest

Delivered(x) ==
    /\ last' = Newest
    /\ pending' = [pending EXCEPT ![NameOf(x)] = @ \cup New]
    /\ UNCHANGED <<acked, outside>>

Unacknowledged(x) == UNCHANGED <<group, outside>>
Acknowledged(x) ==
    /\ pending' = [pending EXCEPT ![NameOf(x)] = @ \ {Entry(x)}]
    /\ acked' = acked \cup {Entry(x)}
    /\ UNCHANGED <<last, outside>>

Buried(x) ==
    /\ dead' = dead \cup {Entry(x)}
    /\ UNCHANGED <<group, reached>>

(* Anomalies and webhooks are gone through in their order.                  *)
Current(x) == Least(work[x].todo)

Reached(x) ==
    /\ reached' = reached \cup {<<Entry(x), Current(x)>>}
    /\ UNCHANGED <<group, dead>>

-----------------------------------------------------------------------------
(* The loop.                                                               *)

(* A producer adds an entry.                                                *)
Add ==
    /\ added < Total
    /\ added' = added + 1
    /\ UNCHANGED <<settings, group, outside, work, restarts, faults, notes>>

EnsureGroup(x) ==
    /\ work[x].at = "start"
    /\ Goto(x, "idle")
    /\ UNCHANGED <<settings, added, group, outside, restarts, faults, notes>>

(* What is pending is read before what is new.                              *)
ReadPending(x) ==
    /\ work[x].at = "idle"
    /\ Become(x, [work[x] EXCEPT !.at = "read", !.batch = Pending(x)])
    /\ UNCHANGED <<settings, added, group, outside, restarts, faults, notes>>

(* This one waits for a while, and then comes back with nothing.            *)
ReadNew(x) ==
    /\ work[x].at = "read"
    /\ Delivered(x)
    /\ Become(x, [work[x] EXCEPT !.at = "next", !.batch = @ \cup New])
    /\ UNCHANGED <<settings, added, restarts, faults, notes>>

(* The next entry: the anomalies in it, or all webhooks.                    *)
After(x, todo, errors) == IF todo # {} THEN "act" ELSE IF errors THEN "bury" ELSE "ack"

Evaluate(x) ==
    /\ work[x].at = "next"
    /\ work[x].batch # {}
    /\ \E found \in IF kind = "metrics" THEN SUBSET Anomalies ELSE {Webhooks} :
        /\ Become(x, [work[x] EXCEPT !.at = After(x, found, FALSE), !.found = found,
                                     !.todo = found, !.tries = 0, !.errors = FALSE])
        /\ owed' = [owed EXCEPT ![Entry(x)] = @ \cup {found}]
        /\ repeated' = (repeated \/ owed[Entry(x)] # {})
    /\ UNCHANGED <<settings, added, group, outside, restarts, faults>>

Finish(x) ==
    /\ work[x].at = "next"
    /\ work[x].batch = {}
    /\ Become(x, [Fresh EXCEPT !.at = "idle"])
    /\ UNCHANGED <<settings, added, group, outside, restarts, faults, notes>>

(* An anomaly is added, or a webhook answers.                               *)
DoneForgetful(x, failed) ==
    LET todo == work[x].todo \ {Current(x)}
    IN  Become(x, [work[x] EXCEPT !.at = After(x, todo, failed), !.todo = todo,
                                  !.tries = 0, !.errors = failed])
Done(x, failed) ==
    LET todo == work[x].todo \ {Current(x)}
        errors == work[x].errors \/ failed
    IN  Become(x, [work[x] EXCEPT !.at = After(x, todo, errors), !.todo = todo,
                                  !.tries = 0, !.errors = errors])

Act(x) ==
    /\ work[x].at = "act"
    /\ Reached(x)
    /\ Done(x, FALSE)
    /\ UNCHANGED <<settings, added, restarts, faults, notes>>

(* A webhook does not answer, or not in time, or with an error; it may have *)
(* been called.  It is tried again, and given up after Attempts.            *)
WebhookFails(x) ==
    /\ work[x].at = "act"
    /\ kind = "notifications"
    /\ \/ Reached(x)
       \/ UNCHANGED <<group, outside>>
    /\ IF work[x].tries < Attempts - 1
       THEN Become(x, [work[x] EXCEPT !.tries = @ + 1])
       ELSE Done(x, TRUE)
    /\ UNCHANGED <<settings, added, restarts, faults, notes>>

Bury(x) ==
    /\ work[x].at = "bury"
    /\ Buried(x)
    /\ Goto(x, "ack")
    /\ UNCHANGED <<settings, added, restarts, faults, notes>>

Ack(x) ==
    /\ work[x].at = "ack"
    /\ Acknowledged(x)
    /\ Become(x, [work[x] EXCEPT !.at = "next", !.batch = @ \ {Entry(x)}])
    /\ UNCHANGED <<settings, added, restarts, faults, notes>>

Wake(x) ==
    /\ work[x].at = "rest"
    /\ Goto(x, "idle")
    /\ UNCHANGED <<settings, added, group, outside, restarts, faults, notes>>

-----------------------------------------------------------------------------
(* Failures.                                                               *)

(* A Redis command fails, or its answer is lost and it had its effect.  The *)
(* worker drops its batch and starts over; a worker that fails to create    *)
(* its group ends.                                                          *)
RedisFails(x) ==
    /\ faults < MaxFaults
    /\ faults' = faults + 1
    /\ \/ work[x].at = "start" /\ Goto(x, "dead") /\ UNCHANGED <<group, outside>>
       \/ /\ \/ work[x].at \in {"idle", "read", "bury", "ack"}
             \/ work[x].at = "act" /\ kind = "metrics"
          /\ Become(x, [Fresh EXCEPT !.at = "rest"])
          /\ \/ UNCHANGED <<group, outside>>
             \/ work[x].at = "read" /\ Delivered(x)
             \/ work[x].at = "act" /\ Reached(x)
             \/ work[x].at = "bury" /\ Buried(x)
             \/ work[x].at = "ack" /\ Acknowledged(x)
    /\ UNCHANGED <<settings, added, restarts, notes>>

(* A process dies, or is stopped, and one starts in its place.              *)
Crash(x) ==
    /\ crashes < MaxCrashes
    /\ crashes' = crashes + 1
    /\ life' = [life EXCEPT ![x] = @ + 1]
    /\ Become(x, Fresh)
    /\ UNCHANGED <<settings, added, group, outside, faults, notes>>

-----------------------------------------------------------------------------
Loop(x) ==
    \/ EnsureGroup(x) \/ ReadPending(x) \/ ReadNew(x) \/ Evaluate(x) \/ Finish(x)
    \/ Act(x) \/ WebhookFails(x) \/ Bury(x) \/ Ack(x) \/ Wake(x)

Next == Add \/ \E x \in Workers : Loop(x) \/ RedisFails(x) \/ Crash(x)

Spec == Init /\ [][Next]_vars

(* The event loop runs the workers.                                         *)
FairSpec == Spec /\ \A x \in Workers : WF_vars(Loop(x))

-----------------------------------------------------------------------------
(* Safety.                                                                 *)

(* The workers keep the promise of Delivery, whatever fails and whatever    *)
(* the processes are called: no entry is acknowledged before one evaluation *)
(* of it had all its effects, or it was dead-lettered.                      *)
Promise == INSTANCE Delivery WITH aside <- dead, ended <- acked
DeliversAtLeastOnce == Promise!Spec

(* When nothing fails and processes have names of their own, no entry is    *)
(* handled twice, although each loop reads twice and processes share a      *)
(* group.                                                                   *)
HandledOnce ==
    faults = 0 /\ crashes = 0 /\ naming # "shared" => ~repeated

-----------------------------------------------------------------------------
(* Liveness.                                                               *)

AllEnd == \A e \in Entries : e <= added ~> e \in acked

(* If a process keeps its name when it is restarted, every entry comes to   *)
(* be acknowledged, through any crashes, webhooks that never answer, and    *)
(* failures of Redis, unless one of them ended a worker.                    *)
EveryEntryEnds ==
    naming # "pid" /\ [](\A x \in Workers : work[x].at # "dead") => AllEnd

(* What the documentation says of every naming: metrics_worker.py, "graceful *)
(* failover between multiple Gateway instances".                            *)
FailsOver == [](\A x \in Workers : work[x].at # "dead") => AllEnd
=============================================================================
