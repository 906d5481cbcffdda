----------------------------- MODULE Telemetry -----------------------------
(***************************************************************************)
(* What a gateway process does on the side, and how it stops: telemetry    *)
(* through a bounded queue and a worker (gateflow/telemetry.py), the usage *)
(* counters (record_usage in gateflow/store.py), audit events written by   *)
(* tasks of their own (gateflow/audit.py), and the shutdown that waits for *)
(* all of it (lifespan in gateflow/main.py).                               *)
(*                                                                         *)
(* A process is one event loop: what lies between two awaits is one step.  *)
(* Batches are sets, because nothing depends on the order in them, and all *)
(* events belong to one counter: one user, one route, one day.  No request *)
(* is served any more when the lifespan ends.                              *)
(*                                                                         *)
(* The names are other ones than StreamWorker's, whose streams this fills: *)
(* one module extends both.                                                *)
(***************************************************************************)
EXTENDS Naturals, FiniteSets

CONSTANTS
    Gateways,       \* processes
    Events,         \* telemetry events
    Audits,         \* audit events
    Home,           \* Home[e]: the process where event e, of either kind, happens
    MaxQueue,       \* maxsize of the queue
    MaxFailures     \* bound: failures

ASSUME HomeAssumption == Home \in [Events \cup Audits -> Gateways]
ASSUME QueueAssumption == MaxQueue \in Nat \ {0} /\ MaxFailures \in Nat
ASSUME FiniteAssumption == IsFiniteSet(Events)

VARIABLES
    phase,          \* phase[g]: up, on its way down, or gone
    crashed,        \* crashed[g]: a stream worker of g ended with an exception
    fired,          \* the telemetry events so far
    queue,          \* queue[g]
    job,            \* job[p]: who is at which part of which batch
    pushed,         \* the events in the metrics stream
    usage,          \* the counter in the database; 0: no row
    audit,          \* audit[a]: how far the task of a is
    rows,           \* audit events in the database
    failures,       \* failures so far
    dropped,        \* history: events the queue had no room for
    cut,            \* history: events in a batch that failed or was cancelled
    hindered        \* history: something kept a counter from being raised

stores == <<pushed, usage, rows>>
losses == <<dropped, cut, hindered>>
telemetryVars == <<phase, crashed, fired, queue, job, stores, audit, failures, losses>>

-----------------------------------------------------------------------------
(* A process goes down in this order: it cancels the telemetry worker and   *)
(* waits for it (wait), drains the queue itself (drain), and waits for the  *)
(* audit tasks (audit); or, at once, the event loop cancels all (loop).     *)
Phases == {"up", "wait", "drain", "audit", "loop", "gone"}

(* A batch is written by the worker, or by the shutdown.                    *)
Writer(g) == <<g, "worker">>
Main(g) == <<g, "main">>
Writers == Gateways \X {"worker", "main"}

(* Nothing yet (none), a task that did not run yet (new), waiting for an    *)
(* event (get), writing a batch to the stream (push), raising the counter   *)
(* for what is left of it (read, write), or done.                           *)
Jobs == [at : {"none", "new", "get", "push", "read", "write", "done"},
         batch : SUBSET Events, seen : Nat]

Idle(place) == [at |-> place, batch |-> {}, seen |-> 0]
Writing(batch) == [at |-> "push", batch |-> batch, seen |-> 0]

TelemetryTypeOK ==
    /\ phase \in [Gateways -> Phases]
    /\ crashed \in [Gateways -> BOOLEAN]
    /\ fired \subseteq Events
    /\ queue \in [Gateways -> SUBSET fired]
    /\ \A g \in Gateways : Cardinality(queue[g]) <= MaxQueue
    /\ job \in [Writers -> Jobs]
    /\ pushed \subseteq fired
    /\ \A p \in Writers : job[p].batch \subseteq fired
    /\ usage \in Nat
    /\ audit \in [Audits -> {"none", "db", "stream", "done"}]
    /\ rows \subseteq Audits
    /\ failures \in 0..MaxFailures
    /\ dropped \subseteq fired /\ cut \subseteq fired
    /\ hindered \in BOOLEAN

TelemetryInit ==
    /\ phase = [g \in Gateways |-> "up"]
    /\ crashed = [g \in Gateways |-> FALSE]
    /\ fired = {}
    /\ queue = [g \in Gateways |-> {}]
    /\ job = [p \in Writers |-> Idle("none")]
    /\ pushed = {} /\ usage = 0 /\ rows = {}
    /\ audit = [a \in Audits |-> "none"]
    /\ failures = 0
    /\ dropped = {} /\ cut = {}
    /\ hindered = FALSE

Continue(p, j) == job' = [job EXCEPT ![p] = j]

-----------------------------------------------------------------------------
(* Requests.                                                               *)

(* fire_telemetry never waits: what does not fit is dropped.  The first     *)
(* event starts the worker.                                                 *)
RoomForAnother(g) == Cardinality(queue[g]) <= MaxQueue
Room(g) == Cardinality(queue[g]) < MaxQueue

Fire(e) ==
    LET g == Home[e] IN
    /\ phase[g] = "up" /\ e \notin fired
    /\ fired' = fired \cup {e}
    /\ queue' = IF Room(g) THEN [queue EXCEPT ![g] = @ \cup {e}] ELSE queue
    /\ dropped' = IF Room(g) THEN dropped ELSE dropped \cup {e}
    /\ job' = IF job[Writer(g)].at = "none" THEN [job EXCEPT ![Writer(g)].at = "new"] ELSE job
    /\ UNCHANGED <<phase, crashed, stores, audit, failures, cut, hindered>>

(* log_admin_async starts a task.                                           *)
Audit(a) ==
    /\ phase[Home[a]] = "up" /\ audit[a] = "none"
    /\ audit' = [audit EXCEPT ![a] = "db"]
    /\ UNCHANGED <<phase, crashed, fired, queue, job, stores, failures, losses>>

(* log_audit_event: the row, and then the stream.                           *)
WriteAudit(a) ==
    /\ phase[Home[a]] # "gone" /\ audit[a] = "db"
    /\ rows' = rows \cup {a}
    /\ audit' = [audit EXCEPT ![a] = "stream"]
    /\ UNCHANGED <<phase, crashed, fired, queue, job, pushed, usage, failures, losses>>

StreamAudit(a) ==
    /\ phase[Home[a]] # "gone" /\ audit[a] = "stream"
    /\ audit' = [audit EXCEPT ![a] = "done"]
    /\ UNCHANGED <<phase, crashed, fired, queue, job, stores, failures, losses>>

-----------------------------------------------------------------------------
(* The telemetry worker, and the drain at the end.                         *)

(* Everything that is in the queue becomes a batch.                         *)
Take(g) ==
    /\ job[Writer(g)].at \in {"new", "get"}
    /\ queue[g] # {}
    /\ Continue(Writer(g), Writing(queue[g]))
    /\ queue' = [queue EXCEPT ![g] = {}]
    /\ UNCHANGED <<phase, crashed, fired, stores, audit, failures, losses>>

(* After a batch the worker waits for another one; a cancelled worker, and  *)
(* the drain, are done, for nothing comes any more.                         *)
AfterBatchForever(p) == Idle("get")
AfterBatch(p) == IF phase[p[1]] = "up" THEN Idle("get") ELSE Idle("done")

(* _flush_telemetry_batch: one pipeline, and then one counter after another. *)
Push(p) ==
    /\ job[p].at = "push"
    /\ pushed' = pushed \cup job[p].batch
    /\ Continue(p, [job[p] EXCEPT !.at = "read"])
    /\ UNCHANGED <<phase, crashed, fired, queue, usage, rows, audit, failures, losses>>

(* record_usage: a transaction reads the row, and writes or inserts it.     *)
ReadUsage(p) ==
    /\ job[p].at = "read"
    /\ Continue(p, IF job[p].batch = {} THEN AfterBatch(p)
                   ELSE [job[p] EXCEPT !.at = "write", !.seen = usage])
    /\ UNCHANGED <<phase, crashed, fired, queue, stores, audit, failures, losses>>

Counted(p) == \E e \in job[p].batch : Continue(p, [job[p] EXCEPT !.at = "read", !.batch = @ \ {e}])

(* Two transactions do not see each other: the second insertion of the row  *)
(* is refused, and the second update overwrites the first.                  *)
Refused(p) == job[p].seen = 0 /\ usage # 0
Raised(p) == IF Refused(p) THEN usage ELSE job[p].seen + 1

WriteUsage(p) ==
    /\ job[p].at = "write"
    /\ Counted(p)
    /\ usage' = Raised(p)
    /\ hindered' = (hindered \/ job[p].seen # usage)
    /\ UNCHANGED <<phase, crashed, fired, queue, pushed, rows, audit, failures, dropped, cut>>

-----------------------------------------------------------------------------
(* Shutdown.                                                               *)

(* A cancelled worker does not resume what it was doing, which may have had *)
(* its effect or not.  If it ran before, it writes what is in the queue.    *)
CancelWorker(g) ==
    LET p == Writer(g)
        j == job[p]
        runs == j.at \notin {"none", "new"}
    IN  /\ Continue(p, IF runs /\ queue[g] # {} THEN Writing(queue[g]) ELSE Idle("done"))
        /\ queue' = IF runs THEN [queue EXCEPT ![g] = {}] ELSE queue
        /\ cut' = IF j.at = "push" THEN cut \cup j.batch ELSE cut
        /\ hindered' = (hindered \/ j.batch # {})
        /\ \/ UNCHANGED <<pushed, usage>>
           \/ j.at = "push" /\ pushed' = pushed \cup j.batch /\ UNCHANGED usage
           \/ j.at = "write" /\ usage' = Raised(p) /\ UNCHANGED pushed

(* Audit tasks that are cancelled may have written their row.               *)
CancelAudits(g) ==
    LET running == {a \in Audits : Home[a] = g /\ audit[a] \in {"db", "stream"}}
    IN  /\ audit' = [a \in Audits |-> IF a \in running THEN "done" ELSE audit[a]]
        /\ \E S \in SUBSET running : rows' = rows \cup S

(* lifespan stops the stream workers and awaits them.  One that ended with  *)
(* an exception raises it here: the rest is skipped, and the event loop     *)
(* cancels the tasks that are left.  Otherwise flush_telemetry comes next.  *)
Stop(g) ==
    /\ phase[g] = "up"
    /\ CancelWorker(g)
    /\ \/ ~crashed[g] /\ phase' = [phase EXCEPT ![g] = "wait"] /\ UNCHANGED <<audit, rows>>
       \/ crashed[g] /\ phase' = [phase EXCEPT ![g] = "loop"] /\ CancelAudits(g)
    /\ UNCHANGED <<crashed, fired, failures, dropped>>

EndLoop(g) ==
    /\ phase[g] = "loop" /\ job[Writer(g)].at = "done"
    /\ phase' = [phase EXCEPT ![g] = "gone"]
    /\ UNCHANGED <<crashed, fired, queue, job, stores, audit, failures, losses>>

(* flush_telemetry drains what the worker left, one event at a time.        *)
DrainSkipped == "audit"
DrainNext == "drain"

AwaitWorker(g) ==
    /\ phase[g] = "wait" /\ job[Writer(g)].at = "done"
    /\ phase' = [phase EXCEPT ![g] = DrainNext]
    /\ UNCHANGED <<crashed, fired, queue, job, stores, audit, failures, losses>>

Drain(g) ==
    /\ phase[g] = "drain" /\ job[Main(g)].at \in {"none", "done"}
    /\ IF queue[g] = {}
       THEN phase' = [phase EXCEPT ![g] = "audit"] /\ UNCHANGED <<queue, job>>
       ELSE \E e \in queue[g] :
                /\ queue' = [queue EXCEPT ![g] = @ \ {e}]
                /\ Continue(Main(g), Writing({e}))
                /\ UNCHANGED phase
    /\ UNCHANGED <<crashed, fired, stores, audit, failures, losses>>

(* flush_audit waits for the tasks that are left.                           *)
FlushedAnyway(g) == TRUE
Flushed(g) == \A a \in Audits : Home[a] = g => audit[a] \in {"none", "done"}

FlushAudit(g) ==
    /\ phase[g] = "audit" /\ Flushed(g)
    /\ phase' = [phase EXCEPT ![g] = "gone"]
    /\ UNCHANGED <<crashed, fired, queue, job, stores, audit, failures, losses>>

-----------------------------------------------------------------------------
(* Failures.                                                               *)

(* The pipeline fails, after its effect or without it: the batch is dropped, *)
(* and nothing of it is counted.                                            *)
GivenUpCounted(p) == [job[p] EXCEPT !.at = "read"]
GivenUp(p) == AfterBatch(p)

PushFails(p) ==
    /\ job[p].at = "push"
    /\ pushed' \in {pushed, pushed \cup job[p].batch}
    /\ cut' = cut \cup job[p].batch
    /\ Continue(p, GivenUp(p))
    /\ hindered' = TRUE
    /\ UNCHANGED <<crashed, usage, rows, audit>>

(* A failure to count is logged, and the next event is counted.             *)
UsageFails(p) ==
    /\ job[p].at = "write"
    /\ usage' \in {usage, Raised(p)}
    /\ Counted(p)
    /\ hindered' = TRUE
    /\ UNCHANGED <<crashed, pushed, rows, audit, cut>>

(* log_audit_event fails: with the row or without it, the task ends.        *)
AuditFails(a) ==
    /\ audit[a] \in {"db", "stream"}
    /\ rows' \in {rows, rows \cup {a}}
    /\ audit' = [audit EXCEPT ![a] = "done"]
    /\ UNCHANGED <<crashed, job, pushed, usage, cut, hindered>>

(* A stream worker fails to create its group when the process starts.       *)
WorkerCrashes(g) ==
    /\ phase[g] = "up" /\ ~crashed[g]
    /\ crashed' = [crashed EXCEPT ![g] = TRUE]
    /\ UNCHANGED <<job, stores, audit, cut, hindered>>

Fault ==
    /\ failures < MaxFailures
    /\ failures' = failures + 1
    /\ UNCHANGED <<phase, fired, queue, dropped>>
    /\ \/ \E p \in Writers : PushFails(p) \/ UsageFails(p)
       \/ \E a \in Audits : AuditFails(a)
       \/ \E g \in Gateways : WorkerCrashes(g)

-----------------------------------------------------------------------------
Write(p) == Push(p) \/ ReadUsage(p) \/ WriteUsage(p)
Shutdown(g) == EndLoop(g) \/ AwaitWorker(g) \/ Drain(g) \/ FlushAudit(g)

Run(g) ==
    \/ Take(g) \/ Write(Writer(g)) \/ Write(Main(g)) \/ Shutdown(g)
    \/ \E a \in Audits : Home[a] = g /\ (WriteAudit(a) \/ StreamAudit(a))

TelemetryNext ==
    \/ \E e \in Events : Fire(e)
    \/ \E a \in Audits : Audit(a)
    \/ \E g \in Gateways : Stop(g) \/ Run(g)
    \/ Fault

TelemetrySpec == TelemetryInit /\ [][TelemetryNext]_telemetryVars

(* The event loop runs every task that is ready.                            *)
FairTelemetry ==
    /\ TelemetrySpec
    /\ \A g \in Gateways : WF_telemetryVars(Take(g) \/ Write(Writer(g)) \/ Write(Main(g)))
    /\ \A g \in Gateways : WF_telemetryVars(Shutdown(g))
    /\ \A a \in Audits : WF_telemetryVars(WriteAudit(a) \/ StreamAudit(a))

-----------------------------------------------------------------------------
(* Safety.                                                                 *)

(* Of the events of a process that went down in the orderly way, each is in *)
(* the metrics stream, or the queue had no room for it, or its batch failed *)
(* or was being written when the worker was cancelled.                      *)
OrderlyEnd(g) == phase[g] = "gone" /\ ~crashed[g]

EventsSettled ==
    \A e \in fired : OrderlyEnd(Home[e]) => e \in pushed \cup dropped \cup cut

(* The counter never exceeds the events in the stream, and is equal to them *)
(* when nobody is counting and no failure, cancellation or second           *)
(* transaction at the same time got in the way.                             *)
Counting == \E p \in Writers : job[p].at \in {"read", "write"} /\ job[p].batch # {}

UsageCounts ==
    /\ usage <= Cardinality(pushed)
    /\ ~hindered /\ ~Counting => usage = Cardinality(pushed)

(* When nothing fails, a process that goes down in the orderly way has      *)
(* written every audit event it started to write.                           *)
AuditKept ==
    \A a \in Audits :
        OrderlyEnd(Home[a]) /\ failures = 0 /\ audit[a] # "none" => a \in rows

-----------------------------------------------------------------------------
(* Liveness.                                                               *)

(* A shutdown comes to its end, whatever the workers were doing.            *)
ShutdownEnds == \A g \in Gateways : phase[g] # "up" ~> phase[g] = "gone"
=============================================================================
