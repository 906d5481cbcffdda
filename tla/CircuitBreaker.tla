--------------------------- MODULE CircuitBreaker ---------------------------
(***************************************************************************)
(* The circuit breaker of one downstream target: the Redis script          *)
(* CIRCUIT_BREAKER_LUA (gateflow/redis_client.py) under the callers of     *)
(* TargetCall.                                                             *)
(*                                                                         *)
(* A script call is one atomic step, because Redis runs it alone.  Between *)
(* two calls of one caller every other caller and the clock may move: a    *)
(* request is sent under one state of the breaker and reported under       *)
(* another.                                                                *)
(*                                                                         *)
(* The script only ever uses differences of timestamps, so the model keeps *)
(* ages instead: ticks since last_failure (AgeCap stands for "longer than  *)
(* any limit the script compares with", which is also what an absent       *)
(* last_failure of 0 means) and the ticks the key has left to live.        *)
(***************************************************************************)
EXTENDS TargetCall, Sequences

CONSTANTS
    Threshold,      \* circuit_breaker_threshold
    Window,         \* circuit_breaker_window_seconds, in ticks
    OpenDuration,   \* circuit_breaker_open_duration, in ticks
    Slack,          \* the 60 seconds the script adds to a key's life
    MaxAbandons     \* bound: how many calls end without a report

ASSUME ThresholdAssumption == Threshold \in Nat \ {0}
ASSUME TimesAssumption ==
    /\ Window \in Nat
    /\ OpenDuration \in Nat \ {0}
    /\ Slack \in Nat \ {0}
ASSUME AbandonsAssumption == MaxAbandons \in Nat

VARIABLES
    cb,         \* the hash of the key: state, failure_count, age of last_failure
    ttl,        \* ticks until the key expires, 0 when there is no key
    up,         \* whether the target answers requests properly
    abandons,   \* calls ended without a report so far
    recent,     \* history: ages of the failures reported since the last success
    sinceTrip   \* history: ticks since the breaker last turned OPEN

history == <<recent, sinceTrip>>
vars == <<callVars, cb, ttl, up, abandons, history>>

-----------------------------------------------------------------------------
AgeCap == Window + OpenDuration + 1
KeyTtl == OpenDuration + Window + Slack
Older(age) == IF age < AgeCap THEN age + 1 ELSE AgeCap

States == {"CLOSED", "OPEN", "HALF_OPEN"}
Absent == [state |-> "CLOSED", failures |-> 0, age |-> AgeCap]

(* EXPIRE after a check: it renews a key and creates none.                  *)
Renewed(t) == IF t = 0 THEN 0 ELSE KeyTtl

(* EXPIRE after a report: HMSET has made sure there is a key.               *)
ReportWithoutExpire(t) == t
Reported(t) == KeyTtl

(* What `check` leaves in the key, and so what the caller reads.            *)
Checked(b) ==
    IF b.state = "OPEN" /\ b.age >= OpenDuration
    THEN [b EXCEPT !.state = "HALF_OPEN", !.failures = 0]
    ELSE b

(* _try_target goes on unless the script answered OPEN: in HALF_OPEN it     *)
(* lets every caller through, not only the one whose check moved the state. *)
LetsOneThrough(before, after) ==
    after.state = "CLOSED" \/ (after.state = "HALF_OPEN" /\ before.state = "OPEN")
LetsThrough(before, after) == after.state # "OPEN"

(* What `report success` leaves: last_failure is not touched.               *)
SucceededKeepsCount(b) == [b EXCEPT !.state = "CLOSED"]
Succeeded(b) == [b EXCEPT !.state = "CLOSED", !.failures = 0]

(* The count of a failure, which starts anew when the last one is too old.  *)
Count(b) == IF b.age > Window THEN 1 ELSE b.failures + 1

TripsLate(b) == Count(b) > Threshold
Trips(b) == Count(b) >= Threshold

(* What `report failure` leaves.  A failed probe opens the circuit again.   *)
ReopenedInThePast(b) == [b EXCEPT !.state = "OPEN", !.failures = 1]
Reopened(b) == [state |-> "OPEN", failures |-> 1, age |-> 0]

Failed(b) ==
    IF b.state = "HALF_OPEN"
    THEN Reopened(b)
    ELSE [state |-> IF Trips(b) THEN "OPEN" ELSE b.state, failures |-> Count(b), age |-> 0]

-----------------------------------------------------------------------------
TypeOK ==
    /\ CallsTypeOK
    /\ cb \in [state : States, failures : Nat, age : 0..AgeCap]
    /\ ttl \in 0..KeyTtl
    /\ ttl = 0 => cb = Absent
    /\ up \in BOOLEAN
    /\ abandons \in 0..MaxAbandons
    /\ recent \in Seq(0..AgeCap)
    /\ Len(recent) <= Threshold
    /\ sinceTrip \in 0..AgeCap

Init ==
    /\ CallsInit
    /\ cb = Absent
    /\ ttl = 0
    /\ up \in BOOLEAN
    /\ abandons = 0
    /\ recent = << >>
    /\ sinceTrip = AgeCap

Start(c) ==
    /\ StartCall(c)
    /\ UNCHANGED <<cb, ttl, up, abandons, history>>

(* _try_target asks the breaker.                                            *)
Check(c) ==
    /\ cb' = Checked(cb)
    /\ ttl' = Renewed(ttl)
    /\ IF LetsThrough(cb, cb') THEN LetThrough(c) ELSE TurnAway(c)
    /\ UNCHANGED <<up, abandons, history>>

Answer(c) ==
    /\ \E a \in IF up THEN {"ok"} ELSE {"5xx", "unreachable"} : AnswerCall(c, a)
    /\ UNCHANGED <<cb, ttl, up, abandons, history>>

Raise(c) ==
    /\ abandons < MaxAbandons
    /\ abandons' = abandons + 1
    /\ RaiseCall(c)
    /\ UNCHANGED <<cb, ttl, up, history>>

(* report_circuit, and the history of the last Threshold failures.          *)
Latest(s) == IF Len(s) < Threshold THEN s ELSE Tail(s)

Report(c) ==
    /\ ReportCall(c)
    /\ \/ /\ answer[c] = "ok"
          /\ cb' = Succeeded(cb)
          /\ recent' = << >>
          /\ sinceTrip' = AgeCap
       \/ /\ answer[c] # "ok"
          /\ cb' = Failed(cb)
          /\ recent' = Append(Latest(recent), 0)
          /\ sinceTrip' = IF cb.state # "OPEN" /\ cb'.state = "OPEN" THEN 0 ELSE sinceTrip
    /\ ttl' = Reported(ttl)
    /\ UNCHANGED <<up, abandons>>

Finish(c) ==
    /\ FinishCall(c)
    /\ UNCHANGED <<cb, ttl, up, abandons, history>>

(* The breaker never hears of a call that is abandoned.                     *)
Abandon(c) ==
    /\ abandons < MaxAbandons
    /\ abandons' = abandons + 1
    /\ AbandonCall(c)
    /\ UNCHANGED <<cb, ttl, up, history>>

(* The clock of Redis.  A key whose life ends is gone, with all it held.    *)
Tick ==
    /\ ttl' = IF ttl = 0 THEN 0 ELSE ttl - 1
    /\ cb' = IF ttl' = 0 THEN Absent ELSE [cb EXCEPT !.age = Older(@)]
    /\ recent' = [i \in DOMAIN recent |-> Older(recent[i])]
    /\ sinceTrip' = Older(sinceTrip)
    /\ UNCHANGED <<callVars, up, abandons>>

(* The target fails or recovers.                                            *)
Flap == up' = ~up /\ UNCHANGED <<callVars, cb, ttl, abandons, history>>

Step(c) == Start(c) \/ Check(c) \/ Answer(c) \/ Report(c) \/ Finish(c)

Next ==
    \/ Tick
    \/ Flap
    \/ \E c \in Callers : Step(c) \/ Raise(c) \/ Abandon(c)

Spec == Init /\ [][Next]_vars

(* Time passes, clients keep coming, and the event loop runs every step of  *)
(* a call that is not cancelled: an httpx timeout bounds every wait.        *)
FairSpec == Spec /\ WF_vars(Tick) /\ \A c \in Callers : WF_vars(Step(c))

-----------------------------------------------------------------------------
(* Safety.                                                                 *)

(* While the breaker is tripped nobody reaches the target: from the report *)
(* that turned it OPEN until OpenDuration has passed, no attempt is let    *)
(* through unless a success was reported in between.  Neither the expiry   *)
(* of the key nor a late report may cut the time short.                    *)
OpenKeepsCallersOut ==
    [][\A c \in Callers :
        pc[c] = "check" /\ pc'[c] = "send" => sinceTrip >= OpenDuration]_vars

(* Threshold failures in a row, all within the last Window, are never      *)
(* ignored: the breaker is OPEN or testing a recovery.                     *)
TripsWhenDue ==
    (Len(recent) = Threshold /\ recent[1] <= Window) => cb.state # "CLOSED"

(* The breaker trips from CLOSED only after Threshold failures with no     *)
(* success in between: one caller's success wipes what all others counted. *)
TripsOnlyWhenDue ==
    [][cb.state = "CLOSED" /\ cb'.state = "OPEN" => Len(recent') = Threshold]_vars

-----------------------------------------------------------------------------
(* Liveness.                                                               *)

(* A target that is well again for good is used again: the breaker keeps   *)
(* returning to CLOSED, whatever probes were lost on the way.  Only with   *)
(* one attempt per request: of several, a success on an early one is not   *)
(* reported, and the breaker stays HALF_OPEN.                              *)
RecoversWhenUp == retries = 1 => (<>[]up => []<>(cb.state = "CLOSED"))

=============================================================================
