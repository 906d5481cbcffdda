------------------------------ MODULE Gateway -------------------------------
(***************************************************************************)
(* The request pipeline of handle_request (gateflow/proxy.py) for the      *)
(* requests of one user, from the reservation of monthly quota to the      *)
(* answer.  It composes                                                    *)
(*   - the quota counter kept by two Redis scripts (gateflow/governance.py *)
(*     and gateflow/redis_client.py), one key per user and month;          *)
(*   - the retry loop against the primary target (TargetCall), whatever    *)
(*     its circuit breaker answers;                                        *)
(*   - the fallback target, and the store of idempotent responses.         *)
(* Every await of the handler ends a step.  A request refused before the   *)
(* reservation (mTLS, route, key, rate limit) changes nothing here and is  *)
(* not a step: TokenBucket models the admission before it.                 *)
(***************************************************************************)
EXTENDS Integers, FiniteSets

CONSTANTS
    Requests,       \* handler slots of the gateways, used again and again
    MaxRetries,     \* bound: the largest downstream_max_retries considered
    Limit,          \* Limit[r]: monthly_quota of the tier of r's key, 0 for none
    MaxLimit,       \* the largest of them
    Anonymous,      \* the requests on routes that need no key
    IdemKey,        \* IdemKey[r]: its Idempotency-Key, or NoKey
    NoKey,
    MaxMonth,       \* bound: months are 0..MaxMonth
    MaxForgiven     \* bound: units the counter may lose to its expiry, per month

ASSUME RequestsAssumption == IsFiniteSet(Requests) /\ Anonymous \subseteq Requests
ASSUME LimitAssumption ==
    /\ MaxLimit \in Nat
    /\ Limit \in [Requests -> 0..MaxLimit]
ASSUME BoundsAssumption ==
    /\ MaxRetries \in Nat \ {0}
    /\ MaxMonth \in Nat
    /\ MaxForgiven \in Nat

VARIABLES
    retries, pc, attempt, answer,   \* of TargetCall
    conf,       \* [fallback, idempotency]: settings and route, fixed
    month,      \* the current month
    closing,    \* TRUE in its last two seconds
    usage,      \* usage[m]: the counter of month m, 0 when there is no key
    phase,      \* where each request is in handle_request
    paid,       \* the month whose unit a request holds, or NoMonth
    body,       \* how the request's body was read
    failed,     \* TRUE when the response to build has a status of 500 or more
    stored,     \* the idempotency keys with a stored response
    net,        \* history: reservations of each month less those given back
    forgiven,   \* history: units a counter lost that no reservation gave back
    carried,    \* history: units held when the current month began
    replied,    \* history: keys whose storable response a client has received
    again       \* history: requests that arrived with a key in replied

callVars == <<retries, pc, attempt, answer>>
calendar == <<month, closing>>
ledger == <<usage, paid, net, forgiven, carried>>
idem == <<stored, replied, again>>
vars == <<callVars, conf, calendar, ledger, idem, phase, body, failed>>

Calls == INSTANCE TargetCall WITH Callers <- Requests

-----------------------------------------------------------------------------
Months == 0..MaxMonth
NoMonth == -1
IdemKeys == {IdemKey[r] : r \in Requests} \ {NoKey}
AllLimited == \A r \in Requests \ Anonymous : Limit[r] > 0

Phases == {"idle", "reserve", "body", "lookup", "calling", "fallback",
           "build", "reply", "refund"}

TypeOK ==
    /\ Calls!CallsTypeOK
    /\ conf \in [fallback : BOOLEAN, idempotency : BOOLEAN]
    /\ month \in Months
    /\ closing \in BOOLEAN
    /\ usage \in [Months -> Nat]
    /\ phase \in [Requests -> Phases]
    /\ paid \in [Requests -> Months \cup {NoMonth}]
    /\ body \in [Requests -> {"buffered", "stream", "consumed"}]
    /\ failed \in [Requests -> BOOLEAN]
    /\ stored \subseteq IdemKeys
    /\ net \in [Months -> Int]
    /\ forgiven \in [Months -> Nat]
    /\ carried \in Nat
    /\ replied \subseteq IdemKeys
    /\ again \subseteq Requests

Init ==
    /\ Calls!CallsInit
    /\ conf \in [fallback : BOOLEAN, idempotency : BOOLEAN]
    /\ month = 0
    /\ closing = FALSE
    /\ usage = [m \in Months |-> 0]
    /\ phase = [r \in Requests |-> "idle"]
    /\ paid = [r \in Requests |-> NoMonth]
    /\ body = [r \in Requests |-> "buffered"]
    /\ failed = [r \in Requests |-> FALSE]
    /\ stored = {}
    /\ net = [m \in Months |-> 0]
    /\ forgiven = [m \in Months |-> 0]
    /\ carried = 0
    /\ replied = {}
    /\ again = {}

Goto(r, p) == phase' = [phase EXCEPT ![r] = p]

(* The handler is over for r, whatever it answered.  A unit it still holds  *)
(* is spent.                                                                *)
End(r) ==
    /\ Goto(r, "idle")
    /\ paid' = [paid EXCEPT ![r] = NoMonth]
    /\ body' = [body EXCEPT ![r] = "buffered"]
    /\ failed' = [failed EXCEPT ![r] = FALSE]
    /\ again' = again \ {r}

(* The request failed: one with a key is given its unit of quota back.      *)
GiveUp(r) ==
    IF r \in Anonymous
    THEN End(r) /\ UNCHANGED <<usage, net, forgiven, carried>>
    ELSE Goto(r, "refund") /\ UNCHANGED <<ledger, again, body, failed>>

(* A request has passed authentication and the rate limits, or its route    *)
(* asks for neither.                                                        *)
Receive(r) ==
    /\ phase[r] = "idle"
    /\ Goto(r, IF r \in Anonymous THEN "body" ELSE "reserve")
    /\ again' = IF IdemKey[r] \in replied THEN again \cup {r} ELSE again
    /\ UNCHANGED <<callVars, conf, calendar, ledger, stored, replied, body, failed>>

-----------------------------------------------------------------------------
(* The quota counter.                                                      *)

(* MONTHLY_QUOTA_RESERVE_LUA refuses at the limit.                          *)
ExhaustedTooLate(used, quota) == used > quota
Exhausted(used, quota) == used >= quota

(* INCR.  In the last seconds of a month the key it has just created is     *)
(* given a life of 0 or 1 seconds, and may be gone at once.                 *)
Counted == usage' = [usage EXCEPT ![month] = @ + 1] /\ UNCHANGED forgiven

CountedAndGone ==
    /\ closing
    /\ usage[month] = 0
    /\ forgiven[month] < MaxForgiven
    /\ forgiven' = [forgiven EXCEPT ![month] = @ + 1]
    /\ UNCHANGED usage

(* reserve_monthly_quota: a tier without a quota takes nothing.             *)
Reserve(r) ==
    /\ phase[r] = "reserve"
    /\ IF Limit[r] <= 0
       THEN Goto(r, "body") /\ UNCHANGED <<ledger, again, body, failed>>
       ELSE \/ /\ Exhausted(usage[month], Limit[r])
               /\ End(r)
               /\ UNCHANGED <<usage, net, forgiven, carried>>
            \/ /\ ~Exhausted(usage[month], Limit[r])
               /\ Goto(r, "body")
               /\ paid' = [paid EXCEPT ![r] = month]
               /\ net' = [net EXCEPT ![month] = @ + 1]
               /\ Counted \/ CountedAndGone
               /\ UNCHANGED <<carried, again, body, failed>>
    /\ UNCHANGED <<callVars, conf, calendar, stored, replied>>

(* MONTHLY_QUOTA_REFUND_LUA: DECR, and back to 0 when that went below.      *)
RefundedBelowZero(used) == used - 1
RefundedWithoutDecr(used) == IF used > 0 THEN used ELSE 0
Refunded(used) == IF used > 0 THEN used - 1 ELSE 0

(* refund_monthly_quota charges the month of the call, whether or not the   *)
(* request had reserved a unit of it.                                       *)
Refund(r) ==
    /\ phase[r] = "refund"
    /\ usage' = [usage EXCEPT ![month] = Refunded(@)]
    /\ IF paid[r] = month
       THEN net' = [net EXCEPT ![month] = @ - 1] /\ UNCHANGED forgiven
       ELSE /\ UNCHANGED net
            /\ forgiven' = [forgiven EXCEPT
                                ![month] = @ + (usage[month] - usage'[month])]
    /\ End(r)
    /\ UNCHANGED <<callVars, conf, calendar, carried, stored, replied>>

(* The last two seconds of a month, in which the counter expires; and the   *)
(* turn of the month.                                                       *)
BeginClosing ==
    /\ ~closing
    /\ closing' = TRUE
    /\ UNCHANGED <<callVars, conf, month, ledger, idem, phase, body, failed>>

ExpireCounter ==
    /\ closing
    /\ usage[month] > 0
    /\ forgiven[month] + usage[month] <= MaxForgiven
    /\ usage' = [usage EXCEPT ![month] = 0]
    /\ forgiven' = [forgiven EXCEPT ![month] = @ + usage[month]]
    /\ UNCHANGED <<callVars, conf, calendar, paid, net, carried, idem, phase, body, failed>>

NextMonth ==
    /\ closing
    /\ month < MaxMonth
    /\ month' = month + 1
    /\ closing' = FALSE
    /\ carried' = Cardinality({r \in Requests : paid[r] # NoMonth})
    /\ UNCHANGED <<callVars, conf, usage, paid, net, forgiven, idem, phase, body, failed>>

-----------------------------------------------------------------------------
(* From the body to the downstream answer.                                 *)

UseIdempotency(r) == conf.idempotency /\ IdemKey[r] # NoKey

(* A body is streamed only when nothing can need it twice.                  *)
MayStreamWithRetries(r) == ~UseIdempotency(r) /\ ~conf.fallback
MayStream(r) == ~UseIdempotency(r) /\ ~conf.fallback /\ retries = 1

(* The body is refused (too large, a bad Content-Length, a client that goes *)
(* away) after the reservation, which nobody gives back; or it is read, or  *)
(* left to be streamed when the client has sent its length.                 *)
ReadBody(r) ==
    /\ phase[r] = "body"
    /\ \/ End(r) /\ UNCHANGED <<callVars, usage, net, forgiven, carried>>
       \/ /\ \E b \in {"buffered"} \cup IF MayStream(r) THEN {"stream"} ELSE {} :
                body' = [body EXCEPT ![r] = b]
          /\ IF UseIdempotency(r)
             THEN Goto(r, "lookup") /\ UNCHANGED callVars
             ELSE Goto(r, "calling") /\ Calls!StartCall(r)
          /\ UNCHANGED <<ledger, again, failed>>
    /\ UNCHANGED <<conf, calendar, stored, replied>>

(* lookup_idempotent_response: a stored response is answered again, and the *)
(* unit of quota stays spent.                                               *)
Lookup(r) ==
    /\ phase[r] = "lookup"
    /\ IF IdemKey[r] \in stored
       THEN End(r) /\ UNCHANGED <<callVars, usage, net, forgiven, carried>>
       ELSE /\ Goto(r, "calling")
            /\ Calls!StartCall(r)
            /\ UNCHANGED <<ledger, again, body, failed>>
    /\ UNCHANGED <<conf, calendar, stored, replied>>

(* The retry loop against the primary target.  A streamed body is used up   *)
(* by the first attempt that is let through.                                *)
Call(r) ==
    /\ phase[r] = "calling"
    /\ \/ /\ Calls!LetThrough(r)
          /\ body' = IF body[r] = "stream" THEN [body EXCEPT ![r] = "consumed"] ELSE body
       \/ /\ \/ Calls!TurnAway(r)
             \/ \E a \in {"ok", "5xx", "unreachable"} : Calls!AnswerCall(r, a)
             \/ Calls!RaiseCall(r)
             \/ Calls!ReportCall(r)
          /\ UNCHANGED body
    /\ UNCHANGED <<conf, calendar, ledger, idem, phase, failed>>

(* The loop is over.  A response of status 500 or more was closed and       *)
(* dropped, so without a fallback it is a 504 like an unreachable target.   *)
AfterCall(r) ==
    /\ phase[r] = "calling"
    /\ Calls!FinishCall(r)
    /\ \/ /\ answer[r] = "ok"
          /\ Goto(r, "build")
          /\ UNCHANGED <<ledger, again, body, failed>>
       \/ /\ answer[r] = "raised"
          /\ End(r)
          /\ UNCHANGED <<usage, net, forgiven, carried>>
       \/ /\ answer[r] \in {"5xx", "unreachable"}
          /\ conf.fallback
          /\ Goto(r, "fallback")
          /\ UNCHANGED <<ledger, again, body, failed>>
       \/ /\ answer[r] \in {"5xx", "unreachable"}
          /\ ~conf.fallback
          /\ GiveUp(r)
    /\ UNCHANGED <<conf, calendar, stored, replied>>

(* The fallback target is called once, past the breaker.  Any answer of it  *)
(* is built, one of status 500 or more too.                                 *)
Fallback(r) ==
    /\ phase[r] = "fallback"
    /\ \/ \E f \in BOOLEAN :
            /\ failed' = [failed EXCEPT ![r] = f]
            /\ Goto(r, "build")
            /\ UNCHANGED <<ledger, again, body>>
       \/ GiveUp(r)
    /\ UNCHANGED <<callVars, conf, calendar, stored, replied>>

-----------------------------------------------------------------------------
(* The answer.                                                             *)

(* Whether _build_response stores what it answers: a status below 300 and a *)
(* body that is not too large make it storable.                             *)
StoresWithoutFallback(r, storable) == UseIdempotency(r) /\ storable /\ ~conf.fallback
Stores(r, storable) == UseIdempotency(r) /\ storable

(* _build_response: counts the request, then gives a failed one its unit    *)
(* back.                                                                    *)
Build(r) ==
    /\ phase[r] = "build"
    /\ \/ /\ failed[r]
          /\ GiveUp(r)
          /\ UNCHANGED <<stored, replied>>
       \/ /\ ~failed[r]
          /\ \E storable \in BOOLEAN :
                IF Stores(r, storable)
                THEN /\ stored' = stored \cup {IdemKey[r]}
                     /\ Goto(r, "reply")
                     /\ UNCHANGED <<ledger, again, body, failed, replied>>
                ELSE /\ End(r)
                     /\ replied' = IF UseIdempotency(r) /\ storable
                                   THEN replied \cup {IdemKey[r]} ELSE replied
                     /\ UNCHANGED <<usage, net, forgiven, carried, stored>>
    /\ UNCHANGED <<callVars, conf, calendar>>

(* The client receives a response that was stored.                          *)
Reply(r) ==
    /\ phase[r] = "reply"
    /\ End(r)
    /\ replied' = IF IdemKey[r] \in stored THEN replied \cup {IdemKey[r]} ELSE replied
    /\ UNCHANGED <<callVars, conf, calendar, usage, net, forgiven, carried, stored>>

(* A stored response lives for idempotency_ttl.                             *)
ExpireStored(k) ==
    /\ k \in stored
    /\ stored' = stored \ {k}
    /\ replied' = replied \ {k}
    /\ again' = {r \in again : IdemKey[r] # k}
    /\ UNCHANGED <<callVars, conf, calendar, ledger, phase, body, failed>>

(* The gateway process dies, the handler is cancelled, or an exception that *)
(* nothing catches ends it.                                                 *)
Cancel(r) ==
    /\ phase[r] # "idle"
    /\ IF phase[r] = "calling"
       THEN Calls!AbandonCall(r)
       ELSE UNCHANGED callVars
    /\ End(r)
    /\ UNCHANGED <<conf, calendar, usage, net, forgiven, carried, stored, replied>>

Handle(r) ==
    \/ Reserve(r) \/ ReadBody(r) \/ Lookup(r) \/ Call(r) \/ AfterCall(r)
    \/ Fallback(r) \/ Build(r) \/ Reply(r) \/ Refund(r)

Next ==
    \/ \E r \in Requests : Receive(r) \/ Handle(r) \/ Cancel(r)
    \/ \E k \in IdemKeys : ExpireStored(k)
    \/ BeginClosing \/ ExpireCounter \/ NextMonth

Spec == Init /\ [][Next]_vars

(* The event loop runs every handler: each of its waits ends, by an answer  *)
(* or by a timeout.                                                         *)
FairSpec == Spec /\ \A r \in Requests : WF_vars(Handle(r))

-----------------------------------------------------------------------------
(* Safety.                                                                 *)

(* The counter of a month and its ledger agree: the reservations not given  *)
(* back are counted, but for the units the counter lost in other ways.      *)
LedgerAgrees == \A m \in Months : usage[m] <= net[m] /\ net[m] <= usage[m] + forgiven[m]

(* No month serves more than the quota, but for units lost to a refund that *)
(* was not owed or to the expiry of the counter.                            *)
OveruseIsForgiven == \A m \in Months : net[m] <= MaxLimit + forgiven[m]

(* With a quota on every key, what the turn of the month can cost is        *)
(* bounded: one unit for each request in flight when the month began.       *)
QuotaHeld == AllLimited /\ ~closing => net[month] <= MaxLimit + carried

(* Once a client holds the answer to an idempotent request, sending it      *)
(* again does not reach the downstream while the answer is stored.          *)
RepeatIsNotForwarded ==
    \A r \in Requests : r \in again /\ conf.idempotency
                            => phase[r] \notin {"calling", "fallback", "build"}

(* A body that is being streamed is sent at most once: neither a retry nor  *)
(* the fallback target is given one that is used up.                        *)
StreamSentOnce ==
    [][\A r \in Requests : body[r] = "consumed" =>
            ~(pc[r] = "check" /\ pc'[r] = "send") /\ phase'[r] # "fallback"]_vars

-----------------------------------------------------------------------------
(* Liveness.                                                               *)

(* Every request is answered, whatever the targets and the breaker do.      *)
EveryRequestEnds == \A r \in Requests : phase[r] # "idle" ~> phase[r] = "idle"

=============================================================================
