----------------------------- MODULE TargetCall -----------------------------
(***************************************************************************)
(* The calls of handle_request to its primary target: the retry loop and   *)
(* _try_target (gateflow/proxy.py), with the circuit breaker as a black    *)
(* box that lets an attempt through or turns it away.                      *)
(*                                                                         *)
(* CircuitBreaker joins each of these actions to a step of the breaker, so *)
(* its calls are calls of this module.  Gateway, which does not depend on  *)
(* when the breaker opens, is built on this module.                        *)
(***************************************************************************)
EXTENDS Naturals

CONSTANTS
    Callers,        \* concurrent in-flight requests for the target
    MaxRetries      \* bound: the largest downstream_max_retries considered

ASSUME RetriesAssumption == MaxRetries \in Nat \ {0}

VARIABLES
    retries,    \* downstream_max_retries, fixed for a behaviour
    pc,         \* where each caller is
    attempt,    \* the attempt each caller is making, from 1
    answer      \* what the last attempt of each caller came to

callVars == <<retries, pc, attempt, answer>>

Answers == {"none", "ok", "5xx", "unreachable", "raised"}

CallsTypeOK ==
    /\ retries \in 1..MaxRetries
    /\ pc \in [Callers -> {"idle", "check", "send", "report", "done"}]
    /\ attempt \in [Callers -> 1..retries]
    /\ answer \in [Callers -> Answers]

CallsInit ==
    /\ retries \in 1..MaxRetries
    /\ pc = [c \in Callers |-> "idle"]
    /\ attempt = [c \in Callers |-> 1]
    /\ answer = [c \in Callers |-> "none"]

(* handle_request reaches its retry loop.                                   *)
StartCall(c) ==
    /\ pc[c] = "idle"
    /\ pc' = [pc EXCEPT ![c] = "check"]
    /\ UNCHANGED <<retries, attempt, answer>>

LastAttempt(c) == attempt[c] = retries

(* An attempt came to nothing: the loop sleeps and tries again, or ends.    *)
NextAttemptUncounted(c) ==
    /\ pc' = [pc EXCEPT ![c] = IF LastAttempt(c) THEN "done" ELSE "check"]
    /\ UNCHANGED attempt
NextAttempt(c) ==
    IF LastAttempt(c)
    THEN pc' = [pc EXCEPT ![c] = "done"] /\ UNCHANGED attempt
    ELSE /\ pc' = [pc EXCEPT ![c] = "check"]
         /\ attempt' = [attempt EXCEPT ![c] = @ + 1]

(* The breaker's answer to an attempt.                                      *)
LetThrough(c) ==
    /\ pc[c] = "check"
    /\ pc' = [pc EXCEPT ![c] = "send"]
    /\ UNCHANGED <<retries, attempt, answer>>

TurnAway(c) ==
    /\ pc[c] = "check"
    /\ NextAttempt(c)
    /\ answer' = [answer EXCEPT ![c] = "unreachable"]
    /\ UNCHANGED retries

(* The downstream call ends with a status below 500, with another, or with  *)
(* no connection.  Only the last attempt is reported to the breaker: an     *)
(* earlier one that succeeds ends the loop without a word to it.            *)
AnswerCall(c, a) ==
    /\ pc[c] = "send"
    /\ answer' = [answer EXCEPT ![c] = a]
    /\ IF a = "ok" \/ LastAttempt(c)
       THEN /\ pc' = [pc EXCEPT ![c] = IF LastAttempt(c) THEN "report" ELSE "done"]
            /\ UNCHANGED attempt
       ELSE NextAttempt(c)
    /\ UNCHANGED retries

(* An exception that _try_target does not catch (a protocol error, a body   *)
(* that fails to stream) leaves handle_request, and nothing is reported.    *)
RaiseCall(c) ==
    /\ pc[c] = "send"
    /\ answer' = [answer EXCEPT ![c] = "raised"]
    /\ pc' = [pc EXCEPT ![c] = "done"]
    /\ UNCHANGED <<retries, attempt>>

ReportCall(c) ==
    /\ pc[c] = "report"
    /\ pc' = [pc EXCEPT ![c] = "done"]
    /\ UNCHANGED <<retries, attempt, answer>>

(* The handler goes on with the outcome.                                    *)
FinishCall(c) ==
    /\ pc[c] = "done"
    /\ pc' = [pc EXCEPT ![c] = "idle"]
    /\ attempt' = [attempt EXCEPT ![c] = 1]
    /\ answer' = [answer EXCEPT ![c] = "none"]
    /\ UNCHANGED retries

(* The process dies, or the task is cancelled, before the call is over.     *)
AbandonCall(c) ==
    /\ pc[c] \in {"check", "send", "report"}
    /\ pc' = [pc EXCEPT ![c] = "idle"]
    /\ attempt' = [attempt EXCEPT ![c] = 1]
    /\ answer' = [answer EXCEPT ![c] = "none"]
    /\ UNCHANGED retries
=============================================================================
