---------------------------- MODULE TokenBucket -----------------------------
(***************************************************************************)
(* One rate-limit bucket: the Redis script TOKEN_BUCKET_LUA                *)
(* (gateflow/redis_client.py) as check_rate_limit calls it with cost 1     *)
(* (gateflow/rate_limiter.py), and the Retry-After header handle_request   *)
(* makes of its refusal (gateflow/proxy.py).  The bucket of a key and      *)
(* route and the global one run the same script.                           *)
(*                                                                         *)
(* Tokens are counted in units, Token of them to a token, and time in      *)
(* ticks, so that the amount refilled in a tick is a whole number of       *)
(* units: the script's fractions of tokens and seconds are exact here.     *)
(* The script is atomic: requests of all gateways are one after the other. *)
(***************************************************************************)
EXTENDS Integers, Sequences

CONSTANTS
    Token,          \* units of one token: the cost of a request
    Capacity,       \* the bucket's capacity, in units
    Rate,           \* units refilled in a tick
    Second,         \* ticks in a second
    Slack,          \* the 60 seconds by which a key outlives its refill, in ticks
    MaxTime         \* bound: the clock stops here

ASSUME UnitsAssumption ==
    /\ Token \in Nat \ {0}
    /\ Rate \in Nat \ {0}
    /\ Capacity \in Nat
    /\ Token <= Capacity
ASSUME TimesAssumption ==
    /\ Second \in Nat \ {0}
    /\ Slack \in Nat
    /\ MaxTime \in Nat

VARIABLES
    now,        \* the clock of Redis
    tokens,     \* the hash of the bucket's key: its tokens ...
    last_time,  \* ... and when they were counted
    expires,    \* when the key expires; there is none from then on
    admitted,   \* history: the times at which a request was admitted
    refused     \* history: the last refusal, if no request came after it

vars == <<now, tokens, last_time, expires, admitted, refused>>

-----------------------------------------------------------------------------
Smaller(a, b) == IF a <= b THEN a ELSE b
Larger(a, b)  == IF a >= b THEN a ELSE b

(* What the bucket holds when the script runs.  A key that is absent, or    *)
(* has expired, stands for a full bucket.                                   *)
Uncapped(have, elapsed) == have + Rate * elapsed
Refill(have, elapsed) == Smaller(Capacity, have + Rate * elapsed)
Available == IF now >= expires THEN Capacity ELSE Refill(tokens, now - last_time)

(* The life of the key: the whole seconds it takes to refill it from        *)
(* nothing, rounded up, and the slack.                                      *)
PerSecond == Rate * Second
KeyTtlRoundedDown == Second * (Capacity \div PerSecond) + Slack
KeyTtl == Second * ((Capacity + PerSecond - 1) \div PerSecond) + Slack

(* The tokens a refusal writes back.                                        *)
KeptUnrefilled(available) == tokens
Kept(available) == available

(* max(1, int(retry_after)): whole seconds, rounded down.                   *)
RetryAfterByCapacity(available) == Larger(1, (Token - available) \div (Capacity * Second))
RetryAfter(available) == Larger(1, (Token - available) \div PerSecond)

NoRefusal == [at |-> 0, header |-> 0]

TypeOK ==
    /\ now \in 0..MaxTime
    /\ tokens \in 0..Capacity
    /\ last_time \in 0..MaxTime
    /\ expires \in Nat
    /\ admitted \in Seq(0..MaxTime)
    /\ refused \in [at : 0..MaxTime, header : Nat]

Init ==
    /\ now = 0
    /\ tokens = 0
    /\ last_time = 0
    /\ expires = 0
    /\ admitted = << >>
    /\ refused = NoRefusal

(* The HSET and EXPIRE of both outcomes.                                    *)
Write(left) ==
    /\ tokens' = left
    /\ last_time' = now
    /\ expires' = now + KeyTtl

Admit ==
    /\ Available >= Token
    /\ Write(Available - Token)
    /\ admitted' = Append(admitted, now)
    /\ refused' = NoRefusal
    /\ UNCHANGED now

Refuse ==
    /\ Available < Token
    /\ Write(Kept(Available))
    /\ refused' = [at |-> now, header |-> RetryAfter(Available)]
    /\ UNCHANGED <<now, admitted>>

Tick ==
    /\ now < MaxTime
    /\ now' = now + 1
    /\ UNCHANGED <<tokens, last_time, expires, admitted, refused>>

Next == Admit \/ Refuse \/ Tick

Spec == Init /\ [][Next]_vars

-----------------------------------------------------------------------------
(* Safety.                                                                 *)

(* The rate limit, over every window: from any admission to any later one, *)
(* no more requests are admitted than the capacity and the refill of the   *)
(* time between allow.  The expiry of the key grants nothing on top.       *)
WindowBound ==
    \A i \in 1..Len(admitted) : \A j \in i..Len(admitted) :
        (j - i + 1) * Token <= Capacity + Rate * (admitted[j] - admitted[i])

(* The limiter is exact: it refuses only a request that would break the    *)
(* bound of some window.                                                   *)
RefusesOnlyWhenDue ==
    [][Refuse =>
        \E i \in 1..Len(admitted) :
            (Len(admitted) - i + 2) * Token > Capacity + Rate * (now - admitted[i])]_vars

(* A client that waits one second more than Retry-After says, while nobody *)
(* else uses the bucket, is admitted.                                      *)
WaitIsEnough ==
    refused.header > 0 /\ now >= refused.at + (refused.header + 1) * Second
        => Available >= Token

=============================================================================
