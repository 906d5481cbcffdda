------------------------ MODULE CircuitBreakerProofs -------------------------
(***************************************************************************)
(* Proofs about CircuitBreaker, for any number of callers and retries, any *)
(* threshold, window and open time.                                        *)
(*                                                                         *)
(* The properties speak of the history; the invariant says what the key in *)
(* Redis knows of it, and that the key does not expire before it may.      *)
(***************************************************************************)
EXTENDS CircuitBreaker, SequenceTheorems, TLAPS

(* A key whose last failure is young enough to matter has the rest of its   *)
(* life before it.                                                          *)
Lasting == cb.age < AgeCap => ttl + cb.age >= KeyTtl

(* A breaker that tripped lately is still open, and its last failure is no  *)
(* older than that.                                                         *)
Shut == sinceTrip < OpenDuration => cb.state = "OPEN" /\ cb.age <= sinceTrip

(* last_failure is the last of the failures since a success.                *)
Ordered == \A i \in 1..Len(recent) : cb.age <= recent[i]

(* The count of a closed breaker is below the threshold and covers every    *)
(* failure since one that is still in the window.                           *)
Covering ==
    cb.state = "CLOSED" =>
        /\ cb.failures < Threshold
        /\ cb.failures <= Len(recent)
        /\ \A i \in 1..Len(recent) :
               recent[i] <= Window => Len(recent) - i + 1 <= cb.failures

IInv == TypeOK /\ Lasting /\ Shut /\ Ordered /\ Covering

Constants ==
    /\ Threshold \in Nat \ {0} /\ Window \in Nat /\ OpenDuration \in Nat \ {0}
    /\ Slack \in Nat \ {0} /\ MaxAbandons \in Nat
    /\ AgeCap \in Nat /\ AgeCap = Window + OpenDuration + 1
    /\ KeyTtl \in Nat /\ KeyTtl = Window + OpenDuration + Slack /\ KeyTtl >= AgeCap

-----------------------------------------------------------------------------
LEMMA ConstantsOK == Constants
BY ThresholdAssumption, TimesAssumption, AbandonsAssumption DEF Constants, AgeCap, KeyTtl

(* The clock moves an age towards AgeCap and not beyond.                    *)
LEMMA OlderOK ==
    ASSUME NEW a \in 0..AgeCap
    PROVE  Older(a) \in 0..AgeCap /\ Older(a) >= a /\ (a < AgeCap => Older(a) = a + 1)
BY ConstantsOK DEF Older, Constants

(* What a history of ages is, as a function.                                *)
LEMMA AgesOf ==
    ASSUME NEW s \in Seq(0..AgeCap)
    PROVE  /\ Len(s) \in Nat /\ DOMAIN s = 1..Len(s)
           /\ \A i \in 1..Len(s) : s[i] \in 0..AgeCap
BY LenProperties, ElementOfSeq

LEMMA FunctionIsSeq ==
    ASSUME NEW n \in Nat, NEW s \in [1..n -> 0..AgeCap]
    PROVE  s \in Seq(0..AgeCap) /\ Len(s) = n
<1>1. s = [i \in 1..n |-> s[i]] /\ \A i \in 1..n : s[i] \in 0..AgeCap OBVIOUS
<1>2. s \in Seq(0..AgeCap) BY <1>1, IsASeq
<1>3. Len(s) \in Nat /\ 1..Len(s) = 1..n BY <1>2, LenProperties
<1> QED BY <1>2, <1>3

(* A new failure becomes the last of recent, and pushes the first one out   *)
(* when there are Threshold of them.                                        *)
LEMMA AppendLatest ==
    ASSUME NEW s \in Seq(0..AgeCap), Len(s) <= Threshold,
           NEW t, t = Append(Latest(s), 0)
    PROVE  /\ t \in Seq(0..AgeCap)
           /\ Len(t) = IF Len(s) < Threshold THEN Len(s) + 1 ELSE Threshold
           /\ t[Len(t)] = 0
           /\ \A i \in 1..(Len(t) - 1) :
                 /\ i + Len(s) + 1 - Len(t) \in 1..Len(s)
                 /\ t[i] = s[i + Len(s) + 1 - Len(t)]
<1>0. Constants BY ConstantsOK
<1>1. Len(s) \in Nat /\ 0 \in 0..AgeCap
  BY <1>0 DEF Constants
<1>2. CASE Len(s) < Threshold
  <2>1. Latest(s) = s BY <1>2 DEF Latest
  <2> QED BY <2>1, <1>1, <1>2, <1>0 DEF Constants
<1>3. CASE ~(Len(s) < Threshold)
  <2>1. Latest(s) = Tail(s) /\ Len(s) = Threshold /\ s # << >>
    BY <1>0, <1>1, <1>3 DEF Latest, Constants
  <2>2. /\ Tail(s) \in Seq(0..AgeCap) /\ Len(Tail(s)) = Len(s) - 1
        /\ \A i \in 1..(Len(s) - 1) : Tail(s)[i] = s[i + 1]
    BY <2>1, <1>0, <1>1 DEF Constants
  <2>3. Len(t) = Len(s) /\ t \in Seq(0..AgeCap) /\ t[Len(t)] = 0
    BY <2>1, <2>2, <1>1
  <2>4. \A i \in 1..(Len(t) - 1) : t[i] = Tail(s)[i]
    BY <2>1, <2>2, <2>3, <1>1
  <2> QED BY <2>1, <2>2, <2>3, <2>4, <1>1
<1> QED BY <1>2, <1>3

-----------------------------------------------------------------------------
(* The callers' part of the type invariant.                                *)

CallStep(c) ==
    \/ StartCall(c) \/ LetThrough(c) \/ TurnAway(c) \/ (\E a \in Answers : AnswerCall(c, a))
    \/ RaiseCall(c) \/ ReportCall(c) \/ FinishCall(c) \/ AbandonCall(c)

LEMMA CallsTyped ==
    ASSUME CallsTypeOK, NEW c \in Callers, CallStep(c)
    PROVE  CallsTypeOK'
<1>1. retries' = retries /\ retries \in Nat /\ retries >= 1 /\ 1 \in 1..retries
  BY RetriesAssumption DEF CallsTypeOK, CallStep, StartCall, LetThrough, TurnAway, AnswerCall,
     RaiseCall, ReportCall, FinishCall, AbandonCall
<1>2. NextAttempt(c) => /\ pc' \in [Callers -> {"idle", "check", "send", "report", "done"}]
                        /\ attempt' \in [Callers -> 1..retries]
  BY <1>1 DEF CallsTypeOK, NextAttempt, LastAttempt
<1>3. CASE \E a \in Answers : AnswerCall(c, a)
  <2>1. PICK a \in Answers : AnswerCall(c, a) BY <1>3
  <2>2. answer' \in [Callers -> Answers] BY <2>1 DEF AnswerCall, CallsTypeOK
  <2>3. CASE NextAttempt(c) BY <2>2, <2>3, <1>1, <1>2 DEF CallsTypeOK
  <2>4. CASE ~NextAttempt(c) BY <2>1, <2>2, <2>4, <1>1 DEF AnswerCall, CallsTypeOK
  <2> QED BY <2>3, <2>4
<1>4. CASE TurnAway(c)
  BY <1>4, <1>1, <1>2 DEF TurnAway, CallsTypeOK, Answers
<1>5. CASE StartCall(c) \/ LetThrough(c) \/ RaiseCall(c) \/ ReportCall(c)
  BY <1>5, <1>1 DEF StartCall, LetThrough, RaiseCall, ReportCall, CallsTypeOK, Answers
<1>6. CASE FinishCall(c) \/ AbandonCall(c)
  BY <1>6, <1>1 DEF FinishCall, AbandonCall, CallsTypeOK, Answers
<1> QED BY <1>3, <1>4, <1>5, <1>6 DEF CallStep

-----------------------------------------------------------------------------
(* What the script does to its key.                                        *)

Buckets == [state : States, failures : Nat, age : 0..AgeCap]

LEMMA ScriptTyped ==
    ASSUME NEW b \in Buckets
    PROVE  /\ Checked(b) \in Buckets /\ Succeeded(b) \in Buckets /\ Failed(b) \in Buckets
           /\ Absent \in Buckets /\ Checked(Absent) = Absent
           /\ [b EXCEPT !.age = Older(b.age)] \in Buckets
<1>1. Constants BY ConstantsOK
<1>2. Older(b.age) \in 0..AgeCap BY OlderOK DEF Buckets
<1>3. Checked(b) \in Buckets /\ Succeeded(b) \in Buckets
  BY DEF Buckets, States, Checked, Succeeded
<1>4. Failed(b) \in Buckets
  <2>1. Count(b) \in Nat /\ 0 \in 0..AgeCap BY <1>1 DEF Count, Buckets, Constants
  <2>2. Reopened(b) \in Buckets BY <2>1 DEF Reopened, Buckets, States
  <2>3. CASE b.state = "HALF_OPEN" BY <2>2, <2>3 DEF Failed
  <2>4. CASE b.state # "HALF_OPEN" BY <2>1, <2>4 DEF Failed, Buckets, States
  <2> QED BY <2>3, <2>4
<1>5. Absent \in Buckets /\ Checked(Absent) = Absent
  BY <1>1 DEF Absent, Buckets, States, Constants, Checked
<1>6. [b EXCEPT !.age = Older(b.age)] \in Buckets
  BY <1>2 DEF Buckets
<1> QED BY <1>3, <1>4, <1>5, <1>6

-----------------------------------------------------------------------------
LEMMA InitIInv == Init => IInv
<1> SUFFICES ASSUME Init PROVE IInv OBVIOUS
<1>0. Constants BY ConstantsOK
<1>1. TypeOK
  <2>1. CallsTypeOK
    BY RetriesAssumption DEF Init, CallsInit, CallsTypeOK, Answers
  <2>2. Absent \in Buckets
    BY <1>0 DEF Absent, Buckets, States, Constants
  <2>3. recent \in Seq(0..AgeCap) /\ Len(recent) = 0
    BY DEF Init
  <2> QED BY <1>0, <2>1, <2>2, <2>3 DEF Init, TypeOK, Buckets, Constants
<1>2. Len(recent) = 0 BY DEF Init
<1>3. Lasting /\ Shut /\ Ordered /\ Covering
  BY <1>0, <1>2 DEF Init, Absent, Constants, Lasting, Shut, Ordered, Covering
<1> QED BY <1>1, <1>3 DEF IInv

(* A step of a caller that leaves the key and the history alone.            *)
LEMMA QuietStep ==
    ASSUME IInv, NEW c \in Callers, CallStep(c), abandons' \in 0..MaxAbandons,
           UNCHANGED <<cb, ttl, up, history>>
    PROVE  IInv'
<1>1. CallsTypeOK' BY CallsTyped DEF IInv, TypeOK
<1> QED BY <1>1 DEF IInv, TypeOK, Lasting, Shut, Ordered, Covering, history

(* A check leaves the key with more life and the same last failure.         *)
LEMMA CheckStep ==
    ASSUME IInv, NEW c \in Callers, Check(c)
    PROVE  IInv'
<1>0. Constants /\ TypeOK /\ cb \in Buckets
  BY ConstantsOK DEF IInv, TypeOK, Buckets
<1>1. CallsTypeOK'
  BY <1>0, CallsTyped DEF Check, CallStep, TypeOK
<1>2. /\ cb' = Checked(cb) /\ cb' \in Buckets /\ cb'.age = cb.age
      /\ ttl' = Renewed(ttl) /\ ttl' \in 0..KeyTtl /\ ttl' >= ttl
      /\ (ttl' = 0 => cb' = Absent)
      /\ recent' = recent /\ sinceTrip' = sinceTrip /\ abandons' = abandons /\ up' = up
  <2>1. Absent \in Buckets => Checked(Absent) = Absent
    BY DEF Checked, Absent
  <2>2. cb' = Checked(cb) /\ cb' \in Buckets BY <1>0, ScriptTyped DEF Check
  <2>3. cb'.age = cb.age BY <1>0, <2>2 DEF Checked, Buckets
  <2>4. ttl' = Renewed(ttl) /\ ttl' \in 0..KeyTtl /\ ttl' >= ttl /\ (ttl' = 0 => ttl = 0)
    BY <1>0 DEF Check, Renewed, TypeOK, Constants
  <2>5. ttl' = 0 => cb' = Absent
    BY <2>2, <2>4, <1>0, ScriptTyped DEF TypeOK
  <2> QED BY <2>2, <2>3, <2>4, <2>5 DEF Check, history
<1>3. TypeOK' BY <1>0, <1>1, <1>2 DEF TypeOK, Buckets
<1>4. Lasting' BY <1>0, <1>2 DEF IInv, Lasting, TypeOK, Constants, Buckets
<1>5. Shut'
  BY <1>0, <1>2 DEF IInv, Shut, TypeOK, Constants, Buckets, Checked
<1>6. Ordered' BY <1>2 DEF IInv, Ordered
<1>7. Covering'
  <2>1. cb'.state = "CLOSED" => cb' = cb
    BY <1>0, <1>2 DEF Checked, Buckets
  <2> QED BY <1>2, <2>1 DEF IInv, Covering
<1> QED BY <1>3, <1>4, <1>5, <1>6, <1>7 DEF IInv

(* A reported success forgets every failure.                                *)
LEMMA SuccessStep ==
    ASSUME IInv, NEW c \in Callers, Report(c), answer[c] = "ok"
    PROVE  IInv'
<1>0. Constants /\ TypeOK /\ cb \in Buckets
  BY ConstantsOK DEF IInv, TypeOK, Buckets
<1>1. CallsTypeOK'
  BY <1>0, CallsTyped DEF Report, CallStep, TypeOK
<1>2. /\ cb' = Succeeded(cb) /\ cb' \in Buckets /\ ttl' = KeyTtl
      /\ recent' = << >> /\ sinceTrip' = AgeCap /\ abandons' = abandons /\ up' = up
  BY <1>0, ScriptTyped DEF Report, Reported
<1>3. recent' \in Seq(0..AgeCap) /\ Len(recent') = 0 BY <1>2
<1>4. TypeOK' BY <1>0, <1>1, <1>2, <1>3 DEF TypeOK, Buckets, Constants
<1>5. Lasting' /\ Shut' /\ Ordered' /\ Covering'
  BY <1>0, <1>2, <1>3 DEF Lasting, Shut, Ordered, Covering, Succeeded, Buckets, Constants
<1> QED BY <1>4, <1>5 DEF IInv

(* A reported failure is counted, or starts the open time anew.             *)
LEMMA FailureStep ==
    ASSUME IInv, NEW c \in Callers, Report(c), answer[c] # "ok"
    PROVE  IInv' /\ (cb.state = "CLOSED" /\ cb'.state = "OPEN" => Len(recent') = Threshold)
<1>0. Constants /\ TypeOK /\ cb \in Buckets
  BY ConstantsOK DEF IInv, TypeOK, Buckets
<1>1. CallsTypeOK'
  BY <1>0, CallsTyped DEF Report, CallStep, TypeOK
<1>2. /\ cb' = Failed(cb) /\ cb' \in Buckets /\ ttl' = KeyTtl
      /\ recent' = Append(Latest(recent), 0)
      /\ sinceTrip' = IF cb.state # "OPEN" /\ cb'.state = "OPEN" THEN 0 ELSE sinceTrip
      /\ abandons' = abandons /\ up' = up
  BY <1>0, ScriptTyped DEF Report, Reported
<1>3. /\ recent' \in Seq(0..AgeCap)
      /\ Len(recent') = IF Len(recent) < Threshold THEN Len(recent) + 1 ELSE Threshold
      /\ recent'[Len(recent')] = 0
      /\ \A i \in 1..(Len(recent') - 1) :
            /\ i + Len(recent) + 1 - Len(recent') \in 1..Len(recent)
            /\ recent'[i] = recent[i + Len(recent) + 1 - Len(recent')]
  BY <1>0, <1>2, AppendLatest DEF TypeOK
<1>4. Len(recent) \in Nat /\ Len(recent') \in Nat \ {0} /\ Len(recent') <= Threshold
  BY <1>0, <1>3 DEF TypeOK, Constants
<1>5. cb'.age = 0
  BY <1>2 DEF Failed, Reopened
<1>6. TypeOK'
  BY <1>0, <1>1, <1>2, <1>3, <1>4 DEF TypeOK, Buckets, Constants
<1>7. Lasting' BY <1>0, <1>2, <1>5 DEF Lasting, Constants
<1>8. Shut'
  <2>1. sinceTrip < OpenDuration => cb.state = "OPEN" /\ cb'.state = "OPEN"
    BY <1>0, <1>2 DEF IInv, Shut, Failed, Buckets
  <2> QED BY <1>0, <1>2, <1>5, <1>6, <2>1 DEF Shut, TypeOK, Constants
<1>9. Ordered'
  <2> SUFFICES ASSUME NEW i \in 1..Len(recent') PROVE cb'.age <= recent'[i]
    BY DEF Ordered
  <2>1. recent'[i] \in 0..AgeCap BY <1>3, AgesOf
  <2> QED BY <2>1, <1>5, <1>0 DEF Constants
<1>10. Covering'
  <2> SUFFICES ASSUME cb'.state = "CLOSED" PROVE Covering' BY DEF Covering
  <2>1. /\ cb.state = "CLOSED" /\ ~Trips(cb) /\ cb'.failures = Count(cb)
    BY <1>0, <1>2 DEF Failed, Reopened, Buckets
  <2>2. /\ cb.failures < Threshold /\ cb.failures <= Len(recent)
        /\ \A i \in 1..Len(recent) : recent[i] <= Window => Len(recent) - i + 1 <= cb.failures
    BY <2>1 DEF IInv, Covering
  <2>3. cb'.failures < Threshold /\ cb'.failures >= 1 /\ cb'.failures \in Nat
    BY <1>0, <2>1 DEF Trips, Count, Constants, Buckets
  <2>4. cb'.failures <= Len(recent')
    BY <1>0, <1>3, <1>4, <2>1, <2>2, <2>3 DEF Count, Constants, Buckets
  <2>5. ASSUME NEW i \in 1..Len(recent'), recent'[i] <= Window
        PROVE  Len(recent') - i + 1 <= cb'.failures
    <3>1. CASE i = Len(recent') BY <3>1, <2>3, <1>4
    <3>2. CASE i # Len(recent')
      <4> DEFINE k == i + Len(recent) + 1 - Len(recent')
      <4>1. k \in 1..Len(recent) /\ recent'[i] = recent[k]
        BY <3>2, <1>3, <1>4
      <4>2. recent[k] <= Window BY <4>1, <2>5
      <4>3. cb.age <= Window
        <5>1. cb.age <= recent[k] BY <4>1 DEF IInv, Ordered
        <5>2. recent[k] \in 0..AgeCap
          <6>1. recent \in Seq(0..AgeCap) BY <1>0 DEF TypeOK
          <6> QED BY <6>1, <4>1, AgesOf
        <5> QED BY <5>1, <5>2, <4>2, <1>0 DEF Buckets, Constants
      <4>4. Len(recent) - k + 1 <= cb.failures BY <4>1, <4>2, <2>2
      <4>5. cb'.failures = cb.failures + 1
        BY <2>1, <4>3, <1>0 DEF Count, Buckets, Constants
      <4> QED BY <4>4, <4>5, <4>1, <1>4, <1>0 DEF Buckets
    <3> QED BY <3>1, <3>2
  <2> QED BY <2>3, <2>4, <2>5 DEF Covering
<1>11. cb.state = "CLOSED" /\ cb'.state = "OPEN" => Len(recent') = Threshold
  <2> SUFFICES ASSUME cb.state = "CLOSED", cb'.state = "OPEN" PROVE Len(recent') = Threshold
    OBVIOUS
  <2>1. Trips(cb) BY <1>2 DEF Failed
  <2>2. cb.failures <= Len(recent) /\ Len(recent) <= Threshold /\ cb.failures \in Nat
    BY <1>0 DEF IInv, Covering, TypeOK, Buckets
  <2> QED BY <2>1, <2>2, <1>0, <1>3, <1>4 DEF Trips, Count, Constants, Buckets
<1> QED BY <1>6, <1>7, <1>8, <1>9, <1>10, <1>11 DEF IInv

(* The clock.  When it takes the key away, no failure is young any more.    *)
LEMMA TickStep ==
    ASSUME IInv, Tick
    PROVE  IInv'
<1>0. Constants /\ TypeOK /\ cb \in Buckets /\ cb.age \in 0..AgeCap
  BY ConstantsOK DEF IInv, TypeOK, Buckets
<1>1. /\ ttl' = IF ttl = 0 THEN 0 ELSE ttl - 1
      /\ cb' = IF ttl' = 0 THEN Absent ELSE [cb EXCEPT !.age = Older(cb.age)]
      /\ recent' = [i \in DOMAIN recent |-> Older(recent[i])]
      /\ sinceTrip' = Older(sinceTrip)
      /\ UNCHANGED <<callVars, up, abandons>>
  BY DEF Tick
<1>2. Older(cb.age) \in 0..AgeCap /\ cb' \in Buckets
  BY <1>0, <1>1, ScriptTyped, OlderOK
<1>3. /\ Len(recent) \in Nat /\ recent' \in Seq(0..AgeCap) /\ Len(recent') = Len(recent)
      /\ \A i \in 1..Len(recent) : recent[i] \in 0..AgeCap /\ recent'[i] = Older(recent[i])
  <2>1. /\ Len(recent) \in Nat /\ DOMAIN recent = 1..Len(recent)
        /\ \A i \in 1..Len(recent) : recent[i] \in 0..AgeCap
    <3>1. recent \in Seq(0..AgeCap) BY <1>0 DEF TypeOK
    <3> QED BY <3>1, AgesOf
  <2>2. \A i \in 1..Len(recent) : Older(recent[i]) \in 0..AgeCap
    BY <2>1, OlderOK
  <2>3. recent' \in [1..Len(recent) -> 0..AgeCap]
    BY <1>1, <2>1, <2>2
  <2>4. recent' \in Seq(0..AgeCap) /\ Len(recent') = Len(recent)
    BY <2>1, <2>3, FunctionIsSeq
  <2> QED BY <2>1, <2>4, <1>1
<1>4. sinceTrip \in 0..AgeCap /\ sinceTrip' \in 0..AgeCap /\ sinceTrip' >= sinceTrip
  BY <1>0, <1>1, OlderOK DEF TypeOK
<1>5. ttl' \in 0..KeyTtl
  BY <1>0, <1>1 DEF TypeOK, Constants
<1>6. TypeOK'
  <2>1. CallsTypeOK' BY <1>0, <1>1 DEF TypeOK, CallsTypeOK, callVars
  <2> QED BY <2>1, <1>0, <1>1, <1>2, <1>3, <1>4, <1>5 DEF TypeOK, Buckets
<1>7. ASSUME ttl' = 0
      PROVE  cb.age >= AgeCap - 1 /\ cb' = Absent
  BY <1>7, <1>0, <1>1, <1>5 DEF IInv, Lasting, TypeOK, Constants, Absent
<1>8. Lasting'
  <2>1. CASE ttl' = 0 BY <2>1, <1>0, <1>1 DEF Lasting, Absent, Constants
  <2>2. CASE ttl' # 0
    <3>1. cb'.age = Older(cb.age) /\ ttl' = ttl - 1
      BY <2>2, <1>0, <1>1 DEF Buckets
    <3>2. cb.age < AgeCap => Older(cb.age) = cb.age + 1 /\ ttl + cb.age >= KeyTtl
      BY <1>0, OlderOK DEF IInv, Lasting
    <3>3. cb.age = AgeCap => Older(cb.age) = AgeCap
      BY <1>0 DEF Older, Constants
    <3> QED BY <3>1, <3>2, <3>3, <1>0, <1>5 DEF Lasting, Constants, TypeOK
  <2> QED BY <2>1, <2>2
<1>9. Shut'
  <2> SUFFICES ASSUME sinceTrip' < OpenDuration
               PROVE  cb'.state = "OPEN" /\ cb'.age <= sinceTrip'
    BY DEF Shut
  <2>1. sinceTrip < OpenDuration /\ sinceTrip < AgeCap
    BY <1>0, <1>4 DEF Constants
  <2>2. cb.state = "OPEN" /\ cb.age <= sinceTrip /\ cb.age < AgeCap
    BY <2>1, <1>0, <1>4 DEF IInv, Shut, Constants
  <2>3. sinceTrip' = sinceTrip + 1 /\ Older(cb.age) = cb.age + 1
    BY <2>1, <2>2, <1>0, <1>1, <1>4, OlderOK
  <2>4. ttl' # 0
    BY <1>7, <2>1, <2>2, <2>3, <1>0, <1>4 DEF Constants
  <2>5. cb' = [cb EXCEPT !.age = Older(cb.age)] BY <2>4, <1>1
  <2> QED BY <2>2, <2>3, <2>5, <1>0, <1>4 DEF Buckets
<1>10. Ordered'
  <2> SUFFICES ASSUME NEW i \in 1..Len(recent) PROVE cb'.age <= recent'[i]
    BY <1>3 DEF Ordered
  <2>1. cb.age <= recent[i] /\ recent[i] \in 0..AgeCap /\ recent'[i] = Older(recent[i])
    BY <1>3 DEF IInv, Ordered
  <2>2. Older(cb.age) <= Older(recent[i])
    BY <2>1, <1>0 DEF Older, Constants
  <2>3. CASE ttl' = 0
    <3>1. cb.age >= AgeCap - 1 /\ cb'.age = AgeCap BY <2>3, <1>7 DEF Absent
    <3>2. Older(recent[i]) = AgeCap BY <3>1, <2>1, <1>0 DEF Older, Constants
    <3> QED BY <3>1, <3>2, <2>1, <1>0 DEF Constants
  <2>4. CASE ttl' # 0
    <3>1. cb'.age = Older(cb.age) BY <2>4, <1>0, <1>1 DEF Buckets
    <3> QED BY <3>1, <2>1, <2>2
  <2> QED BY <2>3, <2>4
<1>11. Covering'
  <2> SUFFICES ASSUME cb'.state = "CLOSED"
               PROVE  /\ cb'.failures < Threshold /\ cb'.failures <= Len(recent')
                      /\ \A i \in 1..Len(recent') :
                            recent'[i] <= Window => Len(recent') - i + 1 <= cb'.failures
    BY DEF Covering
  <2>1. CASE ttl' = 0
    <3>1. cb'.failures = 0 /\ cb'.age = AgeCap BY <2>1, <1>7 DEF Absent
    <3>2. ASSUME NEW i \in 1..Len(recent') PROVE ~(recent'[i] <= Window)
      <4>1. recent'[i] \in 0..AgeCap BY <1>3, AgesOf
      <4>2. AgeCap <= recent'[i] BY <3>1, <1>10 DEF Ordered
      <4> QED BY <4>1, <4>2, <1>0 DEF Constants
    <3> QED BY <3>1, <3>2, <1>3, <1>0 DEF Constants
  <2>2. CASE ttl' # 0
    <3>1. cb'.state = cb.state /\ cb'.failures = cb.failures
      BY <2>2, <1>0, <1>1 DEF Buckets
    <3>2. \A i \in 1..Len(recent) : recent[i] <= recent'[i]
      BY <1>3, OlderOK
    <3>3. \A i \in 1..Len(recent) : recent'[i] <= Window => recent[i] <= Window
      <4> SUFFICES ASSUME NEW i \in 1..Len(recent), recent'[i] <= Window
                   PROVE  recent[i] <= Window
        OBVIOUS
      <4>1. recent[i] \in 0..AgeCap /\ recent'[i] \in 0..AgeCap BY <1>3, AgesOf
      <4> QED BY <4>1, <3>2, <1>0 DEF Constants
    <3> QED BY <3>1, <3>3, <1>3 DEF IInv, Covering
  <2> QED BY <2>1, <2>2
<1> QED BY <1>6, <1>8, <1>9, <1>10, <1>11 DEF IInv

-----------------------------------------------------------------------------
(* Every step preserves the invariant.                                      *)
LEMMA StepIInv == IInv /\ [Next]_vars => IInv'
<1> SUFFICES ASSUME IInv, [Next]_vars PROVE IInv' OBVIOUS
<1>0. abandons \in 0..MaxAbandons /\ MaxAbandons \in Nat
  BY AbandonsAssumption DEF IInv, TypeOK
<1>1. CASE Tick BY <1>1, TickStep
<1>2. CASE Flap
  <2>1. CallsTypeOK' /\ up' \in BOOLEAN
    BY <1>2 DEF Flap, IInv, TypeOK, CallsTypeOK, callVars
  <2> QED BY <1>2, <2>1 DEF Flap, IInv, TypeOK, Lasting, Shut, Ordered, Covering, history
<1>3. ASSUME NEW c \in Callers, Step(c) PROVE IInv'
  <2>1. CASE Start(c) BY <2>1, <1>0, QuietStep DEF Start, CallStep
  <2>2. CASE Check(c) BY <2>2, CheckStep
  <2>3. CASE Answer(c)
    <3>1. \E a \in Answers : AnswerCall(c, a) BY <2>3 DEF Answer, Answers
    <3> QED BY <2>3, <3>1, <1>0, QuietStep DEF Answer, CallStep
  <2>4. CASE Report(c) BY <2>4, SuccessStep, FailureStep
  <2>5. CASE Finish(c) BY <2>5, <1>0, QuietStep DEF Finish, CallStep
  <2> QED BY <1>3, <2>1, <2>2, <2>3, <2>4, <2>5 DEF Step
<1>4. ASSUME NEW c \in Callers, Raise(c) PROVE IInv'
  BY <1>4, <1>0, QuietStep DEF Raise, CallStep
<1>5. ASSUME NEW c \in Callers, Abandon(c) PROVE IInv'
  BY <1>5, <1>0, QuietStep DEF Abandon, CallStep
<1>6. CASE UNCHANGED vars
  <2>1. CallsTypeOK' BY <1>6 DEF vars, callVars, IInv, TypeOK, CallsTypeOK
  <2> QED BY <1>6, <2>1 DEF vars, IInv, TypeOK, Lasting, Shut, Ordered, Covering, history
<1> QED BY <1>1, <1>2, <1>3, <1>4, <1>5, <1>6 DEF Next

LEMMA BreakerInvariant == Spec => []IInv
BY InitIInv, StepIInv, PTL DEF Spec

(* Only a check lets a caller through, and only when the open time is over. *)
LEMMA KeptOut ==
    IInv /\ [Next]_vars
        => \A c \in Callers : pc[c] = "check" /\ pc'[c] = "send" => sinceTrip >= OpenDuration
<1> SUFFICES ASSUME IInv, [Next]_vars, NEW d \in Callers, pc[d] = "check", pc'[d] = "send"
             PROVE  sinceTrip >= OpenDuration
  OBVIOUS
<1>0. Constants /\ TypeOK /\ CallsTypeOK /\ cb \in Buckets
  BY ConstantsOK DEF IInv, TypeOK, Buckets
<1>1. PICK c \in Callers : Check(c)
  <2>1. ~Tick /\ ~Flap /\ ~UNCHANGED vars
    BY DEF Tick, Flap, vars, callVars
  <2>2. PICK c \in Callers : Step(c) \/ Raise(c) \/ Abandon(c)
    BY <2>1 DEF Next
  <2>3. ~(Start(c) \/ Finish(c) \/ Report(c) \/ Raise(c) \/ Abandon(c))
    BY <1>0 DEF Start, StartCall, Finish, FinishCall, Report, ReportCall, Raise, RaiseCall,
       Abandon, AbandonCall, CallsTypeOK
  <2>4. ~Answer(c)
    BY <1>0 DEF Answer, AnswerCall, NextAttempt, CallsTypeOK
  <2> QED BY <2>2, <2>3, <2>4 DEF Step
<1>2. LetsThrough(cb, cb')
  BY <1>0, <1>1 DEF Check, TurnAway, NextAttempt, CallsTypeOK
<1>3. ~(sinceTrip < OpenDuration)
  BY <1>0, <1>1, <1>2 DEF Check, LetsThrough, Checked, IInv, Shut, Buckets, TypeOK, Constants
<1> QED BY <1>3, <1>0 DEF TypeOK, Constants

(* Only a reported failure turns a closed breaker OPEN.                     *)
LEMMA TrippedWhenDue ==
    IInv /\ [Next]_vars => (cb.state = "CLOSED" /\ cb'.state = "OPEN" => Len(recent') = Threshold)
<1> SUFFICES ASSUME IInv, [Next]_vars, cb.state = "CLOSED", cb'.state = "OPEN"
             PROVE  Len(recent') = Threshold
  OBVIOUS
<1>0. cb \in Buckets BY DEF IInv, TypeOK, Buckets
<1>1. PICK c \in Callers : Report(c)
  <2>1. ~Tick BY <1>0 DEF Tick, Absent, Buckets
  <2>2. cb' # cb OBVIOUS
  <2>3. ~Flap /\ ~UNCHANGED vars BY <2>2 DEF Flap, vars
  <2>4. PICK c \in Callers : Step(c) \/ Raise(c) \/ Abandon(c)
    BY <2>1, <2>3 DEF Next
  <2>5. ~(Start(c) \/ Answer(c) \/ Finish(c) \/ Raise(c) \/ Abandon(c))
    BY <2>2 DEF Start, Answer, Finish, Raise, Abandon
  <2>6. ~Check(c) BY DEF Check, Checked
  <2> QED BY <2>4, <2>5, <2>6 DEF Step
<1>2. answer[c] # "ok"
  BY <1>0, <1>1 DEF Report, Succeeded, Buckets
<1> QED BY <1>1, <1>2, FailureStep

-----------------------------------------------------------------------------
(* The script and its callers keep their types.                             *)
THEOREM BreakerTypeCorrect == Spec => []TypeOK
BY BreakerInvariant, PTL DEF IInv

(* A breaker with Threshold failures in the window is not closed: neither   *)
(* the expiry of its key nor a check makes it forget one.                   *)
THEOREM TripsAreDue == Spec => []TripsWhenDue
<1>1. IInv => TripsWhenDue
  <2> SUFFICES ASSUME IInv, Len(recent) = Threshold, recent[1] <= Window, cb.state = "CLOSED"
               PROVE  FALSE
    BY DEF TripsWhenDue
  <2>1. Constants /\ cb.failures \in Nat BY ConstantsOK DEF IInv, TypeOK
  <2>2. 1 \in 1..Len(recent) BY <2>1 DEF Constants
  <2>3. Len(recent) - 1 + 1 <= cb.failures /\ cb.failures < Threshold
    BY <2>2 DEF IInv, Covering
  <2> QED BY <2>1, <2>3 DEF Constants
<1> QED BY <1>1, BreakerInvariant, PTL

(* While the breaker is tripped nobody reaches the target.                  *)
THEOREM CallersAreKeptOut == Spec => OpenKeepsCallersOut
BY KeptOut, BreakerInvariant, PTL DEF Spec, OpenKeepsCallersOut

(* It trips only after Threshold failures without a success in between.     *)
THEOREM TripsAreEarned == Spec => TripsOnlyWhenDue
BY TrippedWhenDue, BreakerInvariant, PTL DEF Spec, TripsOnlyWhenDue
=============================================================================
