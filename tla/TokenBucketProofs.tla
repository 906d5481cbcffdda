------------------------- MODULE TokenBucketProofs --------------------------
(***************************************************************************)
(* Proofs about TokenBucket, for every capacity, rate and unit of time.    *)
(*                                                                         *)
(* WindowBound is not inductive: it says nothing of the tokens that are    *)
(* left.  The invariant Conserved does, for every window that ends now.    *)
(***************************************************************************)
EXTENDS TokenBucket, SequenceTheorems, TLAPS

(* Nothing recorded lies in the future, and the key lives KeyTtl from the   *)
(* last request on.                                                         *)
Timely ==
    /\ last_time <= now
    /\ \A i \in 1..Len(admitted) : admitted[i] <= now
    /\ \/ expires = 0 /\ admitted = << >>
       \/ expires = last_time + KeyTtl

(* The admissions since the i-th and the tokens left are covered by the     *)
(* capacity and what has been refilled since.                               *)
Conserved ==
    \A i \in 1..Len(admitted) :
        (Len(admitted) - i + 1) * Token + Available
            <= Capacity + Rate * (now - admitted[i])

(* A bucket that is not full has been emptied by the admissions of some     *)
(* window that ends now.                                                    *)
Tight ==
    \/ Available = Capacity
    \/ \E i \in 1..Len(admitted) :
        (Len(admitted) - i + 1) * Token + Available
            >= Capacity + Rate * (now - admitted[i])

(* The last refusal, while nobody else has come, is the bucket's last write. *)
Told ==
    refused.header > 0 =>
        /\ refused.at = last_time
        /\ tokens < Token
        /\ refused.header >= (Token - tokens) \div PerSecond

IInv == TypeOK /\ Timely /\ Conserved /\ WindowBound /\ Tight /\ Told

-----------------------------------------------------------------------------
(* The key lives long enough to be refilled from nothing: its life, rounded *)
(* up to whole seconds, loses nothing.                                      *)
LEMMA TtlRefills == KeyTtl \in Nat /\ Rate * KeyTtl >= Capacity
<1> DEFINE d == PerSecond
           q == (Capacity + d - 1) \div d
<1>1. d \in Nat \ {0}
  BY UnitsAssumption, TimesAssumption DEF PerSecond
<1>2. q \in Nat /\ d * q >= Capacity
  <2>1. Capacity + d - 1 \in Nat BY <1>1, UnitsAssumption
  <2> QED BY <1>1, <2>1, UnitsAssumption
<1>3. KeyTtl = Second * q + Slack
  BY DEF KeyTtl
<1> QED
  BY <1>1, <1>2, <1>3, UnitsAssumption, TimesAssumption DEF PerSecond

(* What the bucket holds lies between nothing and its capacity.             *)
LEMMA AvailableInRange ==
    ASSUME TypeOK, Timely
    PROVE  Available \in 0..Capacity
<1>1. now - last_time \in Nat
  BY DEF TypeOK, Timely
<1>2. Rate * (now - last_time) \in Nat
  BY <1>1, UnitsAssumption
<1> QED
  BY <1>2, UnitsAssumption DEF Available, Refill, Smaller, TypeOK

(* A tick refills Rate, up to the capacity, even when it takes the key away. *)
LEMMA TickRefill ==
    ASSUME TypeOK, Timely, Tick
    PROVE  Available' = Smaller(Capacity, Available + Rate)
<1>1. now' = now + 1 /\ tokens' = tokens /\ last_time' = last_time /\ expires' = expires
  BY DEF Tick
<1>2. now - last_time \in Nat /\ now' - last_time = (now - last_time) + 1
  BY <1>1 DEF TypeOK, Timely
<1>3. Rate * (now' - last_time) = Rate * (now - last_time) + Rate
  BY <1>2, UnitsAssumption
<1>4. Rate * (now - last_time) \in Nat
  BY <1>2, UnitsAssumption
<1>5. CASE now >= expires
  <2>1. Available = Capacity BY <1>5 DEF Available
  <2> QED BY <2>1, <1>1, <1>3, <1>4, UnitsAssumption
          DEF Available, Refill, Smaller, TypeOK
<1>6. CASE now < expires
  <2>1. expires = last_time + KeyTtl
    BY <1>6 DEF Timely, TypeOK
  <2>2. now' >= expires => Rate * (now' - last_time) >= Capacity
    <3>1. SUFFICES ASSUME now' >= expires PROVE Rate * (now' - last_time) >= Capacity
      OBVIOUS
    <3>2. now' - last_time \in Nat /\ now' - last_time >= KeyTtl
      BY <3>1, <2>1, <1>1, <1>2, TtlRefills DEF TypeOK
    <3>3. Rate * (now' - last_time) >= Rate * KeyTtl
      BY <3>2, TtlRefills, UnitsAssumption
    <3> QED BY <3>2, <3>3, TtlRefills, UnitsAssumption
  <2>3. Available = Refill(tokens, now - last_time)
    BY <1>6 DEF Available, TypeOK
  <2>4. CASE now' >= expires
    <3>1. Available' = Capacity BY <2>4, <1>1 DEF Available
    <3> QED BY <3>1, <2>2, <2>3, <2>4, <1>3, <1>4, UnitsAssumption DEF Refill, Smaller, TypeOK
  <2>5. CASE ~(now' >= expires)
    <3>1. Available' = Refill(tokens, now' - last_time)
      BY <2>5, <1>1 DEF Available
    <3> QED BY <3>1, <2>3, <1>3, <1>4, UnitsAssumption DEF Refill, Smaller, TypeOK
  <2> QED BY <2>4, <2>5
<1> QED BY <1>5, <1>6 DEF TypeOK

(* Right after a write the bucket holds what was written.                   *)
LEMMA WriteHolds ==
    ASSUME TypeOK, Timely, NEW left \in 0..Capacity, Write(left), now' = now
    PROVE  /\ Available' = left
           /\ tokens' = left /\ last_time' = now /\ expires' = now + KeyTtl
           /\ expires' \in Nat
<1>1. tokens' = left /\ last_time' = now /\ expires' = now + KeyTtl
  BY DEF Write
<1>2. KeyTtl \in Nat /\ KeyTtl > 0
  BY TtlRefills, UnitsAssumption
<1>3. now' - last_time' = 0 /\ ~(now' >= expires')
  BY <1>1, <1>2 DEF TypeOK
<1>4. Rate * (now' - last_time') = 0
  BY <1>3, UnitsAssumption
<1>5. Available' = Refill(tokens', now' - last_time')
  BY <1>3 DEF Available
<1> QED
  BY <1>1, <1>2, <1>4, <1>5, UnitsAssumption DEF Refill, Smaller, TypeOK

-----------------------------------------------------------------------------
(* The inductive invariant holds at the start.                             *)
LEMMA InitInvariant == Init => IInv
<1> SUFFICES ASSUME Init PROVE IInv
  OBVIOUS
<1>1. TypeOK /\ Timely
  BY UnitsAssumption, TimesAssumption DEF Init, TypeOK, Timely, NoRefusal
<1>2. Conserved /\ WindowBound /\ Tight /\ Told
  BY DEF Init, Conserved, WindowBound, Tight, Told, Available, NoRefusal
<1> QED BY <1>1, <1>2 DEF IInv

(* An admission keeps it: every window has room for one more request.      *)
LEMMA AdmitInvariant == IInv /\ Admit => IInv'
<1> SUFFICES ASSUME IInv, Admit PROVE IInv'
  OBVIOUS
<1> USE DEF IInv
<1> DEFINE n == Len(admitted)
           left == Available - Token
<1>1. left \in 0..Capacity /\ Available \in 0..Capacity
  BY AvailableInRange, UnitsAssumption DEF Admit
<1>2. now' = now /\ Write(left) /\ admitted' = Append(admitted, now) /\ refused' = NoRefusal
  BY DEF Admit
<1>3. /\ Available' = left
      /\ tokens' = left /\ last_time' = now /\ expires' = now + KeyTtl
      /\ expires' \in Nat
  BY <1>1, <1>2, WriteHolds
<1>4. /\ n \in Nat /\ Len(admitted') = n + 1
      /\ admitted'[n + 1] = now
      /\ \A i \in 1..n : admitted'[i] = admitted[i]
      /\ \A i \in 1..n : admitted[i] \in Nat
      /\ now \in Nat
  <2>1. admitted \in Seq(0..MaxTime) /\ now \in 0..MaxTime /\ n \in Nat
    BY DEF TypeOK
  <2>2. admitted' = Append(admitted, now)
    BY <1>2
  <2>3. Len(admitted') = n + 1 /\ admitted'[n + 1] = now
    BY <2>1, <2>2
  <2>4. ASSUME NEW i \in 1..n
        PROVE  admitted'[i] = admitted[i] /\ admitted[i] \in Nat
    <3>1. admitted[i] \in 0..MaxTime BY <2>1, <2>4, ElementOfSeq
    <3> QED BY <2>1, <2>2, <3>1
  <2> QED BY <2>1, <2>3, <2>4
<1>5. TypeOK'
  BY <1>1, <1>2, <1>3, TimesAssumption DEF TypeOK, NoRefusal
<1>6. Timely'
  BY <1>2, <1>3, <1>4 DEF Timely, TypeOK
<1>7. Conserved'
  <2> SUFFICES ASSUME NEW i \in 1..(n + 1)
               PROVE  (n + 1 - i + 1) * Token + Available'
                        <= Capacity + Rate * (now - admitted'[i])
    BY <1>2, <1>4 DEF Conserved
  <2>1. CASE i = n + 1
    <3>1. n + 1 - i + 1 = 1 /\ now - admitted'[i] = 0
      BY <2>1, <1>4
    <3>2. Rate * (now - admitted'[i]) = 0 /\ (n + 1 - i + 1) * Token = Token
      BY <3>1, UnitsAssumption
    <3> QED BY <3>2, <1>1, <1>3, UnitsAssumption
  <2>2. CASE i \in 1..n
    <3>1. (n - i + 1) * Token + Available <= Capacity + Rate * (now - admitted[i])
      BY <2>2 DEF Conserved
    <3>2. (n + 1 - i + 1) * Token = (n - i + 1) * Token + Token
      BY <1>4, UnitsAssumption
    <3>3. (n - i + 1) * Token \in Int /\ Rate * (now - admitted[i]) \in Int
      BY <2>2, <1>4, UnitsAssumption
    <3> QED BY <3>1, <3>2, <3>3, <2>2, <1>1, <1>3, <1>4, UnitsAssumption
  <2> QED BY <2>1, <2>2, <1>4
<1>8. WindowBound'
  <2> SUFFICES ASSUME NEW i \in 1..(n + 1), NEW j \in i..(n + 1)
               PROVE  (j - i + 1) * Token <= Capacity + Rate * (admitted'[j] - admitted'[i])
    BY <1>4 DEF WindowBound
  <2>1. CASE j \in 1..n
    BY <2>1, <1>4 DEF WindowBound
  <2>2. CASE j = n + 1
    <3>1. (n + 1 - i + 1) * Token + Available' <= Capacity + Rate * (now - admitted'[i])
      BY <1>2, <1>4, <1>7 DEF Conserved
    <3>2. admitted'[i] \in Nat
      BY <1>4
    <3>3. (n + 1 - i + 1) * Token \in Int /\ Rate * (now - admitted'[i]) \in Int
      BY <3>2, <1>4, UnitsAssumption
    <3> QED BY <3>1, <3>3, <2>2, <1>1, <1>3, <1>4, UnitsAssumption
  <2> QED BY <2>1, <2>2, <1>4
<1>9. Tight'
  <2>1. CASE Available = Capacity
    <3>1. n + 1 - (n + 1) + 1 = 1 /\ now - admitted'[n + 1] = 0
      BY <1>4
    <3>2. (n + 1 - (n + 1) + 1) * Token = Token /\ Rate * (now - admitted'[n + 1]) = 0
      BY <3>1, UnitsAssumption
    <3> QED BY <3>2, <2>1, <1>2, <1>3, <1>4, UnitsAssumption DEF Tight
  <2>2. ASSUME NEW i \in 1..n,
               (n - i + 1) * Token + Available >= Capacity + Rate * (now - admitted[i])
        PROVE  Tight'
    <3>1. (n + 1 - i + 1) * Token = (n - i + 1) * Token + Token
      BY <1>4, UnitsAssumption
    <3>2. (n - i + 1) * Token \in Int /\ Rate * (now - admitted[i]) \in Int
      BY <1>4, UnitsAssumption
    <3>3. (n + 1 - i + 1) * Token + Available' >= Capacity + Rate * (now - admitted'[i])
      BY <2>2, <3>1, <3>2, <1>1, <1>3, <1>4, UnitsAssumption
    <3> QED BY <3>3, <1>2, <1>4 DEF Tight
  <2> QED BY <2>1, <2>2 DEF Tight
<1>10. Told'
  BY <1>2 DEF Told, NoRefusal
<1> QED BY <1>5, <1>6, <1>7, <1>8, <1>9, <1>10

(* A refusal keeps it: it only moves the refill into the stored tokens.    *)
LEMMA RefuseInvariant == IInv /\ Refuse => IInv'
<1> SUFFICES ASSUME IInv, Refuse PROVE IInv'
  OBVIOUS
<1> USE DEF IInv
<1>1. Available \in 0..Capacity
  BY AvailableInRange
<1>2. now' = now /\ Write(Available) /\ admitted' = admitted
  BY DEF Refuse, Kept
<1>3. /\ Available' = Available
      /\ tokens' = Available /\ last_time' = now /\ expires' = now + KeyTtl
      /\ expires' \in Nat
  BY <1>1, <1>2, WriteHolds
<1>4. RetryAfter(Available) \in Nat
  <2>1. Token - Available \in Nat
    BY <1>1, UnitsAssumption DEF Refuse
  <2>2. PerSecond \in Nat \ {0}
    BY UnitsAssumption, TimesAssumption DEF PerSecond
  <2>3. (Token - Available) \div PerSecond \in Nat
    BY <2>1, <2>2
  <2> QED BY <2>3 DEF RetryAfter, Larger
<1>5. TypeOK'
  BY <1>1, <1>2, <1>3, <1>4 DEF TypeOK, Refuse
<1>6. Timely'
  BY <1>2, <1>3 DEF Timely, TypeOK
<1>7. Conserved'
  BY <1>2, <1>3 DEF Conserved
<1>8. WindowBound'
  BY <1>2 DEF WindowBound
<1>9. Tight'
  BY <1>2, <1>3 DEF Tight
<1>10. Told'
  <2>1. refused' = [at |-> now, header |-> RetryAfter(Available)] /\ Available < Token
    BY DEF Refuse
  <2>2. RetryAfter(Available) >= (Token - Available) \div PerSecond
    BY <1>1, UnitsAssumption, TimesAssumption DEF RetryAfter, Larger, PerSecond
  <2> QED BY <2>1, <2>2, <1>3 DEF Told
<1> QED BY <1>5, <1>6, <1>7, <1>8, <1>9, <1>10

(* The clock keeps it: what a key loses by expiring is a full refill.      *)
LEMMA TickInvariant == IInv /\ Tick => IInv'
<1> SUFFICES ASSUME IInv, Tick PROVE IInv'
  OBVIOUS
<1> USE DEF IInv
<1>1. /\ now' = now + 1 /\ now < MaxTime
      /\ tokens' = tokens /\ last_time' = last_time /\ expires' = expires
      /\ admitted' = admitted /\ refused' = refused
  BY DEF Tick
<1>2. TypeOK'
  BY <1>1, TimesAssumption DEF TypeOK
<1>3. /\ Len(admitted) \in Nat
      /\ \A i \in 1..Len(admitted) : admitted[i] \in Nat
  <2>1. admitted \in Seq(0..MaxTime)
    BY DEF TypeOK
  <2>2. ASSUME NEW i \in 1..Len(admitted) PROVE admitted[i] \in 0..MaxTime
    BY <2>1, ElementOfSeq
  <2> QED BY <2>1, <2>2
<1>4. Timely'
  BY <1>1, <1>3 DEF Timely, TypeOK
<1>5. Conserved'
  <2> SUFFICES ASSUME NEW i \in 1..Len(admitted)
               PROVE  (Len(admitted) - i + 1) * Token + Available'
                        <= Capacity + Rate * (now' - admitted[i])
    BY <1>1 DEF Conserved
  <2>1. Available' = Smaller(Capacity, Available + Rate)
    BY TickRefill
  <2>2. (Len(admitted) - i + 1) * Token + Available <= Capacity + Rate * (now - admitted[i])
    BY DEF Conserved
  <2>3. Rate * (now' - admitted[i]) = Rate * (now - admitted[i]) + Rate
    <3>1. now' - admitted[i] = (now - admitted[i]) + 1 /\ now - admitted[i] \in Int
      BY <1>1, <1>3 DEF TypeOK
    <3> QED BY <3>1, UnitsAssumption
  <2>4. (Len(admitted) - i + 1) * Token \in Int /\ Rate * (now - admitted[i]) \in Int
    BY <1>3, UnitsAssumption DEF TypeOK
  <2>5. Available \in Int
    BY AvailableInRange, UnitsAssumption
  <2> QED BY <2>1, <2>2, <2>3, <2>4, <2>5, UnitsAssumption DEF Smaller
<1>6. WindowBound'
  BY <1>1 DEF WindowBound
<1>7. Tight'
  <2>1. Available' = Smaller(Capacity, Available + Rate) /\ Available \in 0..Capacity
    BY TickRefill, AvailableInRange
  <2>2. CASE Available' = Capacity
    BY <2>2 DEF Tight
  <2>3. CASE Available' = Available + Rate /\ Available # Capacity
    <3>1. PICK i \in 1..Len(admitted) :
            (Len(admitted) - i + 1) * Token + Available
                >= Capacity + Rate * (now - admitted[i])
      BY <2>3 DEF Tight
    <3>2. now' - admitted[i] = (now - admitted[i]) + 1 /\ now - admitted[i] \in Int
      BY <1>1, <1>3 DEF TypeOK
    <3>3. Rate * (now' - admitted[i]) = Rate * (now - admitted[i]) + Rate
      BY <3>2, UnitsAssumption
    <3>4. (Len(admitted) - i + 1) * Token \in Int /\ Rate * (now - admitted[i]) \in Int
      BY <3>2, <1>3, UnitsAssumption
    <3>5. (Len(admitted) - i + 1) * Token + Available'
                >= Capacity + Rate * (now' - admitted[i])
      BY <3>1, <3>3, <3>4, <2>1, <2>3, UnitsAssumption
    <3> QED BY <3>5, <1>1 DEF Tight
  <2> QED BY <2>1, <2>2, <2>3, UnitsAssumption DEF Smaller
<1>8. Told'
  BY <1>1 DEF Told
<1> QED BY <1>2, <1>4, <1>5, <1>6, <1>7, <1>8

(* Every step keeps it.                                                    *)
LEMMA NextInvariant == IInv /\ [Next]_vars => IInv'
<1>1. IInv /\ UNCHANGED vars => IInv'
  BY DEF IInv, TypeOK, Timely, Conserved, WindowBound, Tight, Told, Available, vars
<1> QED
  BY <1>1, AdmitInvariant, RefuseInvariant, TickInvariant DEF Next

-----------------------------------------------------------------------------
(* The bucket, the clock and what is remembered keep their types: the       *)
(* tokens that the script stores never exceed the capacity and never fall   *)
(* below nothing.                                                           *)
THEOREM BucketTypeCorrect == Spec => []TypeOK
<1>1. IInv => TypeOK
  BY DEF IInv
<1> QED
  BY <1>1, InitInvariant, NextInvariant, PTL DEF Spec

(* No window of time admits more than the capacity and its refill: the rate *)
(* limit of check_rate_limit, for every capacity, rate and clock.           *)
THEOREM RateLimitHolds == Spec => [](TypeOK /\ WindowBound)
<1>1. IInv => TypeOK /\ WindowBound
  BY DEF IInv
<1> QED
  BY <1>1, InitInvariant, NextInvariant, PTL DEF Spec

(* check_rate_limit refuses no request that every window had room for.      *)
THEOREM RefusalsAreDue == Spec => RefusesOnlyWhenDue
<1> DEFINE Due ==
        \E i \in 1..Len(admitted) :
            (Len(admitted) - i + 2) * Token > Capacity + Rate * (now - admitted[i])
<1>1. IInv /\ Refuse => Due
  <2> SUFFICES ASSUME IInv, Refuse PROVE Due
    OBVIOUS
  <2>1. Available \in 0..Capacity /\ Available < Token
    BY AvailableInRange DEF IInv, Refuse
  <2>2. PICK i \in 1..Len(admitted) :
          (Len(admitted) - i + 1) * Token + Available
              >= Capacity + Rate * (now - admitted[i])
    BY <2>1, UnitsAssumption DEF IInv, Tight
  <2>3. /\ Len(admitted) \in Nat /\ admitted[i] \in Int /\ now \in Int
    <3>1. admitted \in Seq(0..MaxTime) /\ now \in 0..MaxTime
      BY DEF IInv, TypeOK
    <3>2. admitted[i] \in 0..MaxTime
      BY <3>1, ElementOfSeq
    <3> QED BY <3>1, <3>2
  <2>4. (Len(admitted) - i + 2) * Token = (Len(admitted) - i + 1) * Token + Token
    BY <2>3, UnitsAssumption
  <2>5. (Len(admitted) - i + 1) * Token \in Int /\ Rate * (now - admitted[i]) \in Int
    BY <2>3, UnitsAssumption
  <2>6. (Len(admitted) - i + 2) * Token > Capacity + Rate * (now - admitted[i])
    BY <2>1, <2>2, <2>4, <2>5, UnitsAssumption
  <2> QED BY <2>6
<1>2. IInv /\ [Next]_vars => [Refuse => Due]_vars
  BY <1>1
<1> QED
  BY <1>2, InitInvariant, NextInvariant, PTL DEF Spec, RefusesOnlyWhenDue

(* A second more than Retry-After is always enough: int() loses less.       *)
THEOREM WaitingIsEnough == Spec => []WaitIsEnough
<1>1. IInv => WaitIsEnough
  <2> SUFFICES ASSUME IInv, refused.header > 0,
                      now >= refused.at + (refused.header + 1) * Second
               PROVE  Available >= Token
    BY DEF WaitIsEnough
  <2> DEFINE h == refused.header
             q == (Token - tokens) \div PerSecond
  <2>1. /\ refused.at = last_time /\ tokens < Token /\ h >= q
        /\ h \in Nat /\ tokens \in Nat /\ now \in Nat /\ last_time \in Nat
    BY DEF IInv, Told, TypeOK
  <2>2. PerSecond \in Nat \ {0} /\ Token - tokens \in Nat
    BY <2>1, UnitsAssumption, TimesAssumption DEF PerSecond
  <2>3. q \in Nat /\ PerSecond * (q + 1) > Token - tokens
    BY <2>2
  <2>4. PerSecond * (h + 1) >= PerSecond * (q + 1)
    BY <2>1, <2>2, <2>3
  <2>5. now - last_time >= (h + 1) * Second /\ (h + 1) * Second \in Nat
    BY <2>1, TimesAssumption
  <2>6. Rate * (now - last_time) >= Rate * ((h + 1) * Second)
    BY <2>1, <2>5, UnitsAssumption
  <2>7. Rate * ((h + 1) * Second) = PerSecond * (h + 1)
    BY <2>1, UnitsAssumption, TimesAssumption DEF PerSecond
  <2>8. tokens + Rate * (now - last_time) >= Token
    <3>1. Rate * (now - last_time) \in Int /\ PerSecond * (h + 1) \in Int
              /\ PerSecond * (q + 1) \in Int
      BY <2>1, <2>2, <2>3, UnitsAssumption
    <3> QED BY <3>1, <2>1, <2>3, <2>4, <2>6, <2>7, UnitsAssumption
  <2> QED
    BY <2>8, UnitsAssumption DEF Available, Refill, Smaller
<1> QED
  BY <1>1, InitInvariant, NextInvariant, PTL DEF Spec
=============================================================================
