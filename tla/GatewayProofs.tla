--------------------------- MODULE GatewayProofs ----------------------------
(***************************************************************************)
(* Proofs about Gateway, for any number of requests, months and retries    *)
(* and any quotas: its types, the quota and its ledger, and what is sent   *)
(* downstream, where an idempotent request is not sent again while its     *)
(* answer is stored, and a streamed body is sent at most once.             *)
(***************************************************************************)
EXTENDS Gateway, FiniteSetTheorems, TLAPS

USE DEF NoMonth

-----------------------------------------------------------------------------
(* Type correctness.                                                       *)

(* Every step of TargetCall keeps its variables in their types.             *)
LEMMA CallsType ==
    ASSUME Calls!CallsTypeOK, NEW r \in Requests,
           \/ Calls!StartCall(r) \/ Calls!LetThrough(r) \/ Calls!TurnAway(r)
           \/ \E a \in {"ok", "5xx", "unreachable"} : Calls!AnswerCall(r, a)
           \/ Calls!RaiseCall(r) \/ Calls!ReportCall(r) \/ Calls!FinishCall(r)
           \/ Calls!AbandonCall(r)
    PROVE  Calls!CallsTypeOK'
<1> USE DEF Calls!CallsTypeOK, Calls!Answers
<1>1. CASE Calls!StartCall(r)
  BY <1>1 DEF Calls!StartCall
<1>2. CASE Calls!LetThrough(r)
  BY <1>2 DEF Calls!LetThrough
<1>3. attempt[r] \in 1..retries /\ retries \in Nat
  BY BoundsAssumption
<1>4. ASSUME Calls!NextAttempt(r), retries' = retries
      PROVE  /\ pc' \in [Requests -> {"idle", "check", "send", "report", "done"}]
             /\ attempt' \in [Requests -> 1..retries']
  <2>1. CASE Calls!LastAttempt(r)
    BY <1>4, <2>1 DEF Calls!NextAttempt
  <2>2. CASE ~Calls!LastAttempt(r)
    <3>1. attempt[r] + 1 \in 1..retries
      BY <1>3, <2>2 DEF Calls!LastAttempt
    <3> QED BY <1>4, <2>2, <3>1 DEF Calls!NextAttempt
  <2> QED BY <2>1, <2>2
<1>5. CASE Calls!TurnAway(r)
  BY <1>4, <1>5 DEF Calls!TurnAway
<1>6. ASSUME NEW a \in {"ok", "5xx", "unreachable"}, Calls!AnswerCall(r, a)
      PROVE  Calls!CallsTypeOK'
  <2>1. CASE a = "ok" \/ Calls!LastAttempt(r)
    BY <1>6, <2>1 DEF Calls!AnswerCall
  <2>2. CASE ~(a = "ok" \/ Calls!LastAttempt(r))
    BY <1>4, <1>6, <2>2 DEF Calls!AnswerCall
  <2> QED BY <2>1, <2>2
<1>7. CASE Calls!RaiseCall(r)
  BY <1>7 DEF Calls!RaiseCall
<1>8. CASE Calls!ReportCall(r)
  BY <1>8 DEF Calls!ReportCall
<1>9. CASE Calls!FinishCall(r)
  BY <1>3, <1>9 DEF Calls!FinishCall
<1>10. CASE Calls!AbandonCall(r)
  BY <1>3, <1>10 DEF Calls!AbandonCall
<1> QED BY <1>1, <1>2, <1>5, <1>6, <1>7, <1>8, <1>9, <1>10

(* The steps of the handler outside TargetCall, which end in one of these.  *)
LEMMA EndType ==
    ASSUME TypeOK, NEW r \in Requests, End(r)
    PROVE  /\ phase' \in [Requests -> Phases]
           /\ paid' \in [Requests -> Months \cup {NoMonth}]
           /\ body' \in [Requests -> {"buffered", "stream", "consumed"}]
           /\ failed' \in [Requests -> BOOLEAN]
           /\ again' \subseteq Requests
BY DEF TypeOK, End, Goto, Phases

(* A move to a place of the handler.                                       *)
LEMMA GotoType ==
    ASSUME TypeOK, NEW r \in Requests, NEW p \in Phases, Goto(r, p)
    PROVE  phase' \in [Requests -> Phases]
BY DEF TypeOK, Goto

(* A failed request ends, or goes to give its unit back.                   *)
LEMMA GiveUpType ==
    ASSUME TypeOK, NEW r \in Requests, GiveUp(r)
    PROVE  /\ phase' \in [Requests -> Phases]
           /\ paid' \in [Requests -> Months \cup {NoMonth}]
           /\ body' \in [Requests -> {"buffered", "stream", "consumed"}]
           /\ failed' \in [Requests -> BOOLEAN]
           /\ again' \subseteq Requests
           /\ UNCHANGED <<usage, net, forgiven, carried>>
<1>1. CASE r \in Anonymous
  BY <1>1, EndType DEF GiveUp
<1>2. CASE r \notin Anonymous
  <2>1. Goto(r, "refund") /\ "refund" \in Phases
    BY <1>2 DEF GiveUp, Phases
  <2>2. phase' \in [Requests -> Phases]
    BY <2>1, GotoType
  <2> QED BY <1>2, <2>2 DEF GiveUp, ledger, TypeOK
<1> QED BY <1>1, <1>2

(* The start is in the types.                                              *)
LEMMA InitType == Init => TypeOK
<1> SUFFICES ASSUME Init PROVE TypeOK
  OBVIOUS
<1>1. Calls!CallsTypeOK
  BY BoundsAssumption DEF Init, Calls!CallsInit, Calls!CallsTypeOK, Calls!Answers
<1>2. 0 \in Months /\ "idle" \in Phases
  BY BoundsAssumption DEF Months, Phases
<1>3. month \in Months /\ paid \in [Requests -> Months \cup {NoMonth}]
  BY <1>2 DEF Init
<1>4. /\ usage \in [Months -> Nat] /\ net \in [Months -> Int] /\ forgiven \in [Months -> Nat]
  BY <1>2 DEF Init
<1>5. /\ phase \in [Requests -> Phases]
      /\ body \in [Requests -> {"buffered", "stream", "consumed"}]
      /\ failed \in [Requests -> BOOLEAN]
  BY <1>2 DEF Init
<1> QED
  BY <1>1, <1>3, <1>4, <1>5 DEF Init, TypeOK

(* Every step stays in the types.                                          *)
LEMMA NextType == TypeOK /\ [Next]_vars => TypeOK'
<1> SUFFICES ASSUME TypeOK, [Next]_vars PROVE TypeOK'
  OBVIOUS
<1> USE DEF calendar, ledger, idem, callVars
<1>0. UNCHANGED callVars => Calls!CallsTypeOK'
  BY DEF TypeOK, Calls!CallsTypeOK
<1>1. ASSUME NEW r \in Requests, Receive(r) PROVE TypeOK'
  <2>1. (IF r \in Anonymous THEN "body" ELSE "reserve") \in Phases
    BY DEF Phases
  <2>2. phase' \in [Requests -> Phases]
    BY <1>1, <2>1, GotoType DEF Receive
  <2> QED BY <1>0, <1>1, <2>2 DEF Receive, TypeOK
<1>2. ASSUME NEW r \in Requests, Reserve(r) PROVE TypeOK'
  <2>1. "body" \in Phases /\ month \in Months
    BY DEF Phases, TypeOK
  <2>2. CASE Limit[r] <= 0
    <3>1. phase' \in [Requests -> Phases]
      BY <1>2, <2>1, <2>2, GotoType DEF Reserve
    <3> QED BY <1>0, <1>2, <2>2, <3>1 DEF Reserve, TypeOK
  <2>3. CASE ~(Limit[r] <= 0) /\ End(r) /\ UNCHANGED <<usage, net, forgiven, carried>>
    BY <1>0, <1>2, <2>3, EndType DEF Reserve, TypeOK
  <2>4. CASE /\ Goto(r, "body")
             /\ paid' = [paid EXCEPT ![r] = month]
             /\ net' = [net EXCEPT ![month] = @ + 1]
             /\ Counted \/ CountedAndGone
             /\ UNCHANGED <<carried, again, body, failed>>
    <3>1. phase' \in [Requests -> Phases]
      BY <2>1, <2>4, GotoType
    <3>2. usage' \in [Months -> Nat] /\ forgiven' \in [Months -> Nat]
      BY <2>1, <2>4 DEF Counted, CountedAndGone, TypeOK
    <3>3. paid' \in [Requests -> Months \cup {NoMonth}] /\ net' \in [Months -> Int]
      BY <2>1, <2>4 DEF TypeOK
    <3>4. UNCHANGED <<callVars, conf, calendar, stored, replied, carried, again, body, failed>>
      BY <1>2, <2>4 DEF Reserve
    <3> QED BY <1>0, <3>1, <3>2, <3>3, <3>4 DEF TypeOK
  <2>5. CASE ~(Limit[r] <= 0)
    BY <1>2, <2>3, <2>4, <2>5, Zenon DEF Reserve
  <2> QED BY <2>2, <2>5
<1>3. ASSUME NEW r \in Requests, ReadBody(r) PROVE TypeOK'
  <2>1. CASE End(r) /\ UNCHANGED <<callVars, usage, net, forgiven, carried>>
    BY <1>0, <1>3, <2>1, EndType DEF ReadBody, TypeOK
  <2>2. CASE ~(End(r) /\ UNCHANGED <<callVars, usage, net, forgiven, carried>>)
    <3>1. body' \in [Requests -> {"buffered", "stream", "consumed"}]
      BY <1>3, <2>2 DEF ReadBody, TypeOK
    <3>2. phase' \in [Requests -> Phases]
      BY <1>3, <2>2, GotoType DEF ReadBody, Phases
    <3>3. Calls!CallsTypeOK'
      BY <1>0, <1>3, <2>2, CallsType DEF ReadBody, TypeOK
    <3> QED BY <1>3, <2>2, <3>1, <3>2, <3>3 DEF ReadBody, TypeOK
  <2> QED BY <2>1, <2>2
<1>4. ASSUME NEW r \in Requests, Lookup(r) PROVE TypeOK'
  <2>1. CASE IdemKey[r] \in stored
    BY <1>0, <1>4, <2>1, EndType DEF Lookup, TypeOK
  <2>2. CASE IdemKey[r] \notin stored
    <3>1. phase' \in [Requests -> Phases]
      BY <1>4, <2>2, GotoType DEF Lookup, Phases
    <3>2. Calls!CallsTypeOK'
      BY <1>4, <2>2, CallsType DEF Lookup, TypeOK
    <3> QED BY <1>4, <2>2, <3>1, <3>2 DEF Lookup, TypeOK
  <2> QED BY <2>1, <2>2
<1>5. ASSUME NEW r \in Requests, Call(r) PROVE TypeOK'
  <2>1. Calls!CallsTypeOK'
    BY <1>5, CallsType DEF Call, TypeOK
  <2>2. body' \in [Requests -> {"buffered", "stream", "consumed"}]
    BY <1>5 DEF Call, TypeOK
  <2> QED BY <1>5, <2>1, <2>2 DEF Call, TypeOK
<1>6. ASSUME NEW r \in Requests, AfterCall(r) PROVE TypeOK'
  <2>1. Calls!CallsTypeOK'
    BY <1>6, CallsType DEF AfterCall, TypeOK
  <2>2. CASE Goto(r, "build") /\ UNCHANGED <<ledger, again, body, failed>>
    <3>1. phase' \in [Requests -> Phases]
      BY <2>2, GotoType DEF Phases
    <3> QED BY <1>6, <2>1, <2>2, <3>1 DEF AfterCall, TypeOK
  <2>3. CASE End(r) /\ UNCHANGED <<usage, net, forgiven, carried>>
    BY <1>6, <2>1, <2>3, EndType DEF AfterCall, TypeOK
  <2>4. CASE Goto(r, "fallback") /\ UNCHANGED <<ledger, again, body, failed>>
    <3>1. phase' \in [Requests -> Phases]
      BY <2>4, GotoType DEF Phases
    <3> QED BY <1>6, <2>1, <2>4, <3>1 DEF AfterCall, TypeOK
  <2>5. CASE GiveUp(r)
    BY <1>6, <2>1, <2>5, GiveUpType DEF AfterCall, TypeOK
  <2> QED BY <1>6, <2>2, <2>3, <2>4, <2>5 DEF AfterCall
<1>7. ASSUME NEW r \in Requests, Fallback(r) PROVE TypeOK'
  <2>1. CASE GiveUp(r)
    BY <1>0, <1>7, <2>1, GiveUpType DEF Fallback, TypeOK
  <2>2. CASE ~GiveUp(r)
    <3>1. phase' \in [Requests -> Phases]
      BY <1>7, <2>2, GotoType DEF Fallback, Phases
    <3>2. failed' \in [Requests -> BOOLEAN]
      BY <1>7, <2>2 DEF Fallback, TypeOK
    <3> QED BY <1>0, <1>7, <2>2, <3>1, <3>2 DEF Fallback, TypeOK
  <2> QED BY <2>1, <2>2
<1>8. ASSUME NEW r \in Requests, Build(r) PROVE TypeOK'
  <2>1. CASE GiveUp(r) /\ UNCHANGED <<stored, replied>>
    BY <1>0, <1>8, <2>1, GiveUpType DEF Build, TypeOK
  <2>2. ASSUME NEW storable \in BOOLEAN, Stores(r, storable),
               stored' = stored \cup {IdemKey[r]}, Goto(r, "reply"),
               UNCHANGED <<ledger, again, body, failed, replied>>
        PROVE  TypeOK'
    <3>1. phase' \in [Requests -> Phases]
      BY <2>2, GotoType DEF Phases
    <3>2. IdemKey[r] \in IdemKeys
      BY <2>2 DEF Stores, UseIdempotency, IdemKeys
    <3> QED BY <1>0, <1>8, <2>2, <3>1, <3>2 DEF Build, TypeOK
  <2>3. ASSUME NEW storable \in BOOLEAN, End(r), UNCHANGED <<usage, net, forgiven, carried, stored>>,
               replied' = IF UseIdempotency(r) /\ storable
                          THEN replied \cup {IdemKey[r]} ELSE replied
        PROVE  TypeOK'
    <3>1. replied' \subseteq IdemKeys
      BY <2>3 DEF UseIdempotency, IdemKeys, TypeOK
    <3> QED BY <1>0, <1>8, <2>3, <3>1, EndType DEF Build, TypeOK
  <2> QED BY <1>8, <2>1, <2>2, <2>3 DEF Build
<1>9. ASSUME NEW r \in Requests, Reply(r) PROVE TypeOK'
  BY <1>0, <1>9, EndType DEF Reply, TypeOK
<1>10. ASSUME NEW r \in Requests, Refund(r) PROVE TypeOK'
  <2>1. month \in Months
    BY DEF TypeOK
  <2>2. usage' \in [Months -> Nat] /\ usage[month] - usage'[month] \in Nat
    BY <1>10, <2>1 DEF Refund, Refunded, TypeOK
  <2>3. net' \in [Months -> Int] /\ forgiven' \in [Months -> Nat]
    BY <1>10, <2>1, <2>2 DEF Refund, TypeOK
  <2> QED BY <1>0, <1>10, <2>2, <2>3, EndType DEF Refund, TypeOK
<1>11. ASSUME NEW r \in Requests, Cancel(r) PROVE TypeOK'
  <2>1. Calls!CallsTypeOK'
    BY <1>0, <1>11, CallsType DEF Cancel, TypeOK
  <2> QED BY <1>11, <2>1, EndType DEF Cancel, TypeOK
<1>12. ASSUME NEW k \in IdemKeys, ExpireStored(k) PROVE TypeOK'
  BY <1>0, <1>12 DEF ExpireStored, TypeOK
<1>13. CASE BeginClosing
  BY <1>0, <1>13 DEF BeginClosing, TypeOK
<1>14. CASE ExpireCounter
  BY <1>0, <1>14 DEF ExpireCounter, TypeOK
<1>15. CASE NextMonth
  <2>1. Cardinality({r \in Requests : paid[r] # NoMonth}) \in Nat
    BY RequestsAssumption, FS_Subset, FS_CardinalityType
  <2>2. month' \in Months
    BY <1>15, BoundsAssumption DEF NextMonth, TypeOK, Months
  <2>3. closing' \in BOOLEAN /\ carried' \in Nat
    BY <1>15, <2>1 DEF NextMonth
  <2>4. UNCHANGED <<callVars, conf, usage, paid, net, forgiven, idem, phase, body, failed>>
    BY <1>15 DEF NextMonth
  <2> QED BY <1>0, <2>2, <2>3, <2>4 DEF TypeOK
<1>16. CASE UNCHANGED vars
  BY <1>0, <1>16 DEF vars, TypeOK
<1> QED
  BY <1>1, <1>2, <1>3, <1>4, <1>5, <1>6, <1>7, <1>8, <1>9, <1>10, <1>11, <1>12,
     <1>13, <1>14, <1>15, <1>16 DEF Next, Handle

(* The variables of the pipeline keep their types.                          *)
THEOREM TypeCorrect == Spec => []TypeOK
BY InitType, NextType, PTL DEF Spec

-----------------------------------------------------------------------------
(***************************************************************************)
(* The quota ledger.  LedgerAgrees and QuotaHeld are not inductive: a      *)
(* refund is covered because its request still holds the unit it reserved  *)
(* (Backed), it can only take the unit of another request when its own is  *)
(* of an earlier month (PaidUp, Carry), and a month that has not begun has *)
(* an empty ledger (Unopened).                                             *)
(***************************************************************************)
Holders(m) == {r \in Requests : paid[r] = m}
Late == {r \in Requests : paid[r] \notin {NoMonth, month}}

Covered ==
    \A m \in Months :
        /\ usage[m] <= MaxLimit
        /\ usage[m] <= net[m]
        /\ net[m] <= usage[m] + forgiven[m]

Backed == \A m \in Months : Cardinality(Holders(m)) <= net[m]

PaidAt(r, where, holds) ==
    /\ where \in {"idle", "reserve"} => holds = NoMonth
    /\ where = "refund" => r \notin Anonymous
    /\ /\ where \notin {"idle", "reserve"}
       /\ r \notin Anonymous
       /\ Limit[r] > 0
       => holds # NoMonth

PaidUp == \A r \in Requests : PaidAt(r, phase[r], paid[r])

Unopened ==
    \A m \in Months : m > month => usage[m] = 0 /\ net[m] = 0 /\ forgiven[m] = 0

Carry == AllLimited /\ ~closing => forgiven[month] + Cardinality(Late) <= carried

Ledger == Covered /\ Backed /\ PaidUp /\ Unopened /\ Carry
IInv == TypeOK /\ Ledger

(* The sets the invariant counts are finite.                                *)
LEMMA HoldersFinite ==
    /\ \A m \in Months : IsFiniteSet(Holders(m)) /\ Cardinality(Holders(m)) \in Nat
    /\ IsFiniteSet(Late) /\ Cardinality(Late) \in Nat
<1>1. \A m \in Months : Holders(m) \subseteq Requests
  BY DEF Holders
<1>2. Late \subseteq Requests
  BY DEF Late
<1> QED
  BY <1>1, <1>2, RequestsAssumption, FS_Subset, FS_CardinalityType

(* A handler that moves from one place to another, holding h there.         *)
LEMMA PaidUpMoves ==
    ASSUME TypeOK, PaidUp, NEW r \in Requests, NEW p, NEW h,
           phase' = [phase EXCEPT ![r] = p],
           paid' = [paid EXCEPT ![r] = h],
           PaidAt(r, p, h)
    PROVE  PaidUp'
<1> SUFFICES ASSUME NEW q \in Requests PROVE PaidAt(q, phase'[q], paid'[q])
  BY DEF PaidUp, PaidAt
<1>1. CASE q = r
  BY <1>1 DEF TypeOK
<1>2. CASE q # r
  BY <1>2 DEF TypeOK, PaidUp
<1> QED BY <1>1, <1>2

(* A handler that ends holds nothing.                                       *)
LEMMA PaidUpEnds ==
    ASSUME TypeOK, PaidUp, NEW r \in Requests, End(r)
    PROVE  PaidUp'
BY PaidUpMoves, PaidAt(r, "idle", NoMonth) DEF End, Goto, PaidAt

(* A handler that goes on with what it holds.                               *)
GoesOn(r) ==
    /\ phase[r] \notin {"idle", "reserve"}
    /\ \E p \in Phases \ {"idle", "reserve"} :
          Goto(r, p) /\ (p = "refund" => r \notin Anonymous)
    /\ UNCHANGED paid

(* A handler that goes on owes nothing new.                                *)
LEMMA PaidUpGoesOn ==
    ASSUME TypeOK, PaidUp, NEW r \in Requests, GoesOn(r)
    PROVE  PaidUp'
<1>1. PICK p \in Phases \ {"idle", "reserve"} :
          Goto(r, p) /\ (p = "refund" => r \notin Anonymous)
  BY DEF GoesOn
<1>2. paid' = [paid EXCEPT ![r] = paid[r]]
  BY DEF GoesOn, TypeOK
<1>3. PaidAt(r, phase[r], paid[r])
  BY DEF PaidUp
<1>4. PaidAt(r, p, paid[r])
  BY <1>1, <1>3 DEF PaidAt, GoesOn
<1> QED BY <1>1, <1>2, <1>4, PaidUpMoves DEF Goto

(* The steps of a handler that neither reserve nor refund.                  *)
Quiet(r) == ReadBody(r) \/ Lookup(r) \/ Call(r) \/ AfterCall(r) \/ Fallback(r)
            \/ Build(r) \/ Reply(r) \/ Cancel(r)

(* Giving up moves no counter: only the refund that follows does.          *)
LEMMA GiveUpQuiet ==
    ASSUME NEW r \in Requests, GiveUp(r), phase[r] \notin {"idle", "reserve"}
    PROVE  /\ UNCHANGED <<usage, net, forgiven, carried>>
           /\ End(r) \/ GoesOn(r)
BY DEF GiveUp, GoesOn, Phases, ledger

(* A quiet handler ends, goes on or stays, and moves no counter.           *)
LEMMA QuietSteps ==
    ASSUME NEW r \in Requests, Quiet(r)
    PROVE  /\ UNCHANGED <<usage, net, forgiven, carried, calendar>>
           /\ End(r) \/ GoesOn(r) \/ UNCHANGED <<phase, paid>>
<1> USE DEF ledger, Phases, GoesOn
<1>1. CASE ReadBody(r)
  BY <1>1 DEF ReadBody
<1>2. CASE Lookup(r)
  BY <1>2 DEF Lookup
<1>3. CASE Call(r)
  BY <1>3 DEF Call
<1>4. CASE AfterCall(r)
  BY <1>4, GiveUpQuiet DEF AfterCall
<1>5. CASE Fallback(r)
  BY <1>5, GiveUpQuiet DEF Fallback
<1>6. CASE Build(r)
  BY <1>6, GiveUpQuiet DEF Build
<1>7. CASE Reply(r)
  BY <1>7 DEF Reply
<1>8. CASE Cancel(r)
  BY <1>8 DEF Cancel
<1> QED BY <1>1, <1>2, <1>3, <1>4, <1>5, <1>6, <1>7, <1>8 DEF Quiet

(* With the counters at rest and no more units held, the ledger stands.     *)
LEMMA RestingLedger ==
    ASSUME TypeOK, Covered, Backed, Unopened, Carry,
           UNCHANGED <<usage, net, forgiven, carried, calendar>>,
           \A r \in Requests : paid'[r] \in {paid[r], NoMonth}
    PROVE  (Covered /\ Backed /\ Unopened /\ Carry)'
<1>1. Covered' /\ Unopened'
  BY DEF Covered, Unopened, calendar
<1>2. ASSUME NEW m \in Months
      PROVE  Cardinality(Holders(m)') <= net'[m]
  <2>1. Holders(m)' \subseteq Holders(m)
    BY <1>2 DEF Holders, Months
  <2>2. /\ Cardinality(Holders(m)') <= Cardinality(Holders(m))
        /\ Cardinality(Holders(m)') \in Nat
    BY <1>2, <2>1, HoldersFinite, FS_Subset, FS_CardinalityType
  <2>3. Cardinality(Holders(m)) <= net[m] /\ net[m] \in Int
    BY <1>2 DEF Backed, TypeOK
  <2> QED BY <1>2, <2>2, <2>3, HoldersFinite
<1>3. Carry'
  <2>1. Late' \subseteq Late
    BY DEF Late, calendar
  <2>2. Cardinality(Late') <= Cardinality(Late) /\ Cardinality(Late') \in Nat
    BY <2>1, HoldersFinite, FS_Subset, FS_CardinalityType
  <2>3. month' = month /\ closing' = closing /\ forgiven' = forgiven /\ carried' = carried
    BY DEF calendar
  <2>4. month \in Months /\ forgiven[month] \in Nat /\ carried \in Nat
    BY DEF TypeOK
  <2>5. AllLimited' <=> AllLimited
    BY DEF AllLimited
  <2> QED BY <2>2, <2>3, <2>4, <2>5, HoldersFinite DEF Carry
<1> QED BY <1>1, <1>2, <1>3 DEF Backed

(* A step of a quiet handler.                                               *)
LEMMA QuietLedger ==
    ASSUME IInv, NEW r \in Requests, Quiet(r)
    PROVE  Ledger'
<1>1. /\ UNCHANGED <<usage, net, forgiven, carried, calendar>>
      /\ End(r) \/ GoesOn(r) \/ UNCHANGED <<phase, paid>>
  BY QuietSteps
<1>2. TypeOK /\ Covered /\ Backed /\ PaidUp /\ Unopened /\ Carry
  BY DEF IInv, Ledger
<1>3. \A q \in Requests : paid'[q] \in {paid[q], NoMonth}
  BY <1>1, <1>2 DEF End, GoesOn, TypeOK
<1>4. PaidUp'
  <2>1. CASE UNCHANGED <<phase, paid>>
    BY <1>2, <2>1 DEF PaidUp, PaidAt
  <2> QED BY <1>1, <1>2, <2>1, PaidUpEnds, PaidUpGoesOn
<1> QED BY <1>1, <1>2, <1>3, <1>4, RestingLedger DEF Ledger

(* A request arrives with nothing reserved.                                 *)
LEMMA ReceiveLedger ==
    ASSUME IInv, NEW r \in Requests, Receive(r)
    PROVE  Ledger'
<1>1. TypeOK /\ Covered /\ Backed /\ PaidUp /\ Unopened /\ Carry
  BY DEF IInv, Ledger
<1>2. UNCHANGED <<usage, net, forgiven, carried, calendar, paid>>
  BY DEF Receive, ledger
<1>3. paid[r] = NoMonth /\ paid' = [paid EXCEPT ![r] = NoMonth]
  BY <1>1, <1>2 DEF Receive, PaidUp, PaidAt, TypeOK
<1>4. PICK p \in {"body", "reserve"} :
          phase' = [phase EXCEPT ![r] = p] /\ (p = "body" => r \in Anonymous)
  BY DEF Receive, Goto
<1>5. PaidUp'
  BY <1>1, <1>3, <1>4, PaidUpMoves, PaidAt(r, p, NoMonth) DEF PaidAt
<1> QED BY <1>1, <1>2, <1>5, RestingLedger DEF Ledger

(* A reservation: refused, not needed, or counted for one more holder.      *)
LEMMA ReserveLedger ==
    ASSUME IInv, NEW r \in Requests, Reserve(r)
    PROVE  Ledger'
<1>1. TypeOK /\ Covered /\ Backed /\ PaidUp /\ Unopened /\ Carry
  BY DEF IInv, Ledger
<1>2. paid[r] = NoMonth
  BY <1>1 DEF Reserve, PaidUp, PaidAt
<1>3. UNCHANGED calendar /\ month \in Months /\ Limit[r] \in 0..MaxLimit /\ MaxLimit \in Nat
  BY <1>1, LimitAssumption DEF Reserve, TypeOK
<1>4. CASE Limit[r] <= 0
  <2>1. Goto(r, "body") /\ UNCHANGED ledger
    BY <1>4 DEF Reserve
  <2>2. PaidAt(r, "body", NoMonth) /\ paid' = [paid EXCEPT ![r] = NoMonth]
    BY <1>1, <1>2, <1>3, <1>4, <2>1 DEF PaidAt, ledger, TypeOK
  <2>3. PaidUp'
    BY <1>1, <2>1, <2>2, PaidUpMoves DEF Goto
  <2> QED BY <1>1, <1>3, <2>1, <2>3, RestingLedger DEF Ledger, ledger
<1>5. CASE End(r) /\ UNCHANGED <<usage, net, forgiven, carried>>
  <2>1. \A q \in Requests : paid'[q] \in {paid[q], NoMonth}
    BY <1>1, <1>5 DEF End, TypeOK
  <2> QED BY <1>1, <1>3, <1>5, <2>1, PaidUpEnds, RestingLedger DEF Ledger
<1>6. CASE /\ ~Exhausted(usage[month], Limit[r])
           /\ Goto(r, "body")
           /\ paid' = [paid EXCEPT ![r] = month]
           /\ net' = [net EXCEPT ![month] = @ + 1]
           /\ Counted \/ CountedAndGone
           /\ UNCHANGED <<carried, again, body, failed>>
  <2>1. month' = month /\ closing' = closing
    BY <1>3 DEF calendar
  <2>2. PaidUp'
    <3>1. PaidAt(r, "body", month)
      BY <1>3 DEF PaidAt, Months
    <3> QED BY <1>1, <1>6, <3>1, PaidUpMoves DEF Goto
  <2>3. \A m \in Months : m # month =>
            usage'[m] = usage[m] /\ net'[m] = net[m] /\ forgiven'[m] = forgiven[m]
    BY <1>1, <1>6 DEF Counted, CountedAndGone, TypeOK
  <2>4. net'[month] = net[month] + 1
    BY <1>1, <1>3, <1>6 DEF TypeOK
  <2>5. \/ usage'[month] = usage[month] + 1 /\ forgiven' = forgiven
        \/ /\ closing /\ usage[month] = 0
           /\ usage'[month] = usage[month] /\ forgiven'[month] = forgiven[month] + 1
    BY <1>1, <1>3, <1>6 DEF Counted, CountedAndGone, TypeOK
  <2>6. usage[month] < MaxLimit /\ usage[month] \in Nat /\ net[month] \in Int
        /\ forgiven[month] \in Nat
    BY <1>1, <1>3, <1>6 DEF Exhausted, TypeOK
  <2>7. Covered'
    BY <1>1, <1>3, <2>3, <2>4, <2>5, <2>6 DEF Covered
  <2>8. Unopened'
    BY <1>1, <1>3, <2>1, <2>3 DEF Unopened, Months
  <2>9. Backed'
    <3>1. ASSUME NEW m \in Months, m # month
          PROVE  Cardinality(Holders(m)') <= net'[m]
      <4>1. Holders(m)' = Holders(m)
        BY <1>1, <1>2, <1>6, <3>1 DEF Holders, TypeOK, Months
      <4> QED BY <1>1, <2>3, <3>1, <4>1 DEF Backed
    <3>2. Cardinality(Holders(month)') <= net'[month]
      <4>1. {q \in Requests : paid'[q] = month} = Holders(month) \cup {r}
        BY <1>1, <1>6 DEF Holders, TypeOK
      <4>2. r \notin Holders(month)
        BY <1>2, <1>3 DEF Holders, Months
      <4>3. Cardinality({q \in Requests : paid'[q] = month}) = Cardinality(Holders(month)) + 1
        BY <1>3, <4>1, <4>2, HoldersFinite, FS_AddElement
      <4> QED BY <1>1, <1>3, <2>1, <2>4, <2>6, <4>3, HoldersFinite DEF Backed, Holders
    <3> QED BY <2>1, <3>1, <3>2 DEF Backed
  <2>10. Carry'
    <3>1. Late' = Late
      BY <1>1, <1>2, <1>6, <2>1 DEF Late, TypeOK
    <3>2. AllLimited' <=> AllLimited
      BY DEF AllLimited
    <3> QED BY <1>1, <1>6, <2>1, <2>5, <3>1, <3>2 DEF Carry
  <2> QED BY <2>2, <2>7, <2>8, <2>9, <2>10 DEF Ledger
<1>7. CASE ~(Limit[r] <= 0)
  BY <1>5, <1>6, <1>7, Zenon DEF Reserve
<1> QED BY <1>4, <1>7

(* A refund.  One that was owed is backed by the unit its request holds;    *)
(* one that was not takes a unit from the counter, which is forgiven.       *)
LEMMA RefundLedger ==
    ASSUME IInv, NEW r \in Requests, Refund(r)
    PROVE  Ledger'
<1>1. TypeOK /\ Covered /\ Backed /\ PaidUp /\ Unopened /\ Carry
  BY DEF IInv, Ledger
<1>2. /\ month \in Months /\ usage[month] \in Nat /\ net[month] \in Int
      /\ forgiven[month] \in Nat /\ carried \in Nat /\ MaxLimit \in Nat
  BY <1>1, LimitAssumption DEF TypeOK
<1>3. month' = month /\ closing' = closing /\ carried' = carried
  BY DEF Refund, calendar
<1>4. End(r) /\ paid' = [paid EXCEPT ![r] = NoMonth] /\ PaidUp'
  BY <1>1, PaidUpEnds DEF Refund, End
<1>5. usage'[month] = Refunded(usage[month])
      /\ \A m \in Months : m # month => usage'[m] = usage[m]
  BY <1>1, <1>2 DEF Refund, TypeOK
<1>6. \A m \in Months : Holders(m)' \subseteq Holders(m)
  BY <1>1, <1>4 DEF Holders, TypeOK, Months
<1>7. \A m \in Months : Cardinality(Holders(m)') <= Cardinality(Holders(m))
                        /\ Cardinality(Holders(m)') \in Nat
  BY <1>6, HoldersFinite, FS_Subset, FS_CardinalityType
<1>8. AllLimited' <=> AllLimited
  BY DEF AllLimited
<1>9. CASE paid[r] = month
  <2>1. net' = [net EXCEPT ![month] = @ - 1] /\ forgiven' = forgiven
    BY <1>9 DEF Refund
  <2>2. net'[month] = net[month] - 1 /\ \A m \in Months : m # month => net'[m] = net[m]
    BY <1>1, <1>2, <2>1 DEF TypeOK
  <2>3. Cardinality({q \in Requests : paid'[q] = month}) = Cardinality(Holders(month)) - 1
    <3>1. {q \in Requests : paid'[q] = month} = Holders(month) \ {r}
      BY <1>1, <1>2, <1>4 DEF Holders, TypeOK, Months
    <3>2. r \in Holders(month)
      BY <1>9 DEF Holders
    <3> QED BY <1>2, <3>1, <3>2, HoldersFinite, FS_RemoveElement
  <2>4. net[month] >= 1
    <3>1. Holders(month) # {}
      BY <1>9 DEF Holders
    <3>2. Cardinality(Holders(month)) # 0
      BY <1>2, <3>1, HoldersFinite, FS_EmptySet
    <3> QED BY <1>1, <1>2, <3>2, HoldersFinite DEF Backed
  <2>5. Covered'
    BY <1>1, <1>2, <1>5, <2>1, <2>2, <2>4 DEF Covered, Refunded
  <2>6. Backed'
    <3>1. ASSUME NEW m \in Months, m # month
          PROVE  Cardinality(Holders(m)') <= net'[m]
      BY <1>1, <1>7, <2>2, <3>1, HoldersFinite DEF Backed, TypeOK
    <3>2. Cardinality(Holders(month)') <= net'[month]
      BY <1>1, <1>2, <1>3, <2>2, <2>3, HoldersFinite DEF Backed, Holders
    <3> QED BY <1>3, <3>1, <3>2 DEF Backed
  <2>7. Unopened'
    BY <1>1, <1>2, <1>3, <1>5, <2>1, <2>2 DEF Unopened, Months
  <2>8. Carry'
    <3>1. Late' = Late
      BY <1>1, <1>3, <1>4, <1>9 DEF Late, TypeOK
    <3> QED BY <1>1, <1>3, <1>8, <2>1, <3>1 DEF Carry
  <2> QED BY <1>4, <2>5, <2>6, <2>7, <2>8 DEF Ledger
<1>10. CASE paid[r] # month
  <2>1. /\ net' = net
        /\ forgiven' = [forgiven EXCEPT ![month] = @ + (usage[month] - usage'[month])]
    BY <1>10 DEF Refund
  <2>2. forgiven'[month] = forgiven[month] + (usage[month] - usage'[month])
        /\ \A m \in Months : m # month => forgiven'[m] = forgiven[m]
    BY <1>1, <1>2, <2>1 DEF TypeOK
  <2>3. usage'[month] \in Nat /\ usage[month] - usage'[month] \in {0, 1}
        /\ usage'[month] <= usage[month]
    BY <1>2, <1>5 DEF Refunded
  <2>4. Covered'
    BY <1>1, <1>2, <1>5, <2>1, <2>2, <2>3 DEF Covered
  <2>5. Backed'
    BY <1>1, <1>7, <2>1, HoldersFinite DEF Backed, TypeOK
  <2>6. Unopened'
    BY <1>1, <1>2, <1>3, <1>5, <2>1, <2>2 DEF Unopened, Months
  <2>7. Carry'
    <3> SUFFICES ASSUME AllLimited, ~closing
                 PROVE  forgiven'[month] + Cardinality(Late') <= carried
      BY <1>3, <1>8 DEF Carry
    <3>1. r \notin Anonymous /\ Limit[r] > 0 /\ paid[r] # NoMonth
      BY <1>1 DEF Refund, AllLimited, PaidUp, PaidAt
    <3>2. r \in Late
      BY <1>10, <3>1 DEF Late
    <3>3. Late' = Late \ {r}
      BY <1>1, <1>3, <1>4 DEF Late, TypeOK
    <3>4. Cardinality(Late') = Cardinality(Late) - 1
      BY <3>2, <3>3, HoldersFinite, FS_RemoveElement
    <3> QED BY <1>1, <1>2, <2>2, <2>3, <3>4, HoldersFinite DEF Carry
  <2> QED BY <1>4, <2>4, <2>5, <2>6, <2>7 DEF Ledger
<1> QED BY <1>9, <1>10

(* The end of a month, and the counter that expires then.                   *)
LEMMA CalendarLedger ==
    ASSUME IInv, BeginClosing \/ ExpireCounter \/ NextMonth
    PROVE  Ledger'
<1>1. TypeOK /\ Covered /\ Backed /\ PaidUp /\ Unopened /\ Carry
  BY DEF IInv, Ledger
<1>2. /\ month \in Months /\ usage[month] \in Nat /\ net[month] \in Int
      /\ forgiven[month] \in Nat /\ MaxLimit \in Nat
  BY <1>1, LimitAssumption DEF TypeOK
<1>3. UNCHANGED <<phase, paid, net>>
  BY DEF BeginClosing, ExpireCounter, NextMonth, ledger
<1>4. PaidUp' /\ Backed'
  <2>1. \A m \in Months : Holders(m)' = Holders(m)
    BY <1>3 DEF Holders
  <2> QED BY <1>1, <1>3, <2>1 DEF PaidUp, PaidAt, Backed
<1>5. CASE BeginClosing
  <2>1. UNCHANGED ledger /\ month' = month /\ closing'
    BY <1>5 DEF BeginClosing
  <2> QED BY <1>1, <1>4, <2>1 DEF Ledger, Covered, Unopened, Carry, ledger
<1>6. CASE ExpireCounter
  <2>1. /\ usage'[month] = 0 /\ forgiven'[month] = forgiven[month] + usage[month]
        /\ \A m \in Months : m # month => usage'[m] = usage[m] /\ forgiven'[m] = forgiven[m]
    BY <1>1, <1>2, <1>6 DEF ExpireCounter, TypeOK
  <2>2. month' = month /\ closing'
    BY <1>6 DEF ExpireCounter, calendar
  <2>3. Covered'
    BY <1>1, <1>2, <1>3, <2>1 DEF Covered
  <2>4. Unopened'
    BY <1>1, <1>2, <1>3, <2>1, <2>2 DEF Unopened, Months
  <2> QED BY <1>4, <2>2, <2>3, <2>4 DEF Ledger, Carry
<1>7. CASE NextMonth
  <2>1. /\ UNCHANGED <<usage, net, forgiven>>
        /\ month' = month + 1 /\ ~closing'
        /\ carried' = Cardinality({q \in Requests : paid[q] # NoMonth})
    BY <1>7 DEF NextMonth
  <2>2. month' \in Months /\ month' > month
    BY <1>2, <1>7, <2>1, BoundsAssumption DEF NextMonth, Months
  <2>3. Covered' /\ Unopened'
    BY <1>1, <1>2, <2>1, <2>2 DEF Covered, Unopened, Months
  <2>4. forgiven'[month'] = 0
    BY <1>1, <2>1, <2>2 DEF Unopened
  <2>5. Cardinality(Late') <= carried' /\ Cardinality(Late') \in Nat
    <3>1. Late' \subseteq {q \in Requests : paid[q] # NoMonth}
      BY <1>3 DEF Late
    <3>2. IsFiniteSet({q \in Requests : paid[q] # NoMonth})
      BY RequestsAssumption, FS_Subset
    <3> QED BY <2>1, <3>1, <3>2, FS_Subset, FS_CardinalityType
  <2>6. carried' \in Nat
    BY <2>1, RequestsAssumption, FS_Subset, FS_CardinalityType
  <2>7. Carry'
    BY <2>4, <2>5, <2>6 DEF Carry
  <2> QED BY <1>4, <2>3, <2>7 DEF Ledger
<1> QED BY <1>5, <1>6, <1>7

-----------------------------------------------------------------------------
(* The inductive invariant.                                                 *)

(* It holds at the start: nobody holds anything.                            *)
LEMMA InitIInv == Init => IInv
<1> SUFFICES ASSUME Init PROVE IInv
  OBVIOUS
<1>1. TypeOK
  BY InitType
<1>2. 0 \in Months /\ MaxLimit \in Nat
  BY BoundsAssumption, LimitAssumption DEF Months
<1>3. \A m \in Months : usage[m] = 0 /\ net[m] = 0 /\ forgiven[m] = 0
  BY DEF Init
<1>4. \A q \in Requests : paid[q] = NoMonth /\ phase[q] = "idle"
  BY DEF Init
<1>5. Late = {} /\ \A m \in Months : Holders(m) = {}
  BY <1>4 DEF Late, Holders, Months
<1>6. Cardinality(Late) = 0 /\ \A m \in Months : Cardinality(Holders(m)) = 0
  BY <1>5, FS_EmptySet
<1>7. Covered /\ Backed /\ Unopened
  BY <1>2, <1>3, <1>6 DEF Covered, Backed, Unopened
<1>8. PaidUp
  BY <1>4 DEF PaidUp, PaidAt
<1>9. Carry
  BY <1>2, <1>3, <1>6 DEF Carry, Init
<1> QED BY <1>1, <1>7, <1>8, <1>9 DEF IInv, Ledger

(* Every step keeps it.                                                     *)
LEMMA NextIInv == IInv /\ [Next]_vars => IInv'
<1> SUFFICES ASSUME IInv, [Next]_vars PROVE IInv'
  OBVIOUS
<1>1. TypeOK'
  BY NextType DEF IInv
<1>2. ASSUME NEW r \in Requests, Receive(r) \/ Handle(r) \/ Cancel(r)
      PROVE  Ledger'
  BY <1>2, ReceiveLedger, ReserveLedger, RefundLedger, QuietLedger DEF Handle, Quiet
<1>3. ASSUME UNCHANGED <<usage, net, forgiven, carried, calendar, phase, paid>>
      PROVE  Ledger'
  <2>1. \A q \in Requests : paid'[q] \in {paid[q], NoMonth}
    BY <1>3
  <2>2. PaidUp'
    BY <1>3 DEF IInv, Ledger, PaidUp, PaidAt
  <2> QED BY <1>3, <2>1, <2>2, RestingLedger DEF IInv, Ledger
<1>4. ASSUME NEW k \in IdemKeys, ExpireStored(k)
      PROVE  Ledger'
  BY <1>3, <1>4 DEF ExpireStored, ledger
<1>5. CASE UNCHANGED vars
  <2>1. UNCHANGED <<usage, net, forgiven, carried, calendar, phase, paid>>
    BY <1>5 DEF vars, ledger
  <2> QED BY <1>1, <1>3, <2>1 DEF IInv
<1> QED BY <1>1, <1>2, <1>4, <1>5, CalendarLedger DEF IInv, Next

(* The inductive invariant holds in every reachable state.                 *)
LEMMA InvariantHolds == Spec => []IInv
BY InitIInv, NextIInv, PTL DEF Spec

(* The counter of every month agrees with its ledger.                       *)
THEOREM LedgerIsKept == Spec => []LedgerAgrees
<1>1. IInv => LedgerAgrees
  BY DEF IInv, Ledger, Covered, LedgerAgrees
<1> QED BY <1>1, InvariantHolds, PTL

(* No month serves more than the quota and what its counter forgave.        *)
THEOREM OveruseIsBounded == Spec => []OveruseIsForgiven
<1>1. IInv => OveruseIsForgiven
  <2> SUFFICES ASSUME IInv, NEW m \in Months PROVE net[m] <= MaxLimit + forgiven[m]
    BY DEF OveruseIsForgiven
  <2>1. usage[m] \in Nat /\ net[m] \in Int /\ forgiven[m] \in Nat /\ MaxLimit \in Nat
    BY LimitAssumption DEF IInv, TypeOK
  <2> QED BY <2>1 DEF IInv, Ledger, Covered
<1> QED BY <1>1, InvariantHolds, PTL

(* With a quota on every key, a month before its last seconds serves at     *)
(* most the quota and one unit for each request in flight when it began.    *)
THEOREM QuotaIsHeld == Spec => []QuotaHeld
<1>1. IInv => QuotaHeld
  <2> SUFFICES ASSUME IInv, AllLimited, ~closing PROVE net[month] <= MaxLimit + carried
    BY DEF QuotaHeld
  <2>1. month \in Months /\ carried \in Nat /\ MaxLimit \in Nat
    BY LimitAssumption DEF IInv, TypeOK
  <2>2. usage[month] \in Nat /\ net[month] \in Int /\ forgiven[month] \in Nat
    BY <2>1 DEF IInv, TypeOK
  <2>3. forgiven[month] + Cardinality(Late) <= carried /\ Cardinality(Late) \in Nat
    BY HoldersFinite DEF IInv, Ledger, Carry
  <2> QED BY <2>1, <2>2, <2>3 DEF IInv, Ledger, Covered
<1> QED BY <1>1, InvariantHolds, PTL

-----------------------------------------------------------------------------
(***************************************************************************)
(* Idempotent requests.  A client can only have what is stored (Kept), and *)
(* a request that repeats what its client has does not get past the lookup *)
(* (HeldBack).                                                             *)
(***************************************************************************)
Kept == replied \subseteq stored

HeldBack ==
    \A r \in Requests : r \in again =>
        /\ IdemKey[r] \in replied
        /\ conf.idempotency => phase[r] \in {"reserve", "body", "lookup"}

Idempotence == Kept /\ HeldBack

(* A step of r that leaves the answers alone and, when r is a repeat, keeps *)
(* it before or at the lookup.                                              *)
LEMMA IdempotenceStays ==
    ASSUME TypeOK, Idempotence, NEW r \in Requests, conf' = conf,
           stored \subseteq stored', replied' = replied,
           \A q \in Requests \ {r} : phase'[q] = phase[q],
           again' \subseteq again,
           r \in again' /\ conf.idempotency => phase'[r] \in {"reserve", "body", "lookup"}
    PROVE  Idempotence'
BY DEF Idempotence, Kept, HeldBack

(* The end of r.                                                            *)
LEMMA IdempotenceEnds ==
    ASSUME TypeOK, Idempotence, NEW r \in Requests, End(r),
           conf' = conf, stored' = stored, replied' = replied
    PROVE  Idempotence'
BY IdempotenceStays DEF End, Goto, TypeOK

(* A request that gives up: it ends, or goes to its refund.                 *)
LEMMA IdempotenceGivesUp ==
    ASSUME TypeOK, Idempotence, NEW r \in Requests, GiveUp(r),
           phase[r] \notin {"reserve", "body", "lookup"},
           conf' = conf, stored' = stored, replied' = replied
    PROVE  Idempotence'
<1>1. CASE End(r)
  BY <1>1, IdempotenceEnds
<1>2. CASE Goto(r, "refund") /\ UNCHANGED again
  BY <1>2, IdempotenceStays DEF Goto, TypeOK, Idempotence, HeldBack
<1> QED BY <1>1, <1>2 DEF GiveUp

(* At the start nothing is stored and nothing was answered.                 *)
LEMMA IdempotenceInit == Init => Idempotence
BY DEF Init, Idempotence, Kept, HeldBack

(* Every step keeps it.                                                     *)
LEMMA IdempotenceNext == TypeOK /\ Idempotence /\ [Next]_vars => Idempotence'
<1> SUFFICES ASSUME TypeOK, Idempotence, [Next]_vars PROVE Idempotence'
  OBVIOUS
<1> USE DEF idem, ledger
<1>1. ASSUME NEW r \in Requests, Receive(r) PROVE Idempotence'
  <2>1. phase' = [phase EXCEPT ![r] = phase'[r]] /\ phase'[r] \in {"body", "reserve"}
    BY <1>1 DEF Receive, Goto, TypeOK
  <2>2. UNCHANGED <<conf, stored, replied>>
    BY <1>1 DEF Receive
  <2>3. again' = IF IdemKey[r] \in replied THEN again \cup {r} ELSE again
    BY <1>1 DEF Receive
  <2> QED BY <2>1, <2>2, <2>3 DEF TypeOK, Idempotence, Kept, HeldBack
<1>2. ASSUME NEW r \in Requests, Reserve(r) PROVE Idempotence'
  <2>1. UNCHANGED <<conf, stored, replied>>
    BY <1>2 DEF Reserve
  <2>2. CASE End(r)
    BY <2>1, <2>2, IdempotenceEnds
  <2>3. CASE Goto(r, "body") /\ UNCHANGED again
    BY <2>1, <2>3, IdempotenceStays DEF Goto, TypeOK
  <2> QED BY <1>2, <2>2, <2>3 DEF Reserve
<1>3. ASSUME NEW r \in Requests, ReadBody(r) PROVE Idempotence'
  <2>1. UNCHANGED <<conf, stored, replied>>
    BY <1>3 DEF ReadBody
  <2>2. CASE End(r)
    BY <2>1, <2>2, IdempotenceEnds
  <2>3. CASE UseIdempotency(r) /\ Goto(r, "lookup") /\ UNCHANGED again
    BY <2>1, <2>3, IdempotenceStays DEF Goto, TypeOK
  <2>4. CASE ~UseIdempotency(r) /\ Goto(r, "calling") /\ UNCHANGED again
    <3>1. ~(r \in again /\ conf.idempotency)
      BY <2>4 DEF UseIdempotency, Idempotence, HeldBack, TypeOK, IdemKeys
    <3> QED BY <2>1, <2>4, <3>1, IdempotenceStays DEF Goto, TypeOK
  <2> QED BY <1>3, <2>2, <2>3, <2>4 DEF ReadBody
<1>4. ASSUME NEW r \in Requests, Lookup(r) PROVE Idempotence'
  <2>1. UNCHANGED <<conf, stored, replied>>
    BY <1>4 DEF Lookup
  <2>2. CASE IdemKey[r] \in stored
    BY <1>4, <2>1, <2>2, IdempotenceEnds DEF Lookup
  <2>3. CASE IdemKey[r] \notin stored
    <3>1. r \notin again
      BY <2>3 DEF Idempotence, Kept, HeldBack
    <3>2. Goto(r, "calling") /\ UNCHANGED again
      BY <1>4, <2>3 DEF Lookup
    <3> QED BY <2>1, <3>1, <3>2, IdempotenceStays DEF Goto, TypeOK
  <2> QED BY <2>2, <2>3
<1>5. ASSUME NEW r \in Requests, Call(r) PROVE Idempotence'
  BY <1>5 DEF Call, Idempotence, Kept, HeldBack
<1>6. ASSUME NEW r \in Requests, AfterCall(r) PROVE Idempotence'
  <2>1. UNCHANGED <<conf, stored, replied>> /\ phase[r] = "calling"
    BY <1>6 DEF AfterCall
  <2>2. CASE End(r)
    BY <2>1, <2>2, IdempotenceEnds
  <2>3. CASE GiveUp(r)
    BY <2>1, <2>3, IdempotenceGivesUp
  <2>4. ASSUME NEW p \in {"build", "fallback"}, Goto(r, p), UNCHANGED again
        PROVE  Idempotence'
    <3>1. ~(r \in again /\ conf.idempotency)
      BY <2>1 DEF Idempotence, HeldBack
    <3> QED BY <2>1, <2>4, <3>1, IdempotenceStays DEF Goto, TypeOK
  <2> QED BY <1>6, <2>2, <2>3, <2>4 DEF AfterCall
<1>7. ASSUME NEW r \in Requests, Fallback(r) PROVE Idempotence'
  <2>1. UNCHANGED <<conf, stored, replied>> /\ phase[r] = "fallback"
    BY <1>7 DEF Fallback
  <2>2. CASE GiveUp(r)
    BY <2>1, <2>2, IdempotenceGivesUp
  <2>3. CASE Goto(r, "build") /\ UNCHANGED again
    <3>1. ~(r \in again /\ conf.idempotency)
      BY <2>1 DEF Idempotence, HeldBack
    <3> QED BY <2>1, <2>3, <3>1, IdempotenceStays DEF Goto, TypeOK
  <2> QED BY <1>7, <2>2, <2>3 DEF Fallback
<1>8. ASSUME NEW r \in Requests, Build(r) PROVE Idempotence'
  <2>1. phase[r] = "build" /\ UNCHANGED conf
    BY <1>8 DEF Build
  <2>2. ~(r \in again /\ conf.idempotency)
    BY <2>1 DEF Idempotence, HeldBack
  <2>3. CASE GiveUp(r) /\ UNCHANGED <<stored, replied>>
    BY <2>1, <2>3, IdempotenceGivesUp
  <2>4. CASE /\ stored' = stored \cup {IdemKey[r]}
             /\ Goto(r, "reply")
             /\ UNCHANGED <<again, replied>>
    BY <2>1, <2>2, <2>4, IdempotenceStays DEF Goto, TypeOK
  <2>5. CASE End(r) /\ UNCHANGED <<stored, replied>>
    BY <2>1, <2>5, IdempotenceEnds
  <2>6. ASSUME NEW storable \in BOOLEAN, ~Stores(r, storable)
        PROVE  ~(UseIdempotency(r) /\ storable)
    BY <2>6 DEF Stores
  <2> QED BY <1>8, <2>3, <2>4, <2>5, <2>6 DEF Build
<1>9. ASSUME NEW r \in Requests, Reply(r) PROVE Idempotence'
  <2>1. End(r) /\ UNCHANGED <<conf, stored>>
    BY <1>9 DEF Reply
  <2>2. replied \subseteq replied' /\ replied' \subseteq stored
    BY <1>9 DEF Reply, Idempotence, Kept
  <2> QED BY <2>1, <2>2 DEF End, Goto, TypeOK, Idempotence, Kept, HeldBack
<1>10. ASSUME NEW r \in Requests, Refund(r) PROVE Idempotence'
  BY <1>10, IdempotenceEnds DEF Refund
<1>11. ASSUME NEW r \in Requests, Cancel(r) PROVE Idempotence'
  BY <1>11, IdempotenceEnds DEF Cancel
<1>12. ASSUME NEW k \in IdemKeys, ExpireStored(k) PROVE Idempotence'
  BY <1>12 DEF ExpireStored, Idempotence, Kept, HeldBack
<1>13. CASE BeginClosing \/ ExpireCounter \/ NextMonth \/ UNCHANGED vars
  <2>1. UNCHANGED <<conf, phase, stored, replied, again>>
    BY <1>13 DEF BeginClosing, ExpireCounter, NextMonth, vars
  <2> QED BY <2>1 DEF Idempotence, Kept, HeldBack
<1> QED
  BY <1>1, <1>2, <1>3, <1>4, <1>5, <1>6, <1>7, <1>8, <1>9, <1>10, <1>11, <1>12, <1>13
  DEF Next, Handle

(* While its answer is stored, a repeated request never reaches a target.   *)
THEOREM RepeatsAreHeldBack == Spec => []RepeatIsNotForwarded
<1>1. Idempotence => RepeatIsNotForwarded
  BY DEF Idempotence, HeldBack, RepeatIsNotForwarded
<1> QED BY <1>1, IdempotenceInit, IdempotenceNext, TypeCorrect, PTL DEF Spec

-----------------------------------------------------------------------------
(***************************************************************************)
(* Streamed bodies.  A body is only streamed when there is one attempt and *)
(* no fallback, and once it is used up no attempt is about to be made.     *)
(***************************************************************************)
StreamAt(r) ==
    /\ body[r] # "buffered" =>
          /\ retries = 1
          /\ ~conf.fallback
          /\ phase[r] \in {"calling", "build", "reply", "refund"}
    /\ body[r] = "consumed" => pc[r] # "check"

Streaming == \A r \in Requests : StreamAt(r)

(* A step of TargetCall moves one caller.                                   *)
LEMMA CallsMoveOne ==
    ASSUME TypeOK, NEW r \in Requests,
           \/ Calls!StartCall(r) \/ Calls!LetThrough(r) \/ Calls!TurnAway(r)
           \/ \E a \in {"ok", "5xx", "unreachable"} : Calls!AnswerCall(r, a)
           \/ Calls!RaiseCall(r) \/ Calls!ReportCall(r) \/ Calls!FinishCall(r)
           \/ Calls!AbandonCall(r)
    PROVE  retries' = retries /\ \A q \in Requests \ {r} : pc'[q] = pc[q]
<1>1. pc \in [Requests -> {"idle", "check", "send", "report", "done"}]
  BY DEF TypeOK, Calls!CallsTypeOK
<1>2. ASSUME Calls!NextAttempt(r)
      PROVE  \A q \in Requests \ {r} : pc'[q] = pc[q]
  BY <1>1, <1>2 DEF Calls!NextAttempt
<1> QED
  BY <1>1, <1>2 DEF Calls!StartCall, Calls!LetThrough, Calls!TurnAway, Calls!AnswerCall,
     Calls!RaiseCall, Calls!ReportCall, Calls!FinishCall, Calls!AbandonCall

(* A handler leaves the others where they are.                              *)
LEMMA HandlersMoveAlone ==
    ASSUME TypeOK, NEW r \in Requests, Receive(r) \/ Handle(r) \/ Cancel(r)
    PROVE  /\ conf' = conf /\ retries' = retries
           /\ \A q \in Requests \ {r} : /\ phase'[q] = phase[q]
                                        /\ body'[q] = body[q]
                                        /\ pc'[q] = pc[q]
<1> USE DEF ledger, callVars, idem
<1>1. ASSUME End(r)
      PROVE  \A q \in Requests \ {r} : phase'[q] = phase[q] /\ body'[q] = body[q]
  BY <1>1 DEF End, Goto, TypeOK
<1>2. ASSUME NEW p, Goto(r, p)
      PROVE  \A q \in Requests \ {r} : phase'[q] = phase[q]
  BY <1>2 DEF Goto, TypeOK
<1>3. ASSUME GiveUp(r)
      PROVE  \A q \in Requests \ {r} : phase'[q] = phase[q] /\ body'[q] = body[q]
  BY <1>1, <1>2, <1>3 DEF GiveUp
<1>4. CASE Receive(r)
  BY <1>2, <1>4 DEF Receive
<1>5. CASE Reserve(r)
  BY <1>1, <1>2, <1>5 DEF Reserve
<1>6. CASE ReadBody(r)
  BY <1>1, <1>2, <1>6, CallsMoveOne DEF ReadBody, TypeOK
<1>7. CASE Lookup(r)
  BY <1>1, <1>2, <1>7, CallsMoveOne DEF Lookup
<1>8. CASE Call(r)
  BY <1>8, CallsMoveOne DEF Call, TypeOK
<1>9. CASE AfterCall(r)
  BY <1>1, <1>2, <1>3, <1>9, CallsMoveOne DEF AfterCall
<1>10. CASE Fallback(r)
  BY <1>2, <1>3, <1>10 DEF Fallback
<1>11. CASE Build(r)
  BY <1>1, <1>2, <1>3, <1>11 DEF Build
<1>12. CASE Reply(r)
  BY <1>1, <1>12 DEF Reply
<1>13. CASE Refund(r)
  BY <1>1, <1>13 DEF Refund
<1>14. CASE Cancel(r)
  BY <1>1, <1>14, CallsMoveOne DEF Cancel
<1> QED BY <1>4, <1>5, <1>6, <1>7, <1>8, <1>9, <1>10, <1>11, <1>12, <1>13, <1>14 DEF Handle

(* Its own step keeps StreamAt.                                             *)
LEMMA StreamMoves ==
    ASSUME TypeOK, Streaming, NEW r \in Requests, Receive(r) \/ Handle(r) \/ Cancel(r)
    PROVE  StreamAt(r)'
<1> USE DEF ledger, callVars, idem
<1>1. /\ phase \in [Requests -> Phases]
      /\ body \in [Requests -> {"buffered", "stream", "consumed"}]
      /\ pc \in [Requests -> {"idle", "check", "send", "report", "done"}]
      /\ attempt[r] \in 1..retries
      /\ conf' = conf /\ retries' = retries
      /\ StreamAt(r)
  BY HandlersMoveAlone DEF TypeOK, Calls!CallsTypeOK, Streaming
<1>2. ASSUME End(r) PROVE StreamAt(r)'
  BY <1>1, <1>2 DEF End, StreamAt
<1>3. ASSUME Goto(r, "build") \/ Goto(r, "reply") \/ Goto(r, "refund"),
             body' = body, pc'[r] # "check"
      PROVE  StreamAt(r)'
  BY <1>1, <1>3 DEF Goto, StreamAt
<1>4. ASSUME GiveUp(r), pc'[r] # "check" PROVE StreamAt(r)'
  BY <1>2, <1>3, <1>4 DEF GiveUp
<1>5. ASSUME body[r] = "buffered", body' = body PROVE StreamAt(r)'
  BY <1>5 DEF StreamAt
<1>6. CASE Receive(r) \/ Reserve(r)
  BY <1>1, <1>2, <1>5, <1>6 DEF Receive, Reserve, StreamAt
<1>7. CASE ReadBody(r)
  <2>1. CASE End(r)
    BY <1>2, <2>1
  <2>2. ASSUME NEW b \in {"buffered"} \cup IF MayStream(r) THEN {"stream"} ELSE {},
               body' = [body EXCEPT ![r] = b],
               UseIdempotency(r) \/ Goto(r, "calling")
        PROVE  StreamAt(r)'
    BY <1>1, <2>2 DEF MayStream, Goto, StreamAt
  <2> QED BY <1>7, <2>1, <2>2 DEF ReadBody
<1>8. CASE Lookup(r)
  BY <1>1, <1>2, <1>5, <1>8 DEF Lookup, StreamAt
<1>9. CASE Call(r)
  <2>1. phase' = phase
    BY <1>9 DEF Call
  <2>2. CASE Calls!LetThrough(r)
    <3>1. body'[r] # "buffered" => body[r] # "buffered"
      BY <1>1, <1>9, <2>2 DEF Call, Calls!LetThrough
    <3>2. pc'[r] = "send"
      BY <1>1, <2>2 DEF Calls!LetThrough
    <3> QED BY <1>1, <2>1, <3>1, <3>2 DEF StreamAt
  <2>3. CASE body' = body /\ body[r] # "consumed"
    BY <1>1, <2>1, <2>3 DEF StreamAt
  <2>4. CASE body' = body /\ body[r] = "consumed" /\ ~Calls!LetThrough(r)
    <3>1. retries = 1 /\ pc[r] # "check"
      BY <1>1, <2>4 DEF StreamAt
    <3>2. Calls!LastAttempt(r)
      BY <1>1, <3>1 DEF Calls!LastAttempt
    <3>3. \/ Calls!RaiseCall(r) \/ Calls!ReportCall(r)
          \/ \E a \in {"ok", "5xx", "unreachable"} : Calls!AnswerCall(r, a)
      BY <1>9, <2>4, <3>1 DEF Call, Calls!TurnAway
    <3>4. pc'[r] # "check"
      BY <1>1, <3>2, <3>3 DEF Calls!RaiseCall, Calls!ReportCall, Calls!AnswerCall
    <3> QED BY <1>1, <2>1, <2>4, <3>4 DEF StreamAt
  <2> QED BY <1>1, <1>9, <2>2, <2>3, <2>4 DEF Call
<1>10. CASE AfterCall(r)
  <2>1. pc'[r] = "idle"
    BY <1>1, <1>10 DEF AfterCall, Calls!FinishCall
  <2>2. CASE conf.fallback /\ body' = body
    BY <1>1, <1>5, <2>2 DEF StreamAt
  <2> QED BY <1>2, <1>3, <1>4, <1>10, <2>1, <2>2 DEF AfterCall
<1>11. CASE Fallback(r)
  <2>1. body[r] = "buffered" /\ pc' = pc
    BY <1>1, <1>11 DEF Fallback, StreamAt
  <2>2. CASE GiveUp(r)
    BY <1>2, <1>5, <2>1, <2>2 DEF GiveUp
  <2> QED BY <1>5, <1>11, <2>1, <2>2 DEF Fallback
<1>12. CASE Build(r)
  <2>1. pc' = pc
    BY <1>12 DEF Build
  <2>2. CASE body' = body /\ (Goto(r, "reply") \/ Goto(r, "refund"))
    BY <1>1, <2>1, <2>2 DEF Goto, StreamAt
  <2>3. CASE GiveUp(r)
    BY <1>2, <2>2, <2>3 DEF GiveUp
  <2> QED BY <1>2, <1>12, <2>2, <2>3 DEF Build
<1>13. CASE Reply(r) \/ Refund(r) \/ Cancel(r)
  BY <1>2, <1>13 DEF Reply, Refund, Cancel
<1> QED BY <1>6, <1>7, <1>8, <1>9, <1>10, <1>11, <1>12, <1>13 DEF Handle

(* Every step keeps StreamAt for every request.                             *)
LEMMA StreamingNext == TypeOK /\ Streaming /\ [Next]_vars => Streaming'
<1> SUFFICES ASSUME TypeOK, Streaming, [Next]_vars PROVE Streaming'
  OBVIOUS
<1>1. ASSUME NEW r \in Requests, Receive(r) \/ Handle(r) \/ Cancel(r)
      PROVE  Streaming'
  <2>1. ASSUME NEW q \in Requests \ {r} PROVE StreamAt(q)'
    BY <1>1, <2>1, HandlersMoveAlone DEF Streaming, StreamAt
  <2> QED BY <1>1, <2>1, StreamMoves DEF Streaming
<1>2. CASE UNCHANGED <<retries, pc, conf, phase, body>>
  BY <1>2 DEF Streaming, StreamAt
<1>3. CASE BeginClosing \/ ExpireCounter \/ NextMonth \/ \E k \in IdemKeys : ExpireStored(k)
  BY <1>2, <1>3 DEF BeginClosing, ExpireCounter, NextMonth, ExpireStored, callVars
<1> QED BY <1>1, <1>2, <1>3 DEF Next, vars, callVars

(* A streamed body is sent once, whatever the retries and the fallback.     *)
THEOREM StreamsAreSentOnce == Spec => StreamSentOnce
<1>1. Init => Streaming
  BY DEF Init, Streaming, StreamAt
<1>2. ASSUME TypeOK, Streaming, [Next]_vars, NEW r \in Requests, body[r] = "consumed"
      PROVE  ~(pc[r] = "check" /\ pc'[r] = "send") /\ phase'[r] # "fallback"
  <2>1. StreamAt(r) /\ phase \in [Requests -> Phases]
    BY <1>2 DEF Streaming, TypeOK
  <2>2. phase[r] # "fallback" /\ ~conf.fallback /\ pc[r] # "check"
    BY <1>2, <2>1 DEF StreamAt
  <2>3. ASSUME NEW p \in Phases \ {"fallback"}, NEW q \in Requests, Goto(q, p)
        PROVE  phase'[r] # "fallback"
    BY <2>1, <2>2, <2>3 DEF Goto
  <2>4. ASSUME NEW q \in Requests, End(q) \/ GiveUp(q)
        PROVE  phase'[r] # "fallback"
    BY <2>3, <2>4 DEF End, GiveUp, Phases
  <2>5. CASE phase' = phase
    BY <2>2, <2>5
  <2>6. ASSUME NEW q \in Requests, Receive(q) \/ Reserve(q) \/ ReadBody(q) \/ Lookup(q) \/ Call(q)
        PROVE  phase'[r] # "fallback"
    BY <2>3, <2>4, <2>5, <2>6 DEF Receive, Reserve, ReadBody, Lookup, Call, Phases
  <2>7. ASSUME NEW q \in Requests, AfterCall(q)
        PROVE  phase'[r] # "fallback"
    BY <2>2, <2>3, <2>4, <2>7 DEF AfterCall, Phases
  <2>8. ASSUME NEW q \in Requests, Fallback(q) \/ Build(q) \/ Reply(q) \/ Refund(q) \/ Cancel(q)
        PROVE  phase'[r] # "fallback"
    BY <2>3, <2>4, <2>8 DEF Fallback, Build, Reply, Refund, Cancel, Phases
  <2>9. CASE UNCHANGED vars \/ BeginClosing \/ ExpireCounter \/ NextMonth
             \/ \E k \in IdemKeys : ExpireStored(k)
    BY <2>5, <2>9 DEF vars, BeginClosing, ExpireCounter, NextMonth, ExpireStored
  <2> QED BY <1>2, <2>2, <2>6, <2>7, <2>8, <2>9 DEF Next, Handle
<1>3. TypeOK /\ Streaming /\ [Next]_vars =>
        [\A r \in Requests : body[r] = "consumed" =>
            ~(pc[r] = "check" /\ pc'[r] = "send") /\ phase'[r] # "fallback"]_vars
  BY <1>2
<1> QED BY <1>1, <1>3, StreamingNext, TypeCorrect, PTL DEF Spec, StreamSentOnce
=============================================================================
